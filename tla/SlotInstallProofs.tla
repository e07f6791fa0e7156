------------------------- MODULE SlotInstallProofs --------------------------
\* Proofs about SlotInstall, for any Patchers, threads, rules and slots and any
\* number of calls.  The window, the rules and the typing are proved with or
\* without re-entry between the second read and the store, and so is what a
\* write displaces.  What is live and what it wraps is proved for one thread
\* with re-entry, and without it for any number of threads on slots that return
\* the same object twice: the theorems that need it say so, and with several
\* threads and re-entry the claim fails.
EXTENDS SlotInstall, TLAPS

\* A reservation names a call in progress that remembers it.
Registered ==
  \A s \in Slots : reserved[s] # Free =>
    LET z == reserved[s].token IN
    /\ Running(z)
    /\ call[z].patcher = reserved[s].patcher
    /\ call[z].thread = reserved[s].thread
    /\ s \in call[z].tokens

\* The calls in progress on one thread form a stack.
Stacked ==
  \A c, d \in Calls :
    Running(c) /\ Running(d) /\ c # d /\ call[c].thread = call[d].thread =>
      call[c].depth # call[d].depth

\* A call in the window works under a reservation of its own Patcher and
\* thread: one it took, or one that a call it is nested in took.
Held ==
  \A c \in Calls, s \in Slots :
    InWindow(c, s) =>
      /\ reserved[s] # Free
      /\ reserved[s].patcher = call[c].patcher
      /\ reserved[s].thread = call[c].thread
      /\ reserved[s].token # c => Nested(reserved[s].token, c)

IInv == TypeOK /\ Registered /\ Stacked /\ Held

\* The variables a step of a call changes besides its locals and the registry.
OthersTyped ==
  /\ slot \in [Slots -> Values]
  /\ ledger \in [Patchers -> SUBSET Entry]
  /\ inflight \in [Patchers -> SUBSET Dispatchers]
  /\ served \in [Dispatchers -> SUBSET Rules]
  /\ pending \in [Patchers -> SUBSET Rules]
  /\ applied \in [Patchers -> SUBSET Rules]
  /\ replaced \subseteq Replaceable
  /\ uninstalled \subseteq Patchers

LEMMA FreshIsTyped ==
  ASSUME NEW label \in Labels, NEW p \in Patchers, NEW m \in Modules,
         NEW t \in Threads, NEW n \in Nat, NEW todo \in SUBSET Slots
  PROVE  Fresh(label, p, m, t, n, todo) \in Locals
<1>1. (CHOOSE s \in Slots : TRUE) \in Slots
  BY SlotsAssumption
<1>2. Original \in Values \ {Absent}
  BY NobodyAssumption DEF Values
<1> QED BY <1>1, <1>2 DEF Fresh, Locals

\* How most steps of a call keep the invariant: the registry stands, and the
\* call enters no window it was not in.
LEMMA CallMoves ==
  ASSUME IInv, NEW c \in Calls, NEW locals \in Locals, Running(c),
         call' = [call EXCEPT ![c] = locals],
         locals.pc \notin {"idle", "done"},
         locals.patcher = call[c].patcher,
         locals.thread = call[c].thread,
         locals.depth = call[c].depth,
         call[c].tokens \subseteq locals.tokens,
         locals.pc \in {"settle", "check", "store", "stored"} =>
           InWindow(c, locals.cur),
         UNCHANGED reserved, OthersTyped'
  PROVE  IInv'
<1>1. TypeOK'
  BY DEF IInv, TypeOK, OthersTyped
<1>2. call'[c] = locals /\ \A d \in Calls \ {c} : call'[d] = call[d]
  BY DEF IInv, TypeOK
<1>3. \A d \in Calls : Running(d)' <=> Running(d)
  BY <1>2 DEF Running, At
<1>4. \A s \in Slots : reserved[s] # Free => reserved[s].token \in Calls
  BY DEF IInv, TypeOK, Reservation
<1>5. Registered'
  BY <1>2, <1>3, <1>4 DEF IInv, Registered
<1>6. Stacked'
  BY <1>2, <1>3 DEF IInv, Stacked
<1>7. \A d, e \in Calls : Nested(d, e)' <=> Nested(d, e)
  BY <1>2 DEF Nested
<1>8. \A d \in Calls, s \in Slots : InWindow(d, s)' => InWindow(d, s)
  BY <1>2 DEF InWindow
<1>9. Held'
  BY <1>2, <1>4, <1>7, <1>8 DEF IInv, Held
<1> QED BY <1>1, <1>5, <1>6, <1>9 DEF IInv

\* The pieces the actions build their new locals from.
LEMMA CallIsTyped ==
  ASSUME TypeOK, NEW c \in Calls
  PROVE  /\ call[c] \in Locals
         /\ RulesAt(c) \subseteq Rules
         /\ Built(c) \in Dispatchers
         /\ call[c].cur \in Slots
         /\ call[c].patcher \in Patchers
  BY DEF TypeOK, Locals, RulesAt, Mine, RulesOf, Built, Dispatchers

LEMMA FailKeepsInvariant ==
  ASSUME IInv, NEW c \in Calls, Running(c), NEW tokens \in SUBSET Slots,
         call[c].tokens \subseteq tokens,
         call' = [call EXCEPT ![c] =
           [call[c] EXCEPT !.pc = "restore", !.failed = TRUE,
                           !.unvisited = call[c].wrapped, !.tokens = tokens]],
         UNCHANGED reserved, OthersTyped'
  PROVE  IInv'
<1> DEFINE locals == [call[c] EXCEPT !.pc = "restore", !.failed = TRUE,
                        !.unvisited = call[c].wrapped, !.tokens = tokens]
<1>1. call[c] \in Locals
  BY CallIsTyped DEF IInv
<1>2. locals \in Locals
  BY <1>1 DEF Locals, Labels
<1>3. /\ locals.pc = "restore" /\ locals.patcher = call[c].patcher
      /\ locals.thread = call[c].thread /\ locals.depth = call[c].depth
      /\ locals.tokens = tokens
  BY <1>1 DEF Locals
<1> HIDE DEF locals
<1>4. call' = [call EXCEPT ![c] = locals]
  BY DEF locals
<1> QED BY <1>2, <1>3, <1>4, CallMoves

LEMMA FailIsRestore ==
  ASSUME TypeOK, NEW c \in Calls
  PROVE  Fail(c) = [call EXCEPT ![c] =
           [call[c] EXCEPT !.pc = "restore", !.failed = TRUE,
                           !.unvisited = call[c].wrapped,
                           !.tokens = call[c].tokens]]
<1>1. call[c] \in Locals
  BY CallIsTyped
<1>2. [call[c] EXCEPT !.pc = "restore", !.failed = TRUE, !.unvisited = call[c].wrapped]
        = [call[c] EXCEPT !.pc = "restore", !.failed = TRUE,
                          !.unvisited = call[c].wrapped, !.tokens = call[c].tokens]
  BY <1>1 DEF Locals
<1> QED BY <1>2 DEF Fail

\* _patch's extend, at either of the two places that reach it.
LEMMA ExtendKeepsInvariant ==
  ASSUME IInv, NEW c \in Calls, Running(c), NEW w \in Dispatchers, Extend(c, w)
  PROVE  IInv'
<1> DEFINE added == RulesAt(c) \ served[w]
           more == IF added = {} THEN call[c].extended
                   ELSE call[c].extended \cup {<<w, added>>}
           locals == [call[c] EXCEPT
             !.pc = "next", !.todo = @ \ {call[c].cur}, !.landed = @ \cup added,
             !.extended = more]
<1>1. call[c] \in Locals /\ added \subseteq Rules
  BY CallIsTyped DEF IInv
<1>2. locals \in Locals
  <2>1. more \subseteq Dispatchers \X SUBSET Rules
    BY <1>1 DEF Locals
  <2> HIDE DEF more, added
  <2> QED BY <1>1, <2>1 DEF Locals, Labels
<1>3. /\ locals.pc = "next" /\ locals.patcher = call[c].patcher
      /\ locals.thread = call[c].thread /\ locals.depth = call[c].depth
      /\ locals.tokens = call[c].tokens
  BY <1>1 DEF Locals
<1>4. OthersTyped'
  BY <1>1, CallIsTyped DEF IInv, TypeOK, Extend, OthersTyped, historyVars
<1>5. UNCHANGED reserved
  BY DEF Extend
<1>6. call' = [call EXCEPT ![c] = locals]
  BY DEF Extend
<1> HIDE DEF locals, added, more
<1> QED BY <1>2, <1>3, <1>4, <1>5, <1>6, CallMoves

\* A dispatcher somebody answers for is a dispatcher.
LEMMA LiveOwnerOwns ==
  ASSUME NEW p \in Patchers, NEW v, LiveOwner(v) = p
  PROVE  v \in Dispatchers
  BY NobodyAssumption DEF LiveOwner

LEMMA UnchangedOthers ==
  ASSUME IInv, UNCHANGED <<sharedVars, historyVars>>
  PROVE  OthersTyped' /\ UNCHANGED reserved
  BY DEF IInv, TypeOK, OthersTyped, sharedVars, historyVars

LEMMA ReadKeepsInvariant ==
  ASSUME IInv, NEW c \in Calls, Running(c), NEW s \in Slots, Read(c, s)
  PROVE  IInv'
<1>1. call[c] \in Locals /\ slot[s] \in Values
  BY CallIsTyped DEF IInv, TypeOK
<1>2. OthersTyped' /\ UNCHANGED reserved
  BY UnchangedOthers DEF Read
<1>3. CASE slot[s] = Absent
  <2> DEFINE locals == [call[c] EXCEPT !.todo = @ \ {s}]
  <2>1. locals \in Locals
    BY <1>1 DEF Locals
  <2>2. /\ locals.pc = "next" /\ locals.patcher = call[c].patcher
        /\ locals.thread = call[c].thread /\ locals.depth = call[c].depth
        /\ locals.tokens = call[c].tokens
    BY <1>1 DEF Locals, Read, At
  <2>3. call' = [call EXCEPT ![c] = locals]
    BY <1>3 DEF Read
  <2> HIDE DEF locals
  <2> QED BY <1>2, <2>1, <2>2, <2>3, CallMoves
<1>4. CASE slot[s] # Absent
  <2> DEFINE locals == [call[c] EXCEPT !.pc = "decide", !.cur = s, !.live = slot[s]]
  <2>1. locals \in Locals
    BY <1>1, <1>4 DEF Locals, Labels
  <2>2. /\ locals.pc = "decide" /\ locals.patcher = call[c].patcher
        /\ locals.thread = call[c].thread /\ locals.depth = call[c].depth
        /\ locals.tokens = call[c].tokens
    BY <1>1 DEF Locals
  <2>3. call' = [call EXCEPT ![c] = locals]
    BY <1>4 DEF Read
  <2> HIDE DEF locals
  <2> QED BY <1>2, <2>1, <2>2, <2>3, CallMoves
<1> QED BY <1>3, <1>4

\* A step that only moves the call on, out of the window or within it.
LEMMA GotoKeepsInvariant ==
  ASSUME IInv, NEW c \in Calls, Running(c), NEW label \in Labels \ {"idle", "done"},
         call' = Goto(c, label),
         label \in {"settle", "check", "store", "stored"} =>
           InWindow(c, call[c].cur),
         UNCHANGED reserved, OthersTyped'
  PROVE  IInv'
<1> DEFINE locals == [call[c] EXCEPT !.pc = label]
<1>1. call[c] \in Locals
  BY CallIsTyped DEF IInv
<1>2. locals \in Locals
  BY <1>1 DEF Locals
<1>3. /\ locals.pc = label /\ locals.patcher = call[c].patcher
      /\ locals.thread = call[c].thread /\ locals.depth = call[c].depth
      /\ locals.tokens = call[c].tokens /\ locals.cur = call[c].cur
  BY <1>1 DEF Locals
<1>4. call' = [call EXCEPT ![c] = locals]
  BY DEF Goto
<1> HIDE DEF locals
<1> QED BY <1>2, <1>3, <1>4, CallMoves

LEMMA DecideKeepsInvariant ==
  ASSUME IInv, NEW c \in Calls, Running(c), Decide(c)
  PROVE  IInv'
<1>1. CASE LiveOwner(call[c].live) = call[c].patcher /\ Extend(c, call[c].live)
  BY <1>1, LiveOwnerOwns, CallIsTyped, ExtendKeepsInvariant DEF IInv
<1>2. CASE LiveOwner(call[c].live) # call[c].patcher
           /\ UNCHANGED <<sharedVars, historyVars>> /\ call' = Goto(c, "reserve")
  BY <1>2, UnchangedOthers, GotoKeepsInvariant DEF Labels
<1>3. CASE UNCHANGED <<sharedVars, historyVars>> /\ call' = Fail(c)
  <2>1. call[c].tokens \in SUBSET Slots
    BY CallIsTyped DEF IInv, Locals
  <2> QED BY <1>3, <2>1, UnchangedOthers, FailIsRestore, FailKeepsInvariant DEF IInv
<1> QED BY <1>1, <1>2, <1>3 DEF Decide

LEMMA SettleKeepsInvariant ==
  ASSUME IInv, NEW c \in Calls, Running(c), Settle(c)
  PROVE  IInv'
<1> DEFINE now == slot[call[c].cur]
<1>1. call[c] \in Locals /\ now \in Values
  BY CallIsTyped DEF IInv, TypeOK
<1>2. OthersTyped' /\ UNCHANGED reserved
  BY UnchangedOthers DEF Settle
<1>3. CASE now = Absent
  <2> DEFINE locals == [call[c] EXCEPT !.pc = "next", !.todo = @ \ {call[c].cur}]
  <2>1. locals \in Locals
    BY <1>1 DEF Locals, Labels
  <2>2. /\ locals.pc = "next" /\ locals.patcher = call[c].patcher
        /\ locals.thread = call[c].thread /\ locals.depth = call[c].depth
        /\ locals.tokens = call[c].tokens
    BY <1>1 DEF Locals
  <2>3. call' = [call EXCEPT ![c] = locals]
    BY <1>3 DEF Settle, Leave
  <2> HIDE DEF locals
  <2> QED BY <1>2, <2>1, <2>2, <2>3, CallMoves
<1>4. CASE now # Absent
  <2> DEFINE locals == [call[c] EXCEPT !.pc = "check", !.settled = now]
  <2>1. locals \in Locals
    BY <1>1, <1>4 DEF Locals, Labels
  <2>2. /\ locals.pc = "check" /\ locals.patcher = call[c].patcher
        /\ locals.thread = call[c].thread /\ locals.depth = call[c].depth
        /\ locals.tokens = call[c].tokens /\ locals.cur = call[c].cur
    BY <1>1 DEF Locals
  <2>3. call' = [call EXCEPT ![c] = locals]
    BY <1>4 DEF Settle
  <2>4. InWindow(c, call[c].cur)
    BY DEF Settle, InWindow, At
  <2> HIDE DEF locals
  <2> QED BY <1>2, <2>1, <2>2, <2>3, <2>4, CallMoves
<1> QED BY <1>3, <1>4

LEMMA CheckKeepsInvariant ==
  ASSUME IInv, NEW c \in Calls, Running(c), Check(c)
  PROVE  IInv'
<1>1. call[c] \in Locals /\ RulesAt(c) \subseteq Rules /\ Built(c) \in Dispatchers
  BY CallIsTyped DEF IInv
<1>2. CASE LiveOwner(call[c].settled) = call[c].patcher /\ Extend(c, call[c].settled)
  BY <1>2, LiveOwnerOwns, CallIsTyped, ExtendKeepsInvariant DEF IInv
<1>3. CASE Claim(c)
  <2> DEFINE entry == [slot |-> call[c].cur, live |-> call[c].live, wrapper |-> Built(c)]
             locals == [call[c] EXCEPT !.pc = "store", !.wrapped = @ \cup {entry}]
  <2>1. entry \in Entry
    BY <1>1 DEF Entry, Locals
  <2>2. call' = [call EXCEPT ![c] = locals]
    BY <1>3 DEF Claim
  <2> HIDE DEF entry
  <2>3. locals \in Locals
    BY <1>1, <2>1 DEF Locals, Labels
  <2>4. /\ locals.pc = "store" /\ locals.patcher = call[c].patcher
        /\ locals.thread = call[c].thread /\ locals.depth = call[c].depth
        /\ locals.tokens = call[c].tokens /\ locals.cur = call[c].cur
    BY <1>1 DEF Locals
  <2>5. InWindow(c, call[c].cur)
    BY DEF Check, InWindow, At
  <2>6. OthersTyped' /\ UNCHANGED reserved
    BY <1>1, <1>3, CallIsTyped DEF IInv, TypeOK, Claim, OthersTyped, historyVars
  <2> HIDE DEF locals
  <2> QED BY <2>2, <2>3, <2>4, <2>5, <2>6, CallMoves
<1>4. CASE UNCHANGED <<sharedVars, historyVars>> /\ call' = Fail(c)
  BY <1>1, <1>4, UnchangedOthers, FailIsRestore, FailKeepsInvariant DEF IInv, Locals
<1> QED BY <1>2, <1>3, <1>4 DEF Check

LEMMA StoreKeepsInvariant ==
  ASSUME IInv, NEW c \in Calls, Running(c), Store(c)
  PROVE  IInv'
<1>1. OthersTyped' /\ UNCHANGED reserved
  BY CallIsTyped DEF IInv, TypeOK, Store, OthersTyped, historyVars, Values
<1>2. InWindow(c, call[c].cur)
  BY DEF Store, InWindow, At
<1> QED BY <1>1, <1>2, GotoKeepsInvariant DEF Store, Labels

LEMMA LandKeepsInvariant ==
  ASSUME IInv, NEW c \in Calls, Running(c), Land(c)
  PROVE  IInv'
<1> DEFINE locals == [call[c] EXCEPT !.pc = "next", !.todo = @ \ {call[c].cur},
                                     !.landed = @ \cup RulesAt(c)]
<1>1. call[c] \in Locals /\ RulesAt(c) \subseteq Rules
  BY CallIsTyped DEF IInv
<1>2. locals \in Locals
  BY <1>1 DEF Locals, Labels
<1>3. /\ locals.pc = "next" /\ locals.patcher = call[c].patcher
      /\ locals.thread = call[c].thread /\ locals.depth = call[c].depth
      /\ locals.tokens = call[c].tokens
  BY <1>1 DEF Locals
<1>4. call' = [call EXCEPT ![c] = locals]
  BY DEF Land, Leave, IInv, TypeOK
<1>5. OthersTyped' /\ UNCHANGED reserved
  BY <1>1 DEF IInv, TypeOK, Land, OthersTyped, historyVars
<1> HIDE DEF locals
<1> QED BY <1>2, <1>3, <1>4, <1>5, CallMoves

LEMMA RaiseKeepsInvariant ==
  ASSUME IInv, NEW c \in Calls, Running(c), Raise(c)
  PROVE  IInv'
<1>1. call[c].tokens \in SUBSET Slots
  BY CallIsTyped DEF IInv, Locals
<1> QED BY <1>1, UnchangedOthers, FailIsRestore, FailKeepsInvariant DEF IInv, Raise

LEMMA FinishKeepsInvariant ==
  ASSUME IInv, NEW c \in Calls, Running(c), Finish(c)
  PROVE  IInv'
  BY UnchangedOthers, GotoKeepsInvariant DEF Finish, Labels

\* What the write of a rollback leaves in the slots.
Undone(e) == [slot EXCEPT ![e.slot] = e.live]

LEMMA RestoreKeepsInvariant ==
  ASSUME IInv, NEW c \in Calls, Running(c), NEW e \in call[c].unvisited,
         RestoreEntry(c, e)
  PROVE  IInv'
<1> DEFINE found == [call[c] EXCEPT !.pc = "undo", !.cur = e.slot]
           back == [call[c] EXCEPT !.pc = "restore", !.unvisited = @ \ {e},
                                   !.wrapped = @ \ {e}]
           kept == [call[c] EXCEPT !.pc = "restore", !.unvisited = @ \ {e}]
<1>1. call[c] \in Locals /\ e \in Entry
  BY CallIsTyped DEF IInv, Locals
<1>2. found \in Locals /\ back \in Locals /\ kept \in Locals
  BY <1>1 DEF Locals, Labels, Entry
<1>3. \A l \in {found, back, kept} :
        /\ l.pc \in {"restore", "undo"} /\ l.patcher = call[c].patcher
        /\ l.thread = call[c].thread /\ l.depth = call[c].depth
        /\ l.tokens = call[c].tokens
  BY <1>1 DEF Locals
<1>4. Undone(e) \in [Slots -> Values]
  BY <1>1 DEF Undone, Entry, IInv, TypeOK
<1>5. OthersTyped' /\ UNCHANGED reserved
  BY <1>4 DEF IInv, TypeOK, RestoreEntry, Look, PutBack, Undone, OthersTyped, sharedVars,
              historyVars
<1>6. At(c, "restore") =>
        /\ back = [call[c] EXCEPT !.unvisited = @ \ {e}, !.wrapped = @ \ {e}]
        /\ kept = [call[c] EXCEPT !.unvisited = @ \ {e}]
  BY <1>1 DEF At, Locals
<1>7. \/ call' = [call EXCEPT ![c] = found]
      \/ call' = [call EXCEPT ![c] = back] \/ call' = [call EXCEPT ![c] = kept]
  BY <1>6 DEF RestoreEntry, Look, PutBack
<1> HIDE DEF found, back, kept
<1>8. PICK l \in {found, back, kept} : call' = [call EXCEPT ![c] = l]
  BY <1>7
<1> QED BY <1>2, <1>3, <1>5, <1>8, CallMoves

LEMMA UnwindKeepsInvariant ==
  ASSUME IInv, NEW c \in Calls, Running(c), Unwind(c)
  PROVE  IInv'
<1>1. call[c] \in Locals
  BY CallIsTyped DEF IInv
<1>2. OthersTyped' /\ UNCHANGED reserved
  BY <1>1 DEF IInv, TypeOK, Unwind, OthersTyped, historyVars, Locals
<1> QED BY <1>2, GotoKeepsInvariant DEF Unwind, Labels

LEMMA PublishKeepsInvariant ==
  ASSUME IInv, NEW c \in Calls, Running(c), Publish(c)
  PROVE  IInv'
<1>1. call[c] \in Locals
  BY CallIsTyped DEF IInv
<1>2. OthersTyped' /\ UNCHANGED reserved
  BY <1>1 DEF IInv, TypeOK, Publish, OthersTyped, historyVars, Locals
<1> QED BY <1>2, GotoKeepsInvariant DEF Publish, Labels

LEMMA HandoffKeepsInvariant ==
  ASSUME IInv, NEW c \in Calls, Running(c), Handoff(c)
  PROVE  IInv'
<1>1. call[c] \in Locals
  BY CallIsTyped DEF IInv
<1>2. OthersTyped' /\ UNCHANGED reserved
  BY <1>1 DEF IInv, TypeOK, Handoff, OthersTyped, historyVars, Locals
<1> QED BY <1>2, GotoKeepsInvariant DEF Handoff, Labels

\* The reservation is granted to a free slot, or to one that a call below this
\* one on the same stack holds; nobody else is in the window of a free slot.
LEMMA ReserveKeepsInvariant ==
  ASSUME IInv, NEW c \in Calls, OnTop(c), Reserve(c)
  PROVE  IInv'
<1> DEFINE s == call[c].cur
           mine == [patcher |-> call[c].patcher, thread |-> call[c].thread, token |-> c]
<1>1. call[c] \in Locals /\ s \in Slots /\ call[c].tokens \subseteq Slots
  BY CallIsTyped DEF IInv, Locals
<1>2. Running(c)
  BY DEF OnTop
<1>3. OthersTyped'
  BY DEF IInv, TypeOK, Reserve, OthersTyped, historyVars
<1>4. CASE ~Admitted(c, s)
  <2> DEFINE failing == [call[c] EXCEPT !.pc = "restore", !.failed = TRUE,
                           !.unvisited = call[c].wrapped,
                           !.tokens = call[c].tokens \cup {s}]
  <2>1. reserved' = reserved
    BY <1>4 DEF Reserve, Admitted
  <2>2. call' = [Fail(c) EXCEPT ![c].tokens = @ \cup {s}]
    BY <1>4 DEF Reserve
  <2>3. Fail(c) = [call EXCEPT ![c] = [call[c] EXCEPT !.pc = "restore", !.failed = TRUE,
                     !.unvisited = call[c].wrapped, !.tokens = call[c].tokens]]
    BY FailIsRestore DEF IInv
  <2>4. call' = [call EXCEPT ![c] = failing]
    <3> DEFINE before == [call[c] EXCEPT !.pc = "restore", !.failed = TRUE,
                  !.unvisited = call[c].wrapped, !.tokens = call[c].tokens]
    <3>1. Fail(c)[c] = before /\ before.tokens = call[c].tokens
      BY <1>1, <2>3 DEF IInv, TypeOK, Locals
    <3>2. [before EXCEPT !.tokens = call[c].tokens \cup {s}] = failing
      BY <1>1 DEF Locals
    <3>3. call' = [Fail(c) EXCEPT ![c] = [Fail(c)[c] EXCEPT !.tokens = Fail(c)[c].tokens \cup {s}]]
      BY <2>2
    <3>4. Fail(c) = [call EXCEPT ![c] = before]
      BY <2>3
    <3> HIDE DEF before, failing
    <3>5. call' = [Fail(c) EXCEPT ![c] = failing]
      BY <3>1, <3>2, <3>3
    <3> QED BY <3>4, <3>5 DEF IInv, TypeOK
  <2> QED BY <1>1, <1>2, <1>3, <2>1, <2>4, FailKeepsInvariant
<1>5. CASE Admitted(c, s)
  <2> DEFINE locals == [call[c] EXCEPT !.pc = "settle", !.tokens = @ \cup {s}]
  <2>1. call' = [call EXCEPT ![c] = locals]
    BY <1>5 DEF Reserve
  <2>2. locals \in Locals
    BY <1>1 DEF Locals, Labels
  <2>3. /\ locals.pc = "settle" /\ locals.patcher = call[c].patcher
        /\ locals.thread = call[c].thread /\ locals.depth = call[c].depth
        /\ locals.tokens = call[c].tokens \cup {s} /\ locals.cur = s
    BY <1>1 DEF Locals
  <2>4. mine \in Reservation /\ mine.patcher = call[c].patcher
          /\ mine.thread = call[c].thread /\ mine.token = c
    BY <1>1 DEF Reservation, Locals
  <2>5. reserved' = IF reserved[s] = Free THEN [reserved EXCEPT ![s] = mine] ELSE reserved
    BY DEF Reserve
  <2>6. c \in Calls /\ Running(c)
    BY <1>2
  <2> HIDE DEF locals, mine
  <2>7. call'[c] = locals /\ \A d \in Calls \ {c} : call'[d] = call[d]
    BY <2>1 DEF IInv, TypeOK
  <2>8. \A x \in Slots : reserved[x] # Free => reserved'[x] = reserved[x]
    BY <1>1, <2>5 DEF IInv, TypeOK
  <2>9. \A x \in Slots \ {s} : reserved'[x] = reserved[x]
    BY <1>1, <2>5 DEF IInv, TypeOK
  <2>10. reserved[s] = Free => reserved'[s] = mine
    BY <1>1, <2>5 DEF IInv, TypeOK
  <2>11. TypeOK'
    <3>1. reserved' \in [Slots -> Reservation \cup {Free}]
      BY <1>1, <2>4, <2>5 DEF IInv, TypeOK
    <3>2. call' \in [Calls -> Locals]
      BY <2>1, <2>2 DEF IInv, TypeOK
    <3> QED BY <1>3, <3>1, <3>2 DEF TypeOK, OthersTyped
  <2>12. \A d \in Calls : Running(d)' <=> Running(d)
    BY <2>3, <2>6, <2>7 DEF Running, At
  <2>13. \A d, e \in Calls : Nested(d, e)' <=> Nested(d, e)
    BY <2>3, <2>7 DEF Nested
  <2>14. \A x \in Slots : reserved[x] # Free => reserved[x].token \in Calls
    BY DEF IInv, TypeOK, Reservation
  <2>15. Registered'
    <3> SUFFICES ASSUME NEW x \in Slots, reserved'[x] # Free
                 PROVE  /\ Running(reserved[x].token)'
                        /\ call'[reserved'[x].token].patcher = reserved'[x].patcher
                        /\ call'[reserved'[x].token].thread = reserved'[x].thread
                        /\ x \in call'[reserved'[x].token].tokens
      BY DEF Registered
    <3>1. CASE reserved[x] # Free
      BY <2>3, <2>7, <2>8, <2>12, <2>14, <3>1 DEF IInv, Registered
    <3>2. CASE reserved[x] = Free
      <4>1. x = s
        BY <2>9, <3>2
      <4>2. reserved'[x] = mine
        BY <2>10, <3>2, <4>1
      <4> QED BY <2>3, <2>4, <2>6, <2>7, <2>12, <4>1, <4>2
    <3> QED BY <3>1, <3>2
  <2>16. Stacked'
    BY <2>3, <2>7, <2>12 DEF IInv, Stacked
  <2>17. Held'
    <3> SUFFICES ASSUME NEW d \in Calls, NEW x \in Slots, InWindow(d, x)'
                 PROVE  /\ reserved'[x] # Free
                        /\ reserved'[x].patcher = call'[d].patcher
                        /\ reserved'[x].thread = call'[d].thread
                        /\ reserved'[x].token # d => Nested(reserved[x].token, d)'
      BY DEF Held
    <3>1. CASE d # c
      <4>1. InWindow(d, x)
        BY <2>7, <3>1 DEF InWindow
      <4> QED BY <2>7, <2>8, <2>13, <2>14, <3>1, <4>1 DEF IInv, Held
    <3>2. CASE d = c /\ reserved[s] = Free
      <4>1. x = s
        BY <2>3, <2>7, <3>2 DEF InWindow
      <4>2. mine # Free
        BY <2>4, FreeAssumption
      <4> QED BY <2>3, <2>4, <2>7, <2>10, <3>2, <4>1, <4>2
    <3>3. CASE d = c /\ reserved[s] # Free
      <4> DEFINE z == reserved[s].token
      <4>1. x = s /\ reserved'[x] = reserved[s]
        BY <1>1, <2>3, <2>7, <2>8, <3>3 DEF InWindow
      <4>2. reserved[s].patcher = call[c].patcher /\ reserved[s].thread = call[c].thread
        BY <1>5, <3>3 DEF Admitted
      <4>3. z \in Calls /\ Running(z) /\ call[z].thread = call[c].thread
        BY <1>1, <2>14, <3>3, <4>2 DEF IInv, Registered
      <4>4. z # c => Nested(z, c)
        <5> SUFFICES ASSUME z # c PROVE Nested(z, c)
          OBVIOUS
        <5>1. call[z].depth # call[c].depth
          BY <1>2, <4>3 DEF IInv, Stacked
        <5>2. ~(call[c].depth < call[z].depth)
          BY <4>3 DEF OnTop, Nested
        <5>3. call[z].depth \in Nat /\ call[c].depth \in Nat
          BY <4>3 DEF IInv, TypeOK, Locals
        <5> QED BY <4>3, <5>1, <5>2, <5>3 DEF Nested
      <4> QED BY <2>3, <2>7, <2>13, <3>3, <4>1, <4>2, <4>3, <4>4
    <3> QED BY <3>1, <3>2, <3>3
  <2> QED BY <2>11, <2>15, <2>16, <2>17 DEF IInv
<1> QED BY <1>4, <1>5

\* A call gives back what it took.  It is on top of its stack, so no call that
\* works under its reservations is in the window.
LEMMA ReturnKeepsInvariant ==
  ASSUME IInv, NEW c \in Calls, OnTop(c), Return(c)
  PROVE  IInv'
<1> DEFINE fresh == Fresh("done", call[c].patcher, call[c].module, call[c].thread, 0, {})
           locals == [fresh EXCEPT !.failed = call[c].failed]
<1>1. call[c] \in Locals
  BY CallIsTyped DEF IInv
<1>2. fresh \in Locals
  <2>1. /\ "done" \in Labels /\ call[c].patcher \in Patchers /\ call[c].module \in Modules
        /\ call[c].thread \in Threads /\ 0 \in Nat /\ {} \in SUBSET Slots
    BY <1>1 DEF Labels, Locals
  <2> QED BY <2>1, FreshIsTyped
<1>3. fresh.pc = "done"
  BY DEF Fresh
<1>4. call' = [call EXCEPT ![c] = locals]
  BY <1>1 DEF Return
<1> HIDE DEF fresh
<1>5. locals \in Locals /\ locals.pc = "done"
  BY <1>1, <1>2, <1>3 DEF Locals
<1> HIDE DEF locals
<1>6. call'[c] = locals /\ \A d \in Calls \ {c} : call'[d] = call[d]
  BY <1>4 DEF IInv, TypeOK
<1>7. \A s \in Slots :
        reserved'[s] = IF s \in call[c].tokens /\ Ours(c, s) THEN Free ELSE reserved[s]
  BY DEF Return
<1>8. \A s \in Slots : reserved'[s] # Free =>
        reserved'[s] = reserved[s] /\ reserved[s].token # c
  BY <1>7 DEF IInv, Registered, Ours
<1>9. TypeOK'
  <2>1. reserved' \in [Slots -> Reservation \cup {Free}]
    BY <1>7 DEF Return, IInv, TypeOK
  <2>2. call' \in [Calls -> Locals]
    BY <1>4, <1>5 DEF IInv, TypeOK
  <2>3. applied' \in [Patchers -> SUBSET Rules]
    BY <1>1 DEF Return, IInv, TypeOK, Locals
  <2> QED BY <2>1, <2>2, <2>3 DEF Return, IInv, TypeOK, historyVars
<1>10. \A d \in Calls : Running(d)' <=> Running(d) /\ d # c
  BY <1>5, <1>6 DEF Running, At
<1>11. \A s \in Slots : reserved[s] # Free => reserved[s].token \in Calls
  BY DEF IInv, TypeOK, Reservation
<1>12. Registered'
  BY <1>6, <1>8, <1>10, <1>11 DEF IInv, Registered
<1>13. Stacked'
  BY <1>6, <1>10 DEF IInv, Stacked
<1>14. Held'
  <2> SUFFICES ASSUME NEW d \in Calls, NEW s \in Slots, InWindow(d, s)'
               PROVE  /\ reserved'[s] # Free
                      /\ reserved'[s].patcher = call'[d].patcher
                      /\ reserved'[s].thread = call'[d].thread
                      /\ reserved'[s].token # d => Nested(reserved[s].token, d)'
    BY DEF Held
  <2>1. d # c
    BY <1>5, <1>6 DEF InWindow
  <2>2. InWindow(d, s) /\ call'[d] = call[d]
    BY <1>6, <2>1 DEF InWindow
  <2>3. Running(d)
    BY <2>2 DEF InWindow, Running, At
  <2>4. reserved[s].token # c
    BY <2>1, <2>2, <2>3 DEF IInv, Held, OnTop
  <2>5. reserved'[s] = reserved[s]
    BY <1>7, <2>4 DEF Ours
  <2>6. reserved[s] # Free /\ reserved[s].token \in Calls
    BY <1>11, <2>2 DEF IInv, Held
  <2> QED BY <1>6, <2>2, <2>4, <2>5, <2>6 DEF IInv, Held, Nested
<1> QED BY <1>9, <1>12, <1>13, <1>14 DEF IInv

\* A call that starts goes on top of its thread's stack and holds nothing.
LEMMA StartKeepsInvariant ==
  ASSUME IInv, NEW c \in Calls, NEW p \in Patchers, NEW m \in Modules,
         NEW t \in Threads, Start(c, p, m, t)
  PROVE  IInv'
<1> DEFINE todo == {s \in {SlotOf[r] : r \in {q \in RulesOf(p) : ModuleOf[q] = m}} :
                     slot[s] # Absent}
<1>1. todo \subseteq Slots
  BY RulesAssumption DEF RulesOf
<1>2. At(c, "idle") /\ UNCHANGED <<sharedVars, historyVars>>
  BY DEF Start
<1>3. PICK n \in Nat :
        /\ call' = [call EXCEPT ![c] = Fresh("next", p, m, t, n, todo)]
        /\ \A d \in Calls : Running(d) /\ call[d].thread = t => call[d].depth < n
  <2>1. CASE {d \in Calls : Running(d) /\ call[d].thread = t} = {}
             /\ call' = [call EXCEPT ![c] = Fresh("next", p, m, t, 1, todo)]
    BY <2>1
  <2>2. CASE \E d \in {e \in Calls : Running(e) /\ call[e].thread = t} :
               /\ OnTop(d)
               /\ call' = [call EXCEPT ![c] =
                             Fresh("next", p, m, t, call[d].depth + 1, todo)]
    <3>1. PICK d \in {e \in Calls : Running(e) /\ call[e].thread = t} :
               /\ OnTop(d)
               /\ call' = [call EXCEPT ![c] =
                             Fresh("next", p, m, t, call[d].depth + 1, todo)]
      BY <2>2
    <3>2. \A e \in Calls : call[e].depth \in Nat
      BY DEF IInv, TypeOK, Locals
    <3>3. \A e \in Calls : Running(e) /\ call[e].thread = t =>
            call[e].depth < call[d].depth + 1
      BY <3>1, <3>2 DEF OnTop, Nested
    <3>4. call[d].depth + 1 \in Nat
      BY <3>1, <3>2
    <3> QED BY <3>1, <3>3, <3>4
  <2> QED BY <2>1, <2>2 DEF Start
<1> DEFINE locals == Fresh("next", p, m, t, n, todo)
<1>4. locals \in Locals
  BY <1>1, FreshIsTyped DEF Labels
<1>5. locals.pc = "next" /\ locals.thread = t /\ locals.depth = n
  BY DEF Fresh
<1> HIDE DEF locals, todo
<1>6. call'[c] = locals /\ \A d \in Calls \ {c} : call'[d] = call[d]
  BY <1>3 DEF IInv, TypeOK, locals
<1>7. UNCHANGED reserved /\ OthersTyped'
  BY <1>2, UnchangedOthers
<1>8. TypeOK'
  <2>1. call' \in [Calls -> Locals]
    BY <1>3, <1>4 DEF IInv, TypeOK, locals
  <2> QED BY <1>7, <2>1 DEF IInv, TypeOK, OthersTyped
<1>9. ~Running(c) /\ \A d \in Calls : Running(d)' <=> Running(d) \/ d = c
  BY <1>2, <1>5, <1>6 DEF Running, At
<1>10. \A s \in Slots : reserved[s] # Free => reserved[s].token \in Calls \ {c}
  BY <1>9 DEF IInv, TypeOK, Reservation, Registered
<1>11. Registered'
  BY <1>6, <1>7, <1>9, <1>10 DEF IInv, Registered
<1>12. Stacked'
  <2> SUFFICES ASSUME NEW d \in Calls, NEW e \in Calls, Running(d)', Running(e)', d # e,
                      call'[d].thread = call'[e].thread
               PROVE  call'[d].depth # call'[e].depth
    BY DEF Stacked
  <2>1. \A x \in Calls : call[x].depth \in Nat
    BY DEF IInv, TypeOK, Locals
  <2>2. CASE d = c
    BY <1>3, <1>5, <1>6, <1>9, <2>1, <2>2
  <2>3. CASE e = c
    BY <1>3, <1>5, <1>6, <1>9, <2>1, <2>3
  <2>4. CASE d # c /\ e # c
    BY <1>6, <1>9, <2>4 DEF IInv, Stacked
  <2> QED BY <2>2, <2>3, <2>4
<1>13. Held'
  <2>1. \A d \in Calls, s \in Slots : InWindow(d, s)' => d # c /\ InWindow(d, s)
    BY <1>5, <1>6 DEF InWindow
  <2> QED BY <1>6, <1>7, <1>10, <2>1 DEF IInv, Held, Nested
<1> QED BY <1>8, <1>11, <1>12, <1>13 DEF IInv

LEMMA StepKeepsInvariant ==
  ASSUME IInv, NEW c \in Calls, Step(c)
  PROVE  IInv'
<1>1. OnTop(c) /\ Running(c)
  BY DEF Step, OnTop
<1>2. ASSUME NEW s \in Slots, Read(c, s) PROVE IInv'
  BY <1>1, <1>2, ReadKeepsInvariant
<1>3. ASSUME NEW e \in call[c].unvisited, RestoreEntry(c, e) PROVE IInv'
  BY <1>1, <1>3, RestoreKeepsInvariant
<1>4. Decide(c) => IInv'   BY <1>1, DecideKeepsInvariant
<1>5. Reserve(c) => IInv'  BY <1>1, ReserveKeepsInvariant
<1>6. Settle(c) => IInv'   BY <1>1, SettleKeepsInvariant
<1>7. Check(c) => IInv'    BY <1>1, CheckKeepsInvariant
<1>8. Store(c) => IInv'    BY <1>1, StoreKeepsInvariant
<1>9. Land(c) => IInv'     BY <1>1, LandKeepsInvariant
<1>10. Raise(c) => IInv'   BY <1>1, RaiseKeepsInvariant
<1>11. Finish(c) => IInv'  BY <1>1, FinishKeepsInvariant
<1>12. Unwind(c) => IInv'  BY <1>1, UnwindKeepsInvariant
<1>13. Publish(c) => IInv' BY <1>1, PublishKeepsInvariant
<1>14. Handoff(c) => IInv' BY <1>1, HandoffKeepsInvariant
<1>15. Return(c) => IInv'  BY <1>1, ReturnKeepsInvariant
<1> QED BY <1>2, <1>3, <1>4, <1>5, <1>6, <1>7, <1>8, <1>9, <1>10, <1>11, <1>12,
           <1>13, <1>14, <1>15 DEF Step

\* A step that touches neither the calls nor the registry.
LEMMA OutsidersKeepInvariant ==
  ASSUME IInv, OthersTyped', UNCHANGED <<call, reserved>>
  PROVE  IInv'
<1>1. TypeOK'
  BY DEF IInv, TypeOK, OthersTyped
<1>2. Registered' /\ Stacked' /\ Held'
  BY DEF IInv, Registered, Stacked, Held, InWindow, Nested, Running, At
<1> QED BY <1>1, <1>2 DEF IInv

\* What an uninstall of p leaves in slot s, when it settles the entries that
\* are not refused and writes some of the refused ones back as well.
GivenBack(p, refused, written, s) ==
  {e \in (ledger[p] \ refused) \cup written : e.slot = s /\ slot[s] = e.wrapper}
AfterUninstall(p, refused, written, s) ==
  IF GivenBack(p, refused, written, s) = {} THEN slot[s]
  ELSE (CHOOSE e \in GivenBack(p, refused, written, s) : TRUE).live

LEMMA UninstallBooks ==
  ASSUME TypeOK, NEW p \in Patchers, Uninstall(p)
  PROVE  /\ replaced \subseteq replaced' /\ replaced' \subseteq Replaceable
         /\ \E refused, written \in SUBSET ledger[p] :
              /\ ledger' = [ledger EXCEPT ![p] = refused]
              /\ slot' = [s \in Slots |-> AfterUninstall(p, refused, written, s)]
<1>1. PICK refused \in SUBSET ledger[p] : \E written \in SUBSET refused :
        LET settled == ledger[p] \ refused
            back(s) == {e \in settled \cup written : e.slot = s /\ slot[s] = e.wrapper} IN
        /\ slot' = [s \in Slots |->
             IF back(s) = {} THEN slot[s] ELSE (CHOOSE e \in back(s) : TRUE).live]
        /\ ledger' = [ledger EXCEPT ![p] = refused]
        /\ \E overtaken \in SUBSET {s \in Replaceable : back(s) # {}} :
             replaced' = replaced \cup overtaken
  BY Zenon DEF Uninstall
<1>2. PICK written \in SUBSET refused :
        /\ slot' = [s \in Slots |-> AfterUninstall(p, refused, written, s)]
        /\ ledger' = [ledger EXCEPT ![p] = refused]
        /\ \E overtaken \in SUBSET {s \in Replaceable : GivenBack(p, refused, written, s) # {}} :
             replaced' = replaced \cup overtaken
  BY <1>1, Zenon DEF AfterUninstall, GivenBack
<1>3. replaced \subseteq replaced' /\ replaced' \subseteq Replaceable
  BY <1>2 DEF TypeOK
<1>4. written \in SUBSET ledger[p]
  OBVIOUS
<1> QED BY <1>2, <1>3, <1>4

LEMMA UninstallKeepsInvariant ==
  ASSUME IInv, NEW p \in Patchers, Uninstall(p)
  PROVE  IInv'
<1>1. PICK refused, written \in SUBSET ledger[p] :
        /\ ledger' = [ledger EXCEPT ![p] = refused]
        /\ slot' = [s \in Slots |-> AfterUninstall(p, refused, written, s)]
  BY UninstallBooks DEF IInv
<1>2. ledger[p] \subseteq Entry
  BY DEF IInv, TypeOK
<1>3. slot' \in [Slots -> Values]
  <2>1. ASSUME NEW s \in Slots PROVE AfterUninstall(p, refused, written, s) \in Values
    <3> DEFINE back == GivenBack(p, refused, written, s)
    <3>1. back \subseteq Entry
      BY <1>2 DEF GivenBack
    <3>2. back # {} => (CHOOSE e \in back : TRUE) \in back
      OBVIOUS
    <3>3. slot[s] \in Values
      BY DEF IInv, TypeOK
    <3>4. AfterUninstall(p, refused, written, s)
            = IF back = {} THEN slot[s] ELSE (CHOOSE e \in back : TRUE).live
      BY DEF AfterUninstall
    <3> HIDE DEF back
    <3> QED BY <3>1, <3>2, <3>3, <3>4 DEF Entry
  <2> QED BY <1>1, <2>1
<1>4. replaced' \subseteq Replaceable
  BY UninstallBooks DEF IInv
<1>5. /\ inflight' \in [Patchers -> SUBSET Dispatchers]
      /\ served' \in [Dispatchers -> SUBSET Rules]
      /\ pending' \in [Patchers -> SUBSET Rules]
      /\ applied' \in [Patchers -> SUBSET Rules]
      /\ uninstalled' \subseteq Patchers
      /\ UNCHANGED <<call, reserved>>
  BY DEF IInv, TypeOK, Uninstall
<1>6. ledger' \in [Patchers -> SUBSET Entry]
  BY <1>1, <1>2 DEF IInv, TypeOK
<1>7. OthersTyped'
  BY <1>3, <1>4, <1>5, <1>6 DEF OthersTyped
<1> QED BY <1>5, <1>7, OutsidersKeepInvariant

LEMMA ReplaceKeepsInvariant ==
  ASSUME IInv, NEW s \in Slots, Replace(s)
  PROVE  IInv'
<1>1. OthersTyped'
  BY DEF IInv, TypeOK, OthersTyped, Replace, Values
<1> QED BY <1>1, OutsidersKeepInvariant DEF Replace

LEMMA InitHoldsInvariant == Init => IInv
<1> SUFFICES ASSUME Init PROVE IInv
  OBVIOUS
<1> DEFINE p == CHOOSE x \in Patchers : TRUE
           m == CHOOSE x \in Modules : TRUE
           t == CHOOSE x \in Threads : TRUE
           locals == Fresh("idle", p, m, t, 0, {})
<1>1. p \in Patchers /\ m \in Modules /\ t \in Threads
  BY CallersAssumption
<1>2. locals \in Locals
  <2> HIDE DEF p, m, t
  <2> QED BY <1>1, FreshIsTyped DEF Labels
<1>3. locals.pc = "idle"
  BY DEF Fresh
<1> HIDE DEF p, m, t
<1>4. call = [c \in Calls |-> locals]
  BY DEF Init, p, m, t
<1> HIDE DEF locals
<1>5. TypeOK
  BY <1>2, <1>4 DEF Init, TypeOK, Values, RulesOf
<1>6. \A c \in Calls : ~Running(c) /\ \A s \in Slots : ~InWindow(c, s)
  BY <1>3, <1>4 DEF Running, At, InWindow
<1>7. \A s \in Slots : reserved[s] = Free
  BY DEF Init
<1> QED BY <1>5, <1>6, <1>7 DEF IInv, Registered, Stacked, Held

LEMMA NextKeepsInvariant == IInv /\ [Next]_vars => IInv'
<1> SUFFICES ASSUME IInv, [Next]_vars PROVE IInv'
  OBVIOUS
<1>1. ASSUME NEW c \in Calls, NEW p \in Patchers, NEW m \in Modules, NEW t \in Threads,
             Start(c, p, m, t)
      PROVE  IInv'
  BY <1>1, StartKeepsInvariant
<1>2. ASSUME NEW c \in Calls, Step(c) PROVE IInv'
  BY <1>2, StepKeepsInvariant
<1>3. ASSUME NEW p \in Patchers, Uninstall(p) PROVE IInv'
  BY <1>3, UninstallKeepsInvariant
<1>4. ASSUME NEW s \in Slots, Replace(s) PROVE IInv'
  BY <1>4, ReplaceKeepsInvariant
<1>5. ASSUME UNCHANGED vars PROVE IInv'
  <2>1. OthersTyped' /\ UNCHANGED <<call, reserved>>
    BY <1>5 DEF vars, IInv, TypeOK, OthersTyped
  <2> QED BY <2>1, OutsidersKeepInvariant
<1> QED BY <1>1, <1>2, <1>3, <1>4, <1>5 DEF Next

\* Every variable of Patcher._patch has its type in every reachable state.
THEOREM TypeCorrect == Spec => []TypeOK
<1>1. IInv => TypeOK
  BY DEF IInv
<1> QED BY <1>1, InitHoldsInvariant, NextKeepsInvariant, PTL DEF Spec

\* Two calls between their second read and the end of their write of one slot
\* are of one Patcher and one thread, whatever re-entry the target code causes.
THEOREM WindowExclusive == Spec => []WindowIsExclusive
<1>1. IInv => WindowIsExclusive
  BY DEF IInv, Held, WindowIsExclusive
<1> QED BY <1>1, InitHoldsInvariant, NextKeepsInvariant, PTL DEF Spec

\* A reservation belongs to a call in progress, so a call that fails or returns
\* locks nobody out of a slot.
THEOREM ReservationsEnd == Spec => []ReservationsEndWithCalls
<1>1. IInv => ReservationsEndWithCalls
  BY DEF IInv, Registered, ReservationsEndWithCalls
<1> QED BY <1>1, InitHoldsInvariant, NextKeepsInvariant, PTL DEF Spec

-----------------------------------------------------------------------------
\* What is recorded where.  A dispatcher is built by its call, answered for by
\* the in-flight map until the call hands it to the ledger, and built under a
\* reservation that outlives both.

Installing == {"next", "decide", "reserve", "settle", "check", "store", "stored"}

\* Slot s is reserved for the Patcher and the thread of c, by c or below it.
HeldAt(c, s) ==
  /\ reserved[s] # Free
  /\ reserved[s].patcher = call[c].patcher
  /\ reserved[s].thread = call[c].thread
  /\ reserved[s].token # c => Nested(reserved[s].token, c)

WrapsInv ==
  \A c \in Calls :
    /\ call[c].unvisited \subseteq call[c].wrapped
    /\ \A e \in call[c].wrapped :
         /\ Running(c)
         /\ e.wrapper = <<c, e.slot>>
         /\ At(c, "release") \/ e.wrapper \in inflight[call[c].patcher]
         /\ call[c].pc \in {"handoff", "release"} => e \in ledger[call[c].patcher]

InflightInv ==
  \A p \in Patchers : \A w \in inflight[p] :
    /\ Owner(w) = p
    /\ Running(w[1]) /\ ~At(w[1], "release")
    /\ HeldAt(w[1], w[2])
    /\ call[w[1]].failed \/ \E e \in call[w[1]].wrapped : e.wrapper = w

LedgerInv ==
  \A p \in Patchers : \A e \in ledger[p] :
    /\ Owner(e.wrapper) = p
    /\ call[e.wrapper[1]].pc \in {"handoff", "release", "done"}
    /\ e.wrapper[2] = e.slot

\* A call is in the loop until it fails or has no slot left.
LoopInv ==
  \A c \in Calls :
    /\ call[c].pc \in {"restore", "undo"} => call[c].failed
    /\ call[c].pc \in Installing => ~call[c].failed
    /\ call[c].pc \in Installing \ {"next"} => call[c].cur \in call[c].todo

\* What a call may still build for a slot is not there yet.
ToBuild(c, s) ==
  \/ At(c, "idle")
  \/ /\ call[c].pc \in Installing /\ s \in call[c].todo
     /\ ~(call[c].pc \in {"store", "stored"} /\ call[c].cur = s)
FreshInv ==
  \A w \in Dispatchers : ToBuild(w[1], w[2]) =>
    /\ served[w] = {}
    /\ \A e \in call[w[1]].wrapped : e.slot # w[2]

\* A dispatcher is found in the slot it was built for and in no other.
HomeInv ==
  /\ \A s \in Slots : slot[s] \in Dispatchers => slot[s][2] = s
  /\ \A c \in Calls :
       /\ call[c].pc \in {"decide", "reserve", "settle", "check"}
            /\ call[c].live \in Dispatchers => call[c].live[2] = call[c].cur
       /\ At(c, "check") /\ call[c].settled \in Dispatchers =>
            call[c].settled[2] = call[c].cur
       /\ \A e \in call[c].wrapped : e.live \in Dispatchers => e.live[2] = e.slot
  /\ \A p \in Patchers : \A e \in ledger[p] : e.live \in Dispatchers => e.live[2] = e.slot

Books == WrapsInv /\ InflightInv /\ LedgerInv /\ LoopInv /\ FreshInv /\ HomeInv

\* A step of c that is no other call's and does not make c another call.
Steady(c) ==
  /\ \A d \in Calls \ {c} : call'[d] = call[d]
  /\ call'[c].patcher = call[c].patcher /\ call'[c].module = call[c].module
  /\ call'[c].thread = call[c].thread /\ call'[c].depth = call[c].depth

\* What the steps say field by field.
SameWork(c) ==
  /\ call'[c].wrapped = call[c].wrapped
  /\ call'[c].landed = call[c].landed /\ call'[c].extended = call[c].extended

Fails(c) ==
  /\ Steady(c) /\ SameWork(c)
  /\ call'[c].pc = "restore" /\ call'[c].failed = TRUE
  /\ call'[c].unvisited = call[c].wrapped

Goes(c, label) ==
  /\ Steady(c) /\ SameWork(c) /\ call'[c].pc = label
  /\ call'[c].failed = call[c].failed /\ call'[c].unvisited = call[c].unvisited

LEMMA FailEffect ==
  ASSUME TypeOK, NEW c \in Calls, call' = Fail(c)
  PROVE  Fails(c)
  BY CallIsTyped DEF Fail, Fails, Steady, SameWork, TypeOK, Locals

LEMMA GotoEffect ==
  ASSUME TypeOK, NEW c \in Calls, NEW label, call' = Goto(c, label)
  PROVE  /\ Goes(c, label) /\ call'[c].todo = call[c].todo /\ call'[c].cur = call[c].cur
         /\ call'[c].live = call[c].live /\ call'[c].settled = call[c].settled
  BY CallIsTyped DEF Goto, Goes, Steady, SameWork, TypeOK, Locals

LEMMA ReadEffect ==
  ASSUME TypeOK, NEW c \in Calls, NEW s \in Slots, Read(c, s)
  PROVE  \/ /\ Goes(c, "next") /\ call'[c].todo = call[c].todo \ {s}
            /\ call'[c].cur = call[c].cur
         \/ /\ Goes(c, "decide") /\ call'[c].todo = call[c].todo
            /\ call'[c].cur = s /\ s \in call[c].todo
            /\ call'[c].live = slot[s]
  BY CallIsTyped DEF Read, At, Goes, Steady, SameWork, TypeOK, Locals

LEMMA ExtendEffect ==
  ASSUME TypeOK, NEW c \in Calls, NEW w \in Dispatchers, Extend(c, w)
  PROVE  LET added == RulesAt(c) \ served[w] IN
         /\ Steady(c) /\ call'[c].pc = "next"
         /\ call'[c].wrapped = call[c].wrapped /\ call'[c].unvisited = call[c].unvisited
         /\ call'[c].failed = call[c].failed
         /\ call'[c].todo = call[c].todo \ {call[c].cur}
         /\ call'[c].landed = call[c].landed \cup added
         /\ call'[c].extended = IF added = {} THEN call[c].extended
                                ELSE call[c].extended \cup {<<w, added>>}
  BY CallIsTyped DEF Extend, Steady, TypeOK, Locals

LEMMA ReserveEffect ==
  ASSUME TypeOK, NEW c \in Calls, Reserve(c)
  PROVE  /\ \/ Fails(c)
            \/ /\ Goes(c, "settle") /\ call'[c].todo = call[c].todo
               /\ call'[c].cur = call[c].cur /\ call'[c].live = call[c].live
         /\ \A s \in Slots : reserved[s] # Free => reserved'[s] = reserved[s]
<1>1. call[c] \in Locals /\ call[c].cur \in Slots
  BY CallIsTyped
<1>2. \A s \in Slots : reserved[s] # Free => reserved'[s] = reserved[s]
  BY <1>1 DEF Reserve, TypeOK
<1>3. CASE Admitted(c, call[c].cur)
  BY <1>1, <1>2, <1>3 DEF Reserve, Goes, Steady, SameWork, TypeOK, Locals
<1>4. CASE ~Admitted(c, call[c].cur)
  BY <1>1, <1>2, <1>4 DEF Reserve, Fail, Fails, Steady, SameWork, TypeOK, Locals
<1> QED BY <1>2, <1>3, <1>4

LEMMA SettleEffect ==
  ASSUME TypeOK, NEW c \in Calls, Settle(c)
  PROVE  \/ Goes(c, "next") /\ call'[c].todo = call[c].todo \ {call[c].cur}
         \/ /\ Goes(c, "check") /\ call'[c].todo = call[c].todo
            /\ call'[c].cur = call[c].cur /\ call'[c].live = call[c].live
            /\ call'[c].settled = slot[call[c].cur]
  BY CallIsTyped DEF Settle, Leave, Goes, Steady, SameWork, TypeOK, Locals

LEMMA ClaimEffect ==
  ASSUME TypeOK, NEW c \in Calls, Claim(c)
  PROVE  /\ Steady(c) /\ call'[c].pc = "store"
         /\ call'[c].wrapped = call[c].wrapped \cup
              {[slot |-> call[c].cur, live |-> call[c].live, wrapper |-> Built(c)]}
         /\ call'[c].unvisited = call[c].unvisited /\ call'[c].failed = call[c].failed
         /\ call'[c].todo = call[c].todo /\ call'[c].cur = call[c].cur
         /\ call'[c].live = call[c].live /\ call'[c].settled = call[c].settled
         /\ call'[c].landed = call[c].landed /\ call'[c].extended = call[c].extended
  BY CallIsTyped DEF Claim, Steady, TypeOK, Locals

LEMMA LandEffect ==
  ASSUME TypeOK, NEW c \in Calls, Land(c)
  PROVE  /\ Steady(c) /\ call'[c].pc = "next"
         /\ call'[c].wrapped = call[c].wrapped /\ call'[c].unvisited = call[c].unvisited
         /\ call'[c].failed = call[c].failed
         /\ call'[c].todo = call[c].todo \ {call[c].cur}
         /\ call'[c].landed = call[c].landed \cup RulesAt(c)
         /\ call'[c].extended = call[c].extended
  BY CallIsTyped DEF Land, Leave, Steady, TypeOK, Locals

\* The read of a rollback finds the call's own wrapper; its visit to an entry ends.
Finds(c, e) ==
  /\ At(c, "restore") /\ slot[e.slot] = e.wrapper /\ slot' = slot
  /\ call'[c].pc = "undo" /\ call'[c].cur = e.slot
  /\ call'[c].unvisited = call[c].unvisited /\ call'[c].wrapped = call[c].wrapped

Visits(c, e) ==
  /\ call'[c].pc = "restore" /\ call'[c].unvisited = call[c].unvisited \ {e}
  /\ call'[c].wrapped \in {call[c].wrapped, call[c].wrapped \ {e}}

LEMMA RestoreEffect ==
  ASSUME TypeOK, NEW c \in Calls, NEW e \in call[c].unvisited, RestoreEntry(c, e)
  PROVE  /\ Steady(c) /\ call'[c].failed = call[c].failed
         /\ call[c].pc \in {"restore", "undo"} /\ call'[c].pc \in {"restore", "undo"}
         /\ call'[c].landed = call[c].landed /\ call'[c].extended = call[c].extended
         /\ \/ Finds(c, e)
            \/ At(c, "restore") /\ Visits(c, e) /\ slot' = slot
                 /\ (call'[c].wrapped = call[c].wrapped
                       \/ slot[e.slot] \notin {e.wrapper, Absent})
            \/ At(c, "undo") /\ call[c].cur = e.slot /\ Visits(c, e)
                 /\ (slot' = Undone(e) \/ (slot' = slot /\ call'[c].wrapped = call[c].wrapped))
<1>1. call[c] \in Locals
  BY CallIsTyped
<1>2. CASE Look(c, e)
  <2>1. slot' = slot
    BY <1>2 DEF Look, sharedVars
  <2> QED BY <1>1, <1>2, <2>1 DEF Look, At, Steady, Finds, Visits, TypeOK, Locals
<1>3. CASE PutBack(c, e)
  BY <1>1, <1>3 DEF PutBack, Undone, At, Steady, Visits, TypeOK, Locals
<1> QED BY <1>2, <1>3 DEF RestoreEntry

LEMMA ReturnEffect ==
  ASSUME TypeOK, NEW c \in Calls, Return(c)
  PROVE  /\ \A d \in Calls \ {c} : call'[d] = call[d]
         /\ call'[c].patcher = call[c].patcher /\ call'[c].module = call[c].module
         /\ call'[c].thread = call[c].thread
         /\ call'[c].pc = "done" /\ call'[c].failed = call[c].failed
         /\ call'[c].wrapped = {} /\ call'[c].unvisited = {}
         /\ call'[c].landed = {} /\ call'[c].extended = {}
  BY CallIsTyped DEF Return, Fresh, TypeOK, Locals

\* A step of the second pass or of the handler that leaves the slots, the
\* wraps and the records alone.
Quiet(c) ==
  /\ Steady(c) /\ UNCHANGED <<slot, ledger, inflight>>
  /\ \A s \in Slots : reserved[s] # Free => reserved'[s] = reserved[s]
  /\ call[c].pc \in Installing \cup {"restore"}
  /\ call'[c].pc \in Installing \cup {"restore", "publish"}
  /\ call'[c].wrapped = call[c].wrapped
  /\ call'[c].unvisited \in {call[c].unvisited, call[c].wrapped}
  /\ call[c].failed => call'[c].failed
  /\ call'[c].pc = "restore" => call'[c].failed
  /\ call'[c].pc \in Installing => ~call'[c].failed
  /\ call'[c].pc \in Installing \ {"next"} => call'[c].cur \in call'[c].todo
  /\ \A s \in Slots : ToBuild(c, s)' => ToBuild(c, s)
  /\ call'[c].pc \in {"decide", "reserve", "settle", "check"}
       /\ call'[c].live \in Dispatchers => call'[c].live[2] = call'[c].cur
  /\ call'[c].pc = "check" /\ call'[c].settled \in Dispatchers =>
       call'[c].settled[2] = call'[c].cur
  /\ \A w \in Dispatchers : ToBuild(w[1], w[2]) /\ served[w] = {} => served'[w] = {}

LEMMA FailIsQuiet ==
  ASSUME IInv, Books, NEW c \in Calls, Fails(c), call[c].pc \in Installing,
         UNCHANGED <<slot, ledger, inflight, served>>,
         \A s \in Slots : reserved[s] # Free => reserved'[s] = reserved[s]
  PROVE  Quiet(c)
  BY DEF Fails, Quiet, SameWork, Installing, ToBuild, At

LEMMA ExtendIsQuiet ==
  ASSUME IInv, Books, NEW c \in Calls, NEW w \in Dispatchers, Extend(c, w),
         call[c].pc \in Installing, LiveOwner(w) = call[c].patcher
  PROVE  Quiet(c)
<1>1. TypeOK
  BY DEF IInv
<1>2. /\ Steady(c) /\ call'[c].pc = "next"
      /\ call'[c].wrapped = call[c].wrapped /\ call'[c].unvisited = call[c].unvisited
      /\ call'[c].failed = call[c].failed
      /\ call'[c].todo = call[c].todo \ {call[c].cur}
  BY <1>1, ExtendEffect
<1>3. ~ToBuild(w[1], w[2])
  <2>1. w \in inflight[Owner(w)] \/ \E e \in ledger[Owner(w)] : e.wrapper = w
    BY <1>1, NobodyAssumption, CallIsTyped DEF LiveOwner, Answers
  <2>2. Owner(w) \in Patchers /\ w[1] \in Calls /\ w[2] \in Slots /\ w = <<w[1], w[2]>>
    BY <1>1, CallIsTyped DEF Owner, Dispatchers
  <2>3. CASE \E e \in ledger[Owner(w)] : e.wrapper = w
    BY <2>2, <2>3 DEF Books, LedgerInv, ToBuild, At, Installing
  <2>4. CASE w \in inflight[Owner(w)]
    <3>1. Running(w[1]) /\ (call[w[1]].failed \/ \E e \in call[w[1]].wrapped : e.wrapper = w)
      BY <2>2, <2>4 DEF Books, InflightInv
    <3>2. CASE call[w[1]].failed
      BY <2>2, <3>1, <3>2 DEF Books, LoopInv, ToBuild, Running
    <3>3. CASE \E e \in call[w[1]].wrapped : e.wrapper = w
      <4>1. PICK e \in call[w[1]].wrapped : e.wrapper = w
        BY <3>3
      <4>2. e.slot = w[2]
        BY <2>2, <4>1 DEF Books, WrapsInv
      <4> QED BY <2>2, <4>1, <4>2 DEF Books, FreshInv
    <3> QED BY <3>1, <3>2, <3>3
  <2> QED BY <2>1, <2>3, <2>4
<1>4. \A x \in Dispatchers : x # w => served'[x] = served[x]
  BY <1>1 DEF Extend, TypeOK
<1>5. /\ UNCHANGED <<slot, reserved, ledger, inflight>>
  BY DEF Extend
<1>6. ~call[c].failed
  BY DEF Books, LoopInv
<1>7. \A s \in Slots : ToBuild(c, s)' => ToBuild(c, s)
  BY <1>2, LoopInv DEF ToBuild, At, Books, LoopInv, Installing
<1> QED BY <1>2, <1>3, <1>4, <1>5, <1>6, <1>7 DEF Quiet, Installing

LEMMA ReadIsQuiet ==
  ASSUME IInv, Books, NEW c \in Calls, NEW s \in Slots, Read(c, s)
  PROVE  Quiet(c)
<1>1. TypeOK /\ At(c, "next") /\ ~call[c].failed
  BY DEF IInv, Read, Books, LoopInv, Installing, At
<1>2. UNCHANGED <<slot, reserved, ledger, inflight, served>>
  BY DEF Read, sharedVars
<1>3. CASE Goes(c, "next") /\ call'[c].todo = call[c].todo \ {s}
  BY <1>1, <1>2, <1>3 DEF Quiet, Goes, SameWork, ToBuild, At, Installing
<1>4. CASE /\ Goes(c, "decide") /\ call'[c].todo = call[c].todo
           /\ call'[c].cur = s /\ s \in call[c].todo /\ call'[c].live = slot[s]
  <2>1. slot[s] \in Dispatchers => slot[s][2] = s
    BY DEF Books, HomeInv
  <2> QED BY <1>1, <1>2, <1>4, <2>1 DEF Quiet, Goes, SameWork, ToBuild, At, Installing
<1> QED BY <1>1, <1>3, <1>4, ReadEffect

LEMMA DecideIsQuiet ==
  ASSUME IInv, Books, NEW c \in Calls, Decide(c)
  PROVE  Quiet(c)
<1>1. TypeOK /\ At(c, "decide") /\ ~call[c].failed /\ call[c].cur \in call[c].todo
  BY DEF IInv, Decide, Books, LoopInv, Installing, At
<1>2. CASE LiveOwner(call[c].live) = call[c].patcher /\ Extend(c, call[c].live)
  <2>1. call[c].live \in Dispatchers
    BY <1>1, <1>2, CallIsTyped, LiveOwnerOwns
  <2> QED BY <1>1, <1>2, <2>1, ExtendIsQuiet DEF Installing, At
<1>3. CASE call' = Goto(c, "reserve") /\ UNCHANGED <<sharedVars, historyVars>>
  <2>1. /\ Goes(c, "reserve") /\ call'[c].todo = call[c].todo /\ call'[c].cur = call[c].cur
        /\ call'[c].live = call[c].live
    BY <1>1, <1>3, GotoEffect
  <2>2. call[c].live \in Dispatchers => call[c].live[2] = call[c].cur
    BY <1>1 DEF Books, HomeInv, At
  <2> QED BY <1>1, <1>3, <2>1, <2>2
          DEF Quiet, Goes, SameWork, ToBuild, At, Installing, sharedVars
<1>4. CASE call' = Fail(c) /\ UNCHANGED <<sharedVars, historyVars>>
  BY <1>1, <1>4, FailEffect, FailIsQuiet DEF sharedVars, At, Installing
<1> QED BY <1>2, <1>3, <1>4 DEF Decide

LEMMA ReserveIsQuiet ==
  ASSUME IInv, Books, NEW c \in Calls, Reserve(c)
  PROVE  Quiet(c)
<1>1. TypeOK /\ At(c, "reserve") /\ ~call[c].failed /\ call[c].cur \in call[c].todo
  BY DEF IInv, Reserve, Books, LoopInv, Installing, At
<1>2. UNCHANGED <<slot, ledger, inflight, served>>
  BY DEF Reserve
<1>3. \A s \in Slots : reserved[s] # Free => reserved'[s] = reserved[s]
  BY <1>1, ReserveEffect
<1>4. CASE Fails(c)
  BY <1>1, <1>2, <1>3, <1>4, FailIsQuiet DEF At, Installing
<1>5. CASE /\ Goes(c, "settle") /\ call'[c].todo = call[c].todo
           /\ call'[c].cur = call[c].cur /\ call'[c].live = call[c].live
  <2>1. call[c].live \in Dispatchers => call[c].live[2] = call[c].cur
    BY <1>1 DEF Books, HomeInv, At
  <2> QED BY <1>1, <1>2, <1>3, <1>5, <2>1
          DEF Quiet, Goes, SameWork, ToBuild, At, Installing
<1> QED BY <1>1, <1>4, <1>5, ReserveEffect

LEMMA SettleIsQuiet ==
  ASSUME IInv, Books, NEW c \in Calls, Settle(c)
  PROVE  Quiet(c)
<1>1. /\ TypeOK /\ At(c, "settle") /\ ~call[c].failed /\ call[c].cur \in call[c].todo
      /\ call[c].cur \in Slots
  BY CallIsTyped DEF IInv, Settle, Books, LoopInv, Installing, At
<1>2. UNCHANGED <<slot, reserved, ledger, inflight, served>>
  BY DEF Settle, sharedVars
<1>3. CASE Goes(c, "next") /\ call'[c].todo = call[c].todo \ {call[c].cur}
  BY <1>1, <1>2, <1>3 DEF Quiet, Goes, SameWork, ToBuild, At, Installing
<1>4. CASE /\ Goes(c, "check") /\ call'[c].todo = call[c].todo
           /\ call'[c].cur = call[c].cur /\ call'[c].live = call[c].live
           /\ call'[c].settled = slot[call[c].cur]
  <2>1. /\ call[c].live \in Dispatchers => call[c].live[2] = call[c].cur
        /\ slot[call[c].cur] \in Dispatchers => slot[call[c].cur][2] = call[c].cur
    BY <1>1 DEF Books, HomeInv, At
  <2> QED BY <1>1, <1>2, <1>4, <2>1 DEF Quiet, Goes, SameWork, ToBuild, At, Installing
<1> QED BY <1>1, <1>3, <1>4, SettleEffect

\* The check, unless it claims the slot.
LEMMA CheckIsQuiet ==
  ASSUME IInv, Books, NEW c \in Calls, Check(c)
  PROVE  Quiet(c) \/ Claim(c)
<1>1. TypeOK /\ At(c, "check")
  BY DEF IInv, Check
<1>2. CASE LiveOwner(call[c].settled) = call[c].patcher /\ Extend(c, call[c].settled)
  <2>1. call[c].settled \in Dispatchers
    BY <1>1, <1>2, CallIsTyped, LiveOwnerOwns
  <2> QED BY <1>1, <1>2, <2>1, ExtendIsQuiet DEF Installing, At
<1>3. CASE call' = Fail(c) /\ UNCHANGED <<sharedVars, historyVars>>
  BY <1>1, <1>3, FailEffect, FailIsQuiet DEF sharedVars, At, Installing
<1> QED BY <1>2, <1>3 DEF Check

LEMMA LandIsQuiet ==
  ASSUME IInv, Books, NEW c \in Calls, Land(c)
  PROVE  Quiet(c)
<1>1. TypeOK /\ At(c, "stored") /\ ~call[c].failed
  BY DEF IInv, Land, Books, LoopInv, Installing, At
<1>2. /\ Steady(c) /\ call'[c].pc = "next"
      /\ call'[c].wrapped = call[c].wrapped /\ call'[c].unvisited = call[c].unvisited
      /\ call'[c].failed = call[c].failed
      /\ call'[c].todo = call[c].todo \ {call[c].cur}
  BY <1>1, LandEffect
<1>3. UNCHANGED <<slot, reserved, ledger, inflight, served>>
  BY DEF Land
<1> QED BY <1>1, <1>2, <1>3 DEF Quiet, ToBuild, At, Installing

LEMMA RaiseIsQuiet ==
  ASSUME IInv, Books, NEW c \in Calls, Raise(c)
  PROVE  Quiet(c)
  BY FailEffect, FailIsQuiet DEF IInv, Raise, sharedVars, Installing

LEMMA FinishIsQuiet ==
  ASSUME IInv, Books, NEW c \in Calls, Finish(c)
  PROVE  Quiet(c)
<1>1. Goes(c, "publish")
  BY GotoEffect DEF IInv, Finish
<1> QED BY <1>1 DEF Finish, Quiet, Goes, SameWork, ToBuild, At, Installing, sharedVars

LEMMA UnwindIsQuiet ==
  ASSUME IInv, Books, NEW c \in Calls, Unwind(c)
  PROVE  Quiet(c)
<1>1. Goes(c, "publish") /\ At(c, "restore")
  BY GotoEffect DEF IInv, Unwind
<1>2. \A w \in Dispatchers : served'[w] \subseteq served[w]
  BY DEF Unwind
<1>3. UNCHANGED <<slot, reserved, ledger, inflight>>
  BY DEF Unwind
<1> QED BY <1>1, <1>2, <1>3 DEF Quiet, Goes, SameWork, ToBuild, At, Installing

LEMMA QuietKeepsBooks ==
  ASSUME IInv, Books, NEW c \in Calls, Quiet(c)
  PROVE  Books'
<1>1. /\ \A d \in Calls \ {c} : call'[d] = call[d]
      /\ call'[c].patcher = call[c].patcher /\ call'[c].thread = call[c].thread
      /\ call'[c].depth = call[c].depth
      /\ UNCHANGED <<slot, ledger, inflight>>
  BY DEF Quiet, Steady
<1>2. \A d \in Calls : call'[d].patcher = call[d].patcher /\ call'[d].wrapped = call[d].wrapped
  BY <1>1 DEF Quiet
<1>3. /\ call[c].pc \in Installing \cup {"restore"}
      /\ call'[c].pc \in Installing \cup {"restore", "publish"}
  BY DEF Quiet
<1>4. \A d \in Calls : (Running(d)' <=> Running(d)) /\ (At(d, "release")' <=> At(d, "release"))
  BY <1>1, <1>3 DEF Running, At, Installing
<1>5. \A d, e \in Calls : Nested(d, e)' <=> Nested(d, e)
  BY <1>1 DEF Nested
<1>6. \A s \in Slots : reserved[s] # Free => reserved[s].token \in Calls /\ reserved'[s] = reserved[s]
  BY DEF IInv, TypeOK, Reservation, Quiet
<1>7. \A d \in Calls, s \in Slots : HeldAt(d, s) => HeldAt(d, s)'
  BY <1>1, <1>5, <1>6 DEF HeldAt
<1>8. WrapsInv'
  <2>1. call'[c].unvisited \subseteq call[c].wrapped
    BY DEF Books, WrapsInv, Quiet
  <2>2. \A d \in Calls : call'[d].pc \in {"handoff", "release"} => call'[d] = call[d]
    BY <1>1, <1>3 DEF Installing
  <2> QED BY <1>1, <1>2, <1>4, <2>1, <2>2 DEF Books, WrapsInv
<1>9. InflightInv'
  <2>1. \A p \in Patchers : \A w \in inflight[p] : w[1] \in Calls /\ w[2] \in Slots
    BY DEF IInv, TypeOK, Dispatchers
  <2>2. \A d \in Calls : call[d].failed => call'[d].failed
    BY <1>1 DEF Quiet
  <2> QED BY <1>1, <1>2, <1>4, <1>7, <2>1, <2>2 DEF Books, InflightInv, Owner
<1>10. LedgerInv'
  <2>1. \A p \in Patchers : \A e \in ledger[p] : e.wrapper[1] \in Calls
    BY DEF IInv, TypeOK, Entry, Dispatchers
  <2> QED BY <1>1, <1>2, <1>3, <2>1 DEF Books, LedgerInv, Owner, Installing
<1>11. LoopInv'
  BY <1>1, <1>3 DEF Books, LoopInv, Quiet, At, Installing
<1>12. FreshInv'
  <2>1. \A d \in Calls, s \in Slots : ToBuild(d, s)' => ToBuild(d, s)
    BY <1>1 DEF Quiet, ToBuild, At
  <2>2. \A w \in Dispatchers : w[1] \in Calls /\ w[2] \in Slots
    BY DEF Dispatchers
  <2>3. \A w \in Dispatchers : ToBuild(w[1], w[2]) => served'[w] = {}
    BY DEF Quiet, Books, FreshInv
  <2> QED BY <1>2, <2>1, <2>2, <2>3 DEF Books, FreshInv
<1>13. HomeInv'
  BY <1>1, <1>2 DEF Books, HomeInv, Quiet, At
<1> QED BY <1>8, <1>9, <1>10, <1>11, <1>12, <1>13 DEF Books

\* How the books look after a step that is not quiet: calls stand or move
\* within their stack, reservations stand, and Running is as before.
LEMMA HeldStays ==
  ASSUME IInv, NEW c \in Calls,
         \A d \in Calls \ {c} : call'[d] = call[d],
         call'[c].patcher = call[c].patcher, call'[c].thread = call[c].thread,
         call'[c].depth = call[c].depth,
         UNCHANGED reserved,
         NEW d \in Calls, NEW s \in Slots, HeldAt(d, s)
  PROVE  HeldAt(d, s)'
<1>1. reserved[s].token \in Calls
  BY DEF IInv, TypeOK, Reservation, HeldAt
<1> QED BY <1>1 DEF HeldAt, Nested

LEMMA ClaimKeepsBooks ==
  ASSUME IInv, Books, NEW c \in Calls, At(c, "check"), Claim(c)
  PROVE  Books'
<1> DEFINE entry == [slot |-> call[c].cur, live |-> call[c].live, wrapper |-> Built(c)]
<1>1. /\ TypeOK /\ ~call[c].failed /\ call[c].cur \in call[c].todo /\ call[c].cur \in Slots
      /\ call[c].patcher \in Patchers
  BY CallIsTyped DEF IInv, Books, LoopInv, Installing, At
<1>2. /\ Steady(c) /\ call'[c].pc = "store"
      /\ call'[c].wrapped = call[c].wrapped \cup {entry}
      /\ call'[c].unvisited = call[c].unvisited /\ call'[c].failed = call[c].failed
      /\ call'[c].todo = call[c].todo /\ call'[c].cur = call[c].cur
  BY <1>1, ClaimEffect
<1>3. /\ \A d \in Calls \ {c} : call'[d] = call[d]
      /\ call'[c].patcher = call[c].patcher /\ call'[c].thread = call[c].thread
      /\ call'[c].depth = call[c].depth
      /\ UNCHANGED <<slot, ledger, reserved>>
  BY <1>2 DEF Steady, Claim
<1>4. /\ inflight' = [inflight EXCEPT ![call[c].patcher] = @ \cup {Built(c)}]
      /\ served' = [served EXCEPT ![Built(c)] = RulesAt(c)]
  BY DEF Claim
<1>5. /\ entry.slot = call[c].cur /\ entry.live = call[c].live
      /\ entry.wrapper = Built(c) /\ Built(c) \in Dispatchers
      /\ Built(c)[1] = c /\ Built(c)[2] = call[c].cur /\ Built(c) = <<c, call[c].cur>>
  BY <1>1 DEF Built, Dispatchers
<1> HIDE DEF entry
<1>6. \A p \in Patchers :
        inflight'[p] = IF p = call[c].patcher THEN inflight[p] \cup {Built(c)} ELSE inflight[p]
  BY <1>1, <1>4 DEF TypeOK
<1>7. \A d \in Calls : (Running(d)' <=> Running(d)) /\ (At(d, "release")' <=> At(d, "release"))
  BY <1>2, <1>3 DEF Running, At
<1>8. WrapsInv'
  <2>1. \A d \in Calls : call[d].patcher \in Patchers
    BY <1>1, CallIsTyped
  <2>2. \A d \in Calls : call'[d].pc \in {"handoff", "release"} => d # c
    BY <1>2
  <2>3. Running(c)' /\ Running(c)
    BY <1>2 DEF At, Running
  <2>4. ASSUME NEW d \in Calls, d # c, NEW e \in call'[d].wrapped
        PROVE  /\ Running(d)' /\ e.wrapper = <<d, e.slot>>
               /\ At(d, "release")' \/ e.wrapper \in inflight'[call'[d].patcher]
               /\ call'[d].pc \in {"handoff", "release"} => e \in ledger'[call'[d].patcher]
    <3>1. call'[d] = call[d] /\ e \in call[d].wrapped
      BY <1>3, <2>4
    <3>2. /\ Running(d) /\ e.wrapper = <<d, e.slot>>
          /\ At(d, "release") \/ e.wrapper \in inflight[call[d].patcher]
          /\ call[d].pc \in {"handoff", "release"} => e \in ledger[call[d].patcher]
      BY <3>1 DEF Books, WrapsInv
    <3>3. inflight[call[d].patcher] \subseteq inflight'[call[d].patcher]
      BY <1>6, <2>1
    <3> QED BY <1>3, <1>7, <3>1, <3>2, <3>3
  <2>5. ASSUME NEW e \in call'[c].wrapped
        PROVE  e.wrapper = <<c, e.slot>> /\ e.wrapper \in inflight'[call'[c].patcher]
    <3>1. CASE e = entry
      BY <1>1, <1>3, <1>5, <1>6, <3>1
    <3>2. CASE e \in call[c].wrapped
      BY <1>1, <1>3, <1>6, <3>2 DEF Books, WrapsInv, At
    <3> QED BY <1>2, <3>1, <3>2
  <2>6. \A d \in Calls : call'[d].unvisited \subseteq call'[d].wrapped
    BY <1>2, <1>3 DEF Books, WrapsInv
  <2> QED BY <2>2, <2>3, <2>4, <2>5, <2>6 DEF WrapsInv
<1>9. InflightInv'
  <2> SUFFICES ASSUME NEW p \in Patchers, NEW w \in inflight'[p]
               PROVE  /\ Owner(w)' = p /\ Running(w[1])' /\ ~At(w[1], "release")'
                      /\ HeldAt(w[1], w[2])'
                      /\ call'[w[1]].failed \/ \E e \in call'[w[1]].wrapped : e.wrapper = w
    BY DEF InflightInv
  <2>1. CASE w \in inflight[p]
    <3>1. w[1] \in Calls /\ w[2] \in Slots
      BY <1>1, <2>1 DEF TypeOK, Dispatchers
    <3>2. HeldAt(w[1], w[2])'
      BY <1>3, <2>1, <3>1, HeldStays DEF Books, InflightInv
    <3>3. call'[w[1]].failed = call[w[1]].failed
            /\ call[w[1]].wrapped \subseteq call'[w[1]].wrapped
      BY <1>2, <1>3, <3>1
    <3> QED BY <1>3, <1>7, <2>1, <3>1, <3>2, <3>3 DEF Books, InflightInv, Owner
  <2>2. CASE w = Built(c) /\ p = call[c].patcher
    <3>1. HeldAt(c, w[2])
      BY <1>1, <1>5, <2>2 DEF IInv, Held, InWindow, HeldAt, At
    <3>2. HeldAt(c, w[2])'
      BY <1>1, <1>3, <1>5, <2>2, <3>1, HeldStays
    <3> QED BY <1>2, <1>3, <1>5, <2>2, <3>2 DEF Owner, Running, At
  <2> QED BY <1>6, <2>1, <2>2
<1>10. LedgerInv'
  <2>1. \A p \in Patchers : \A e \in ledger[p] : e.wrapper[1] \in Calls
    BY <1>1 DEF TypeOK, Entry, Dispatchers
  <2> QED BY <1>2, <1>3, <2>1 DEF Books, LedgerInv, Owner, At
<1>11. LoopInv'
  BY <1>1, <1>2, <1>3 DEF Books, LoopInv, At
<1>12. FreshInv'
  <2>1. \A w \in Dispatchers : w[1] \in Calls /\ w[2] \in Slots /\ w = <<w[1], w[2]>>
    BY DEF Dispatchers
  <2>2. \A w \in Dispatchers : ToBuild(w[1], w[2])' => ToBuild(w[1], w[2]) /\ w # Built(c)
    BY <1>2, <1>3, <1>5, <2>1 DEF ToBuild, At, Installing
  <2>3. \A w \in Dispatchers : w # Built(c) => served'[w] = served[w]
    BY <1>1, <1>4 DEF TypeOK
  <2>4. \A w \in Dispatchers : w # Built(c) /\ w[1] = c => entry.slot # w[2]
    BY <1>5, <2>1
  <2> QED BY <1>2, <1>3, <2>1, <2>2, <2>3, <2>4 DEF Books, FreshInv
<1>13. HomeInv'
  <2>1. entry.live \in Dispatchers => entry.live[2] = entry.slot
    BY <1>5 DEF Books, HomeInv, At
  <2> QED BY <1>2, <1>3, <2>1 DEF Books, HomeInv, At
<1> QED BY <1>8, <1>9, <1>10, <1>11, <1>12, <1>13 DEF Books

\* A step that leaves the records and what was wrapped alone.
LEMMA StoreKeepsBooks ==
  ASSUME IInv, Books, NEW c \in Calls, Store(c)
  PROVE  Books'
<1>1. TypeOK /\ At(c, "store") /\ call[c].cur \in Slots
  BY CallIsTyped DEF IInv, Store
<1>2. /\ Goes(c, "stored") /\ call'[c].todo = call[c].todo /\ call'[c].cur = call[c].cur
  BY <1>1, GotoEffect DEF Store
<1>3. /\ \A d \in Calls \ {c} : call'[d] = call[d]
      /\ call'[c].patcher = call[c].patcher /\ call'[c].thread = call[c].thread
      /\ call'[c].depth = call[c].depth
      /\ UNCHANGED <<reserved, ledger, inflight, served>>
  BY <1>2 DEF Store, Goes, Steady
<1>4. /\ call'[c].pc = "stored" /\ call'[c].failed = call[c].failed
      /\ call'[c].unvisited = call[c].unvisited /\ call'[c].wrapped = call[c].wrapped
  BY <1>2 DEF Goes, SameWork
<1>5. \A d \in Calls : (Running(d)' <=> Running(d)) /\ (At(d, "release")' <=> At(d, "release"))
  BY <1>1, <1>3, <1>4 DEF Running, At
<1>6. WrapsInv'
  <2>1. \A d \in Calls : call'[d].pc \in {"handoff", "release"} => call'[d] = call[d]
    BY <1>3, <1>4
  <2> QED BY <1>3, <1>4, <1>5, <2>1 DEF Books, WrapsInv
<1>7. InflightInv'
  <2>1. \A p \in Patchers : \A w \in inflight[p] : w[1] \in Calls /\ w[2] \in Slots
    BY <1>1 DEF TypeOK, Dispatchers
  <2>2. \A d \in Calls, s \in Slots : HeldAt(d, s) => HeldAt(d, s)'
    BY <1>3, HeldStays
  <2> QED BY <1>3, <1>4, <1>5, <2>1, <2>2 DEF Books, InflightInv, Owner
<1>8. LedgerInv'
  <2>1. \A p \in Patchers : \A e \in ledger[p] : e.wrapper[1] \in Calls
    BY <1>1 DEF TypeOK, Entry, Dispatchers
  <2> QED BY <1>1, <1>3, <1>4, <2>1 DEF Books, LedgerInv, Owner, At
<1>9. LoopInv'
  BY <1>1, <1>2, <1>3, <1>4 DEF Books, LoopInv, At, Installing
<1>10. FreshInv'
  <2>1. \A w \in Dispatchers : w[1] \in Calls /\ w[2] \in Slots
    BY DEF Dispatchers
  <2>2. \A w \in Dispatchers : ToBuild(w[1], w[2])' => ToBuild(w[1], w[2])
    BY <1>1, <1>2, <1>3, <1>4, <2>1 DEF ToBuild, At, Installing
  <2> QED BY <1>3, <1>4, <2>1, <2>2 DEF Books, FreshInv
<1>11. HomeInv'
  <2>1. \A s \in Slots : slot'[s] = IF s = call[c].cur THEN Built(c) ELSE slot[s]
    BY <1>1 DEF Store, TypeOK
  <2>2. Built(c)[2] = call[c].cur
    BY DEF Built
  <2> QED BY <1>3, <1>4, <2>1, <2>2 DEF Books, HomeInv, At
<1> QED BY <1>6, <1>7, <1>8, <1>9, <1>10, <1>11 DEF Books

\* The rollback of one slot: what was saved went out of this very slot.
LEMMA RestoreKeepsBooks ==
  ASSUME IInv, Books, NEW c \in Calls, Running(c), NEW e \in call[c].unvisited,
         RestoreEntry(c, e)
  PROVE  Books'
<1>1. /\ TypeOK /\ e \in Entry /\ call[c].failed
      /\ call[c].pc \in {"restore", "undo"}
  <2>1. TypeOK /\ e \in Entry
    BY CallIsTyped DEF IInv, Locals
  <2> QED BY <2>1, RestoreEffect DEF Books, LoopInv
<1>2. /\ Steady(c) /\ call'[c].pc \in {"restore", "undo"}
      /\ call'[c].failed = call[c].failed
      /\ call'[c].unvisited \in {call[c].unvisited, call[c].unvisited \ {e}}
      /\ call'[c].wrapped \in {call[c].wrapped, call[c].wrapped \ {e}}
      /\ call'[c].wrapped = call[c].wrapped \/ e \notin call'[c].unvisited
      /\ slot' \in {slot, Undone(e)}
  BY <1>1, RestoreEffect DEF Finds, Visits
<1>3. /\ \A d \in Calls \ {c} : call'[d] = call[d]
      /\ call'[c].patcher = call[c].patcher /\ call'[c].thread = call[c].thread
      /\ call'[c].depth = call[c].depth
      /\ UNCHANGED <<reserved, ledger, inflight, served>>
  BY <1>2 DEF RestoreEntry, Look, PutBack, sharedVars, Steady
<1>4. \A d \in Calls : (Running(d)' <=> Running(d)) /\ (At(d, "release")' <=> At(d, "release"))
  BY <1>1, <1>2, <1>3 DEF Running, At
<1>5. WrapsInv'
  <2>1. \A d \in Calls : call'[d].pc \in {"handoff", "release"} => call'[d] = call[d]
    BY <1>2, <1>3
  <2>2. call'[c].unvisited \subseteq call'[c].wrapped /\ call'[c].wrapped \subseteq call[c].wrapped
    BY <1>2 DEF Books, WrapsInv
  <2> QED BY <1>3, <1>4, <2>1, <2>2 DEF Books, WrapsInv
<1>6. InflightInv'
  <2>1. \A p \in Patchers : \A w \in inflight[p] : w[1] \in Calls /\ w[2] \in Slots
    BY <1>1 DEF TypeOK, Dispatchers
  <2>2. \A d \in Calls, s \in Slots : HeldAt(d, s) => HeldAt(d, s)'
    BY <1>3, HeldStays
  <2>3. call'[c].failed
    BY <1>1, <1>2
  <2> QED BY <1>3, <1>4, <2>1, <2>2, <2>3 DEF Books, InflightInv, Owner
<1>7. LedgerInv'
  <2>1. \A p \in Patchers : \A x \in ledger[p] : x.wrapper[1] \in Calls
    BY <1>1 DEF TypeOK, Entry, Dispatchers
  <2> QED BY <1>1, <1>2, <1>3, <2>1 DEF Books, LedgerInv, Owner, At
<1>8. LoopInv'
  BY <1>1, <1>2, <1>3 DEF Books, LoopInv, At, Installing
<1>9. FreshInv'
  <2>1. \A w \in Dispatchers : w[1] \in Calls /\ w[2] \in Slots
    BY DEF Dispatchers
  <2>2. \A w \in Dispatchers : ToBuild(w[1], w[2])' => ToBuild(w[1], w[2]) /\ w[1] # c
    BY <1>1, <1>2, <1>3, <2>1 DEF ToBuild, At, Installing
  <2> QED BY <1>3, <2>1, <2>2 DEF Books, FreshInv
<1>10. HomeInv'
  <2>1. e \in call[c].wrapped /\ e.slot \in Slots
    BY <1>1 DEF Books, WrapsInv, Entry
  <2>2. e.live \in Dispatchers => e.live[2] = e.slot
    BY <2>1 DEF Books, HomeInv
  <2>3. \A s \in Slots : slot'[s] = slot[s] \/ (s = e.slot /\ slot'[s] = e.live)
    BY <1>1, <1>2, <2>1 DEF Undone, TypeOK
  <2>4. call'[c].wrapped \subseteq call[c].wrapped
    BY <1>2
  <2> QED BY <1>2, <1>3, <2>2, <2>3, <2>4 DEF Books, HomeInv, At
<1> QED BY <1>5, <1>6, <1>7, <1>8, <1>9, <1>10 DEF Books

LEMMA PublishKeepsBooks ==
  ASSUME IInv, Books, NEW c \in Calls, Publish(c)
  PROVE  Books'
<1>1. TypeOK /\ At(c, "publish") /\ call[c].patcher \in Patchers
  BY CallIsTyped DEF IInv, Publish
<1>2. Goes(c, "handoff")
  BY <1>1, GotoEffect DEF Publish
<1>3. /\ \A d \in Calls \ {c} : call'[d] = call[d]
      /\ call'[c].patcher = call[c].patcher /\ call'[c].thread = call[c].thread
      /\ call'[c].depth = call[c].depth
      /\ UNCHANGED <<slot, reserved, inflight, served>>
  BY <1>2 DEF Publish, Goes, Steady
<1>4. /\ call'[c].pc = "handoff" /\ call'[c].failed = call[c].failed
      /\ call'[c].unvisited = call[c].unvisited /\ call'[c].wrapped = call[c].wrapped
  BY <1>2 DEF Goes, SameWork
<1>5. \A p \in Patchers :
        ledger'[p] = IF p = call[c].patcher THEN ledger[p] \cup call[c].wrapped ELSE ledger[p]
  BY <1>1 DEF Publish, TypeOK
<1>6. \A d \in Calls : (Running(d)' <=> Running(d)) /\ (At(d, "release")' <=> At(d, "release"))
  BY <1>1, <1>3, <1>4 DEF Running, At
<1>7. WrapsInv'
  <2>1. \A d \in Calls : call[d].patcher \in Patchers
    BY <1>1, CallIsTyped
  <2>2. \A p \in Patchers : ledger[p] \subseteq ledger'[p]
    BY <1>5
  <2>3. call[c].wrapped \subseteq ledger'[call[c].patcher]
    BY <1>1, <1>5
  <2> QED BY <1>3, <1>4, <1>6, <2>1, <2>2, <2>3 DEF Books, WrapsInv
<1>8. InflightInv'
  <2>1. \A p \in Patchers : \A w \in inflight[p] : w[1] \in Calls /\ w[2] \in Slots
    BY <1>1 DEF TypeOK, Dispatchers
  <2>2. \A d \in Calls, s \in Slots : HeldAt(d, s) => HeldAt(d, s)'
    BY <1>3, HeldStays
  <2> QED BY <1>3, <1>4, <1>6, <2>1, <2>2 DEF Books, InflightInv, Owner
<1>9. LedgerInv'
  <2>1. \A p \in Patchers : \A e \in ledger[p] : e.wrapper[1] \in Calls
    BY <1>1 DEF TypeOK, Entry, Dispatchers
  <2>2. \A e \in call[c].wrapped : e.wrapper[1] = c /\ e.wrapper[2] = e.slot
    BY DEF Books, WrapsInv
  <2> SUFFICES ASSUME NEW p \in Patchers, NEW e \in ledger'[p]
               PROVE  /\ call'[e.wrapper[1]].patcher = p
                      /\ call'[e.wrapper[1]].pc \in {"handoff", "release", "done"}
                      /\ e.wrapper[2] = e.slot
    BY DEF LedgerInv, Owner
  <2>3. CASE e \in ledger[p]
    BY <1>3, <1>4, <2>1, <2>3 DEF Books, LedgerInv, Owner
  <2>4. CASE e \in call[c].wrapped /\ p = call[c].patcher
    BY <1>3, <1>4, <2>2, <2>4
  <2> QED BY <1>5, <2>3, <2>4
<1>10. LoopInv'
  BY <1>3, <1>4 DEF Books, LoopInv, At, Installing
<1>11. FreshInv'
  <2>1. \A w \in Dispatchers : w[1] \in Calls /\ w[2] \in Slots
    BY DEF Dispatchers
  <2>2. \A w \in Dispatchers : ToBuild(w[1], w[2])' => ToBuild(w[1], w[2])
    BY <1>3, <1>4, <2>1 DEF ToBuild, At, Installing
  <2> QED BY <1>3, <1>4, <2>1, <2>2 DEF Books, FreshInv
<1>12. HomeInv'
  <2>1. \A p \in Patchers : \A e \in ledger'[p] : e.live \in Dispatchers => e.live[2] = e.slot
    <3> SUFFICES ASSUME NEW p \in Patchers, NEW e \in ledger'[p], e.live \in Dispatchers
                 PROVE  e.live[2] = e.slot
      OBVIOUS
    <3>1. e \in ledger[p] \/ e \in call[c].wrapped
      BY <1>5
    <3> QED BY <3>1 DEF Books, HomeInv
  <2> QED BY <1>3, <1>4, <2>1 DEF Books, HomeInv, At
<1> QED BY <1>7, <1>8, <1>9, <1>10, <1>11, <1>12 DEF Books

LEMMA HandoffKeepsBooks ==
  ASSUME IInv, Books, NEW c \in Calls, Handoff(c)
  PROVE  Books'
<1>1. TypeOK /\ At(c, "handoff") /\ call[c].patcher \in Patchers
  BY CallIsTyped DEF IInv, Handoff
<1>2. Goes(c, "release")
  BY <1>1, GotoEffect DEF Handoff
<1>3. /\ \A d \in Calls \ {c} : call'[d] = call[d]
      /\ call'[c].patcher = call[c].patcher /\ call'[c].thread = call[c].thread
      /\ call'[c].depth = call[c].depth
      /\ UNCHANGED <<slot, reserved, ledger, served>>
  BY <1>2 DEF Handoff, Goes, Steady
<1>4. /\ call'[c].pc = "release" /\ call'[c].failed = call[c].failed
      /\ call'[c].unvisited = call[c].unvisited /\ call'[c].wrapped = call[c].wrapped
  BY <1>2 DEF Goes, SameWork
<1>5. \A p \in Patchers : \A w :
        w \in inflight'[p] <=> w \in inflight[p] /\ (p = call[c].patcher => w[1] # c)
  BY <1>1 DEF Handoff, TypeOK
<1>6. \A d \in Calls : Running(d)' <=> Running(d)
  BY <1>1, <1>3, <1>4 DEF Running, At
<1>7. \A d \in Calls \ {c} : At(d, "release")' <=> At(d, "release")
  BY <1>3 DEF At
<1>8. \A d \in Calls : call[d].patcher \in Patchers
  BY <1>1, CallIsTyped
<1>9. WrapsInv'
  <2>1. \A d \in Calls : call'[d].unvisited \subseteq call'[d].wrapped
    BY <1>3, <1>4 DEF Books, WrapsInv
  <2>2. ASSUME NEW e \in call'[c].wrapped
        PROVE  /\ Running(c)' /\ e.wrapper = <<c, e.slot>> /\ At(c, "release")'
               /\ e \in ledger'[call'[c].patcher]
    BY <1>1, <1>3, <1>4, <1>6, <2>2 DEF Books, WrapsInv, At
  <2>3. ASSUME NEW d \in Calls \ {c}, NEW e \in call'[d].wrapped
        PROVE  /\ Running(d)' /\ e.wrapper = <<d, e.slot>>
               /\ At(d, "release")' \/ e.wrapper \in inflight'[call'[d].patcher]
               /\ call'[d].pc \in {"handoff", "release"} => e \in ledger'[call'[d].patcher]
    <3>1. e \in call[d].wrapped
      BY <1>3, <2>3
    <3>2. e.wrapper = <<d, e.slot>> /\ e.wrapper[1] # c
      BY <2>3, <3>1 DEF Books, WrapsInv
    <3> QED BY <1>3, <1>5, <1>6, <1>7, <1>8, <2>3, <3>1, <3>2 DEF Books, WrapsInv
  <2> QED BY <2>1, <2>2, <2>3 DEF WrapsInv
<1>10. InflightInv'
  <2> SUFFICES ASSUME NEW p \in Patchers, NEW w \in inflight'[p]
               PROVE  /\ Owner(w)' = p /\ Running(w[1])' /\ ~At(w[1], "release")'
                      /\ HeldAt(w[1], w[2])'
                      /\ call'[w[1]].failed \/ \E e \in call'[w[1]].wrapped : e.wrapper = w
    BY DEF InflightInv
  <2>1. w \in inflight[p]
    BY <1>5
  <2>2. w[1] \in Calls /\ w[2] \in Slots /\ Owner(w) = p
    BY <1>1, <2>1 DEF TypeOK, Dispatchers, Books, InflightInv
  <2>3. w[1] # c
    BY <1>5, <2>2 DEF Owner
  <2>4. HeldAt(w[1], w[2])'
    BY <1>3, <2>1, <2>2, HeldStays DEF Books, InflightInv
  <2> QED BY <1>3, <1>6, <1>7, <2>1, <2>2, <2>3, <2>4 DEF Books, InflightInv, Owner
<1>11. LedgerInv'
  <2>1. \A p \in Patchers : \A e \in ledger[p] : e.wrapper[1] \in Calls
    BY <1>1 DEF TypeOK, Entry, Dispatchers
  <2> QED BY <1>3, <1>4, <2>1 DEF Books, LedgerInv, Owner
<1>12. LoopInv'
  BY <1>3, <1>4 DEF Books, LoopInv, At, Installing
<1>13. FreshInv'
  <2>1. \A w \in Dispatchers : w[1] \in Calls /\ w[2] \in Slots
    BY DEF Dispatchers
  <2>2. \A w \in Dispatchers : ToBuild(w[1], w[2])' => ToBuild(w[1], w[2])
    BY <1>3, <1>4, <2>1 DEF ToBuild, At, Installing
  <2> QED BY <1>3, <1>4, <2>1, <2>2 DEF Books, FreshInv
<1>14. HomeInv'
  BY <1>3, <1>4 DEF Books, HomeInv, At
<1> QED BY <1>9, <1>10, <1>11, <1>12, <1>13, <1>14 DEF Books

\* A call returns with its wraps in the ledger and no dispatcher in flight; the
\* reservations it frees are no other builder's, since those run above it.
LEMMA ReturnKeepsBooks ==
  ASSUME IInv, Books, NEW c \in Calls, OnTop(c), Return(c)
  PROVE  Books'
<1>1. TypeOK /\ At(c, "release") /\ call[c].patcher \in Patchers
  BY CallIsTyped DEF IInv, Return
<1>2. /\ \A d \in Calls \ {c} : call'[d] = call[d]
      /\ call'[c].patcher = call[c].patcher
      /\ call'[c].pc = "done" /\ call'[c].wrapped = {} /\ call'[c].unvisited = {}
  BY <1>1, ReturnEffect
<1>3. UNCHANGED <<slot, ledger, inflight, served>>
  BY DEF Return
<1>4. \A d \in Calls \ {c} : (Running(d)' <=> Running(d)) /\ (At(d, "release")' <=> At(d, "release"))
  BY <1>2 DEF Running, At
<1>5. WrapsInv'
  BY <1>2, <1>3, <1>4 DEF Books, WrapsInv
<1>6. InflightInv'
  <2> SUFFICES ASSUME NEW p \in Patchers, NEW w \in inflight'[p]
               PROVE  /\ Owner(w)' = p /\ Running(w[1])' /\ ~At(w[1], "release")'
                      /\ HeldAt(w[1], w[2])'
                      /\ call'[w[1]].failed \/ \E e \in call'[w[1]].wrapped : e.wrapper = w
    BY DEF InflightInv
  <2>1. w \in inflight[p] /\ w[1] \in Calls /\ w[2] \in Slots
    BY <1>1, <1>3 DEF TypeOK, Dispatchers
  <2>2. w[1] # c /\ Running(w[1]) /\ HeldAt(w[1], w[2])
    BY <1>1, <2>1 DEF Books, InflightInv
  <2> DEFINE z == reserved[w[2]].token
  <2>3. z \in Calls /\ z # c
    <3>1. z \in Calls
      BY <2>1, <2>2 DEF HeldAt, IInv, TypeOK, Reservation
    <3>2. z = c => Nested(c, w[1])
      BY <2>2 DEF HeldAt
    <3> QED BY <2>1, <2>2, <3>1, <3>2 DEF OnTop
  <2>4. reserved'[w[2]] = reserved[w[2]]
    BY <2>1, <2>3 DEF Return, Ours
  <2>5. HeldAt(w[1], w[2])'
    BY <1>2, <2>1, <2>2, <2>3, <2>4 DEF HeldAt, Nested
  <2> QED BY <1>2, <1>4, <2>1, <2>2, <2>5 DEF Books, InflightInv, Owner
<1>7. LedgerInv'
  <2>1. \A p \in Patchers : \A e \in ledger[p] : e.wrapper[1] \in Calls
    BY <1>1 DEF TypeOK, Entry, Dispatchers
  <2> QED BY <1>2, <1>3, <2>1 DEF Books, LedgerInv, Owner
<1>8. LoopInv'
  BY <1>2 DEF Books, LoopInv, At, Installing
<1>9. FreshInv'
  <2>1. \A w \in Dispatchers : w[1] \in Calls /\ w[2] \in Slots
    BY DEF Dispatchers
  <2>2. \A w \in Dispatchers : ToBuild(w[1], w[2])' => ToBuild(w[1], w[2]) /\ w[1] # c
    BY <1>2, <2>1 DEF ToBuild, At, Installing
  <2> QED BY <1>2, <1>3, <2>1, <2>2 DEF Books, FreshInv
<1>10. HomeInv'
  BY <1>2, <1>3 DEF Books, HomeInv, At
<1> QED BY <1>5, <1>6, <1>7, <1>8, <1>9, <1>10 DEF Books

LEMMA StartEffect ==
  ASSUME TypeOK, NEW c \in Calls, NEW p \in Patchers, NEW m \in Modules,
         NEW t \in Threads, Start(c, p, m, t)
  PROVE  /\ \A d \in Calls \ {c} : call'[d] = call[d]
         /\ At(c, "idle") /\ UNCHANGED <<sharedVars, historyVars>>
         /\ call'[c].patcher = p /\ call'[c].module = m /\ call'[c].thread = t
         /\ call'[c].pc = "next" /\ call'[c].failed = FALSE
         /\ call'[c].wrapped = {} /\ call'[c].unvisited = {}
         /\ call'[c].landed = {} /\ call'[c].extended = {}
<1>1. \E n, todo : call' = [call EXCEPT ![c] = Fresh("next", p, m, t, n, todo)]
  BY DEF Start
<1>2. PICK n, todo : call' = [call EXCEPT ![c] = Fresh("next", p, m, t, n, todo)]
  BY <1>1
<1> QED BY <1>2 DEF Start, Fresh, TypeOK

LEMMA StartKeepsBooks ==
  ASSUME IInv, Books, NEW c \in Calls, NEW p \in Patchers, NEW m \in Modules,
         NEW t \in Threads, Start(c, p, m, t)
  PROVE  Books'
<1>1. TypeOK
  BY DEF IInv
<1>2. /\ \A d \in Calls \ {c} : call'[d] = call[d]
      /\ At(c, "idle") /\ UNCHANGED <<sharedVars, historyVars>>
      /\ call'[c].pc = "next" /\ call'[c].failed = FALSE
      /\ call'[c].wrapped = {} /\ call'[c].unvisited = {}
  BY <1>1, StartEffect
<1>3. UNCHANGED <<slot, reserved, ledger, inflight, served>>
  BY <1>2 DEF sharedVars
<1>4. \A d \in Calls \ {c} : (Running(d)' <=> Running(d)) /\ (At(d, "release")' <=> At(d, "release"))
  BY <1>2 DEF Running, At
<1>5. WrapsInv'
  BY <1>2, <1>3, <1>4 DEF Books, WrapsInv
<1>6. InflightInv'
  <2> SUFFICES ASSUME NEW q \in Patchers, NEW w \in inflight'[q]
               PROVE  /\ Owner(w)' = q /\ Running(w[1])' /\ ~At(w[1], "release")'
                      /\ HeldAt(w[1], w[2])'
                      /\ call'[w[1]].failed \/ \E e \in call'[w[1]].wrapped : e.wrapper = w
    BY DEF InflightInv
  <2>1. w \in inflight[q] /\ w[1] \in Calls /\ w[2] \in Slots
    BY <1>1, <1>3 DEF TypeOK, Dispatchers
  <2>2. w[1] # c /\ Running(w[1]) /\ HeldAt(w[1], w[2])
    BY <1>2, <2>1 DEF Books, InflightInv, Running
  <2> DEFINE z == reserved[w[2]].token
  <2>3. z \in Calls /\ z # c
    BY <1>2, <2>1, <2>2 DEF HeldAt, IInv, TypeOK, Reservation, Registered, Running
  <2>4. HeldAt(w[1], w[2])'
    BY <1>2, <1>3, <2>1, <2>2, <2>3 DEF HeldAt, Nested
  <2> QED BY <1>2, <1>4, <2>1, <2>2, <2>4 DEF Books, InflightInv, Owner
<1>7. LedgerInv'
  <2>1. \A q \in Patchers : \A e \in ledger[q] : e.wrapper[1] \in Calls \ {c}
    BY <1>1, <1>2 DEF TypeOK, Entry, Dispatchers, Books, LedgerInv, At
  <2> QED BY <1>2, <1>3, <2>1 DEF Books, LedgerInv, Owner
<1>8. LoopInv'
  BY <1>2 DEF Books, LoopInv, At, Installing
<1>9. FreshInv'
  <2>1. \A w \in Dispatchers : w[1] \in Calls /\ w[2] \in Slots
    BY DEF Dispatchers
  <2>2. \A w \in Dispatchers : ToBuild(w[1], w[2])' => ToBuild(w[1], w[2])
    BY <1>2, <2>1 DEF ToBuild, At, Installing
  <2> QED BY <1>2, <1>3, <2>1, <2>2 DEF Books, FreshInv
<1>10. HomeInv'
  BY <1>2, <1>3 DEF Books, HomeInv, At
<1> QED BY <1>5, <1>6, <1>7, <1>8, <1>9, <1>10 DEF Books

\* What an uninstall does to a slot and to an entry.
LEMMA UninstallEffect ==
  ASSUME TypeOK, NEW p \in Patchers, Uninstall(p)
  PROVE  /\ ledger'[p] \subseteq ledger[p]
         /\ \A q \in Patchers \ {p} : ledger'[q] = ledger[q]
         /\ \A s \in Slots :
              \/ /\ slot'[s] = slot[s]
                 /\ \A e \in ledger[p] : e.slot = s /\ slot[s] = e.wrapper => e \in ledger'[p]
              \/ \E e \in ledger[p] : e.slot = s /\ slot[s] = e.wrapper /\ slot'[s] = e.live
<1>1. PICK refused, written \in SUBSET ledger[p] :
        /\ ledger' = [ledger EXCEPT ![p] = refused]
        /\ slot' = [s \in Slots |-> AfterUninstall(p, refused, written, s)]
  BY UninstallBooks
<1>2. /\ ledger'[p] = refused /\ refused \subseteq ledger[p]
      /\ \A q \in Patchers \ {p} : ledger'[q] = ledger[q]
  BY <1>1 DEF TypeOK
<1>3. ASSUME NEW s \in Slots
      PROVE  \/ /\ slot'[s] = slot[s]
                /\ \A e \in ledger[p] : e.slot = s /\ slot[s] = e.wrapper => e \in refused
             \/ \E e \in ledger[p] : e.slot = s /\ slot[s] = e.wrapper /\ slot'[s] = e.live
  <2> DEFINE back == GivenBack(p, refused, written, s)
  <2>1. slot'[s] = IF back = {} THEN slot[s] ELSE (CHOOSE e \in back : TRUE).live
    BY <1>1 DEF AfterUninstall
  <2>2. CASE back = {}
    <3>1. \A e \in ledger[p] : e.slot = s /\ slot[s] = e.wrapper => e \in refused
      BY <2>2 DEF GivenBack
    <3> QED BY <2>1, <2>2, <3>1
  <2>3. CASE back # {}
    <3>1. PICK e : e = CHOOSE x \in back : TRUE
      OBVIOUS
    <3>2. e \in back
      BY <2>3, <3>1
    <3>3. e \in ledger[p] /\ e.slot = s /\ slot[s] = e.wrapper
      BY <1>1, <3>2 DEF GivenBack
    <3>4. slot'[s] = e.live
      BY <2>1, <2>3, <3>1
    <3> QED BY <3>3, <3>4
  <2> QED BY <2>2, <2>3
<1> QED BY <1>2, <1>3

\* Nothing is in flight between calls.
LEMMA NothingInFlight ==
  ASSUME Books, \A c \in Calls : ~Running(c), TypeOK
  PROVE  /\ \A p \in Patchers : inflight[p] = {}
         /\ \A c \in Calls : call[c].wrapped = {}
<1>1. \A p \in Patchers : \A w \in inflight[p] : w[1] \in Calls
  BY DEF TypeOK, Dispatchers
<1> QED BY <1>1 DEF Books, InflightInv, WrapsInv

LEMMA UninstallKeepsBooks ==
  ASSUME IInv, Books, NEW p \in Patchers, Uninstall(p)
  PROVE  Books'
<1>1. TypeOK /\ \A c \in Calls : ~Running(c)
  BY DEF IInv, Uninstall
<1>2. UNCHANGED <<reserved, inflight, served, call>>
  BY DEF Uninstall
<1>3. /\ \A q \in Patchers : inflight[q] = {}
      /\ \A c \in Calls : call[c].wrapped = {}
  BY <1>1, NothingInFlight
<1>4. \A q \in Patchers : ledger'[q] \subseteq ledger[q]
  BY <1>1, UninstallEffect
<1>5. \A s \in Slots : \/ slot'[s] = slot[s]
                       \/ \E e \in ledger[p] : e.slot = s /\ slot'[s] = e.live
  BY <1>1, UninstallEffect
<1>6. WrapsInv' /\ InflightInv'
  BY <1>2, <1>3 DEF WrapsInv, InflightInv, Books
<1>7. LedgerInv' /\ LoopInv' /\ FreshInv'
  BY <1>2, <1>4 DEF Books, LedgerInv, LoopInv, FreshInv, Owner, ToBuild, At
<1>8. HomeInv'
  BY <1>2, <1>4, <1>5 DEF Books, HomeInv, At
<1> QED BY <1>6, <1>7, <1>8 DEF Books

\* Steps that touch neither calls nor records.
LEMMA OutsidersKeepBooks ==
  ASSUME IInv, Books, UNCHANGED <<call, reserved, ledger, inflight, served>>,
         \A s \in Slots : slot'[s] = slot[s] \/ slot'[s] \notin Dispatchers
  PROVE  Books'
<1>1. WrapsInv' /\ LedgerInv' /\ LoopInv' /\ FreshInv'
  BY DEF Books, WrapsInv, LedgerInv, LoopInv, FreshInv, Owner, ToBuild, At, Running
<1>2. InflightInv'
  BY DEF Books, InflightInv, Owner, Running, At, HeldAt, Nested
<1>3. HomeInv'
  BY DEF Books, HomeInv, At
<1> QED BY <1>1, <1>2, <1>3 DEF Books

LEMMA InitHoldsBooks == Init => Books
<1> SUFFICES ASSUME Init PROVE Books
  OBVIOUS
<1> DEFINE locals == Fresh("idle", CHOOSE p \in Patchers : TRUE, CHOOSE m \in Modules : TRUE,
                           CHOOSE t \in Threads : TRUE, 0, {})
<1>1. /\ locals.pc = "idle" /\ locals.wrapped = {} /\ locals.unvisited = {}
  BY DEF Fresh
<1>2. call = [c \in Calls |-> locals]
  BY DEF Init
<1> HIDE DEF locals
<1>3. \A c \in Calls : call[c].pc = "idle" /\ call[c].wrapped = {} /\ call[c].unvisited = {}
  BY <1>1, <1>2
<1>4. /\ \A p \in Patchers : ledger[p] = {} /\ inflight[p] = {}
      /\ \A w \in Dispatchers : served[w] = {}
      /\ \A s \in Slots : slot[s] \notin Dispatchers
  BY NobodyAssumption DEF Init
<1>5. \A w \in Dispatchers : w[1] \in Calls
  BY DEF Dispatchers
<1>6. WrapsInv /\ InflightInv /\ LedgerInv /\ LoopInv
  BY <1>3, <1>4 DEF WrapsInv, InflightInv, LedgerInv, LoopInv, At, Installing
<1>7. FreshInv /\ HomeInv
  BY <1>3, <1>4, <1>5 DEF FreshInv, HomeInv, At
<1> QED BY <1>6, <1>7 DEF Books

\* The steps of a call: quiet, or one of six.
LEMMA StepCases ==
  ASSUME IInv, Books, NEW c \in Calls, Step(c)
  PROVE  /\ OnTop(c)
         /\ \/ Quiet(c)
            \/ At(c, "check") /\ Claim(c)
            \/ Store(c)
            \/ \E e \in call[c].unvisited : RestoreEntry(c, e)
            \/ Publish(c) \/ Handoff(c) \/ Return(c)
<1>1. Check(c) => Quiet(c) \/ (At(c, "check") /\ Claim(c))
  BY CheckIsQuiet DEF Check
<1>2. \A s \in Slots : Read(c, s) => Quiet(c)
  BY ReadIsQuiet
<1> QED BY <1>1, <1>2, DecideIsQuiet, ReserveIsQuiet, SettleIsQuiet, LandIsQuiet, RaiseIsQuiet,
           FinishIsQuiet, UnwindIsQuiet DEF Step

LEMMA NextKeepsBooks == IInv /\ Books /\ [Next]_vars => Books'
<1> SUFFICES ASSUME IInv, Books, [Next]_vars PROVE Books'
  OBVIOUS
<1>1. ASSUME NEW c \in Calls, NEW p \in Patchers, NEW m \in Modules, NEW t \in Threads,
             Start(c, p, m, t)
      PROVE  Books'
  BY <1>1, StartKeepsBooks
<1>2. ASSUME NEW c \in Calls, Step(c) PROVE Books'
  <2>1. OnTop(c) /\ Running(c)
    BY <1>2 DEF Step, OnTop
  <2>2. ASSUME NEW e \in call[c].unvisited, RestoreEntry(c, e) PROVE Books'
    BY <2>1, <2>2, RestoreKeepsBooks
  <2> QED BY <1>2, <2>1, <2>2, StepCases, QuietKeepsBooks, ClaimKeepsBooks, StoreKeepsBooks,
             PublishKeepsBooks, HandoffKeepsBooks, ReturnKeepsBooks
<1>3. ASSUME NEW p \in Patchers, Uninstall(p) PROVE Books'
  BY <1>3, UninstallKeepsBooks
<1>4. ASSUME NEW s \in Slots, Replace(s) PROVE Books'
  <2>1. \A x \in Slots : slot'[x] = slot[x] \/ slot'[x] \notin Dispatchers
    BY <1>4, NobodyAssumption DEF Replace, IInv, TypeOK
  <2> QED BY <1>4, <2>1, OutsidersKeepBooks DEF Replace
<1>5. CASE UNCHANGED vars
  BY <1>5, OutsidersKeepBooks DEF vars
<1> QED BY <1>1, <1>2, <1>3, <1>4, <1>5 DEF Next

LEMMA BooksHold == Spec => [](IInv /\ Books)
<1>1. Init => IInv /\ Books
  BY InitHoldsInvariant, InitHoldsBooks
<1>2. IInv /\ Books /\ [Next]_vars => (IInv /\ Books)'
  BY NextKeepsInvariant, NextKeepsBooks
<1> QED BY <1>1, <1>2, PTL DEF Spec

-----------------------------------------------------------------------------
\* Where the rules are.  A call accounts for the rules it landed, a dispatcher
\* serves those it was built for as long as anybody answers for it, and what
\* others put into it is on their lists.

BuiltFor(w) ==
  {r \in RulesOf(Owner(w)) : ModuleOf[r] = call[w[1]].module /\ SlotOf[r] = w[2]}

\* Call c is in the handler, undoing its wraps.
Rolling(c) == call[c].pc \in {"restore", "undo"}

\* Call c put rule r into the dispatcher w, which was live.
Added(c, w, r) == \E x \in call[c].extended : x[1] = w /\ r \in x[2]

ServedInv ==
  /\ \A w \in Dispatchers : Answers(Owner(w), w) => BuiltFor(w) \subseteq served[w]
  /\ \A c \in Calls :
       /\ call[c].landed \subseteq Mine(c)
       /\ \A x \in call[c].extended :
            /\ ~At(x[1][1], "idle")
            /\ x[2] \subseteq call[c].landed
            /\ x[2] \cap BuiltFor(x[1]) = {}

\* What is being written was recorded before.
ClaimedInv ==
  \A c \in Calls : call[c].pc \in {"store", "stored"} =>
    \E e \in call[c].wrapped : e.wrapper = Built(c)

\* Call c is about to name r, which it put into w.
Naming(c, w, r) ==
  \/ /\ w[1] = c /\ ~call[c].failed
     /\ \/ r \in call[c].landed
        \/ call[c].pc \in {"store", "stored"} /\ r \in RulesAt(c)
  \/ Added(c, w, r) /\ (call[c].failed => Rolling(c))

NamedInv ==
  \A w \in Dispatchers : \A r \in served[w] :
    \/ call[w[1]].failed \/ Owner(w) \in uninstalled
    \/ r \in applied[Owner(w)]
    \/ \E c \in Calls : Running(c) /\ call[c].patcher = Owner(w) /\ Naming(c, w, r)

\* Dispatcher w keeps r from being lost: it is in the ledger, or on its way
\* there, or it went down with a call that did not bring r.
Serves(w, r) ==
  /\ Owner(w) = OwnerOf[r] /\ r \in served[w] /\ ~At(w[1], "idle")
  /\ \/ \E e \in ledger[OwnerOf[r]] : e.wrapper = w
     \/ /\ \E e \in call[w[1]].wrapped : e.wrapper = w
        /\ r \in call[w[1]].landed \/ ModuleOf[r] # call[w[1]].module
     \/ call[w[1]].failed /\ ModuleOf[r] # call[w[1]].module

AccountInv ==
  \A r \in Rules : OwnerOf[r] \notin uninstalled =>
    \/ r \in pending[OwnerOf[r]]
    \/ \E c \in Calls :
         Rolling(c) /\ call[c].patcher = OwnerOf[r] /\ r \in call[c].landed
    \/ \E w \in Dispatchers : Serves(w, r)

RulesInv == ServedInv /\ ClaimedInv /\ NamedInv /\ AccountInv

\* A step that moves no rule.
Plain(c) ==
  /\ Steady(c) /\ UNCHANGED <<served, pending, applied, uninstalled>>
  /\ Running(c) /\ call'[c].pc \notin {"idle", "done"}
  /\ call'[c].landed = call[c].landed /\ call'[c].extended = call[c].extended
  /\ call[c].failed => call'[c].failed
  /\ call'[c].failed => Rolling(c)' \/ (call[c].failed /\ ~Rolling(c))
  /\ call[c].pc \in {"store", "stored"} =>
       call'[c].failed \/ (call'[c].pc \in {"store", "stored"} /\ call'[c].cur = call[c].cur)
  /\ call'[c].pc \in {"store", "stored"} =>
       call[c].pc \in {"store", "stored"} /\ call'[c].cur = call[c].cur
  /\ Rolling(c) => Rolling(c)'
  /\ \A p \in Patchers : ledger[p] \subseteq ledger'[p]
  /\ \A p \in Patchers, w \in Dispatchers : Answers(p, w)' => Answers(p, w)
  /\ call'[c].wrapped = call[c].wrapped \/ Rolling(c)

\* The dispatcher that a call extends is answered for, and where it belongs.
Extends(c, w) ==
  /\ Extend(c, w) /\ call[c].pc \in {"decide", "check"}
  /\ LiveOwner(w) = call[c].patcher /\ w[2] = call[c].cur

LEMMA FailIsPlain ==
  ASSUME IInv, Books, NEW c \in Calls, Fails(c), call[c].pc \in Installing,
         UNCHANGED <<ledger, inflight, served, pending, applied, uninstalled>>
  PROVE  Plain(c)
<1>1. Running(c) /\ ~Rolling(c)
  BY DEF Installing, Running, At, Rolling
<1>2. \A p \in Patchers, w \in Dispatchers : Answers(p, w)' <=> Answers(p, w)
  BY DEF Answers
<1> QED BY <1>1, <1>2 DEF Fails, SameWork, Plain, At, Rolling

LEMMA GoesIsPlain ==
  ASSUME IInv, Books, NEW c \in Calls, NEW label, Goes(c, label),
         call[c].pc \in Installing, label \in Installing \cup {"publish"},
         label \in {"store", "stored"} => call[c].pc \in {"store", "stored"},
         call[c].pc \in {"store", "stored"} => label \in {"store", "stored"},
         label \in {"store", "stored"} => call'[c].cur = call[c].cur,
         UNCHANGED <<ledger, inflight, served, pending, applied, uninstalled>>
  PROVE  Plain(c)
<1>1. Running(c) /\ ~Rolling(c) /\ ~call[c].failed
  BY DEF Installing, Running, At, Rolling, Books, LoopInv
<1>2. \A p \in Patchers, w \in Dispatchers : Answers(p, w)' <=> Answers(p, w)
  BY DEF Answers
<1> QED BY <1>1, <1>2 DEF Goes, SameWork, Plain, At, Rolling, Installing

LEMMA PlainCases ==
  ASSUME IInv, Books, NEW c \in Calls, Step(c)
  PROVE  \/ Plain(c)
         \/ \E w \in Dispatchers : Extends(c, w)
         \/ At(c, "check") /\ Claim(c)
         \/ Land(c) \/ Unwind(c) \/ Return(c)
<1>0. TypeOK
  BY DEF IInv
<1>1. ASSUME NEW s \in Slots, Read(c, s) PROVE Plain(c)
  <2>1. Goes(c, "next") \/ Goes(c, "decide")
    BY <1>0, <1>1, ReadEffect
  <2> QED BY <1>1, <2>1, GoesIsPlain DEF Read, At, Rolling, Installing, sharedVars, historyVars
<1>2. CASE Decide(c)
  <2>1. CASE LiveOwner(call[c].live) = call[c].patcher /\ Extend(c, call[c].live)
    <3>1. PICK w : w = call[c].live
      OBVIOUS
    <3>2. w \in Dispatchers
      BY <1>0, <2>1, <3>1, CallIsTyped, LiveOwnerOwns
    <3>3. w[2] = call[c].cur
      BY <1>2, <3>1, <3>2 DEF Decide, At, Rolling, Books, HomeInv
    <3> QED BY <1>2, <2>1, <3>1, <3>2, <3>3 DEF Extends, Decide, At, Rolling
  <2>2. CASE call' = Goto(c, "reserve") /\ UNCHANGED <<sharedVars, historyVars>>
    BY <1>0, <1>2, <2>2, GotoEffect, GoesIsPlain DEF Decide, At, Rolling, Installing, sharedVars, historyVars
  <2>3. CASE call' = Fail(c) /\ UNCHANGED <<sharedVars, historyVars>>
    BY <1>0, <1>2, <2>3, FailEffect, FailIsPlain DEF Decide, At, Rolling, Installing, sharedVars, historyVars
  <2> QED BY <1>2, <2>1, <2>2, <2>3 DEF Decide
<1>3. CASE Reserve(c)
  <2>1. Fails(c) \/ Goes(c, "settle")
    BY <1>0, <1>3, ReserveEffect
  <2> QED BY <1>3, <2>1, FailIsPlain, GoesIsPlain DEF Reserve, At, Rolling, Installing, historyVars
<1>4. CASE Settle(c)
  <2>1. Goes(c, "next") \/ Goes(c, "check")
    BY <1>0, <1>4, SettleEffect
  <2> QED BY <1>4, <2>1, GoesIsPlain DEF Settle, At, Rolling, Installing, sharedVars, historyVars
<1>5. CASE Check(c)
  <2>1. CASE LiveOwner(call[c].settled) = call[c].patcher /\ Extend(c, call[c].settled)
    <3>1. PICK w : w = call[c].settled
      OBVIOUS
    <3>2. w \in Dispatchers
      BY <1>0, <2>1, <3>1, CallIsTyped, LiveOwnerOwns
    <3>3. w[2] = call[c].cur
      BY <1>5, <3>1, <3>2 DEF Check, At, Rolling, Books, HomeInv
    <3> QED BY <1>5, <2>1, <3>1, <3>2, <3>3 DEF Extends, Check, At, Rolling
  <2>2. CASE Claim(c)
    BY <1>5, <2>2 DEF Check
  <2>3. CASE call' = Fail(c) /\ UNCHANGED <<sharedVars, historyVars>>
    BY <1>0, <1>5, <2>3, FailEffect, FailIsPlain DEF Check, At, Rolling, Installing, sharedVars, historyVars
  <2> QED BY <1>5, <2>1, <2>2, <2>3 DEF Check
<1>6. CASE Store(c)
  <2>1. Goes(c, "stored") /\ call'[c].cur = call[c].cur
    BY <1>0, <1>6, GotoEffect DEF Store
  <2> QED BY <1>6, <2>1, GoesIsPlain DEF Store, At, Rolling, Installing, historyVars
<1>7. CASE Raise(c)
  BY <1>0, <1>7, FailEffect, FailIsPlain DEF Raise, Installing, sharedVars, historyVars
<1>8. CASE Finish(c)
  <2>1. Goes(c, "publish")
    BY <1>0, <1>8, GotoEffect DEF Finish
  <2> QED BY <1>8, <2>1, GoesIsPlain DEF Finish, At, Rolling, Installing, sharedVars, historyVars
<1>9. ASSUME NEW e \in call[c].unvisited, RestoreEntry(c, e) PROVE Plain(c)
  <2>1. /\ Steady(c) /\ Rolling(c)' /\ Rolling(c) /\ call'[c].failed = call[c].failed
        /\ call'[c].landed = call[c].landed /\ call'[c].extended = call[c].extended
    BY <1>0, <1>9, RestoreEffect DEF Rolling
  <2>2. UNCHANGED <<reserved, ledger, inflight, served, pending, applied, uninstalled>>
    BY <1>9 DEF RestoreEntry, Look, PutBack, sharedVars, historyVars
  <2>3. \A p \in Patchers, w \in Dispatchers : Answers(p, w)' <=> Answers(p, w)
    BY <2>2 DEF Answers
  <2> QED BY <2>1, <2>2, <2>3 DEF Plain, Rolling, Running, At
<1>10. CASE Publish(c)
  <2>1. Goes(c, "handoff")
    BY <1>0, <1>10, GotoEffect DEF Publish
  <2>2. At(c, "publish") /\ Running(c) /\ call[c].patcher \in Patchers
    BY <1>0, <1>10, CallIsTyped DEF Publish, At, Rolling, Running
  <2>3. \A p \in Patchers :
          ledger'[p] = IF p = call[c].patcher THEN ledger[p] \cup call[c].wrapped ELSE ledger[p]
    BY <1>0, <1>10, <2>2 DEF Publish, TypeOK
  <2>4. \A e \in call[c].wrapped : e.wrapper \in inflight[call[c].patcher]
    BY <2>2 DEF Books, WrapsInv, At, Rolling
  <2>5. \A p \in Patchers, w \in Dispatchers : Answers(p, w)' => Answers(p, w)
    BY <1>10, <2>3, <2>4 DEF Publish, Answers
  <2> QED BY <1>10, <2>1, <2>2, <2>3, <2>5 DEF Publish, Plain, At, Rolling, Goes, SameWork, historyVars
<1>11. CASE Handoff(c)
  <2>1. Goes(c, "release")
    BY <1>0, <1>11, GotoEffect DEF Handoff
  <2>2. At(c, "handoff") /\ Running(c) /\ call[c].patcher \in Patchers
    BY <1>0, <1>11, CallIsTyped DEF Handoff, At, Rolling, Running
  <2>3. \A p \in Patchers : inflight'[p] \subseteq inflight[p]
    BY <1>0, <1>11, <2>2 DEF Handoff, TypeOK
  <2>4. \A p \in Patchers, w \in Dispatchers : Answers(p, w)' => Answers(p, w)
    BY <1>11, <2>3 DEF Handoff, Answers
  <2> QED BY <1>11, <2>1, <2>2, <2>4 DEF Handoff, Plain, At, Rolling, Goes, SameWork, historyVars
<1> QED BY <1>1, <1>2, <1>3, <1>4, <1>5, <1>6, <1>7, <1>8, <1>9, <1>10, <1>11 DEF Step

\* Which dispatcher was built for which rules does not change.
LEMMA BuiltForStays ==
  ASSUME NEW w \in Dispatchers, call'[w[1]].patcher = call[w[1]].patcher,
         call'[w[1]].module = call[w[1]].module
  PROVE  BuiltFor(w)' = BuiltFor(w) /\ Owner(w)' = Owner(w)
  BY DEF BuiltFor, Owner, RulesOf

\* Nobody answers for a dispatcher of a call that has not started.
LEMMA AnsweredHasStarted ==
  ASSUME IInv, Books, NEW p \in Patchers, NEW w \in Dispatchers, Answers(p, w)
  PROVE  ~At(w[1], "idle") /\ Owner(w) = p
<1>1. w[1] \in Calls
  BY DEF Dispatchers
<1> QED BY <1>1 DEF Answers, Books, InflightInv, LedgerInv, Running, At, Rolling

LEMMA BuiltIsAnswered ==
  ASSUME IInv, Books, NEW c \in Calls, NEW e \in call[c].wrapped
  PROVE  /\ e.wrapper \in Dispatchers /\ e.wrapper[1] = c /\ e.wrapper[2] = e.slot
         /\ Answers(call[c].patcher, e.wrapper)
<1>1. call[c].patcher \in Patchers /\ e \in Entry
  BY CallIsTyped DEF IInv, Locals
<1>2. e.wrapper = <<c, e.slot>> /\ e.wrapper \in Dispatchers
  BY <1>1 DEF Books, WrapsInv, Entry
<1>3. e.wrapper \in inflight[call[c].patcher] \/ e \in ledger[call[c].patcher]
  BY DEF Books, WrapsInv, At, Rolling
<1> QED BY <1>2, <1>3 DEF Answers

LEMMA PlainKeepsRules ==
  ASSUME IInv, Books, RulesInv, NEW c \in Calls, Plain(c)
  PROVE  RulesInv'
<1>1. /\ \A d \in Calls \ {c} : call'[d] = call[d]
      /\ \A d \in Calls : /\ call'[d].patcher = call[d].patcher
                          /\ call'[d].module = call[d].module
                          /\ call'[d].landed = call[d].landed
                          /\ call'[d].extended = call[d].extended
      /\ UNCHANGED <<served, pending, applied, uninstalled>>
  BY DEF Plain, Steady
<1>2. \A w \in Dispatchers : w[1] \in Calls
  BY DEF Dispatchers
<1>3. \A w \in Dispatchers : BuiltFor(w)' = BuiltFor(w) /\ Owner(w)' = Owner(w)
  BY <1>1, <1>2, BuiltForStays
<1>4. \A d \in Calls : /\ Running(d)' <=> Running(d)
                       /\ At(d, "idle")' <=> At(d, "idle")
                       /\ Rolling(d) => Rolling(d)'
                       /\ call[d].failed => call'[d].failed
  BY <1>1 DEF Plain, Running, At, Rolling
<1>5. \A d \in Calls : \A x \in call[d].extended : x[1] \in Dispatchers
  BY CallIsTyped DEF IInv, Locals
<1>6. ServedInv'
  <2>1. \A w \in Dispatchers : Answers(Owner(w), w)' => Answers(Owner(w), w)
    <3>1. \A w \in Dispatchers : Owner(w) \in Patchers
      BY <1>2, CallIsTyped DEF IInv, Owner
    <3>2. \A p \in Patchers, w \in Dispatchers : Answers(p, w)' => Answers(p, w)
      BY DEF Plain
    <3> QED BY <1>3, <3>1, <3>2 DEF Answers
  <2>2. \A d \in Calls : Mine(d)' = Mine(d)
    BY <1>1 DEF Mine, RulesOf
  <2>3. \A w \in Dispatchers : At(w[1], "idle")' <=> At(w[1], "idle")
    BY <1>2, <1>4
  <2> QED BY <1>1, <1>3, <1>5, <2>1, <2>2, <2>3 DEF RulesInv, ServedInv
<1>7. ClaimedInv'
  <2>1. ASSUME NEW d \in Calls, call'[d].pc \in {"store", "stored"}
        PROVE  \E e \in call'[d].wrapped : e.wrapper = Built(d)'
    <3>1. /\ call[d].pc \in {"store", "stored"} /\ call'[d].cur = call[d].cur
          /\ call'[d].wrapped = call[d].wrapped
      BY <1>1, <2>1 DEF Plain, At, Rolling
    <3> QED BY <3>1 DEF RulesInv, ClaimedInv, Built
  <2> QED BY <2>1 DEF ClaimedInv
<1>8. NamedInv'
  <2> SUFFICES ASSUME NEW w \in Dispatchers, NEW r \in served[w],
                      ~call'[w[1]].failed, Owner(w) \notin uninstalled,
                      r \notin applied[Owner(w)]
               PROVE  \E d \in Calls : Running(d)' /\ call'[d].patcher = Owner(w)
                                         /\ Naming(d, w, r)'
    BY <1>1, <1>3 DEF NamedInv
  <2>1. ~call[w[1]].failed
    BY <1>2, <1>4
  <2>2. PICK d \in Calls : Running(d) /\ call[d].patcher = Owner(w) /\ Naming(d, w, r)
    BY <2>1 DEF RulesInv, NamedInv
  <2>3. CASE d # c
    <3>1. Naming(d, w, r)'
      BY <1>1, <2>2, <2>3 DEF Naming, Added, RulesAt, Mine, RulesOf, At, Rolling
    <3> QED BY <1>1, <1>4, <2>2, <3>1
  <2>4. CASE d = c
    <3>1. CASE w[1] = c
      <4>1. ~call'[c].failed /\ ~call[c].failed
        BY <2>1, <3>1
      <4>2. CASE Added(c, w, r)
        BY <1>1, <1>4, <2>2, <2>4, <4>1, <4>2 DEF Naming, Added
      <4>3. CASE r \in call[c].landed
        BY <1>1, <1>4, <2>2, <2>4, <3>1, <4>1, <4>3 DEF Naming
      <4>4. CASE call[c].pc \in {"store", "stored"} /\ r \in RulesAt(c)
        <5>1. call'[c].pc \in {"store", "stored"} /\ call'[c].cur = call[c].cur
          BY <4>1, <4>4 DEF Plain
        <5>2. r \in RulesAt(c)'
          BY <1>1, <4>4, <5>1 DEF RulesAt, Mine, RulesOf
        <5> QED BY <1>1, <1>4, <2>2, <2>4, <3>1, <4>1, <5>1, <5>2 DEF Naming
      <4> QED BY <2>2, <2>4, <4>2, <4>3, <4>4 DEF Naming
    <3>2. CASE w[1] # c
      <4>1. Added(c, w, r) /\ (call[c].failed => Rolling(c))
        BY <2>2, <2>4, <3>2 DEF Naming
      <4>2. call'[c].failed => Rolling(c)'
        BY <4>1 DEF Plain
      <4> QED BY <1>1, <1>4, <2>2, <2>4, <4>1, <4>2 DEF Naming, Added, At, Rolling
    <3> QED BY <3>1, <3>2
  <2> QED BY <2>3, <2>4
<1>9. AccountInv'
  <2> SUFFICES ASSUME NEW r \in Rules, OwnerOf[r] \notin uninstalled
               PROVE  \/ r \in pending[OwnerOf[r]]
                      \/ \E d \in Calls : /\ Rolling(d)' /\ call'[d].patcher = OwnerOf[r]
                                          /\ r \in call'[d].landed
                      \/ \E w \in Dispatchers : Serves(w, r)'
    BY <1>1 DEF AccountInv
  <2>1. CASE r \in pending[OwnerOf[r]]
    BY <2>1
  <2>2. CASE \E d \in Calls :
               Rolling(d) /\ call[d].patcher = OwnerOf[r] /\ r \in call[d].landed
    BY <1>1, <1>4, <2>2
  <2>3. CASE \E w \in Dispatchers : Serves(w, r)
    <3>1. PICK w \in Dispatchers : Serves(w, r)
      BY <2>3
    <3>2. /\ Owner(w)' = OwnerOf[r] /\ r \in served'[w] /\ ~At(w[1], "idle")' /\ w[1] \in Calls
      BY <1>1, <1>2, <1>3, <1>4, <3>1 DEF Serves
    <3>3. CASE \E e \in ledger[OwnerOf[r]] : e.wrapper = w
      <4>1. ledger[OwnerOf[r]] \subseteq ledger'[OwnerOf[r]]
        BY RulesAssumption DEF Plain
      <4> QED BY <3>2, <3>3, <4>1 DEF Serves
    <3>4. CASE call[w[1]].failed /\ ModuleOf[r] # call[w[1]].module
      BY <1>1, <1>4, <3>2, <3>4 DEF Serves
    <3>5. CASE /\ \E e \in call[w[1]].wrapped : e.wrapper = w
               /\ r \in call[w[1]].landed \/ ModuleOf[r] # call[w[1]].module
      <4>1. CASE call'[w[1]].wrapped = call[w[1]].wrapped
        BY <1>1, <3>2, <3>5, <4>1 DEF Serves
      <4>2. CASE w[1] = c /\ Rolling(c)
        <5>1. call'[c].failed /\ Rolling(c)'
          BY <1>4, <4>2 DEF Books, LoopInv, Rolling
        <5>2. CASE r \in call[c].landed
          BY <1>1, <3>2, <4>2, <5>1, <5>2 DEF Owner
        <5>3. CASE ModuleOf[r] # call[c].module
          BY <1>1, <3>2, <4>2, <5>1, <5>3 DEF Serves
        <5> QED BY <3>5, <4>2, <5>2, <5>3
      <4> QED BY <1>1, <3>2, <4>1, <4>2 DEF Plain
    <3> QED BY <3>1, <3>3, <3>4, <3>5 DEF Serves
  <2> QED BY <2>1, <2>2, <2>3 DEF RulesInv, AccountInv
<1> QED BY <1>6, <1>7, <1>8, <1>9 DEF RulesInv

\* _extend_dispatcher: what joins was not built in, so that a rollback of the
\* extension never takes a dispatcher's own rules away.
LEMMA ExtendKeepsRules ==
  ASSUME IInv, Books, RulesInv, NEW c \in Calls, NEW w \in Dispatchers, Extends(c, w)
  PROVE  RulesInv'
<1> DEFINE added == RulesAt(c) \ served[w]
<1>1. /\ TypeOK /\ call[c].patcher \in Patchers /\ RulesAt(c) \subseteq Rules
      /\ call[c].pc \in {"decide", "check"} /\ ~call[c].failed
  BY CallIsTyped DEF IInv, Extends, Books, LoopInv, Installing
<1>2. /\ Steady(c) /\ call'[c].pc = "next"
      /\ call'[c].wrapped = call[c].wrapped /\ call'[c].failed = call[c].failed
      /\ call'[c].landed = call[c].landed \cup added
      /\ call'[c].extended = IF added = {} THEN call[c].extended
                             ELSE call[c].extended \cup {<<w, added>>}
  BY <1>1, ExtendEffect DEF Extends
<1>3. /\ \A d \in Calls \ {c} : call'[d] = call[d]
      /\ \A d \in Calls : /\ call'[d].patcher = call[d].patcher
                          /\ call'[d].module = call[d].module
                          /\ call'[d].wrapped = call[d].wrapped
                          /\ call'[d].failed = call[d].failed
                          /\ call[d].landed \subseteq call'[d].landed
                          /\ call[d].extended \subseteq call'[d].extended
      /\ UNCHANGED <<slot, ledger, inflight, applied, uninstalled>>
  <2>1. call[c].extended \subseteq call'[c].extended
    <3>1. CASE added = {}
      BY <1>2, <3>1
    <3>2. CASE added # {}
      BY <1>2, <3>2
    <3> QED BY <3>1, <3>2
  <2>2. UNCHANGED <<slot, ledger, inflight, applied, uninstalled>>
    BY DEF Extends, Extend, historyVars
  <2> HIDE DEF added
  <2> QED BY <1>2, <2>1, <2>2 DEF Steady
<1>4. /\ \A x \in Dispatchers : served'[x] = IF x = w THEN served[w] \cup added ELSE served[x]
      /\ \A p \in Patchers :
           pending'[p] = IF p = call[c].patcher THEN pending[p] \ added ELSE pending[p]
  BY <1>1 DEF Extends, Extend, TypeOK
<1>5. \A x \in Dispatchers : x[1] \in Calls
  BY DEF Dispatchers
<1>6. \A x \in Dispatchers : BuiltFor(x)' = BuiltFor(x) /\ Owner(x)' = Owner(x)
  BY <1>3, <1>5, BuiltForStays
<1>7. /\ Owner(w) = call[c].patcher /\ Answers(Owner(w), w) /\ ~At(w[1], "idle")
  <2>1. Owner(w) = call[c].patcher /\ Answers(Owner(w), w)
    BY <1>1, NobodyAssumption DEF Extends, LiveOwner
  <2> QED BY <1>1, <2>1, AnsweredHasStarted
<1>8. added \cap BuiltFor(w) = {} /\ added \subseteq Mine(c)
  BY <1>7 DEF RulesInv, ServedInv, RulesAt
<1>9. \A r \in added : OwnerOf[r] = call[c].patcher /\ ModuleOf[r] # call[w[1]].module
  <2>1. w[2] = call[c].cur
    BY DEF Extends
  <2> QED BY <1>7, <1>8, <2>1 DEF RulesAt, Mine, RulesOf, BuiltFor
<1>10. \A d \in Calls : /\ Running(d)' <=> Running(d)
                        /\ At(d, "idle")' <=> At(d, "idle")
                        /\ Rolling(d)' <=> Rolling(d)
  BY <1>1, <1>2, <1>3 DEF Running, At, Rolling
<1>11. \A d \in Calls : \A x \in call[d].extended : x[1] \in Dispatchers
  BY <1>1, CallIsTyped DEF Locals
<1>12. \A x \in call'[c].extended : x \in call[c].extended \/ x = <<w, added>>
  BY <1>2
<1> HIDE DEF added
<1>13. ServedInv'
  <2>1. \A x \in Dispatchers : Answers(Owner(x), x)' <=> Answers(Owner(x), x)
    BY <1>3, <1>6 DEF Answers
  <2>2. \A x \in Dispatchers : Answers(Owner(x), x)' => BuiltFor(x)' \subseteq served'[x]
    BY <1>4, <1>6, <2>1 DEF RulesInv, ServedInv
  <2>3. \A d \in Calls : Mine(d)' = Mine(d)
    BY <1>3 DEF Mine, RulesOf
  <2>4. \A d \in Calls : call'[d].landed \subseteq Mine(d)'
    BY <1>2, <1>3, <1>8, <2>3 DEF RulesInv, ServedInv
  <2>5. ASSUME NEW d \in Calls, NEW x \in call'[d].extended
        PROVE  /\ ~At(x[1][1], "idle")' /\ x[2] \subseteq call'[d].landed
               /\ x[2] \cap BuiltFor(x[1])' = {}
    <3>1. CASE x \in call[d].extended
      <4>1. x[1] \in Dispatchers /\ x[1][1] \in Calls
        BY <1>5, <1>11, <3>1
      <4> QED BY <1>3, <1>6, <1>10, <3>1, <4>1 DEF RulesInv, ServedInv
    <3>2. CASE d = c /\ x = <<w, added>>
      <4>1. x[1] = w /\ x[2] = added
        BY <3>2
      <4> QED BY <1>2, <1>5, <1>6, <1>7, <1>8, <1>10, <3>2, <4>1
    <3> QED BY <1>3, <1>12, <3>1, <3>2
  <2> QED BY <2>2, <2>4, <2>5 DEF ServedInv
<1>14. ClaimedInv'
  <2>1. \A d \in Calls : call'[d].pc \in {"store", "stored"} => d # c
    BY <1>2
  <2> QED BY <1>3, <2>1 DEF RulesInv, ClaimedInv, Built
<1>15. NamedInv'
  <2> SUFFICES ASSUME NEW x \in Dispatchers, NEW r \in served'[x],
                      ~call'[x[1]].failed, Owner(x) \notin uninstalled,
                      r \notin applied[Owner(x)]
               PROVE  \E d \in Calls : Running(d)' /\ call'[d].patcher = Owner(x)
                                         /\ Naming(d, x, r)'
    BY <1>3, <1>6 DEF NamedInv
  <2>1. Running(c) /\ Running(c)' /\ ~call'[c].failed
    BY <1>1, <1>2, <1>10 DEF Running, At, Rolling
  <2>2. CASE r \in served[x]
    <3>1. ~call[x[1]].failed
      BY <1>3, <1>5
    <3>2. PICK d \in Calls : Running(d) /\ call[d].patcher = Owner(x) /\ Naming(d, x, r)
      BY <2>2, <3>1 DEF RulesInv, NamedInv
    <3>3. CASE d # c
      <4>1. Naming(d, x, r)'
        BY <1>3, <3>2, <3>3 DEF Naming, Added, RulesAt, Mine, RulesOf, At, Rolling
      <4> QED BY <1>3, <1>10, <3>2, <4>1
    <3>4. CASE d = c
      <4>1. (x[1] = c /\ r \in call[c].landed) \/ Added(c, x, r)
        BY <1>1, <3>2, <3>4 DEF Naming
      <4>2. (x[1] = c /\ r \in call'[c].landed) \/ Added(c, x, r)'
        BY <1>3, <4>1 DEF Added
      <4> QED BY <1>3, <2>1, <3>2, <3>4, <4>2 DEF Naming
    <3> QED BY <3>3, <3>4
  <2>3. CASE x = w /\ r \in added
    <3>1. <<w, added>> \in call'[c].extended
      BY <1>2, <2>3
    <3>2. Added(c, x, r)'
      BY <2>3, <3>1 DEF Added
    <3> QED BY <1>3, <1>7, <2>1, <2>3, <3>2 DEF Naming
  <2> QED BY <1>4, <2>2, <2>3
<1>16. AccountInv'
  <2> SUFFICES ASSUME NEW r \in Rules, OwnerOf[r] \notin uninstalled
               PROVE  \/ r \in pending'[OwnerOf[r]]
                      \/ \E d \in Calls : /\ Rolling(d)' /\ call'[d].patcher = OwnerOf[r]
                                          /\ r \in call'[d].landed
                      \/ \E x \in Dispatchers : Serves(x, r)'
    BY <1>3 DEF AccountInv
  <2>1. CASE r \in added
    <3>1. /\ Owner(w)' = OwnerOf[r] /\ r \in served'[w] /\ ~At(w[1], "idle")'
      BY <1>4, <1>5, <1>6, <1>7, <1>9, <1>10, <2>1
    <3>2. CASE w \in inflight[Owner(w)]
      <4>1. call[w[1]].failed \/ \E e \in call[w[1]].wrapped : e.wrapper = w
        BY <1>1, <1>7, <3>2 DEF Books, InflightInv
      <4> QED BY <1>3, <1>5, <1>9, <2>1, <3>1, <4>1 DEF Serves
    <3>3. CASE \E e \in ledger[Owner(w)] : e.wrapper = w
      BY <1>3, <1>6, <3>1, <3>3 DEF Serves
    <3> QED BY <1>7, <3>2, <3>3 DEF Answers
  <2>2. CASE r \notin added /\ r \in pending[OwnerOf[r]]
    BY <1>4, <2>2, RulesAssumption
  <2>3. CASE \E d \in Calls :
               Rolling(d) /\ call[d].patcher = OwnerOf[r] /\ r \in call[d].landed
    BY <1>3, <1>10, <2>3
  <2>4. CASE \E x \in Dispatchers : Serves(x, r)
    <3>1. PICK x \in Dispatchers : Serves(x, r)
      BY <2>4
    <3>2. x[1] \in Calls /\ r \in served'[x] /\ Owner(x)' = Owner(x)
      BY <1>4, <1>5, <1>6, <3>1 DEF Serves
    <3> QED BY <1>3, <1>10, <3>1, <3>2 DEF Serves
  <2> QED BY <2>1, <2>2, <2>3, <2>4 DEF RulesInv, AccountInv
<1> QED BY <1>13, <1>14, <1>15, <1>16 DEF RulesInv

\* The claim of a slot: the dispatcher serves what it was built for.
LEMMA ClaimKeepsRules ==
  ASSUME IInv, Books, RulesInv, NEW c \in Calls, At(c, "check"), Claim(c)
  PROVE  RulesInv'
<1> DEFINE entry == [slot |-> call[c].cur, live |-> call[c].live, wrapper |-> Built(c)]
<1>1. /\ TypeOK /\ call[c].patcher \in Patchers /\ ~call[c].failed
      /\ call[c].cur \in call[c].todo /\ Built(c) \in Dispatchers
      /\ Built(c)[1] = c /\ Built(c)[2] = call[c].cur
  BY CallIsTyped DEF IInv, Books, LoopInv, Installing, At, Rolling, Built
<1>2. /\ Steady(c) /\ call'[c].pc = "store" /\ call'[c].failed = call[c].failed
      /\ call'[c].wrapped = call[c].wrapped \cup {entry}
      /\ call'[c].cur = call[c].cur
      /\ call'[c].landed = call[c].landed /\ call'[c].extended = call[c].extended
  BY <1>1, ClaimEffect
<1>3. entry.wrapper = Built(c)
  OBVIOUS
<1> HIDE DEF entry
<1>4. /\ \A d \in Calls \ {c} : call'[d] = call[d]
      /\ \A d \in Calls : /\ call'[d].patcher = call[d].patcher
                          /\ call'[d].module = call[d].module
                          /\ call'[d].failed = call[d].failed
                          /\ call'[d].landed = call[d].landed
                          /\ call'[d].extended = call[d].extended
                          /\ call[d].wrapped \subseteq call'[d].wrapped
      /\ UNCHANGED <<slot, ledger, pending, applied, uninstalled>>
  BY <1>2 DEF Steady, Claim, historyVars
<1>5. /\ \A x \in Dispatchers :
           served'[x] = IF x = Built(c) THEN RulesAt(c) ELSE served[x]
      /\ \A p \in Patchers : \A x : x \in inflight'[p] => x \in inflight[p] \/ x = Built(c)
  BY <1>1 DEF Claim, TypeOK
<1>6. \A x \in Dispatchers : x[1] \in Calls
  BY DEF Dispatchers
<1>7. \A x \in Dispatchers : BuiltFor(x)' = BuiltFor(x) /\ Owner(x)' = Owner(x)
  BY <1>4, <1>6, BuiltForStays
<1>8. \A d \in Calls : /\ Running(d)' <=> Running(d)
                       /\ At(d, "idle")' <=> At(d, "idle")
                       /\ Rolling(d)' <=> Rolling(d)
  BY <1>2, <1>4 DEF Running, At, Rolling
<1>9. \A d \in Calls : \A x \in call[d].extended : x[1] \in Dispatchers
  BY <1>1, CallIsTyped DEF Locals
<1>10. served[Built(c)] = {}
  BY <1>1 DEF Books, FreshInv, ToBuild, Installing, At, Rolling
<1>11. RulesAt(c) = BuiltFor(Built(c)) /\ Owner(Built(c)) = call[c].patcher
  BY <1>1 DEF RulesAt, Mine, RulesOf, BuiltFor, Owner
<1>12. ServedInv'
  <2>1. ASSUME NEW x \in Dispatchers, Answers(Owner(x), x)'
        PROVE  BuiltFor(x)' \subseteq served'[x]
    <3>1. CASE x = Built(c)
      BY <1>5, <1>7, <1>11, <3>1
    <3>2. CASE x # Built(c)
      <4>1. Owner(x) \in Patchers
        BY <1>1, <1>6, CallIsTyped DEF Owner
      <4>2. Answers(Owner(x), x)
        BY <1>4, <1>5, <1>7, <2>1, <3>2, <4>1 DEF Answers
      <4> QED BY <1>5, <1>7, <3>2, <4>2 DEF RulesInv, ServedInv
    <3> QED BY <3>1, <3>2
  <2>2. \A d \in Calls : Mine(d)' = Mine(d)
    BY <1>4 DEF Mine, RulesOf
  <2>3. \A x \in Dispatchers : At(x[1], "idle")' <=> At(x[1], "idle")
    BY <1>6, <1>8
  <2> QED BY <1>4, <1>7, <1>9, <2>1, <2>2, <2>3 DEF RulesInv, ServedInv
<1>13. ClaimedInv'
  <2> SUFFICES ASSUME NEW d \in Calls, call'[d].pc \in {"store", "stored"}
               PROVE  \E e \in call'[d].wrapped : e.wrapper = Built(d)'
    BY DEF ClaimedInv
  <2>1. CASE d = c
    <3>1. entry \in call'[c].wrapped /\ Built(c)' = Built(c)
      BY <1>2 DEF Built
    <3> QED BY <1>3, <2>1, <3>1
  <2>2. CASE d # c
    BY <1>4, <2>2 DEF RulesInv, ClaimedInv, Built
  <2> QED BY <2>1, <2>2
<1>14. NamedInv'
  <2> SUFFICES ASSUME NEW x \in Dispatchers, NEW r \in served'[x],
                      ~call'[x[1]].failed, Owner(x) \notin uninstalled,
                      r \notin applied[Owner(x)]
               PROVE  \E d \in Calls : Running(d)' /\ call'[d].patcher = Owner(x)
                                         /\ Naming(d, x, r)'
    BY <1>4, <1>7 DEF NamedInv
  <2>1. Running(c)' /\ ~call'[c].failed
    BY <1>1, <1>2 DEF Running, At, Rolling
  <2>2. CASE x = Built(c)
    <3>1. r \in RulesAt(c)'
      <4>1. r \in RulesAt(c)
        BY <1>1, <1>5, <2>2
      <4>2. /\ call'[c].cur = call[c].cur /\ call'[c].patcher = call[c].patcher
            /\ call'[c].module = call[c].module
        BY <1>2, <1>4
      <4> QED BY <4>1, <4>2 DEF RulesAt, Mine, RulesOf
    <3> QED BY <1>1, <1>2, <1>4, <1>11, <2>1, <2>2, <3>1 DEF Naming
  <2>3. CASE x # Built(c)
    <3>1. ~call[x[1]].failed /\ r \in served[x]
      BY <1>4, <1>5, <1>6, <2>3
    <3>2. PICK d \in Calls : Running(d) /\ call[d].patcher = Owner(x) /\ Naming(d, x, r)
      BY <3>1 DEF RulesInv, NamedInv
    <3>3. CASE d # c
      <4>1. Naming(d, x, r)'
        BY <1>4, <3>2, <3>3 DEF Naming, Added, RulesAt, Mine, RulesOf, At, Rolling
      <4> QED BY <1>4, <1>8, <3>2, <4>1
    <3>4. CASE d = c
      <4>1. (x[1] = c /\ r \in call[c].landed) \/ Added(c, x, r)
        BY <3>2, <3>4 DEF Naming, At, Rolling
      <4>2. (x[1] = c /\ r \in call'[c].landed) \/ Added(c, x, r)'
        BY <1>4, <4>1 DEF Added
      <4> QED BY <1>4, <2>1, <3>2, <3>4, <4>2 DEF Naming
    <3> QED BY <3>3, <3>4
  <2> QED BY <2>2, <2>3
<1>15. AccountInv'
  <2> SUFFICES ASSUME NEW r \in Rules, OwnerOf[r] \notin uninstalled
               PROVE  \/ r \in pending[OwnerOf[r]]
                      \/ \E d \in Calls : /\ Rolling(d)' /\ call'[d].patcher = OwnerOf[r]
                                          /\ r \in call'[d].landed
                      \/ \E x \in Dispatchers : Serves(x, r)'
    BY <1>4 DEF AccountInv
  <2>1. CASE r \in pending[OwnerOf[r]]
    BY <2>1
  <2>2. CASE \E d \in Calls :
               Rolling(d) /\ call[d].patcher = OwnerOf[r] /\ r \in call[d].landed
    BY <1>4, <1>8, <2>2
  <2>3. CASE \E x \in Dispatchers : Serves(x, r)
    <3>1. PICK x \in Dispatchers : Serves(x, r)
      BY <2>3
    <3>2. x[1] \in Calls /\ r \in served'[x] /\ Owner(x)' = Owner(x)
      BY <1>5, <1>6, <1>7, <1>10, <3>1 DEF Serves
    <3> QED BY <1>4, <1>8, <3>1, <3>2 DEF Serves
  <2> QED BY <2>1, <2>2, <2>3 DEF RulesInv, AccountInv
<1> QED BY <1>12, <1>13, <1>14, <1>15 DEF RulesInv

LEMMA LandKeepsRules ==
  ASSUME IInv, Books, RulesInv, NEW c \in Calls, Land(c)
  PROVE  RulesInv'
<1>1. /\ TypeOK /\ call[c].patcher \in Patchers /\ ~call[c].failed /\ At(c, "stored")
  BY CallIsTyped DEF IInv, Land, Books, LoopInv, Installing, At, Rolling
<1>2. /\ Steady(c) /\ call'[c].pc = "next"
      /\ call'[c].wrapped = call[c].wrapped /\ call'[c].failed = call[c].failed
      /\ call'[c].landed = call[c].landed \cup RulesAt(c)
      /\ call'[c].extended = call[c].extended
  BY <1>1, LandEffect
<1>3. /\ \A d \in Calls \ {c} : call'[d] = call[d]
      /\ \A d \in Calls : /\ call'[d].patcher = call[d].patcher
                          /\ call'[d].module = call[d].module
                          /\ call'[d].failed = call[d].failed
                          /\ call'[d].wrapped = call[d].wrapped
                          /\ call'[d].extended = call[d].extended
                          /\ call[d].landed \subseteq call'[d].landed
      /\ UNCHANGED <<slot, ledger, inflight, served, applied, uninstalled>>
  BY <1>2 DEF Steady, Land, historyVars
<1>4. \A p \in Patchers :
        pending'[p] = IF p = call[c].patcher THEN pending[p] \ RulesAt(c) ELSE pending[p]
  BY <1>1 DEF Land, TypeOK
<1>5. \A x \in Dispatchers : x[1] \in Calls
  BY DEF Dispatchers
<1>6. \A x \in Dispatchers : BuiltFor(x)' = BuiltFor(x) /\ Owner(x)' = Owner(x)
  BY <1>3, <1>5, BuiltForStays
<1>7. \A d \in Calls : /\ Running(d)' <=> Running(d)
                       /\ At(d, "idle")' <=> At(d, "idle")
                       /\ Rolling(d)' <=> Rolling(d)
  BY <1>1, <1>2, <1>3 DEF Running, At, Rolling
<1>8. \A d \in Calls : \A x \in call[d].extended : x[1] \in Dispatchers
  BY <1>1, CallIsTyped DEF Locals
<1>9. ServedInv'
  <2>1. \A x \in Dispatchers : Answers(Owner(x), x)' <=> Answers(Owner(x), x)
    BY <1>3, <1>6 DEF Answers
  <2>2. \A d \in Calls : Mine(d)' = Mine(d)
    BY <1>3 DEF Mine, RulesOf
  <2>3. RulesAt(c) \subseteq Mine(c)
    BY DEF RulesAt
  <2>4. \A d \in Calls : call'[d].landed \subseteq Mine(d)'
    BY <1>2, <1>3, <2>2, <2>3 DEF RulesInv, ServedInv
  <2>5. \A x \in Dispatchers : At(x[1], "idle")' <=> At(x[1], "idle")
    BY <1>5, <1>7
  <2> QED BY <1>3, <1>6, <1>8, <2>1, <2>4, <2>5 DEF RulesInv, ServedInv
<1>10. ClaimedInv'
  <2>1. \A d \in Calls : call'[d].pc \in {"store", "stored"} => d # c
    BY <1>2
  <2> QED BY <1>3, <2>1 DEF RulesInv, ClaimedInv, Built
<1>11. NamedInv'
  <2> SUFFICES ASSUME NEW x \in Dispatchers, NEW r \in served[x],
                      ~call'[x[1]].failed, Owner(x) \notin uninstalled,
                      r \notin applied[Owner(x)]
               PROVE  \E d \in Calls : Running(d)' /\ call'[d].patcher = Owner(x)
                                         /\ Naming(d, x, r)'
    BY <1>3, <1>6 DEF NamedInv
  <2>1. PICK d \in Calls : Running(d) /\ call[d].patcher = Owner(x) /\ Naming(d, x, r)
    BY <1>3, <1>5 DEF RulesInv, NamedInv
  <2>2. CASE d # c
    <3>1. Naming(d, x, r)'
      BY <1>3, <2>1, <2>2 DEF Naming, Added, RulesAt, Mine, RulesOf, At, Rolling
    <3> QED BY <1>3, <1>7, <2>1, <3>1
  <2>3. CASE d = c
    <3>1. (x[1] = c /\ r \in call'[c].landed) \/ Added(c, x, r)
      BY <1>2, <2>1, <2>3 DEF Naming
    <3>2. Added(c, x, r) => Added(c, x, r)'
      BY <1>3 DEF Added
    <3>3. ~call'[c].failed
      BY <1>1, <1>2
    <3> QED BY <1>3, <1>7, <2>1, <2>3, <3>1, <3>2, <3>3 DEF Naming
  <2> QED BY <2>2, <2>3
<1>12. AccountInv'
  <2> SUFFICES ASSUME NEW r \in Rules, OwnerOf[r] \notin uninstalled
               PROVE  \/ r \in pending'[OwnerOf[r]]
                      \/ \E d \in Calls : /\ Rolling(d)' /\ call'[d].patcher = OwnerOf[r]
                                          /\ r \in call'[d].landed
                      \/ \E x \in Dispatchers : Serves(x, r)'
    BY <1>3 DEF AccountInv
  <2>1. CASE r \in RulesAt(c)
    <3>1. PICK e \in call[c].wrapped : e.wrapper = Built(c)
      BY <1>1 DEF RulesInv, ClaimedInv, At, Rolling
    <3>2. /\ e.wrapper \in Dispatchers /\ e.wrapper[1] = c
          /\ Answers(call[c].patcher, e.wrapper)
      BY BuiltIsAnswered
    <3>3. /\ OwnerOf[r] = call[c].patcher /\ Owner(e.wrapper) = call[c].patcher
          /\ r \in BuiltFor(e.wrapper)
      BY <2>1, <3>1, <3>2 DEF RulesAt, Mine, RulesOf, BuiltFor, Owner, Built
    <3>4. r \in served[e.wrapper]
      BY <3>2, <3>3 DEF RulesInv, ServedInv
    <3>5. ~At(c, "idle")' /\ r \in call'[c].landed /\ e \in call'[c].wrapped
      BY <1>2, <2>1 DEF At, Rolling
    <3>6. PICK w \in Dispatchers : w = e.wrapper
      BY <3>2
    <3>7. Serves(w, r)'
      BY <1>3, <1>6, <3>2, <3>3, <3>4, <3>5, <3>6 DEF Serves
    <3> QED BY <3>7
  <2>2. CASE r \notin RulesAt(c) /\ r \in pending[OwnerOf[r]]
    BY <1>4, <2>2, RulesAssumption
  <2>3. CASE \E d \in Calls :
               Rolling(d) /\ call[d].patcher = OwnerOf[r] /\ r \in call[d].landed
    BY <1>3, <1>7, <2>3
  <2>4. CASE \E x \in Dispatchers : Serves(x, r)
    <3>1. PICK x \in Dispatchers : Serves(x, r)
      BY <2>4
    <3>2. x[1] \in Calls /\ Owner(x)' = Owner(x)
      BY <1>5, <1>6
    <3> QED BY <1>3, <1>7, <3>1, <3>2 DEF Serves
  <2> QED BY <2>1, <2>2, <2>3, <2>4 DEF RulesInv, AccountInv
<1> QED BY <1>9, <1>10, <1>11, <1>12 DEF RulesInv

\* The handler: what was landed is pending again, and what was added is taken
\* out.  Nothing a dispatcher was built for is among the latter.
LEMMA UnwindKeepsRules ==
  ASSUME IInv, Books, RulesInv, NEW c \in Calls, Unwind(c)
  PROVE  RulesInv'
<1>1. TypeOK /\ Rolling(c) /\ call[c].failed /\ call[c].patcher \in Patchers
  BY CallIsTyped DEF IInv, Unwind, Books, LoopInv, Rolling, At
<1>2. Goes(c, "publish") /\ call'[c].cur = call[c].cur
  BY <1>1, GotoEffect DEF Unwind
<1>3. /\ \A d \in Calls \ {c} : call'[d] = call[d]
      /\ \A d \in Calls : /\ call'[d].patcher = call[d].patcher
                          /\ call'[d].module = call[d].module
                          /\ call'[d].failed = call[d].failed
                          /\ call'[d].wrapped = call[d].wrapped
                          /\ call'[d].extended = call[d].extended
                          /\ call'[d].landed = call[d].landed
      /\ UNCHANGED <<slot, ledger, inflight, applied, uninstalled>>
  BY <1>2 DEF Steady, Goes, SameWork, Unwind, historyVars
<1>4. \A w \in Dispatchers, r \in Rules :
        r \in served'[w] <=> r \in served[w] /\ ~Added(c, w, r)
  <2>1. \A w \in Dispatchers, r \in Rules : r \in Additions(c, w) <=> Added(c, w, r)
    BY DEF Additions, Added
  <2> QED BY <2>1 DEF Unwind
<1>5. \A w \in Dispatchers : w[1] \in Calls /\ served[w] \subseteq Rules /\ served'[w] \subseteq Rules
  BY <1>1 DEF Dispatchers, TypeOK, Unwind
<1>6. \A w \in Dispatchers : BuiltFor(w)' = BuiltFor(w) /\ Owner(w)' = Owner(w)
  BY <1>3, <1>5, BuiltForStays
<1>7. \A d \in Calls : /\ Running(d)' <=> Running(d)
                       /\ At(d, "idle")' <=> At(d, "idle")
                       /\ d # c => (Rolling(d)' <=> Rolling(d))
  BY <1>1, <1>2, <1>3 DEF Running, At, Rolling, Goes
<1>8. \A d \in Calls : \A x \in call[d].extended : x[1] \in Dispatchers
  BY <1>1, CallIsTyped DEF Locals
<1>9. ServedInv'
  <2>1. \A w \in Dispatchers : Answers(Owner(w), w)' <=> Answers(Owner(w), w)
    BY <1>3, <1>6 DEF Answers
  <2>2. ASSUME NEW w \in Dispatchers, Answers(Owner(w), w), NEW r \in BuiltFor(w)
        PROVE  r \in served'[w]
    <3>1. ~Added(c, w, r)
      BY <2>2 DEF Added, RulesInv, ServedInv
    <3>2. r \in served[w] /\ r \in Rules
      BY <2>2 DEF RulesInv, ServedInv, BuiltFor, RulesOf
    <3> QED BY <1>4, <3>1, <3>2
  <2>3. \A w \in Dispatchers : Answers(Owner(w), w)' => BuiltFor(w)' \subseteq served'[w]
    BY <1>6, <2>1, <2>2
  <2>4. \A d \in Calls : Mine(d)' = Mine(d)
    BY <1>3 DEF Mine, RulesOf
  <2>5. \A w \in Dispatchers : At(w[1], "idle")' <=> At(w[1], "idle")
    BY <1>5, <1>7
  <2> QED BY <1>3, <1>6, <1>8, <2>3, <2>4, <2>5 DEF RulesInv, ServedInv
<1>10. ClaimedInv'
  <2>1. \A d \in Calls : call'[d].pc \in {"store", "stored"} => d # c
    BY <1>2 DEF Goes
  <2> QED BY <1>3, <2>1 DEF RulesInv, ClaimedInv, Built
<1>11. NamedInv'
  <2> SUFFICES ASSUME NEW w \in Dispatchers, NEW r \in served'[w],
                      ~call'[w[1]].failed, Owner(w) \notin uninstalled,
                      r \notin applied[Owner(w)]
               PROVE  \E d \in Calls : Running(d)' /\ call'[d].patcher = Owner(w)
                                         /\ Naming(d, w, r)'
    BY <1>3, <1>6 DEF NamedInv
  <2>1. r \in served[w] /\ ~Added(c, w, r) /\ ~call[w[1]].failed
    BY <1>3, <1>4, <1>5
  <2>2. PICK d \in Calls : Running(d) /\ call[d].patcher = Owner(w) /\ Naming(d, w, r)
    BY <2>1 DEF RulesInv, NamedInv
  <2>3. d # c
    BY <1>1, <2>1, <2>2 DEF Naming
  <2>4. Naming(d, w, r)'
    BY <1>3, <2>2, <2>3 DEF Naming, Added, RulesAt, Mine, RulesOf, At, Rolling
  <2> QED BY <1>3, <1>7, <2>2, <2>4
<1>12. AccountInv'
  <2> SUFFICES ASSUME NEW r \in Rules, OwnerOf[r] \notin uninstalled
               PROVE  \/ r \in pending'[OwnerOf[r]]
                      \/ \E d \in Calls : /\ Rolling(d)' /\ call'[d].patcher = OwnerOf[r]
                                          /\ r \in call'[d].landed
                      \/ \E w \in Dispatchers : Serves(w, r)'
    BY <1>3 DEF AccountInv
  <2>1. \A p \in Patchers :
          pending'[p] = IF p = call[c].patcher THEN pending[p] \cup call[c].landed ELSE pending[p]
    BY <1>1 DEF Unwind, TypeOK
  <2>2. OwnerOf[r] \in Patchers
    BY RulesAssumption
  <2>3. CASE r \in call[c].landed
    <3>1. OwnerOf[r] = call[c].patcher
      BY <2>3 DEF RulesInv, ServedInv, Mine, RulesOf
    <3> QED BY <2>1, <2>2, <2>3, <3>1
  <2>4. CASE r \in pending[OwnerOf[r]]
    BY <2>1, <2>2, <2>4
  <2>5. CASE /\ r \notin call[c].landed
             /\ \E d \in Calls :
                  Rolling(d) /\ call[d].patcher = OwnerOf[r] /\ r \in call[d].landed
    BY <1>3, <1>7, <2>5
  <2>6. CASE r \notin call[c].landed /\ \E w \in Dispatchers : Serves(w, r)
    <3>1. PICK w \in Dispatchers : Serves(w, r)
      BY <2>6
    <3>2. ~Added(c, w, r)
      BY <2>6 DEF Added, RulesInv, ServedInv
    <3>3. w[1] \in Calls /\ r \in served'[w] /\ Owner(w)' = Owner(w)
      BY <1>4, <1>5, <1>6, <3>1, <3>2 DEF Serves
    <3> QED BY <1>3, <1>7, <3>1, <3>3 DEF Serves
  <2> QED BY <2>3, <2>4, <2>5, <2>6 DEF RulesInv, AccountInv
<1> QED BY <1>9, <1>10, <1>11, <1>12 DEF RulesInv

\* A call that returns names what it landed, unless it failed.
LEMMA ReturnKeepsRules ==
  ASSUME IInv, Books, RulesInv, NEW c \in Calls, Return(c)
  PROVE  RulesInv'
<1>1. TypeOK /\ At(c, "release") /\ Running(c) /\ call[c].patcher \in Patchers
  BY CallIsTyped DEF IInv, Return, At, Rolling, Running
<1>2. /\ \A d \in Calls \ {c} : call'[d] = call[d]
      /\ \A d \in Calls : /\ call'[d].patcher = call[d].patcher
                          /\ call'[d].module = call[d].module
                          /\ call'[d].failed = call[d].failed
      /\ call'[c].pc = "done" /\ call'[c].wrapped = {}
      /\ call'[c].landed = {} /\ call'[c].extended = {}
      /\ UNCHANGED <<slot, ledger, inflight, served, pending, uninstalled>>
  <2>1. UNCHANGED <<slot, ledger, inflight, served, pending, uninstalled>>
    BY DEF Return, historyVars
  <2> QED BY <1>1, <2>1, ReturnEffect
<1>3. \A w \in Dispatchers : w[1] \in Calls
  BY DEF Dispatchers
<1>4. \A w \in Dispatchers : BuiltFor(w)' = BuiltFor(w) /\ Owner(w)' = Owner(w)
  BY <1>2, <1>3, BuiltForStays
<1>5. \A d \in Calls : /\ At(d, "idle")' <=> At(d, "idle")
                       /\ Rolling(d)' <=> Rolling(d)
                       /\ d # c => (Running(d)' <=> Running(d))
  BY <1>1, <1>2 DEF Running, At, Rolling
<1>6. \A d \in Calls : \A x \in call[d].extended : x[1] \in Dispatchers
  BY <1>1, CallIsTyped DEF Locals
<1>7. /\ \A p \in Patchers : applied[p] \subseteq applied'[p]
      /\ ~call[c].failed => call[c].landed \subseteq applied'[call[c].patcher]
  <2>1. CASE call[c].failed
    BY <2>1 DEF Return
  <2>2. CASE ~call[c].failed
    BY <1>1, <2>2 DEF Return, TypeOK
  <2> QED BY <2>1, <2>2
<1>8. ServedInv'
  <2>1. \A w \in Dispatchers : Answers(Owner(w), w)' <=> Answers(Owner(w), w)
    BY <1>2, <1>4 DEF Answers
  <2>2. \A d \in Calls \ {c} : Mine(d)' = Mine(d)
    BY <1>2 DEF Mine, RulesOf
  <2>3. \A d \in Calls : call'[d].landed \subseteq Mine(d)'
    BY <1>2, <2>2 DEF RulesInv, ServedInv
  <2>4. \A w \in Dispatchers : At(w[1], "idle")' <=> At(w[1], "idle")
    BY <1>3, <1>5
  <2>5. \A w \in Dispatchers : Answers(Owner(w), w)' => BuiltFor(w)' \subseteq served'[w]
    BY <1>2, <1>4, <2>1 DEF RulesInv, ServedInv
  <2>6. ASSUME NEW d \in Calls, NEW x \in call'[d].extended
        PROVE  /\ ~At(x[1][1], "idle")' /\ x[2] \subseteq call'[d].landed
               /\ x[2] \cap BuiltFor(x[1])' = {}
    <3>1. d # c /\ call'[d] = call[d] /\ x \in call[d].extended
      BY <1>2, <2>6
    <3> QED BY <1>4, <1>6, <2>4, <3>1 DEF RulesInv, ServedInv
  <2> QED BY <2>3, <2>5, <2>6 DEF ServedInv
<1>9. ClaimedInv'
  <2>1. \A d \in Calls : call'[d].pc \in {"store", "stored"} => d # c
    BY <1>2
  <2> QED BY <1>2, <2>1 DEF RulesInv, ClaimedInv, Built
<1>10. NamedInv'
  <2> SUFFICES ASSUME NEW w \in Dispatchers, NEW r \in served[w],
                      ~call'[w[1]].failed, Owner(w) \notin uninstalled,
                      r \notin applied'[Owner(w)]
               PROVE  \E d \in Calls : Running(d)' /\ call'[d].patcher = Owner(w)
                                         /\ Naming(d, w, r)'
    BY <1>2, <1>4 DEF NamedInv
  <2>1. ~call[w[1]].failed /\ Owner(w) \in Patchers /\ r \notin applied[Owner(w)]
    BY <1>1, <1>2, <1>3, <1>7, CallIsTyped DEF Owner
  <2>2. PICK d \in Calls : Running(d) /\ call[d].patcher = Owner(w) /\ Naming(d, w, r)
    BY <2>1 DEF RulesInv, NamedInv
  <2>3. d # c
    <3> SUFFICES ASSUME d = c PROVE FALSE
      OBVIOUS
    <3>1. Added(c, w, r) => r \in call[c].landed
      BY DEF Added, RulesInv, ServedInv
    <3>2. ~call[c].failed /\ r \in call[c].landed
      BY <1>1, <2>2, <3>1 DEF Naming, At, Rolling
    <3> QED BY <1>7, <2>2, <3>2
  <2>4. Naming(d, w, r)'
    BY <1>2, <2>2, <2>3 DEF Naming, Added, RulesAt, Mine, RulesOf, At, Rolling
  <2> QED BY <1>2, <1>5, <2>2, <2>3, <2>4
<1>11. AccountInv'
  <2> SUFFICES ASSUME NEW r \in Rules, OwnerOf[r] \notin uninstalled
               PROVE  \/ r \in pending[OwnerOf[r]]
                      \/ \E d \in Calls : /\ Rolling(d)' /\ call'[d].patcher = OwnerOf[r]
                                          /\ r \in call'[d].landed
                      \/ \E w \in Dispatchers : Serves(w, r)'
    BY <1>2 DEF AccountInv
  <2>1. CASE \E d \in Calls :
               Rolling(d) /\ call[d].patcher = OwnerOf[r] /\ r \in call[d].landed
    <3>1. PICK d \in Calls :
            Rolling(d) /\ call[d].patcher = OwnerOf[r] /\ r \in call[d].landed
      BY <2>1
    <3>2. d # c
      BY <1>1, <3>1 DEF At, Rolling
    <3> QED BY <1>2, <1>5, <3>1, <3>2
  <2>2. CASE \E w \in Dispatchers : Serves(w, r)
    <3>1. PICK w \in Dispatchers : Serves(w, r)
      BY <2>2
    <3>2. w[1] \in Calls /\ Owner(w)' = Owner(w) /\ (At(w[1], "idle")' <=> At(w[1], "idle"))
      BY <1>3, <1>4, <1>5
    <3>3. w[1] = c /\ (\E e \in call[c].wrapped : e.wrapper = w) =>
            \E e \in ledger[OwnerOf[r]] : e.wrapper = w
      BY <1>1, <3>1 DEF Books, WrapsInv, At, Rolling, Serves, Owner
    <3> QED BY <1>2, <3>1, <3>2, <3>3 DEF Serves
  <2> QED BY <2>1, <2>2 DEF RulesInv, AccountInv
<1> QED BY <1>8, <1>9, <1>10, <1>11 DEF RulesInv

LEMMA StartKeepsRules ==
  ASSUME IInv, Books, RulesInv, NEW c \in Calls, NEW p \in Patchers, NEW m \in Modules,
         NEW t \in Threads, Start(c, p, m, t)
  PROVE  RulesInv'
<1>1. TypeOK
  BY DEF IInv
<1>2. /\ \A d \in Calls \ {c} : call'[d] = call[d]
      /\ At(c, "idle") /\ call'[c].pc = "next" /\ call'[c].patcher \in Patchers
      /\ call'[c].landed = {} /\ call'[c].extended = {}
      /\ UNCHANGED <<slot, ledger, inflight, served, pending, applied, uninstalled>>
  BY <1>1, StartEffect DEF sharedVars, historyVars
<1>3. \A w \in Dispatchers : w[1] \in Calls /\ w[2] \in Slots
  BY DEF Dispatchers
<1>4. \A w \in Dispatchers : w[1] # c =>
        /\ BuiltFor(w)' = BuiltFor(w) /\ Owner(w)' = Owner(w)
  BY <1>2, <1>3, BuiltForStays
<1>5. \A d \in Calls \ {c} : /\ Running(d)' <=> Running(d)
                             /\ At(d, "idle")' <=> At(d, "idle")
                             /\ Rolling(d)' <=> Rolling(d)
  BY <1>2 DEF Running, At, Rolling
<1>6. \A w \in Dispatchers : w[1] = c => served[w] = {}
  BY <1>2, <1>3 DEF Books, FreshInv, ToBuild
<1>7. \A q \in Patchers, w \in Dispatchers : Answers(q, w) => w[1] # c
  BY <1>2, AnsweredHasStarted
<1>8. \A d \in Calls : \A x \in call[d].extended : x[1] \in Dispatchers /\ x[1][1] # c
  BY <1>1, <1>2, CallIsTyped DEF Locals, RulesInv, ServedInv
<1>9. ServedInv'
  <2>1. \A q \in Patchers, w \in Dispatchers : Answers(q, w)' <=> Answers(q, w)
    BY <1>2 DEF Answers
  <2>2. ASSUME NEW w \in Dispatchers, Answers(Owner(w), w)'
        PROVE  BuiltFor(w)' \subseteq served'[w]
    <3>1. PICK q \in Patchers : q = call'[w[1]].patcher
      <4>1. call'[w[1]].patcher \in Patchers
        BY <1>1, <1>2, <1>3, CallIsTyped
      <4> QED BY <4>1
    <3>2. Answers(q, w)
      BY <1>2, <2>2, <3>1 DEF Answers, Owner
    <3>3. w[1] # c
      BY <1>7, <3>2
    <3>4. Owner(w) = q
      BY <3>2, AnsweredHasStarted
    <3> QED BY <1>2, <1>4, <3>2, <3>3, <3>4 DEF RulesInv, ServedInv
  <2>3. \A d \in Calls \ {c} : Mine(d)' = Mine(d)
    BY <1>2 DEF Mine, RulesOf
  <2>4. \A d \in Calls : call'[d].landed \subseteq Mine(d)'
    BY <1>2, <2>3 DEF RulesInv, ServedInv
  <2>5. ASSUME NEW d \in Calls, NEW x \in call'[d].extended
        PROVE  /\ ~At(x[1][1], "idle")' /\ x[2] \subseteq call'[d].landed
               /\ x[2] \cap BuiltFor(x[1])' = {}
    <3>1. d # c /\ call'[d] = call[d] /\ x \in call[d].extended
      BY <1>2, <2>5
    <3>2. x[1] \in Dispatchers /\ x[1][1] # c /\ x[1][1] \in Calls
      BY <1>3, <1>8, <3>1
    <3> QED BY <1>4, <1>5, <3>1, <3>2 DEF RulesInv, ServedInv
  <2> QED BY <2>2, <2>4, <2>5 DEF ServedInv
<1>10. ClaimedInv'
  <2>1. \A d \in Calls : call'[d].pc \in {"store", "stored"} => d # c
    BY <1>2
  <2> QED BY <1>2, <2>1 DEF RulesInv, ClaimedInv, Built
<1>11. NamedInv'
  <2> SUFFICES ASSUME NEW w \in Dispatchers, NEW r \in served[w], w[1] # c,
                      ~call[w[1]].failed, Owner(w) \notin uninstalled,
                      r \notin applied[Owner(w)]
               PROVE  \E d \in Calls : Running(d)' /\ call'[d].patcher = Owner(w)
                                         /\ Naming(d, w, r)'
    BY <1>2, <1>3, <1>4, <1>6 DEF NamedInv
  <2>1. PICK d \in Calls : Running(d) /\ call[d].patcher = Owner(w) /\ Naming(d, w, r)
    BY DEF RulesInv, NamedInv
  <2>2. d # c
    BY <1>2, <2>1 DEF Running
  <2>3. Naming(d, w, r)'
    BY <1>2, <2>1, <2>2 DEF Naming, Added, RulesAt, Mine, RulesOf, At, Rolling
  <2> QED BY <1>2, <1>5, <2>1, <2>2, <2>3
<1>12. AccountInv'
  <2> SUFFICES ASSUME NEW r \in Rules, OwnerOf[r] \notin uninstalled
               PROVE  \/ r \in pending[OwnerOf[r]]
                      \/ \E d \in Calls : /\ Rolling(d)' /\ call'[d].patcher = OwnerOf[r]
                                          /\ r \in call'[d].landed
                      \/ \E w \in Dispatchers : Serves(w, r)'
    BY <1>2 DEF AccountInv
  <2>1. CASE \E d \in Calls :
               Rolling(d) /\ call[d].patcher = OwnerOf[r] /\ r \in call[d].landed
    <3>1. PICK d \in Calls :
            Rolling(d) /\ call[d].patcher = OwnerOf[r] /\ r \in call[d].landed
      BY <2>1
    <3>2. d # c
      BY <1>2, <3>1 DEF At, Rolling
    <3> QED BY <1>2, <1>5, <3>1, <3>2
  <2>2. CASE \E w \in Dispatchers : Serves(w, r)
    <3>1. PICK w \in Dispatchers : Serves(w, r)
      BY <2>2
    <3>2. w[1] \in Calls /\ w[1] # c
      BY <1>2, <1>3, <3>1 DEF Serves
    <3> QED BY <1>2, <1>4, <1>5, <3>1, <3>2 DEF Serves
  <2> QED BY <2>1, <2>2 DEF RulesInv, AccountInv
<1> QED BY <1>9, <1>10, <1>11, <1>12 DEF RulesInv

\* An uninstall asks nothing of its own rules, and leaves the others' alone.
LEMMA UninstallKeepsRules ==
  ASSUME IInv, Books, RulesInv, NEW p \in Patchers, Uninstall(p)
  PROVE  RulesInv'
<1>1. TypeOK /\ \A c \in Calls : ~Running(c)
  BY DEF IInv, Uninstall
<1>2. /\ UNCHANGED <<reserved, inflight, served, call>>
      /\ uninstalled' = uninstalled \cup {p}
      /\ \A q \in Patchers : q # p => pending'[q] = pending[q] /\ applied'[q] = applied[q]
  BY <1>1 DEF Uninstall, TypeOK
<1>3. /\ \A q \in Patchers : ledger'[q] \subseteq ledger[q]
      /\ \A q \in Patchers : q # p => ledger'[q] = ledger[q]
  BY <1>1, UninstallEffect
<1>4. \A w \in Dispatchers : w[1] \in Calls /\ Owner(w) \in Patchers
  BY <1>1, CallIsTyped DEF Dispatchers, Owner
<1>5. \A c \in Calls : /\ call[c].wrapped = {}
                       /\ call[c].pc \notin {"restore", "undo", "store", "stored"}
  BY <1>1, NothingInFlight DEF Running, At, Rolling
<1>6. ServedInv'
  <2>1. \A w \in Dispatchers : Answers(Owner(w), w)' => Answers(Owner(w), w)
    BY <1>2, <1>3, <1>4 DEF Answers, Owner
  <2> QED BY <1>2, <2>1 DEF RulesInv, ServedInv, BuiltFor, RulesOf, Owner, Mine, At, Rolling
<1>7. ClaimedInv'
  BY <1>2, <1>5 DEF ClaimedInv
<1>8. NamedInv'
  <2> SUFFICES ASSUME NEW w \in Dispatchers, NEW r \in served[w],
                      ~call[w[1]].failed, Owner(w) \notin uninstalled \cup {p}
               PROVE  r \in applied'[Owner(w)]
    BY <1>2 DEF NamedInv, Owner
  <2>1. r \in applied[Owner(w)]
    BY <1>1 DEF RulesInv, NamedInv
  <2> QED BY <1>2, <1>4, <2>1
<1>9. AccountInv'
  <2> SUFFICES ASSUME NEW r \in Rules, OwnerOf[r] \notin uninstalled \cup {p}
               PROVE  \/ r \in pending'[OwnerOf[r]]
                      \/ \E w \in Dispatchers : Serves(w, r)'
    BY <1>2 DEF AccountInv
  <2>1. /\ OwnerOf[r] \in Patchers /\ pending'[OwnerOf[r]] = pending[OwnerOf[r]]
        /\ ledger'[OwnerOf[r]] = ledger[OwnerOf[r]]
    BY <1>2, <1>3, RulesAssumption
  <2>2. CASE r \in pending[OwnerOf[r]]
    BY <2>1, <2>2
  <2>3. CASE \E w \in Dispatchers : Serves(w, r)
    <3>1. PICK w \in Dispatchers : Serves(w, r)
      BY <2>3
    <3> QED BY <1>2, <2>1, <3>1 DEF Serves, Owner, At, Rolling
  <2> QED BY <1>5, <2>2, <2>3 DEF RulesInv, AccountInv, At, Rolling
<1> QED BY <1>6, <1>7, <1>8, <1>9 DEF RulesInv

LEMMA OutsidersKeepRules ==
  ASSUME IInv, RulesInv,
         UNCHANGED <<ledger, inflight, served, pending, applied, call, uninstalled>>
  PROVE  RulesInv'
<1>0. served' = served /\ call' = call
  OBVIOUS
<1>1. ServedInv'
  <2>1. \A w \in Dispatchers : BuiltFor(w)' = BuiltFor(w)
    BY <1>0 DEF BuiltFor, RulesOf, Owner
  <2>2. ASSUME NEW w \in Dispatchers, Answers(Owner(w), w)'
        PROVE  BuiltFor(w)' \subseteq served'[w]
    <3>1. Answers(Owner(w), w)
      BY <2>2 DEF Answers, Owner
    <3>2. BuiltFor(w) \subseteq served[w]
      BY <3>1 DEF RulesInv, ServedInv
    <3> QED BY <1>0, <2>1, <3>2
  <2>3. \A c \in Calls : Mine(c)' = Mine(c)
    BY DEF Mine, RulesOf
  <2>4. ASSUME NEW c \in Calls, NEW x \in call[c].extended
        PROVE  /\ ~At(x[1][1], "idle")' /\ x[2] \subseteq call[c].landed
               /\ x[2] \cap BuiltFor(x[1])' = {}
    <3>1. x[1] \in Dispatchers
      BY CallIsTyped DEF IInv, Locals
    <3>2. /\ ~At(x[1][1], "idle") /\ x[2] \subseteq call[c].landed
          /\ x[2] \cap BuiltFor(x[1]) = {}
      BY DEF RulesInv, ServedInv
    <3> QED BY <1>0, <2>1, <3>1, <3>2 DEF At, Rolling
  <2>5. \A c \in Calls : call[c].landed \subseteq Mine(c)'
    BY <2>3 DEF RulesInv, ServedInv
  <2> QED BY <1>0, <2>2, <2>4, <2>5 DEF ServedInv
<1>4. ClaimedInv'
  BY DEF RulesInv, ClaimedInv, Built
<1>2. NamedInv'
  BY DEF RulesInv, NamedInv, Owner, Running, At, Rolling, Naming, Added, RulesAt, Mine, RulesOf
<1>3. AccountInv'
  BY DEF RulesInv, AccountInv, Serves, Owner, At, Rolling
<1> QED BY <1>1, <1>2, <1>3, <1>4 DEF RulesInv

LEMMA InitHoldsRules == Init => RulesInv
<1> SUFFICES ASSUME Init PROVE RulesInv
  OBVIOUS
<1> DEFINE locals == Fresh("idle", CHOOSE p \in Patchers : TRUE, CHOOSE m \in Modules : TRUE,
                           CHOOSE t \in Threads : TRUE, 0, {})
<1>1. locals.pc = "idle" /\ locals.landed = {} /\ locals.extended = {}
  BY DEF Fresh
<1>2. call = [c \in Calls |-> locals]
  BY DEF Init
<1> HIDE DEF locals
<1>3. \A c \in Calls : call[c].pc = "idle" /\ call[c].landed = {} /\ call[c].extended = {}
  BY <1>1, <1>2
<1>4. TypeOK
  BY InitHoldsInvariant DEF IInv
<1>5. /\ \A p \in Patchers : ledger[p] = {} /\ inflight[p] = {} /\ pending[p] = RulesOf(p)
      /\ \A w \in Dispatchers : served[w] = {}
  BY DEF Init
<1>6. \A w \in Dispatchers : Owner(w) \in Patchers
  BY <1>4, CallIsTyped DEF Dispatchers, Owner
<1>7. ServedInv /\ ClaimedInv /\ NamedInv
  BY <1>3, <1>5, <1>6 DEF ServedInv, ClaimedInv, NamedInv, Answers
<1>8. AccountInv
  BY <1>5, RulesAssumption DEF AccountInv, RulesOf
<1> QED BY <1>7, <1>8 DEF RulesInv

LEMMA NextKeepsRules == IInv /\ Books /\ RulesInv /\ [Next]_vars => RulesInv'
<1> SUFFICES ASSUME IInv, Books, RulesInv, [Next]_vars PROVE RulesInv'
  OBVIOUS
<1>1. ASSUME NEW c \in Calls, NEW p \in Patchers, NEW m \in Modules, NEW t \in Threads,
             Start(c, p, m, t)
      PROVE  RulesInv'
  BY <1>1, StartKeepsRules
<1>2. ASSUME NEW c \in Calls, Step(c) PROVE RulesInv'
  BY <1>2, PlainCases, PlainKeepsRules, ExtendKeepsRules, ClaimKeepsRules, LandKeepsRules,
     UnwindKeepsRules, ReturnKeepsRules
<1>3. ASSUME NEW p \in Patchers, Uninstall(p) PROVE RulesInv'
  BY <1>3, UninstallKeepsRules
<1>4. ASSUME NEW s \in Slots, Replace(s) PROVE RulesInv'
  BY <1>4, OutsidersKeepRules DEF Replace
<1>5. CASE UNCHANGED vars
  BY <1>5, OutsidersKeepRules DEF vars
<1> QED BY <1>1, <1>2, <1>3, <1>4, <1>5 DEF Next

LEMMA RulesHold == Spec => [](IInv /\ Books /\ RulesInv)
<1>1. Init => IInv /\ Books /\ RulesInv
  BY InitHoldsInvariant, InitHoldsBooks, InitHoldsRules
<1>2. IInv /\ Books /\ RulesInv /\ [Next]_vars => (IInv /\ Books /\ RulesInv)'
  BY NextKeepsInvariant, NextKeepsBooks, NextKeepsRules
<1> QED BY <1>1, <1>2, PTL DEF Spec

\* A rollback loses no rule: with no call of its Patcher in progress, a rule is
\* in force, or displaced() or pending() names it, or it went down with the
\* call of another module whose dispatcher it had joined.
THEOREM RulesAccountedFor == Spec => []RulesAreAccountedFor
<1>1. IInv /\ Books /\ RulesInv => RulesAreAccountedFor
  <2> SUFFICES ASSUME IInv, Books, RulesInv, NEW r \in Rules, Between(OwnerOf[r]),
                      r \notin pending[OwnerOf[r]], ~WentDownWithAnother(r)
               PROVE  InForce(r) \/ Displaced(r)
    BY DEF RulesAreAccountedFor
  <2>1. /\ OwnerOf[r] \notin uninstalled
        /\ \A c \in Calls : Running(c) => call[c].patcher # OwnerOf[r]
    BY DEF Between
  <2>2. \A c \in Calls : Rolling(c) => Running(c)
    BY DEF At, Rolling, Running
  <2>3. PICK w \in Dispatchers : Serves(w, r)
    BY <2>1, <2>2 DEF RulesInv, AccountInv
  <2>4. /\ w[1] \in Calls /\ w[2] \in Slots /\ w = <<w[1], w[2]>>
        /\ Owner(w) = OwnerOf[r] /\ r \in served[w]
    BY <2>3 DEF Dispatchers, Serves
  <2>5. ~(\E e \in call[w[1]].wrapped : e.wrapper = w)
    BY <2>1, <2>4 DEF Books, WrapsInv, Owner
  <2>6. ~(call[w[1]].failed /\ ModuleOf[r] # call[w[1]].module)
    BY <2>4 DEF WentDownWithAnother
  <2>7. \E e \in ledger[OwnerOf[r]] : e.wrapper = w
    BY <2>3, <2>5, <2>6 DEF Serves
  <2> QED BY <2>4, <2>7 DEF Displaced
<1> QED BY <1>1, RulesHold, PTL

\* What fires is named: a rule served in an attribute is in `applied`, unless a
\* call that brought it is in progress, or the call that built the dispatcher
\* failed, or its Patcher was uninstalled.
THEOREM FiringRulesNamed == Spec => []FiringRulesAreNamed
<1>1. IInv /\ Books /\ RulesInv => FiringRulesAreNamed
  <2> SUFFICES ASSUME IInv, Books, RulesInv, NEW w \in Dispatchers,
                      Owner(w) \notin uninstalled, ~call[w[1]].failed,
                      NEW r \in served[w], r \notin applied[Owner(w)]
               PROVE  \E c \in Calls : Running(c) /\ r \in Mine(c)
    BY DEF FiringRulesAreNamed
  <2>1. PICK c \in Calls : Running(c) /\ call[c].patcher = Owner(w) /\ Naming(c, w, r)
    BY DEF RulesInv, NamedInv
  <2>2. Added(c, w, r) => r \in call[c].landed
    BY DEF Added, RulesInv, ServedInv
  <2>3. r \in call[c].landed \/ r \in RulesAt(c)
    BY <2>1, <2>2 DEF Naming
  <2>4. r \in Mine(c)
    BY <2>3 DEF RulesInv, ServedInv, RulesAt
  <2> QED BY <2>1, <2>4
<1> QED BY <1>1, RulesHold, PTL

-----------------------------------------------------------------------------
\* What is in the slots.  With one thread, or where target code does not
\* re-enter the window and the slot returns the same object twice, what a call
\* saves as the original is never a dispatcher.

OneThread == \A t, u \in Threads : t = u
Tracked == {s \in Slots \ replaced : OneThread \/ (~WindowReenters /\ s \in Stable)}

Recorded(w) == \E e \in ledger[Owner(w)] : e.wrapper = w
Wrapping(w) == \E e \in call[w[1]].wrapped : e.wrapper = w

\* Somebody answers for w, and will as long as c runs.
Vouched(c, w) ==
  \/ Recorded(w)
  \/ w \in inflight[Owner(w)] /\ (w[1] = c \/ Nested(w[1], c))

LiveInv ==
  \A s \in Tracked : \A w \in Dispatchers : slot[s] = w => Recorded(w) \/ Wrapping(w)

NestInv ==
  /\ \A p \in Patchers : \A e \in ledger[p] : e.slot \in Tracked => e.live \notin Dispatchers
  /\ \A c \in Calls : \A e \in call[c].wrapped : e.slot \in Tracked => e.live \notin Dispatchers

\* With one thread, the first read is of a dispatcher somebody answers for.
FirstRead(c) ==
  OneThread /\ call[c].cur \notin replaced =>
    /\ \A w \in Dispatchers : At(c, "decide") /\ call[c].live = w => Vouched(c, w)
    /\ call[c].pc \in {"reserve", "settle", "check"} => call[c].live \notin Dispatchers

\* So is the second read, within the reservation; another value is still there.
SecondRead(c) ==
  At(c, "check") /\ call[c].cur \in Tracked =>
    /\ \A w \in Dispatchers : call[c].settled = w => Vouched(c, w)
    /\ ~WindowReenters /\ call[c].settled \notin Dispatchers =>
         slot[call[c].cur] = call[c].settled

ReadsInv == \A c \in Calls : FirstRead(c) /\ SecondRead(c)

\* No call of the same Patcher runs inside the window of another.
Alone ==
  ~WindowReenters => \A c, d \in Calls :
    call[c].pc \in {"check", "store"} /\ Running(d) /\ Nested(c, d) =>
      call[d].patcher # call[c].patcher

PlaceInv == LiveInv /\ NestInv /\ ReadsInv /\ Alone

\* What a step of c leaves alone.
Frame(c) ==
  /\ \A d \in Calls \ {c} : call'[d] = call[d]
  /\ call'[c].patcher = call[c].patcher /\ call'[c].thread = call[c].thread
  /\ At(c, "release") \/ call'[c].depth = call[c].depth
  /\ \A p \in Patchers : ledger[p] \subseteq ledger'[p]
  /\ \A p \in Patchers : \A w \in inflight[p] :
       w \in inflight'[p] \/ (At(c, "handoff") /\ w[1] = c)
  /\ UNCHANGED <<replaced, uninstalled>>

LEMMA StepFrame ==
  ASSUME IInv, Books, NEW c \in Calls, Step(c)
  PROVE  Frame(c)
<1>1. TypeOK /\ call[c].patcher \in Patchers
  BY CallIsTyped DEF IInv
<1>2. UNCHANGED <<replaced, uninstalled>>
  BY DEF Step, Read, Decide, Extend, Reserve, Settle, Check, Claim, Store, Land, Raise, Finish,
         RestoreEntry, Look, PutBack, Unwind, Publish, Handoff, Return, historyVars
<1>3. CASE Quiet(c)
  BY <1>2, <1>3 DEF Quiet, Steady, Frame
<1>4. CASE Claim(c)
  <2>1. Steady(c)
    BY <1>1, <1>4, ClaimEffect
  <2>2. \A p \in Patchers : inflight[p] \subseteq inflight'[p]
    BY <1>1, <1>4 DEF Claim, TypeOK
  <2> QED BY <1>2, <1>4, <2>1, <2>2 DEF Claim, Steady, Frame
<1>5. CASE Store(c)
  <2>1. Steady(c)
    BY <1>1, <1>5, GotoEffect DEF Store, Goes
  <2> QED BY <1>2, <1>5, <2>1 DEF Store, Steady, Frame
<1>6. ASSUME NEW e \in call[c].unvisited, RestoreEntry(c, e) PROVE Frame(c)
  <2>1. Steady(c)
    BY <1>1, <1>6, RestoreEffect
  <2>2. UNCHANGED <<ledger, inflight>>
    BY <1>6 DEF RestoreEntry, Look, PutBack, sharedVars
  <2> QED BY <1>2, <2>1, <2>2 DEF Steady, Frame
<1>7. CASE Publish(c)
  <2>1. Steady(c)
    BY <1>1, <1>7, GotoEffect DEF Publish, Goes
  <2>2. \A p \in Patchers : ledger[p] \subseteq ledger'[p]
    BY <1>1, <1>7 DEF Publish, TypeOK
  <2> QED BY <1>2, <1>7, <2>1, <2>2 DEF Publish, Steady, Frame
<1>8. CASE Handoff(c)
  <2>1. Steady(c)
    BY <1>1, <1>8, GotoEffect DEF Handoff, Goes
  <2>2. \A p \in Patchers : \A w \in inflight[p] : w \in inflight'[p] \/ w[1] = c
    BY <1>1, <1>8 DEF Handoff, TypeOK
  <2> QED BY <1>2, <1>8, <2>1, <2>2 DEF Handoff, Steady, Frame
<1>9. CASE Return(c)
  <2>1. /\ \A d \in Calls \ {c} : call'[d] = call[d]
        /\ call'[c].patcher = call[c].patcher /\ call'[c].thread = call[c].thread
    BY <1>1, <1>9, ReturnEffect
  <2> QED BY <1>2, <1>9, <2>1 DEF Return, Frame
<1> QED BY <1>3, <1>4, <1>5, <1>6, <1>7, <1>8, <1>9, StepCases

\* A call that runs above c on its thread runs in c.
LEMMA RunsInside ==
  ASSUME IInv, NEW c \in Calls, NEW d \in Calls, c # d, Running(d), OnTop(c),
         call[d].thread = call[c].thread
  PROVE  Nested(d, c)
<1>1. call[c].depth \in Nat /\ call[d].depth \in Nat
  BY CallIsTyped DEF IInv, Locals
<1>2. call[c].depth # call[d].depth
  BY DEF IInv, Stacked, OnTop
<1> QED BY <1>1, <1>2 DEF OnTop, Nested

\* Whoever answers for what c read answers for it until c goes on.
LEMMA VouchedStays ==
  ASSUME IInv, Books, NEW c \in Calls, Step(c), NEW a \in Calls, Running(a),
         a = c => ~At(c, "handoff") /\ ~At(c, "release"),
         NEW w \in Dispatchers, Vouched(a, w)
  PROVE  Vouched(a, w)'
<1>1. Frame(c) /\ OnTop(c)
  BY StepFrame DEF Step
<1>2. w[1] \in Calls /\ Owner(w) \in Patchers
  BY CallIsTyped DEF IInv, Dispatchers, Owner
<1>3. Owner(w)' = Owner(w)
  BY <1>1, <1>2 DEF Frame, Owner
<1>4. CASE Recorded(w)
  <2>1. Recorded(w)'
    BY <1>1, <1>2, <1>3, <1>4 DEF Frame, Recorded
  <2> QED BY <2>1 DEF Vouched
<1>5. CASE w \in inflight[Owner(w)] /\ (w[1] = a \/ Nested(w[1], a))
  <2>1. ~((At(c, "handoff") \/ At(c, "release")) /\ w[1] = c)
    BY <1>1, <1>5 DEF OnTop
  <2>2. w \in inflight'[Owner(w)]
    BY <1>1, <1>2, <1>5, <2>1 DEF Frame
  <2>3. Nested(w[1], a) => Nested(w[1], a)'
    <3>1. \A d \in Calls \ {c} : call'[d] = call[d]
      BY <1>1 DEF Frame
    <3> QED BY <1>1, <1>2, <2>1 DEF Frame, Nested
  <2> QED BY <1>3, <1>5, <2>2, <2>3 DEF Vouched
<1> QED BY <1>4, <1>5 DEF Vouched

\* A dispatcher that a live slot holds is answered for above or by c itself, if
\* the slot is c's alone.
LEMMA LiveIsVouched ==
  ASSUME IInv, Books, LiveInv, NEW c \in Calls, OnTop(c),
         NEW s \in Tracked, NEW w \in Dispatchers, slot[s] = w,
         OneThread \/ HeldAt(c, s)
  PROVE  Vouched(c, w)
<1>1. TypeOK /\ w[1] \in Calls /\ w = <<w[1], w[2]>> /\ w[2] = s /\ s \in Slots
  BY DEF IInv, Dispatchers, Books, HomeInv, Tracked
<1>2. CASE Recorded(w)
  BY <1>2 DEF Vouched
<1>3. CASE Wrapping(w) /\ ~Recorded(w)
  <2>1. Running(w[1]) /\ w \in inflight[Owner(w)]
    BY <1>1, <1>3 DEF Wrapping, Recorded, Owner, Books, WrapsInv, At
  <2>2. Owner(w) \in Patchers
    BY <1>1, CallIsTyped DEF Owner
  <2>3. call[w[1]].thread = call[c].thread
    <3>1. CASE OneThread
      BY <1>1, <3>1, CallIsTyped DEF OneThread, Locals
    <3>2. CASE HeldAt(c, s)
      <4>1. HeldAt(w[1], s)
        BY <1>1, <2>1, <2>2 DEF Books, InflightInv
      <4> QED BY <3>2, <4>1 DEF HeldAt
    <3> QED BY <3>1, <3>2
  <2>4. w[1] = c \/ Nested(w[1], c)
    BY <1>1, <2>1, <2>3, RunsInside
  <2> QED BY <2>1, <2>4 DEF Vouched
<1> QED BY <1>2, <1>3 DEF LiveInv

LEMMA VouchedIsOwned ==
  ASSUME IInv, NEW c \in Calls, NEW w \in Dispatchers, Vouched(c, w)
  PROVE  LiveOwner(w) # Nobody
<1>1. Owner(w) \in Patchers
  BY CallIsTyped DEF IInv, Dispatchers, Owner
<1> QED BY <1>1, NobodyAssumption DEF Vouched, Recorded, LiveOwner, Answers

\* Two calls that may write the same slot are of one Patcher and one thread.
LEMMA WritersAreKin ==
  ASSUME IInv, Books, Alone, ~WindowReenters, NEW a \in Calls, call[a].pc \in {"check", "store"},
         NEW c \in Calls, c # a, OnTop(c), HeldAt(c, call[a].cur)
  PROVE  FALSE
<1>1. HeldAt(a, call[a].cur)
  BY CallIsTyped DEF IInv, Held, InWindow, HeldAt
<1>2. call[a].patcher = call[c].patcher /\ call[a].thread = call[c].thread
  BY <1>1 DEF HeldAt
<1>3. Nested(a, c)
  BY <1>2, RunsInside DEF Running, At
<1> QED BY <1>2, <1>3 DEF Alone, OnTop

\* Between its second read and its store, the slot is the call's.
LEMMA WindowUndisturbed ==
  ASSUME IInv, Books, Alone, ~WindowReenters, NEW a \in Calls, call[a].pc \in {"check", "store"},
         NEW c \in Calls, c # a, Step(c)
  PROVE  slot'[call[a].cur] = slot[call[a].cur]
<1>1. TypeOK /\ OnTop(c) /\ call[a].cur \in Slots /\ call[c].patcher \in Patchers
  BY CallIsTyped DEF IInv, Step
<1>2. CASE UNCHANGED slot
  BY <1>2
<1>3. CASE Store(c)
  <2>1. call[c].cur # call[a].cur
    <3> SUFFICES ASSUME call[c].cur = call[a].cur PROVE FALSE
      OBVIOUS
    <3>1. HeldAt(c, call[a].cur)
      BY <1>1, <1>3 DEF Store, At, IInv, Held, InWindow, HeldAt
    <3> QED BY <1>1, <3>1, WritersAreKin
  <2> QED BY <1>1, <1>3, <2>1 DEF Store, TypeOK
<1>4. ASSUME NEW e \in call[c].unvisited, RestoreEntry(c, e)
      PROVE  slot'[call[a].cur] = slot[call[a].cur]
  <2>1. slot' \in {slot, Undone(e)} /\ e \in Entry
    BY <1>1, <1>4, RestoreEffect, CallIsTyped DEF Finds, Locals
  <2>2. e.slot # call[a].cur
    <3> SUFFICES ASSUME e.slot = call[a].cur PROVE FALSE
      OBVIOUS
    <3>1. call[c].pc \in {"restore", "undo"} /\ e \in call[c].wrapped
      BY <1>1, <1>4, RestoreEffect DEF Books, WrapsInv
    <3>2. e.wrapper = <<c, e.slot>> /\ e.wrapper \in inflight[call[c].patcher]
      BY <3>1 DEF Books, WrapsInv, At
    <3>3. HeldAt(c, e.slot)
      BY <1>1, <3>2 DEF Books, InflightInv
    <3> QED BY <1>1, <3>3, WritersAreKin
  <2> QED BY <1>1, <2>1, <2>2 DEF Undone, TypeOK, Entry
<1>5. UNCHANGED slot \/ Store(c) \/ \E e \in call[c].unvisited : RestoreEntry(c, e)
  BY StepCases DEF Quiet, Claim, Publish, Handoff, Return
<1> QED BY <1>2, <1>3, <1>4, <1>5

LEMMA OthersReads ==
  ASSUME IInv, Books, PlaceInv, NEW c \in Calls, Step(c), NEW a \in Calls, a # c
  PROVE  (FirstRead(a) /\ SecondRead(a))'
<1>1. Frame(c) /\ call'[a] = call[a] /\ replaced' = replaced
  BY StepFrame DEF Frame
<1>2. Tracked' = Tracked
  BY <1>1 DEF Tracked
<1>3. FirstRead(a) /\ SecondRead(a)
  BY DEF PlaceInv, ReadsInv
<1>4. FirstRead(a)'
  <2>1. ASSUME NEW w \in Dispatchers, At(a, "decide"), Vouched(a, w)
        PROVE  Vouched(a, w)'
    BY <2>1, VouchedStays DEF Running, At
  <2> QED BY <1>1, <1>3, <2>1 DEF FirstRead, At
<1>5. SecondRead(a)'
  <2>1. ASSUME NEW w \in Dispatchers, At(a, "check"), Vouched(a, w)
        PROVE  Vouched(a, w)'
    BY <2>1, VouchedStays DEF Running, At
  <2>2. At(a, "check") /\ ~WindowReenters => slot'[call[a].cur] = slot[call[a].cur]
    BY WindowUndisturbed DEF PlaceInv, At
  <2> QED BY <1>1, <1>2, <1>3, <2>1, <2>2 DEF SecondRead, At
<1> QED BY <1>4, <1>5

\* The claim: the gated check admits it only where the value that will be given
\* back is no dispatcher.
LEMMA ClaimReads ==
  ASSUME IInv, Books, PlaceInv, NEW c \in Calls, At(c, "check"),
         LiveOwner(call[c].settled) = Nobody, ~Substituted(c), call[c].cur \in Tracked
  PROVE  call[c].live \notin Dispatchers
<1>1. call[c].settled \notin Dispatchers
  <2> SUFFICES ASSUME call[c].settled \in Dispatchers PROVE FALSE
    OBVIOUS
  <2>1. PICK w \in Dispatchers : w = call[c].settled
    OBVIOUS
  <2>2. Vouched(c, w)
    BY <2>1 DEF PlaceInv, ReadsInv, SecondRead
  <2> QED BY <2>1, <2>2, VouchedIsOwned
<1>2. ~WindowReenters => slot[call[c].cur] = call[c].settled
  BY <1>1 DEF PlaceInv, ReadsInv, SecondRead
<1>3. CASE OneThread
  <2>1. FirstRead(c) /\ call[c].cur \notin replaced
    BY DEF PlaceInv, ReadsInv, Tracked
  <2> QED BY <1>3, <2>1 DEF FirstRead, At
<1>4. CASE ~WindowReenters /\ call[c].cur \in Stable
  BY <1>1, <1>2, <1>4 DEF Substituted
<1> QED BY <1>3, <1>4 DEF Tracked

LEMMA OwnReads ==
  ASSUME IInv, Books, PlaceInv, NEW c \in Calls, Step(c)
  PROVE  (FirstRead(c) /\ SecondRead(c))'
<1>1. TypeOK /\ OnTop(c) /\ replaced' = replaced /\ Frame(c) /\ call[c].cur \in Slots
  BY StepFrame, CallIsTyped DEF IInv, Step, Frame
<1>2. Tracked' = Tracked
  BY <1>1 DEF Tracked
<1>3. CASE call'[c].pc \notin {"decide", "reserve", "settle", "check", "store"}
  BY <1>3 DEF FirstRead, SecondRead, At
<1>4. ASSUME NEW s \in Slots, Read(c, s), call'[c].pc = "decide"
      PROVE  (FirstRead(c) /\ SecondRead(c))'
  <2>1. call'[c].cur = s /\ call'[c].live = slot[s] /\ At(c, "next") /\ ledger' = ledger
          /\ inflight' = inflight
    BY <1>1, <1>4, ReadEffect DEF Goes, Read, sharedVars
  <2>2. ASSUME OneThread, s \notin replaced, NEW w \in Dispatchers, slot[s] = w
        PROVE  Vouched(c, w)'
    <3>1. s \in Tracked
      BY <2>2 DEF Tracked
    <3>2. Vouched(c, w)
      BY <1>1, <2>2, <3>1, LiveIsVouched DEF PlaceInv
    <3> QED BY <1>1, <2>1, <3>2, VouchedStays DEF OnTop, At
  <2> QED BY <1>1, <1>4, <2>1, <2>2 DEF FirstRead, SecondRead, At
<1>5. CASE Decide(c) /\ call'[c].pc = "reserve"
  <2>1. /\ LiveOwner(call[c].live) = Nobody /\ call'[c].cur = call[c].cur
        /\ call'[c].live = call[c].live /\ At(c, "decide")
    <3>1. ~Extend(c, call[c].live)
      <4> SUFFICES ASSUME Extend(c, call[c].live) PROVE FALSE
        OBVIOUS
      <4>1. call'[c].pc = "next"
        BY <1>1, CallIsTyped DEF Extend, TypeOK, Locals
      <4> QED BY <1>5, <4>1
    <3>2. call' # Fail(c)
      BY <1>1, <1>5, FailEffect DEF Fails
    <3>3. LiveOwner(call[c].live) = Nobody /\ call' = Goto(c, "reserve")
      BY <1>5, <3>1, <3>2 DEF Decide
    <3> QED BY <1>1, <1>5, <3>3, GotoEffect DEF Decide
  <2>2. OneThread /\ call[c].cur \notin replaced => call[c].live \notin Dispatchers
    <3> SUFFICES ASSUME OneThread, call[c].cur \notin replaced, call[c].live \in Dispatchers
                 PROVE  FALSE
      OBVIOUS
    <3>1. PICK w \in Dispatchers : w = call[c].live
      OBVIOUS
    <3>2. Vouched(c, w)
      BY <2>1, <3>1 DEF PlaceInv, ReadsInv, FirstRead
    <3> QED BY <2>1, <3>1, <3>2, VouchedIsOwned
  <2> QED BY <1>1, <1>5, <2>1, <2>2 DEF FirstRead, SecondRead, At
<1>6. CASE Reserve(c) /\ call'[c].pc = "settle"
  <2>1. call'[c].cur = call[c].cur /\ call'[c].live = call[c].live /\ At(c, "reserve")
    BY <1>1, <1>6, ReserveEffect DEF Fails, Reserve
  <2> QED BY <1>1, <1>6, <2>1 DEF FirstRead, SecondRead, At, PlaceInv, ReadsInv
<1>7. CASE Settle(c) /\ call'[c].pc = "check"
  <2>1. /\ call'[c].cur = call[c].cur /\ call'[c].live = call[c].live
        /\ call'[c].settled = slot[call[c].cur] /\ At(c, "settle") /\ slot' = slot
    BY <1>1, <1>7, SettleEffect DEF Goes, Settle, sharedVars
  <2>2. FirstRead(c)'
    BY <1>1, <1>7, <2>1 DEF FirstRead, At, PlaceInv, ReadsInv
  <2>3. ASSUME call[c].cur \in Tracked, NEW w \in Dispatchers, slot[call[c].cur] = w
        PROVE  Vouched(c, w)'
    <3>1. PICK s \in Tracked : s = call[c].cur
      BY <2>3
    <3>2. HeldAt(c, s)
      BY <1>1, <2>1, <3>1 DEF IInv, Held, InWindow, HeldAt, At
    <3>3. Vouched(c, w)
      BY <1>1, <2>3, <3>1, <3>2, LiveIsVouched DEF PlaceInv
    <3> QED BY <1>1, <2>1, <3>3, VouchedStays DEF OnTop, At
  <2> QED BY <1>2, <1>7, <2>1, <2>2, <2>3 DEF SecondRead, At
<1>8. CASE At(c, "check") /\ Claim(c) /\ LiveOwner(call[c].settled) = Nobody /\ ~Substituted(c)
  <2>1. call'[c].pc = "store"
    BY <1>1, <1>8, ClaimEffect
  <2> QED BY <2>1 DEF FirstRead, SecondRead, At
<1>9. CASE \E s \in Slots : Read(c, s)
  <2>1. call'[c].pc \in {"next", "decide"}
    BY <1>1, <1>9, ReadEffect DEF Goes
  <2> QED BY <1>3, <1>4, <1>9, <2>1
<1>10. ASSUME NEW v, Extend(c, v) PROVE call'[c].pc = "next"
  BY <1>1, <1>10, CallIsTyped DEF Extend, TypeOK, Locals
<1>11. ASSUME call' = Fail(c) PROVE call'[c].pc = "restore"
  BY <1>1, <1>11, FailEffect DEF Fails
<1>12. CASE Decide(c)
  <2>1. call'[c].pc \in {"next", "reserve", "restore"}
    BY <1>1, <1>10, <1>11, <1>12, GotoEffect DEF Decide, Goes
  <2> QED BY <1>3, <1>5, <1>12, <2>1
<1>13. CASE Reserve(c)
  <2>1. call'[c].pc \in {"settle", "restore"}
    BY <1>1, <1>13, ReserveEffect DEF Fails, Goes
  <2> QED BY <1>3, <1>6, <1>13, <2>1
<1>14. CASE Settle(c)
  <2>1. call'[c].pc \in {"next", "check"}
    BY <1>1, <1>14, SettleEffect DEF Goes
  <2> QED BY <1>3, <1>7, <1>14, <2>1
<1>15. CASE Check(c)
  BY <1>3, <1>8, <1>10, <1>11, <1>15 DEF Check
<1>16. CASE Store(c) \/ Finish(c) \/ Publish(c) \/ Handoff(c) \/ Unwind(c)
  <2>1. call'[c].pc \in {"stored", "publish", "handoff", "release"}
    BY <1>1, <1>16, GotoEffect DEF Store, Finish, Publish, Handoff, Unwind, Goes
  <2> QED BY <1>3, <2>1
<1>17. CASE Land(c) \/ Raise(c) \/ Return(c)
  <2>1. call'[c].pc \in {"next", "restore", "done"}
    BY <1>1, <1>11, <1>17, LandEffect, ReturnEffect DEF Raise
  <2> QED BY <1>3, <2>1
<1>18. ASSUME NEW e \in call[c].unvisited, RestoreEntry(c, e) 
       PROVE  call'[c].pc \in {"restore", "undo"}
  BY <1>1, <1>18, RestoreEffect
<1> QED BY <1>3, <1>9, <1>12, <1>13, <1>14, <1>15, <1>16, <1>17, <1>18 DEF Step

LEMMA StartKeepsReads ==
  ASSUME IInv, Books, PlaceInv, NEW c \in Calls, NEW p \in Patchers, NEW m \in Modules,
         NEW t \in Threads, Start(c, p, m, t)
  PROVE  ReadsInv'
<1>1. /\ \A d \in Calls \ {c} : call'[d] = call[d]
      /\ At(c, "idle") /\ call'[c].pc = "next"
      /\ UNCHANGED <<slot, ledger, inflight, replaced>>
  BY StartEffect DEF IInv, sharedVars, historyVars
<1>2. Tracked' = Tracked
  BY <1>1 DEF Tracked
<1>3. ASSUME NEW a \in Calls, a # c, NEW w \in Dispatchers, Vouched(a, w)
      PROVE  Vouched(a, w)'
  <2>1. w[1] \in Calls /\ Owner(w) \in Patchers
    BY CallIsTyped DEF IInv, Dispatchers, Owner
  <2>2. Answers(Owner(w), w)
    BY <1>3 DEF Vouched, Recorded, Answers
  <2>3. w[1] # c
    BY <1>1, <2>1, <2>2, AnsweredHasStarted
  <2> QED BY <1>1, <1>3, <2>1, <2>3 DEF Vouched, Recorded, Owner, Nested
<1>4. ASSUME NEW a \in Calls, a # c
      PROVE  (FirstRead(a) /\ SecondRead(a))'
  BY <1>1, <1>2, <1>3, <1>4 DEF PlaceInv, ReadsInv, FirstRead, SecondRead, At
<1>5. (FirstRead(c) /\ SecondRead(c))'
  BY <1>1 DEF FirstRead, SecondRead, At
<1> QED BY <1>4, <1>5 DEF ReadsInv

LEMMA ReplaceKeepsReads ==
  ASSUME IInv, PlaceInv, NEW s \in Slots, Replace(s)
  PROVE  ReadsInv'
<1>1. /\ UNCHANGED <<call, ledger, inflight>> /\ replaced' = replaced \cup {s}
      /\ s \notin replaced /\ \A x \in Slots : x # s => slot'[x] = slot[x]
  BY DEF Replace, IInv, TypeOK
<1>2. ASSUME NEW a \in Calls, NEW w \in Dispatchers, Vouched(a, w)
      PROVE  Vouched(a, w)'
  BY <1>1, <1>2 DEF Vouched, Recorded, Owner, Nested
<1>3. Tracked' \subseteq Tracked \ {s}
  BY <1>1 DEF Tracked
<1>4. ASSUME NEW a \in Calls
      PROVE  (FirstRead(a) /\ SecondRead(a))'
  <2>1. call[a].cur \in Slots /\ FirstRead(a) /\ SecondRead(a)
    BY CallIsTyped DEF IInv, PlaceInv, ReadsInv
  <2>2. FirstRead(a)' /\ SecondRead(a)'
    BY <1>1, <1>2, <1>3, <2>1 DEF FirstRead, SecondRead, At
  <2> QED BY <2>2
<1> QED BY <1>4 DEF ReadsInv

\* A nested call of the Patcher does not start inside its window, and a call
\* enters its window with nothing running in it.
LEMMA StepKeepsAlone ==
  ASSUME IInv, Books, PlaceInv, NEW c \in Calls, Step(c)
  PROVE  Alone'
<1>1. Frame(c) /\ OnTop(c) /\ TypeOK
  BY StepFrame DEF Step, IInv
<1>2. /\ \A d \in Calls \ {c} : call'[d] = call[d]
      /\ call'[c].patcher = call[c].patcher /\ call'[c].thread = call[c].thread
      /\ At(c, "release") \/ call'[c].depth = call[c].depth
  BY <1>1 DEF Frame
<1>3. At(c, "release") => call'[c].pc = "done"
  BY <1>1, ReturnEffect DEF Step, Read, Decide, Reserve, Settle, Check, Store, Land, Raise,
     Finish, RestoreEntry, Look, PutBack, Unwind, Publish, Handoff, At
<1> SUFFICES ASSUME ~WindowReenters, NEW a \in Calls, NEW d \in Calls,
                    call'[a].pc \in {"check", "store"}, Running(d)', Nested(a, d)'
             PROVE  call'[d].patcher # call'[a].patcher
  BY DEF Alone
<1>4. call'[c].depth = call[c].depth \/ (a # c /\ d # c)
  BY <1>2, <1>3 DEF Running, At
<1>5. Nested(a, d) /\ a # d
  <2>1. call[a].depth \in Nat /\ call'[a].depth = call[a].depth
    BY <1>1, <1>2, <1>4, CallIsTyped DEF Locals
  <2>2. call'[d].depth = call[d].depth /\ call[a].depth < call[d].depth
    BY <1>2, <1>4, <2>1 DEF Nested
  <2> QED BY <1>2, <2>1, <2>2 DEF Nested
<1>6. Running(d)
  BY <1>1, <1>2 DEF Running, At, OnTop
<1>7. a # c
  BY <1>1, <1>5, <1>6 DEF OnTop
<1> QED BY <1>2, <1>5, <1>6, <1>7 DEF PlaceInv, Alone

LEMMA StartKeepsAlone ==
  ASSUME IInv, Books, PlaceInv, NEW c \in Calls, NEW p \in Patchers, NEW m \in Modules,
         NEW t \in Threads, Start(c, p, m, t)
  PROVE  Alone'
<1>1. /\ \A d \in Calls \ {c} : call'[d] = call[d]
      /\ At(c, "idle") /\ call'[c].pc = "next"
      /\ call'[c].patcher = p /\ call'[c].thread = t
  BY StartEffect DEF IInv
<1>2. WindowReenters \/ ~Writing(p, t)
  BY DEF Start, Writing, Running, At
<1> SUFFICES ASSUME ~WindowReenters, NEW a \in Calls, NEW d \in Calls,
                    call'[a].pc \in {"check", "store"}, Running(d)', Nested(a, d)'
             PROVE  call'[d].patcher # call'[a].patcher
  BY DEF Alone
<1>3. a # c /\ call'[a] = call[a]
  BY <1>1
<1>4. CASE d = c
  BY <1>1, <1>2, <1>3, <1>4 DEF Writing, Nested
<1>5. CASE d # c
  BY <1>1, <1>3, <1>5 DEF PlaceInv, Alone, Running, At, Nested
<1> QED BY <1>4, <1>5

\* The steps that move nothing in or out of a slot or a record.
LEMMA StillKeepsPlaces ==
  ASSUME IInv, Books, PlaceInv, NEW c \in Calls, Step(c),
         UNCHANGED <<slot, ledger>>, call'[c].wrapped = call[c].wrapped
  PROVE  LiveInv' /\ NestInv'
<1>1. /\ \A d \in Calls : call'[d].wrapped = call[d].wrapped /\ call'[d].patcher = call[d].patcher
      /\ replaced' = replaced
  BY StepFrame DEF Frame
<1>2. \A w \in Dispatchers : w[1] \in Calls
  BY DEF Dispatchers
<1>3. Tracked' = Tracked
  BY <1>1 DEF Tracked
<1>4. \A w \in Dispatchers : (Recorded(w)' <=> Recorded(w)) /\ (Wrapping(w)' <=> Wrapping(w))
  BY <1>1, <1>2 DEF Recorded, Wrapping, Owner
<1>5. LiveInv'
  BY <1>3, <1>4 DEF PlaceInv, LiveInv
<1>6. NestInv'
  BY <1>1, <1>3 DEF PlaceInv, NestInv
<1> QED BY <1>5, <1>6

LEMMA StepKeepsPlaces ==
  ASSUME IInv, Books, RulesInv, PlaceInv, NEW c \in Calls, Step(c)
  PROVE  LiveInv' /\ NestInv'
<1>1. /\ TypeOK /\ call[c].patcher \in Patchers /\ call[c].cur \in Slots /\ Built(c) \in Dispatchers
      /\ Frame(c)
  BY StepFrame, CallIsTyped DEF IInv
<1>2. /\ \A d \in Calls \ {c} : call'[d] = call[d]
      /\ \A d \in Calls : call'[d].patcher = call[d].patcher
      /\ \A p \in Patchers : ledger[p] \subseteq ledger'[p]
      /\ replaced' = replaced
  BY <1>1 DEF Frame
<1>3. Tracked' = Tracked
  BY <1>2 DEF Tracked
<1>4. \A w \in Dispatchers : w[1] \in Calls /\ Owner(w) \in Patchers /\ Owner(w)' = Owner(w)
  BY <1>1, <1>2, CallIsTyped DEF Dispatchers, Owner
<1>5. \A w \in Dispatchers : Recorded(w) => Recorded(w)'
  BY <1>2, <1>4 DEF Recorded
<1>6. \A w \in Dispatchers : w[1] # c => (Wrapping(w)' <=> Wrapping(w))
  BY <1>2, <1>4 DEF Wrapping
<1>7. CASE At(c, "check") /\ Claim(c) /\ LiveOwner(call[c].settled) = Nobody /\ ~Substituted(c)
  <2> DEFINE entry == [slot |-> call[c].cur, live |-> call[c].live, wrapper |-> Built(c)]
  <2>1. call'[c].wrapped = call[c].wrapped \cup {entry} /\ slot' = slot /\ ledger' = ledger
    BY <1>1, <1>7, ClaimEffect DEF Claim
  <2>2. entry.slot = call[c].cur /\ entry.live = call[c].live
    OBVIOUS
  <2> HIDE DEF entry
  <2>3. \A w \in Dispatchers : Wrapping(w) => Wrapping(w)'
    BY <1>4, <1>6, <2>1 DEF Wrapping
  <2>4. LiveInv'
    BY <1>3, <1>5, <2>1, <2>3 DEF PlaceInv, LiveInv
  <2>5. entry.slot \in Tracked => entry.live \notin Dispatchers
    BY <1>7, <2>2, ClaimReads
  <2>6. NestInv'
    BY <1>2, <1>3, <2>1, <2>5 DEF PlaceInv, NestInv
  <2> QED BY <2>4, <2>6
<1>8. CASE Store(c)
  <2>1. call'[c].wrapped = call[c].wrapped /\ ledger' = ledger
    BY <1>1, <1>8, GotoEffect DEF Store, Goes, SameWork
  <2>2. \A s \in Slots : slot'[s] = IF s = call[c].cur THEN Built(c) ELSE slot[s]
    BY <1>1, <1>8 DEF Store, TypeOK
  <2>3. Wrapping(Built(c))
    BY <1>8 DEF RulesInv, ClaimedInv, Store, At, Wrapping, Built
  <2>4. \A w \in Dispatchers : Wrapping(w)' <=> Wrapping(w)
    BY <1>4, <1>6, <2>1 DEF Wrapping
  <2>5. \A s \in Tracked : s \in Slots
    BY DEF Tracked
  <2>6. LiveInv'
    BY <1>1, <1>3, <1>5, <2>2, <2>3, <2>4, <2>5 DEF PlaceInv, LiveInv
  <2>7. NestInv'
    BY <1>2, <1>3, <2>1 DEF PlaceInv, NestInv
  <2> QED BY <2>6, <2>7
<1>9. ASSUME NEW e \in call[c].unvisited, RestoreEntry(c, e) PROVE LiveInv' /\ NestInv'
  <2>1. /\ e \in Entry /\ e \in call[c].wrapped /\ ledger' = ledger
        /\ e.wrapper = <<c, e.slot>>
    BY <1>1, <1>9, CallIsTyped DEF Locals, RestoreEntry, Look, PutBack, sharedVars, Books, WrapsInv
  <2>2. /\ call'[c].wrapped \in {call[c].wrapped, call[c].wrapped \ {e}}
        /\ slot' \in {slot, Undone(e)}
        /\ \/ call'[c].wrapped = call[c].wrapped \/ slot[e.slot] # e.wrapper
           \/ slot' = Undone(e)
    BY <1>1, <1>9, RestoreEffect DEF Finds, Visits
  <2>3. call'[c].wrapped \subseteq call[c].wrapped
    BY <2>2
  <2>4. NestInv'
    BY <1>2, <1>3, <2>1, <2>3 DEF PlaceInv, NestInv
  <2>5. ASSUME NEW s \in Tracked, NEW w \in Dispatchers, slot'[s] = w
        PROVE  Recorded(w)' \/ Wrapping(w)'
    <3>1. s \in Slots /\ (e.slot = s => e.live \notin Dispatchers)
      BY <2>1 DEF Tracked, PlaceInv, NestInv
    <3>2. slot'[s] = slot[s] /\ (slot' = Undone(e) => s # e.slot)
      BY <1>1, <2>1, <2>2, <2>5, <3>1 DEF Undone, TypeOK, Entry
    <3>3. Recorded(w) \/ Wrapping(w)
      BY <2>5, <3>2 DEF PlaceInv, LiveInv
    <3>4. CASE Recorded(w)
      BY <1>5, <3>4
    <3>5. CASE Wrapping(w)
      <4>1. PICK x \in call[w[1]].wrapped : x.wrapper = w
        BY <3>5 DEF Wrapping
      <4>2. w[2] = s
        BY <2>5, <3>1, <3>2 DEF Books, HomeInv
      <4>3. w = e.wrapper => e.slot = s
        BY <2>1, <4>2
      <4>4. x = e => call'[c].wrapped = call[c].wrapped
        BY <2>2, <2>5, <3>2, <4>1, <4>3
      <4>5. w[1] = c => x \in call'[c].wrapped
        BY <2>2, <4>1, <4>4
      <4> QED BY <1>4, <1>6, <3>5, <4>1, <4>5 DEF Wrapping
    <3> QED BY <3>3, <3>4, <3>5
  <2>6. LiveInv'
    BY <1>3, <2>5 DEF LiveInv
  <2> QED BY <2>4, <2>6
<1>10. CASE Publish(c)
  <2>1. call'[c].wrapped = call[c].wrapped /\ slot' = slot
    BY <1>1, <1>10, GotoEffect DEF Publish, Goes, SameWork
  <2>2. \A p \in Patchers : ledger'[p] \subseteq ledger[p] \cup call[c].wrapped
    BY <1>1, <1>10 DEF Publish, TypeOK
  <2>3. \A w \in Dispatchers : Wrapping(w)' <=> Wrapping(w)
    BY <1>4, <1>6, <2>1 DEF Wrapping
  <2>4. LiveInv'
    BY <1>3, <1>5, <2>1, <2>3 DEF PlaceInv, LiveInv
  <2>5. NestInv'
    BY <1>2, <1>3, <2>1, <2>2 DEF PlaceInv, NestInv
  <2> QED BY <2>4, <2>5
<1>11. CASE Handoff(c)
  <2>1. call'[c].wrapped = call[c].wrapped /\ UNCHANGED <<slot, ledger>>
    BY <1>1, <1>11, GotoEffect DEF Handoff, Goes, SameWork
  <2> QED BY <2>1, StillKeepsPlaces
<1>12. CASE Return(c)
  <2>1. call'[c].wrapped = {} /\ UNCHANGED <<slot, ledger>> /\ At(c, "release")
    BY <1>1, <1>12, ReturnEffect DEF Return
  <2>2. \A w \in Dispatchers : w[1] = c /\ Wrapping(w) => Recorded(w)
    BY <2>1 DEF Wrapping, Recorded, Owner, Books, WrapsInv, At
  <2>3. LiveInv'
    BY <1>3, <1>5, <1>6, <2>1, <2>2 DEF PlaceInv, LiveInv
  <2>4. NestInv'
    BY <1>2, <1>3, <2>1 DEF PlaceInv, NestInv
  <2> QED BY <2>3, <2>4
<1>13. CASE Quiet(c)
  BY <1>13, StillKeepsPlaces DEF Quiet
<1>14. Check(c) => Quiet(c) \/
         (At(c, "check") /\ Claim(c) /\ LiveOwner(call[c].settled) = Nobody /\ ~Substituted(c))
  <2>1. Extend(c, call[c].settled) \/ call' = Fail(c) => ~Claim(c)
    <3>1. Extend(c, call[c].settled) => call'[c].pc = "next"
      BY <1>1, CallIsTyped DEF Extend, TypeOK, Locals
    <3>2. call' = Fail(c) => call'[c].pc = "restore"
      BY <1>1, FailEffect DEF Fails
    <3>3. Claim(c) => call'[c].pc = "store"
      BY <1>1, ClaimEffect
    <3> QED BY <3>1, <3>2, <3>3
  <2> QED BY <2>1, CheckIsQuiet DEF Check
<1>15. \A s \in Slots : Read(c, s) => Quiet(c)
  BY ReadIsQuiet
<1> QED BY <1>7, <1>8, <1>9, <1>10, <1>11, <1>12, <1>13, <1>14, <1>15, DecideIsQuiet,
           ReserveIsQuiet, SettleIsQuiet, LandIsQuiet, RaiseIsQuiet, FinishIsQuiet,
           UnwindIsQuiet DEF Step

LEMMA StartKeepsPlaces ==
  ASSUME IInv, Books, PlaceInv, NEW c \in Calls, NEW p \in Patchers, NEW m \in Modules,
         NEW t \in Threads, Start(c, p, m, t)
  PROVE  LiveInv' /\ NestInv'
<1>1. /\ \A d \in Calls \ {c} : call'[d] = call[d]
      /\ At(c, "idle") /\ call'[c].wrapped = {}
      /\ UNCHANGED <<slot, ledger, replaced>>
  BY StartEffect DEF IInv, sharedVars, historyVars
<1>2. Tracked' = Tracked
  BY <1>1 DEF Tracked
<1>3. ASSUME NEW w \in Dispatchers, Recorded(w) \/ Wrapping(w)
      PROVE  Recorded(w)' \/ Wrapping(w)'
  <2>1. w[1] \in Calls /\ Owner(w) \in Patchers
    BY CallIsTyped DEF IInv, Dispatchers, Owner
  <2>2. w[1] # c
    <3>1. Recorded(w) => ~At(w[1], "idle")
      BY <2>1, AnsweredHasStarted DEF Recorded, Answers
    <3>2. Wrapping(w) => ~At(w[1], "idle")
      BY <2>1 DEF Wrapping, Books, WrapsInv, Running
    <3> QED BY <1>1, <1>3, <3>1, <3>2
  <2> QED BY <1>1, <1>3, <2>1, <2>2 DEF Recorded, Wrapping, Owner
<1>4. LiveInv'
  BY <1>1, <1>2, <1>3 DEF PlaceInv, LiveInv
<1>5. NestInv'
  BY <1>1, <1>2 DEF PlaceInv, NestInv
<1> QED BY <1>4, <1>5

LEMMA UninstallKeepsPlaces ==
  ASSUME IInv, Books, PlaceInv, NEW p \in Patchers, Uninstall(p)
  PROVE  LiveInv' /\ NestInv'
<1>1. TypeOK /\ \A c \in Calls : ~Running(c)
  BY DEF IInv, Uninstall
<1>2. call' = call /\ replaced \subseteq replaced'
  BY <1>1, UninstallBooks DEF Uninstall
<1>3. /\ ledger'[p] \subseteq ledger[p]
      /\ \A q \in Patchers \ {p} : ledger'[q] = ledger[q]
      /\ \A s \in Slots :
           \/ /\ slot'[s] = slot[s]
              /\ \A e \in ledger[p] : e.slot = s /\ slot[s] = e.wrapper => e \in ledger'[p]
           \/ \E e \in ledger[p] : e.slot = s /\ slot[s] = e.wrapper /\ slot'[s] = e.live
  BY <1>1, UninstallEffect
<1>4. \A c \in Calls : call[c].wrapped = {}
  BY <1>1, NothingInFlight
<1>5. Tracked' \subseteq Tracked
  BY <1>2 DEF Tracked
<1>6. NestInv'
  BY <1>2, <1>3, <1>5 DEF PlaceInv, NestInv
<1>7. ASSUME NEW s \in Tracked, NEW w \in Dispatchers, slot'[s] = w
      PROVE  Recorded(w)'
  <2>1. /\ w[1] \in Calls /\ Owner(w) \in Patchers /\ s \in Slots
        /\ Owner(w)' = Owner(w)
    BY <1>1, <1>2, CallIsTyped DEF Dispatchers, Owner, Tracked
  <2>2. /\ slot[s] = w
        /\ \A e \in ledger[p] : e.slot = s /\ slot[s] = e.wrapper => e \in ledger'[p]
    BY <1>3, <1>7, <2>1 DEF PlaceInv, NestInv
  <2>3. PICK e \in ledger[Owner(w)] : e.wrapper = w
    BY <1>4, <2>1, <2>2 DEF PlaceInv, LiveInv, Recorded, Wrapping
  <2>4. e.slot = s
    BY <2>1, <2>2, <2>3 DEF Books, LedgerInv, HomeInv
  <2>5. e \in ledger'[Owner(w)]
    BY <1>3, <2>1, <2>2, <2>3, <2>4
  <2> QED BY <2>1, <2>3, <2>5 DEF Recorded
<1>8. LiveInv'
  BY <1>5, <1>7 DEF LiveInv
<1> QED BY <1>6, <1>8

LEMMA ReplaceKeepsPlaces ==
  ASSUME IInv, PlaceInv, NEW s \in Slots, Replace(s)
  PROVE  LiveInv' /\ NestInv'
<1>1. /\ UNCHANGED <<call, ledger>> /\ replaced' = replaced \cup {s}
      /\ \A x \in Slots : x # s => slot'[x] = slot[x]
  BY DEF Replace, IInv, TypeOK
<1>2. Tracked' \subseteq Tracked \ {s} /\ Tracked \subseteq Slots
  BY <1>1 DEF Tracked
<1>3. \A w \in Dispatchers : (Recorded(w)' <=> Recorded(w)) /\ (Wrapping(w)' <=> Wrapping(w))
  BY <1>1 DEF Recorded, Wrapping, Owner
<1>4. LiveInv'
  BY <1>1, <1>2, <1>3 DEF PlaceInv, LiveInv
<1>5. NestInv'
  BY <1>1, <1>2 DEF PlaceInv, NestInv
<1> QED BY <1>4, <1>5

LEMMA StutterKeepsPlaces ==
  ASSUME PlaceInv, UNCHANGED vars
  PROVE  PlaceInv'
<1>1. /\ slot' = slot /\ ledger' = ledger /\ inflight' = inflight /\ call' = call
      /\ replaced' = replaced /\ uninstalled' = uninstalled
  BY DEF vars
<1>2. Tracked' = Tracked
  BY <1>1 DEF Tracked
<1>3. \A w \in Dispatchers : /\ Recorded(w)' <=> Recorded(w)
                             /\ Wrapping(w)' <=> Wrapping(w)
                             /\ \A c \in Calls : Vouched(c, w)' <=> Vouched(c, w)
  BY <1>1 DEF Recorded, Wrapping, Vouched, Owner, Nested
<1>4. LiveInv' /\ NestInv'
  BY <1>1, <1>2, <1>3 DEF PlaceInv, LiveInv, NestInv
<1>5. ReadsInv'
  BY <1>1, <1>2, <1>3 DEF PlaceInv, ReadsInv, FirstRead, SecondRead, At
<1>6. Alone'
  BY <1>1 DEF PlaceInv, Alone, At, Running, Nested
<1> QED BY <1>4, <1>5, <1>6 DEF PlaceInv

LEMMA InitHoldsPlaces == Init => PlaceInv
<1> SUFFICES ASSUME Init PROVE PlaceInv
  OBVIOUS
<1>1. \A c \in Calls : ~Running(c)
  BY DEF Init, Fresh, Running, At
<1>2. \A c \in Calls : call[c].wrapped = {}
  BY <1>1, InitHoldsBooks DEF Books, WrapsInv
<1>3. /\ \A p \in Patchers : ledger[p] = {}
      /\ \A s \in Slots : slot[s] \notin Dispatchers
  BY NobodyAssumption DEF Init
<1>4. LiveInv /\ NestInv
  BY <1>2, <1>3 DEF LiveInv, NestInv, Tracked
<1>5. \A c \in Calls : call[c].pc = "idle"
  BY DEF Init, Fresh
<1>6. ReadsInv /\ Alone
  BY <1>5 DEF ReadsInv, FirstRead, SecondRead, Alone, At
<1> QED BY <1>4, <1>6 DEF PlaceInv

LEMMA NextKeepsPlaces ==
  IInv /\ Books /\ RulesInv /\ PlaceInv /\ [Next]_vars => PlaceInv'
<1> SUFFICES ASSUME IInv, Books, RulesInv, PlaceInv, [Next]_vars PROVE PlaceInv'
  OBVIOUS
<1>1. ASSUME NEW c \in Calls, NEW p \in Patchers, NEW m \in Modules, NEW t \in Threads,
             Start(c, p, m, t)
      PROVE  PlaceInv'
  BY <1>1, StartKeepsPlaces, StartKeepsReads, StartKeepsAlone DEF PlaceInv
<1>2. ASSUME NEW c \in Calls, Step(c) PROVE PlaceInv'
  <2>1. ReadsInv'
    BY <1>2, OwnReads, OthersReads DEF ReadsInv
  <2> QED BY <1>2, <2>1, StepKeepsPlaces, StepKeepsAlone DEF PlaceInv
<1>3. ASSUME NEW p \in Patchers, Uninstall(p) PROVE PlaceInv'
  <2>1. \A c \in Calls : call'[c] = call[c] /\ ~Running(c)
    BY <1>3 DEF Uninstall
  <2>2. ReadsInv'
    BY <2>1 DEF ReadsInv, FirstRead, SecondRead, At, Running
  <2>3. Alone'
    BY <2>1 DEF Alone, At, Running
  <2> QED BY <1>3, <2>2, <2>3, UninstallKeepsPlaces DEF PlaceInv
<1>4. ASSUME NEW s \in Slots, Replace(s) PROVE PlaceInv'
  <2>1. Alone'
    BY <1>4 DEF Replace, PlaceInv, Alone, Running, At, Nested
  <2> QED BY <1>4, <2>1, ReplaceKeepsPlaces, ReplaceKeepsReads DEF PlaceInv
<1>5. CASE UNCHANGED vars
  BY <1>5, StutterKeepsPlaces
<1> QED BY <1>1, <1>2, <1>3, <1>4, <1>5 DEF Next

LEMMA PlacesHold == Spec => [](IInv /\ Books /\ PlaceInv)
<1>1. Init => PlaceInv
  BY InitHoldsPlaces
<1>2. IInv /\ Books /\ RulesInv /\ PlaceInv /\ [Next]_vars => PlaceInv'
  BY NextKeepsPlaces
<1> QED BY <1>1, <1>2, RulesHold, PTL DEF Spec

\* A live dispatcher is one its Patcher answers for, and once its call has
\* returned one that the ledger can take out: for one instrumenting thread, or
\* where target code does not re-enter the window of slots that return the same
\* object twice.
THEOREM NothingLiveUnrecorded ==
  ASSUME OneThread \/ (~WindowReenters /\ Stable = Slots)
  PROVE  Spec => []NothingLiveIsUnrecorded
<1>1. IInv /\ Books /\ PlaceInv => NothingLiveIsUnrecorded
  <2> SUFFICES ASSUME IInv, Books, PlaceInv, NEW s \in Slots \ replaced,
                      NEW w \in Dispatchers, slot[s] = w
               PROVE  /\ Answers(Owner(w), w)
                      /\ ~Running(w[1]) => \E e \in ledger[Owner(w)] : e.wrapper = w
    BY DEF NothingLiveIsUnrecorded
  <2>1. Recorded(w) \/ Wrapping(w)
    BY DEF PlaceInv, LiveInv, Tracked
  <2>2. w[1] \in Calls
    BY DEF Dispatchers
  <2>3. CASE Recorded(w)
    BY <2>3 DEF Recorded, Answers
  <2>4. CASE Wrapping(w)
    <3>1. Running(w[1])
      BY <2>2, <2>4 DEF Wrapping, Books, WrapsInv
    <3>2. Answers(Owner(w), w)
      BY <2>2, <2>4, BuiltIsAnswered DEF Wrapping, Owner
    <3> QED BY <3>1, <3>2
  <2> QED BY <2>1, <2>3, <2>4
<1> QED BY <1>1, PlacesHold, PTL

\* No rule fires twice because its dispatcher wraps another, in the same cases.
THEOREM DispatchersAreNotNested ==
  ASSUME OneThread \/ (~WindowReenters /\ Stable = Slots)
  PROVE  Spec => []DispatchersDoNotNest
<1>1. IInv /\ Books /\ PlaceInv => DispatchersDoNotNest
  <2> SUFFICES ASSUME IInv, Books, PlaceInv, NEW p \in Patchers, NEW e \in Wraps(p),
                      e.slot \notin replaced
               PROVE  e.live \notin Dispatchers
    BY DEF DispatchersDoNotNest
  <2>1. e \in ledger[p] \/ \E c \in Calls : e \in call[c].wrapped
    BY DEF Wraps
  <2>2. e.slot \in Slots
    BY <2>1, CallIsTyped DEF IInv, TypeOK, Locals, Entry
  <2>3. e.slot \in Tracked
    BY <2>2 DEF Tracked
  <2> QED BY <2>1, <2>3 DEF PlaceInv, NestInv
<1> QED BY <1>1, PlacesHold, PTL

-----------------------------------------------------------------------------
\* What a write displaces, for any threads and with re-entry.  A value seen in
\* a slot was put there: a dispatcher by its store, Foreign by the program.
Reading == {"decide", "reserve", "settle", "check"}

Unstored(c, s) == ToBuild(c, s) \/ (At(c, "store") /\ call[c].cur = s)
Unseen(s, v) ==
  \/ s \notin replaced /\ v = Foreign
  \/ \E c \in Calls : v = <<c, s>> /\ Unstored(c, s)

SeenInv ==
  /\ \A s \in Slots : ~Unseen(s, slot[s])
  /\ \A c \in Calls :
       /\ call[c].pc \in Reading => ~Unseen(call[c].cur, call[c].live)
       /\ call[c].pc \in {"check", "store"} => ~Unseen(call[c].cur, call[c].settled)
       /\ \A e \in call[c].wrapped : ~Unseen(e.slot, e.live)
  /\ \A p \in Patchers : \A e \in ledger[p] : ~Unseen(e.slot, e.live)

\* Where a call is about to write over what it did not decide on, its third
\* read said the second is gone, and nothing nested in it has it to bring back.
Gone(c) ==
  At(c, "store") /\ call[c].cur \in Stable /\ call[c].live # call[c].settled =>
    /\ slot[call[c].cur] # call[c].settled
    /\ \A d \in Calls : Running(d) /\ Nested(c, d) =>
         /\ call[d].pc \in Reading /\ call[d].cur = call[c].cur =>
              call[d].live # call[c].settled
         /\ \A e \in call[d].wrapped :
              e.slot = call[c].cur => e.live # call[c].settled

DisplaceInv == SeenInv /\ \A c \in Calls : Gone(c)

LEMMA SeenHolds ==
  ASSUME SeenInv
  PROVE  /\ \A s \in Slots : ~Unseen(s, slot[s])
         /\ \A c \in Calls : \A e \in call[c].wrapped : ~Unseen(e.slot, e.live)
         /\ \A p \in Patchers : \A e \in ledger[p] : ~Unseen(e.slot, e.live)
  BY DEF SeenInv

\* What a step of c reads, and what it takes with it from the reads before.
Reads(c) ==
  /\ call'[c].pc \in Reading =>
       \/ call'[c].cur \in Slots /\ call'[c].live = slot[call'[c].cur]
       \/ /\ call[c].pc \in Reading
          /\ call'[c].cur = call[c].cur /\ call'[c].live = call[c].live
  /\ call'[c].pc = "check" =>
       call'[c].cur \in Slots /\ call'[c].settled = slot[call'[c].cur]
  /\ call'[c].pc = "store" =>
       /\ At(c, "check") /\ Claim(c) /\ ~Substituted(c)
       /\ LiveOwner(call[c].settled) = Nobody

LEMMA StepReads ==
  ASSUME IInv, NEW c \in Calls, Step(c)
  PROVE  Reads(c)
<1>1. TypeOK /\ call[c].cur \in Slots
  BY CallIsTyped DEF IInv
<1>2. CASE call'[c].pc \notin Reading \cup {"store"}
  BY <1>2 DEF Reads, Reading
<1>3. ASSUME NEW s \in Slots, Read(c, s), call'[c].pc = "decide"
      PROVE  Reads(c)
  <2>1. call'[c].cur = s /\ call'[c].live = slot[s]
    BY <1>1, <1>3, ReadEffect DEF Goes
  <2> QED BY <1>3, <2>1 DEF Reads, Reading
<1>4. ASSUME NEW v, Extend(c, v) PROVE call'[c].pc = "next"
  BY <1>1, <1>4, CallIsTyped DEF Extend, TypeOK, Locals
<1>5. ASSUME call' = Fail(c) PROVE call'[c].pc = "restore"
  BY <1>1, <1>5, FailEffect DEF Fails
<1>6. CASE Decide(c) /\ call'[c].pc = "reserve"
  <2>1. call' = Goto(c, "reserve") /\ At(c, "decide")
    BY <1>4, <1>5, <1>6 DEF Decide
  <2>2. call'[c].cur = call[c].cur /\ call'[c].live = call[c].live
    BY <1>1, <2>1, GotoEffect
  <2> QED BY <1>6, <2>1, <2>2 DEF Reads, Reading, At
<1>7. CASE Reserve(c) /\ call'[c].pc = "settle"
  <2>1. call'[c].cur = call[c].cur /\ call'[c].live = call[c].live /\ At(c, "reserve")
    BY <1>1, <1>7, ReserveEffect DEF Fails, Reserve
  <2> QED BY <1>7, <2>1 DEF Reads, Reading, At
<1>8. CASE Settle(c) /\ call'[c].pc = "check"
  <2>1. /\ call'[c].cur = call[c].cur /\ call'[c].live = call[c].live
        /\ call'[c].settled = slot[call[c].cur] /\ At(c, "settle")
    BY <1>1, <1>8, SettleEffect DEF Goes, Settle
  <2> QED BY <1>1, <1>8, <2>1 DEF Reads, Reading, At
<1>9. CASE At(c, "check") /\ Claim(c) /\ ~Substituted(c) /\ LiveOwner(call[c].settled) = Nobody
  <2>1. call'[c].pc = "store"
    BY <1>1, <1>9, ClaimEffect
  <2> QED BY <1>9, <2>1 DEF Reads, Reading
<1>10. CASE \E s \in Slots : Read(c, s)
  <2>1. call'[c].pc \in {"next", "decide"}
    BY <1>1, <1>10, ReadEffect DEF Goes
  <2> QED BY <1>2, <1>3, <1>10, <2>1 DEF Reading
<1>11. CASE Decide(c)
  <2>1. call'[c].pc \in {"next", "reserve", "restore"}
    BY <1>1, <1>4, <1>5, <1>11, GotoEffect DEF Decide, Goes
  <2> QED BY <1>2, <1>6, <1>11, <2>1 DEF Reading
<1>12. CASE Reserve(c)
  <2>1. call'[c].pc \in {"settle", "restore"}
    BY <1>1, <1>12, ReserveEffect DEF Fails, Goes
  <2> QED BY <1>2, <1>7, <1>12, <2>1 DEF Reading
<1>13. CASE Settle(c)
  <2>1. call'[c].pc \in {"next", "check"}
    BY <1>1, <1>13, SettleEffect DEF Goes
  <2> QED BY <1>2, <1>8, <1>13, <2>1 DEF Reading
<1>14. CASE Check(c)
  BY <1>2, <1>4, <1>5, <1>9, <1>14 DEF Check, Reading
<1>15. CASE Store(c) \/ Finish(c) \/ Publish(c) \/ Handoff(c) \/ Unwind(c)
  <2>1. call'[c].pc \in {"stored", "publish", "handoff", "release"}
    BY <1>1, <1>15, GotoEffect DEF Store, Finish, Publish, Handoff, Unwind, Goes
  <2> QED BY <1>2, <2>1 DEF Reading
<1>16. CASE Land(c) \/ Raise(c) \/ Return(c)
  <2>1. call'[c].pc \in {"next", "restore", "done"}
    BY <1>1, <1>5, <1>16, LandEffect, ReturnEffect DEF Raise
  <2> QED BY <1>2, <2>1 DEF Reading
<1>17. ASSUME NEW e \in call[c].unvisited, RestoreEntry(c, e)
       PROVE  call'[c].pc \in {"restore", "undo"}
  BY <1>1, <1>17, RestoreEffect
<1> QED BY <1>2, <1>10, <1>11, <1>12, <1>13, <1>14, <1>15, <1>16, <1>17 DEF Step, Reading

\* What a step of c puts into a slot, a wrap or the ledger was there before.
Puts(c) ==
  /\ \A s \in Slots :
       \/ slot'[s] = slot[s]
       \/ Store(c) /\ s = call[c].cur /\ slot'[s] = Built(c)
       \/ \E e \in call[c].wrapped :
            At(c, "undo") /\ call[c].cur = s /\ e.slot = s /\ slot'[s] = e.live
  /\ \A e \in call'[c].wrapped :
       \/ e \in call[c].wrapped
       \/ At(c, "check") /\ e.slot = call[c].cur /\ e.live = call[c].live
  /\ \A p \in Patchers : \A e \in ledger'[p] : e \in ledger[p] \/ e \in call[c].wrapped

LEMMA StepPuts ==
  ASSUME IInv, Books, NEW c \in Calls, Step(c)
  PROVE  Puts(c)
<1>1. TypeOK /\ call[c].cur \in Slots
  BY CallIsTyped DEF IInv
<1>2. CASE Quiet(c)
  BY <1>2 DEF Quiet, Puts
<1>3. CASE At(c, "check") /\ Claim(c)
  <2>1. slot' = slot /\ ledger' = ledger
    BY <1>3 DEF Claim
  <2>2. call'[c].wrapped = call[c].wrapped \cup
          {[slot |-> call[c].cur, live |-> call[c].live, wrapper |-> Built(c)]}
    BY <1>1, <1>3, ClaimEffect
  <2> QED BY <1>3, <2>1, <2>2 DEF Puts
<1>4. CASE Store(c)
  <2>1. call'[c].wrapped = call[c].wrapped /\ ledger' = ledger
    BY <1>1, <1>4, GotoEffect DEF Store, Goes, SameWork
  <2>2. \A s \in Slots : slot'[s] = slot[s] \/ (s = call[c].cur /\ slot'[s] = Built(c))
    BY <1>1, <1>4 DEF Store, TypeOK
  <2> QED BY <1>4, <2>1, <2>2 DEF Puts
<1>5. ASSUME NEW e \in call[c].unvisited, RestoreEntry(c, e) PROVE Puts(c)
  <2>1. e \in call[c].wrapped /\ ledger' = ledger
    BY <1>5 DEF RestoreEntry, Look, PutBack, sharedVars, Books, WrapsInv
  <2>2. /\ call'[c].wrapped \subseteq call[c].wrapped
        /\ slot' = slot \/ (At(c, "undo") /\ call[c].cur = e.slot /\ slot' = Undone(e))
    BY <1>1, <1>5, RestoreEffect DEF Finds, Visits
  <2>3. \A s \in Slots :
          \/ slot'[s] = slot[s]
          \/ At(c, "undo") /\ call[c].cur = s /\ e.slot = s /\ slot'[s] = e.live
    BY <1>1, <2>2 DEF Undone, TypeOK
  <2> QED BY <2>1, <2>2, <2>3 DEF Puts
<1>6. CASE Publish(c)
  <2>1. call'[c].wrapped = call[c].wrapped /\ slot' = slot
    BY <1>1, <1>6, GotoEffect DEF Publish, Goes, SameWork
  <2>2. \A p \in Patchers : ledger'[p] \subseteq ledger[p] \cup call[c].wrapped
    BY <1>1, <1>6 DEF Publish, TypeOK
  <2> QED BY <2>1, <2>2 DEF Puts
<1>7. CASE Handoff(c)
  <2>1. call'[c].wrapped = call[c].wrapped /\ slot' = slot /\ ledger' = ledger
    BY <1>1, <1>7, GotoEffect DEF Handoff, Goes, SameWork
  <2> QED BY <2>1 DEF Puts
<1>8. CASE Return(c)
  <2>1. call'[c].wrapped = {} /\ slot' = slot /\ ledger' = ledger
    BY <1>1, <1>8, ReturnEffect DEF Return
  <2> QED BY <2>1 DEF Puts
<1> QED BY <1>2, <1>3, <1>4, <1>5, <1>6, <1>7, <1>8, StepCases

\* Nothing becomes unseen again.
LEMMA StepShowsMore ==
  ASSUME IInv, Books, NEW c \in Calls, Step(c), NEW s \in Slots, NEW v, Unseen(s, v)'
  PROVE  Unseen(s, v)
<1>1. TypeOK /\ Frame(c) /\ replaced' = replaced /\ call[c].cur \in Slots
  BY StepFrame, CallIsTyped DEF IInv, Frame
<1>2. ASSUME Unstored(c, s)' PROVE Unstored(c, s)
  <2>1. CASE Quiet(c) /\ call'[c].pc # "store"
    BY <1>2, <2>1 DEF Quiet, Unstored, At
  <2>2. CASE At(c, "check") /\ Claim(c)
    <3>1. /\ call'[c].pc = "store" /\ call'[c].cur = call[c].cur
          /\ call'[c].todo = call[c].todo
      BY <1>1, <2>2, ClaimEffect
    <3>2. call[c].cur \in call[c].todo
      BY <2>2 DEF Books, LoopInv, Installing, At
    <3> QED BY <1>2, <2>2, <3>1, <3>2 DEF Unstored, ToBuild, Installing, At
  <2>3. CASE Store(c)
    <3>1. /\ call'[c].pc = "stored" /\ call'[c].cur = call[c].cur
          /\ call'[c].todo = call[c].todo
      BY <1>1, <2>3, GotoEffect DEF Store, Goes
    <3> QED BY <1>2, <2>3, <3>1 DEF Unstored, ToBuild, Installing, At, Store
  <2>4. CASE \/ \E e \in call[c].unvisited : RestoreEntry(c, e)
             \/ Publish(c) \/ Handoff(c) \/ Return(c)
    <3>1. call'[c].pc \in {"restore", "undo", "handoff", "release", "done"}
      BY <1>1, <2>4, RestoreEffect, GotoEffect, ReturnEffect DEF Publish, Handoff, Goes
    <3> QED BY <1>2, <3>1 DEF Unstored, ToBuild, Installing, At
  <2>5. call'[c].pc = "store" => At(c, "check") /\ Claim(c)
    BY StepReads DEF Reads
  <2> QED BY <2>1, <2>2, <2>3, <2>4, <2>5, StepCases
<1>3. ASSUME NEW d \in Calls, d # c, Unstored(d, s)' PROVE Unstored(d, s)
  BY <1>1, <1>3 DEF Frame, Unstored, ToBuild, At
<1> QED BY <1>1, <1>2, <1>3 DEF Unseen

LEMMA StepKeepsSeen ==
  ASSUME IInv, Books, SeenInv, NEW c \in Calls, Step(c)
  PROVE  SeenInv'
<1>1. TypeOK /\ Frame(c) /\ call[c].cur \in Slots /\ Reads(c) /\ Puts(c)
  BY StepFrame, StepReads, StepPuts, CallIsTyped DEF IInv
<1>2. \A s \in Slots : \A v : Unseen(s, v)' => Unseen(s, v)
  BY StepShowsMore
<1>3. ASSUME NEW s \in Slots, NEW v, v = slot'[s] PROVE ~Unseen(s, v)'
  <2>1. CASE slot'[s] = slot[s]
    BY <1>2, <1>3, <2>1, SeenHolds
  <2>2. CASE Store(c) /\ s = call[c].cur /\ slot'[s] = Built(c)
    <3>1. call'[c].pc = "stored" /\ call'[c].cur = s
      BY <1>1, <2>2, GotoEffect DEF Store, Goes
    <3>2. ~Unstored(c, s)'
      BY <3>1 DEF Unstored, ToBuild, At
    <3>3. v = <<c, s>> /\ v # Foreign
      BY <1>1, <1>3, <2>2, NobodyAssumption DEF Built, Dispatchers
    <3> QED BY <3>2, <3>3 DEF Unseen
  <2>3. ASSUME NEW e \in call[c].wrapped, e.slot = s, slot'[s] = e.live
        PROVE  ~Unseen(s, v)'
    BY <1>2, <1>3, <2>3, SeenHolds
  <2> QED BY <1>1, <2>1, <2>2, <2>3 DEF Puts
<1>4. \A s \in Slots : ~Unseen(s, slot[s])'
  BY <1>3 DEF Unseen
<1>5. ASSUME NEW d \in Calls, NEW s \in Slots, s = call'[d].cur, NEW v,
             \/ call'[d].pc \in Reading /\ v = call'[d].live
             \/ call'[d].pc \in {"check", "store"} /\ v = call'[d].settled
      PROVE  ~Unseen(s, v)'
  <2> SUFFICES ~Unseen(s, v)
    BY <1>2
  <2>1. CASE d # c
    <3>1. call'[d] = call[d]
      BY <1>1, <2>1 DEF Frame
    <3> QED BY <1>5, <3>1 DEF SeenInv
  <2>2. CASE d = c /\ call'[c].pc \in Reading /\ v = call'[c].live
    BY <1>1, <1>5, <2>2 DEF Reads, SeenInv
  <2>3. CASE d = c /\ call'[c].pc = "check" /\ v = call'[c].settled
    <3>1. v = slot[s]
      BY <1>1, <1>5, <2>3 DEF Reads
    <3> QED BY <3>1, SeenHolds
  <2>4. CASE d = c /\ call'[c].pc = "store" /\ v = call'[c].settled
    <3>1. At(c, "check") /\ Claim(c)
      BY <1>1, <2>4 DEF Reads
    <3>2. call'[c].cur = call[c].cur /\ call'[c].settled = call[c].settled
      BY <1>1, <3>1, ClaimEffect
    <3> QED BY <1>5, <2>4, <3>1, <3>2 DEF SeenInv, At
  <2> QED BY <1>5, <2>1, <2>2, <2>3, <2>4
<1>6. ASSUME NEW d \in Calls, NEW e \in call'[d].wrapped
      PROVE  e.slot \in Slots /\ ~Unseen(e.slot, e.live)'
  <2>1. CASE d # c \/ e \in call[c].wrapped
    <3>1. e \in call[d].wrapped
      BY <1>1, <2>1 DEF Frame
    <3>2. e.slot \in Slots
      BY <1>1, <3>1, CallIsTyped DEF Locals, Entry
    <3> QED BY <1>2, <3>1, <3>2, SeenHolds
  <2>2. CASE d = c /\ At(c, "check") /\ e.slot = call[c].cur /\ e.live = call[c].live
    <3>1. ~Unseen(call[c].cur, call[c].live)
      BY <2>2 DEF SeenInv, Reading, At
    <3> QED BY <1>1, <1>2, <2>2, <3>1
  <2> QED BY <1>1, <2>1, <2>2 DEF Puts
<1>7. ASSUME NEW p \in Patchers, NEW e \in ledger'[p]
      PROVE  e.slot \in Slots /\ ~Unseen(e.slot, e.live)'
  <2>1. e \in ledger[p] \/ e \in call[c].wrapped
    BY <1>1 DEF Puts
  <2>2. e.slot \in Slots
    BY <1>1, <2>1, CallIsTyped DEF TypeOK, Locals, Entry
  <2>3. ~Unseen(e.slot, e.live)
    BY <2>1, SeenHolds
  <2> QED BY <1>2, <2>2, <2>3
<1>8. /\ \A d \in Calls : \A e \in call'[d].wrapped : ~Unseen(e.slot, e.live)'
      /\ \A p \in Patchers : \A e \in ledger'[p] : ~Unseen(e.slot, e.live)'
  BY <1>6, <1>7
<1>9. ASSUME NEW d \in Calls
      PROVE  /\ call'[d].pc \in Reading => ~Unseen(call[d].cur, call[d].live)'
             /\ call'[d].pc \in {"check", "store"} => ~Unseen(call[d].cur, call[d].settled)'
  <2>1. call'[d].cur \in Slots
    <3>1. TypeOK'
      BY NextKeepsInvariant DEF Next, IInv
    <3> QED BY <3>1 DEF TypeOK, Locals
  <2>2. \A s \in Slots : \A v :
          s = call'[d].cur /\ call'[d].pc \in Reading /\ v = call'[d].live => ~Unseen(s, v)'
    BY <1>5
  <2>3. \A s \in Slots : \A v :
          s = call'[d].cur /\ call'[d].pc \in {"check", "store"} /\ v = call'[d].settled =>
            ~Unseen(s, v)'
    BY <1>5
  <2> QED BY <2>1, <2>2, <2>3 DEF Unseen
<1> QED BY <1>4, <1>8, <1>9 DEF SeenInv

\* A step of the program or of a caller that puts no unseen value anywhere.
LEMMA OutsidersKeepSeen ==
  ASSUME IInv, SeenInv,
         \A s \in Slots : \A v : Unseen(s, v)' => Unseen(s, v),
         \A s \in Slots : \A v : v = slot'[s] => ~Unseen(s, v)',
         \A c \in Calls : call'[c] = call[c] \/ (At(c, "next")' /\ call'[c].wrapped = {}),
         \A p \in Patchers : ledger'[p] \subseteq ledger[p]
  PROVE  SeenInv'
<1>1. ASSUME NEW c \in Calls
      PROVE  /\ call'[c].pc \in Reading => ~Unseen(call[c].cur, call[c].live)'
             /\ call'[c].pc \in {"check", "store"} => ~Unseen(call[c].cur, call[c].settled)'
             /\ \A e \in call'[c].wrapped : ~Unseen(e.slot, e.live)'
  <2>1. CASE call'[c] = call[c]
    <3>1. call[c].cur \in Slots /\ \A e \in call[c].wrapped : e.slot \in Slots
      BY CallIsTyped DEF IInv, Locals, Entry
    <3>2. \A s \in Slots : \A v : s = call[c].cur /\ v = call[c].live /\ call[c].pc \in Reading =>
                                   ~Unseen(s, v)'
      BY DEF SeenInv
    <3>3. \A s \in Slots : \A v :
            s = call[c].cur /\ v = call[c].settled /\ call[c].pc \in {"check", "store"} =>
              ~Unseen(s, v)'
      BY DEF SeenInv
    <3>4. \A e \in call[c].wrapped : ~Unseen(e.slot, e.live)'
      BY <3>1, SeenHolds
    <3> QED BY <2>1, <3>1, <3>2, <3>3, <3>4 DEF Unseen
  <2>2. CASE At(c, "next")' /\ call'[c].wrapped = {}
    BY <2>2 DEF At, Reading
  <2> QED BY <2>1, <2>2
<1>2. ASSUME NEW p \in Patchers, NEW e \in ledger'[p] PROVE ~Unseen(e.slot, e.live)'
  <2>1. e \in ledger[p] /\ e.slot \in Slots
    BY DEF IInv, TypeOK, Entry
  <2> QED BY <2>1, SeenHolds
<1>3. \A s \in Slots : ~Unseen(s, slot[s])'
  BY DEF Unseen
<1> QED BY <1>1, <1>2, <1>3 DEF SeenInv

LEMMA StartKeepsSeen ==
  ASSUME IInv, SeenInv, NEW c \in Calls, NEW p \in Patchers, NEW m \in Modules,
         NEW t \in Threads, Start(c, p, m, t)
  PROVE  SeenInv'
<1>1. /\ \A d \in Calls \ {c} : call'[d] = call[d]
      /\ At(c, "idle") /\ call'[c].pc = "next" /\ call'[c].wrapped = {}
      /\ UNCHANGED <<slot, ledger, replaced>>
  BY StartEffect DEF IInv, sharedVars, historyVars
<1>2. \A d \in Calls, s \in Slots : Unstored(d, s)' => Unstored(d, s)
  BY <1>1 DEF Unstored, ToBuild, At
<1>3. \A s \in Slots : \A v : Unseen(s, v)' => Unseen(s, v)
  BY <1>1, <1>2 DEF Unseen
<1>4. \A s \in Slots : \A v : v = slot'[s] => ~Unseen(s, v)'
  BY <1>1, <1>3, SeenHolds
<1> QED BY <1>1, <1>3, <1>4, OutsidersKeepSeen DEF At

LEMMA UninstallKeepsSeen ==
  ASSUME IInv, SeenInv, NEW p \in Patchers, Uninstall(p)
  PROVE  SeenInv'
<1>1. call' = call /\ replaced \subseteq replaced'
  BY UninstallBooks DEF Uninstall, IInv
<1>2. \A q \in Patchers : ledger'[q] \subseteq ledger[q]
  BY UninstallEffect DEF IInv
<1>3. \A s \in Slots : \A v : Unseen(s, v)' => Unseen(s, v)
  BY <1>1 DEF Unseen, Unstored, ToBuild, At
<1>4. ASSUME NEW s \in Slots, NEW v, v = slot'[s] PROVE ~Unseen(s, v)'
  <2>1. slot'[s] = slot[s] \/ \E e \in ledger[p] : e.slot = s /\ slot'[s] = e.live
    BY UninstallEffect DEF IInv
  <2> QED BY <1>3, <1>4, <2>1, SeenHolds
<1> QED BY <1>1, <1>2, <1>3, <1>4, OutsidersKeepSeen

LEMMA ReplaceKeepsSeen ==
  ASSUME IInv, SeenInv, NEW x \in Slots, Replace(x)
  PROVE  SeenInv'
<1>1. /\ call' = call /\ ledger' = ledger /\ replaced' = replaced \cup {x}
      /\ slot'[x] \in {Foreign, Absent}
      /\ \A s \in Slots \ {x} : slot'[s] = slot[s]
  BY DEF Replace, IInv, TypeOK
<1>2. \A s \in Slots : \A v : Unseen(s, v)' => Unseen(s, v)
  BY <1>1 DEF Unseen, Unstored, ToBuild, At
<1>3. ASSUME NEW s \in Slots, NEW v, v = slot'[s] PROVE ~Unseen(s, v)'
  <2>1. CASE s = x
    <3>1. \A c \in Calls : <<c, s>> # v
      BY <1>1, <1>3, <2>1, NobodyAssumption DEF Dispatchers
    <3> QED BY <1>1, <2>1, <3>1 DEF Unseen
  <2>2. CASE s # x
    BY <1>1, <1>2, <1>3, <2>2, SeenHolds
  <2> QED BY <2>1, <2>2
<1> QED BY <1>1, <1>2, <1>3, OutsidersKeepSeen

LEMMA InitHoldsDisplace == Init => DisplaceInv
<1> SUFFICES ASSUME Init PROVE DisplaceInv
  OBVIOUS
<1>1. \A c \in Calls : call[c].pc = "idle" /\ call[c].wrapped = {}
  BY DEF Init, Fresh
<1>2. \A s \in Slots : slot[s] = Original
  BY DEF Init
<1>3. Original # Foreign /\ \A s \in Slots, c \in Calls : Original # <<c, s>>
  BY NobodyAssumption DEF Dispatchers
<1>4. ASSUME NEW s \in Slots PROVE ~Unseen(s, slot[s])
  <2>1. slot[s] # Foreign /\ \A c \in Calls : slot[s] # <<c, s>>
    BY <1>2, <1>3
  <2> QED BY <2>1 DEF Unseen
<1>5. \A p \in Patchers : ledger[p] = {}
  BY DEF Init
<1> QED BY <1>1, <1>4, <1>5 DEF DisplaceInv, SeenInv, Gone, Reading, At

\* The call that claims: nothing runs in it, and the gated check admits it.
LEMMA ClaimIsGone ==
  ASSUME IInv, NEW c \in Calls, OnTop(c), At(c, "check"), Claim(c), ~Substituted(c)
  PROVE  Gone(c)'
<1>1. TypeOK
  BY DEF IInv
<1>2. /\ \A d \in Calls \ {c} : call'[d] = call[d]
      /\ call'[c].pc = "store" /\ call'[c].cur = call[c].cur
      /\ call'[c].live = call[c].live /\ call'[c].settled = call[c].settled
      /\ call'[c].thread = call[c].thread /\ call'[c].depth = call[c].depth
      /\ slot' = slot
  BY <1>1, ClaimEffect DEF Claim, Steady
<1>3. ASSUME NEW d \in Calls PROVE ~(Running(d) /\ Nested(c, d))'
  <2>1. call[c].depth \in Nat
    BY <1>1, CallIsTyped DEF Locals
  <2>2. d = c => ~Nested(c, d)'
    BY <1>2, <2>1 DEF Nested
  <2>3. d # c => ~(Running(d) /\ Nested(c, d))'
    BY <1>2 DEF OnTop, Running, At, Nested
  <2> QED BY <2>2, <2>3
<1>4. call[c].cur \in Stable /\ call[c].live # call[c].settled =>
        slot[call[c].cur] # call[c].settled
  BY DEF Substituted
<1> QED BY <1>2, <1>3, <1>4 DEF Gone

\* A step of another call: one nested in c has nothing to bring back, and no
\* other may write in the slot.
LEMMA OthersStayGone ==
  ASSUME IInv, Books, SeenInv, NEW c \in Calls, Gone(c), NEW d \in Calls, d # c, Step(d)
  PROVE  Gone(c)'
<1>1. /\ TypeOK /\ OnTop(d) /\ Frame(d) /\ Reads(d) /\ Puts(d)
      /\ call[c].cur \in Slots /\ call[d].patcher \in Patchers
  BY StepFrame, StepReads, StepPuts, CallIsTyped DEF IInv, Step
<1>2. call'[c] = call[c]
  BY <1>1 DEF Frame
<1> SUFFICES ASSUME At(c, "store"), call[c].cur \in Stable, call[c].live # call[c].settled
             PROVE  Gone(c)'
  BY <1>2 DEF Gone, At
<1> DEFINE s == call[c].cur
<1> DEFINE old == call[c].settled
<1>3. s \in Slots /\ slot[s] # old /\ HeldAt(c, s) /\ ~Unseen(s, old) /\ Running(c)
  <2>1. HeldAt(c, s)
    BY <1>1 DEF IInv, Held, InWindow, HeldAt, At
  <2>2. ~Unseen(s, old)
    BY DEF SeenInv, At
  <2> QED BY <1>1, <2>1, <2>2 DEF Gone, Running, At
<1>4. \A x \in Calls : Running(x) /\ Nested(c, x) =>
        /\ call[x].pc \in Reading /\ call[x].cur = s => call[x].live # old
        /\ \A e \in call[x].wrapped : e.slot = s => e.live # old
  BY DEF Gone
<1>5. HeldAt(d, s) => Nested(c, d)
  <2>1. HeldAt(d, s) => call[c].thread = call[d].thread
    BY <1>3 DEF HeldAt
  <2> QED BY <1>1, <1>3, <2>1, RunsInside
<1> HIDE DEF s, old
<1>6. slot'[s] # old
  <2>1. CASE slot'[s] = slot[s]
    BY <1>3, <2>1
  <2>2. CASE Store(d) /\ s = call[d].cur /\ slot'[s] = Built(d)
    <3>1. Unseen(s, Built(d))
      BY <2>2 DEF Store, Unseen, Unstored, Built
    <3> QED BY <1>3, <2>2, <3>1
  <2>3. ASSUME NEW e \in call[d].wrapped, At(d, "undo"), e.slot = s, slot'[s] = e.live
        PROVE  slot'[s] # old
    <3>1. e.wrapper = <<d, s>> /\ e.wrapper \in inflight[call[d].patcher]
      BY <2>3 DEF Books, WrapsInv, At
    <3>2. HeldAt(d, s)
      BY <1>1, <3>1 DEF Books, InflightInv
    <3>3. Running(d)
      BY <2>3 DEF Running, At
    <3> QED BY <1>4, <1>5, <2>3, <3>2, <3>3
  <2> QED BY <1>1, <1>3, <2>1, <2>2, <2>3 DEF Puts
<1>7. ASSUME NEW x \in Calls, Running(x)', Nested(c, x)'
      PROVE  /\ call'[x].pc \in Reading /\ call'[x].cur = s => call'[x].live # old
             /\ \A e \in call'[x].wrapped : e.slot = s => e.live # old
  <2>1. CASE x # d
    <3>1. call'[x] = call[x]
      BY <1>1, <2>1 DEF Frame
    <3> QED BY <1>2, <1>4, <1>7, <3>1 DEF Running, Nested, At
  <2>2. CASE x = d
    <3>1. ~At(d, "release")
      <4>1. At(d, "release") => call'[d].pc = "done"
        BY <1>1, ReturnEffect DEF Step, Read, Decide, Reserve, Settle, Check, Store, Land, Raise, Finish, RestoreEntry,
           Look, PutBack, Unwind, Publish, Handoff, At
      <4> QED BY <1>7, <2>2, <4>1 DEF Running, At
    <3>2. Running(d) /\ Nested(c, d)
      BY <1>1, <1>2, <1>7, <2>2, <3>1 DEF OnTop, Frame, Nested
    <3>3. call'[d].pc \in Reading /\ call'[d].cur = s => call'[d].live # old
      BY <1>1, <1>3, <1>4, <3>2 DEF Reads
    <3>4. ASSUME NEW e \in call'[d].wrapped, e.slot = s PROVE e.live # old
      BY <1>1, <1>4, <3>2, <3>4 DEF Puts, Reading, At
    <3> QED BY <2>2, <3>3, <3>4
  <2> QED BY <2>1, <2>2
<1> QED BY <1>2, <1>6, <1>7 DEF Gone, s, old

LEMMA StartKeepsGone ==
  ASSUME IInv, NEW c \in Calls, Gone(c), NEW d \in Calls, NEW p \in Patchers,
         NEW m \in Modules, NEW t \in Threads, Start(d, p, m, t)
  PROVE  Gone(c)'
<1>1. /\ \A x \in Calls \ {d} : call'[x] = call[x]
      /\ call'[d].pc = "next" /\ call'[d].wrapped = {} /\ slot' = slot
  BY StartEffect DEF IInv, sharedVars
<1>2. CASE c = d
  BY <1>1, <1>2 DEF Gone, At
<1>3. CASE c # d
  BY <1>1, <1>3 DEF Gone, Running, Nested, At, Reading
<1> QED BY <1>2, <1>3

LEMMA NextKeepsDisplace ==
  IInv /\ Books /\ DisplaceInv /\ [Next]_vars => DisplaceInv'
<1> SUFFICES ASSUME IInv, Books, DisplaceInv, [Next]_vars PROVE DisplaceInv'
  OBVIOUS
<1>1. SeenInv /\ \A c \in Calls : Gone(c)
  BY DEF DisplaceInv
<1>2. ASSUME NEW d \in Calls, NEW p \in Patchers, NEW m \in Modules, NEW t \in Threads,
             Start(d, p, m, t)
      PROVE  DisplaceInv'
  BY <1>1, <1>2, StartKeepsSeen, StartKeepsGone DEF DisplaceInv
<1>3. ASSUME NEW d \in Calls, Step(d) PROVE DisplaceInv'
  <2>1. SeenInv'
    BY <1>1, <1>3, StepKeepsSeen
  <2>2. \A c \in Calls \ {d} : Gone(c)'
    BY <1>1, <1>3, OthersStayGone
  <2>3. Gone(d)'
    <3>1. Reads(d) /\ OnTop(d)
      BY <1>3, StepReads DEF Step
    <3>2. CASE call'[d].pc = "store"
      BY <3>1, <3>2, ClaimIsGone DEF Reads
    <3>3. CASE call'[d].pc # "store"
      BY <3>3 DEF Gone, At
    <3> QED BY <3>2, <3>3
  <2> QED BY <2>1, <2>2, <2>3 DEF DisplaceInv
<1>4. ASSUME NEW p \in Patchers, Uninstall(p) PROVE DisplaceInv'
  <2>1. \A c \in Calls : call'[c] = call[c] /\ ~At(c, "store")
    BY <1>4 DEF Uninstall, Running, At
  <2>2. \A c \in Calls : Gone(c)'
    BY <2>1 DEF Gone, At
  <2> QED BY <1>1, <1>4, <2>2, UninstallKeepsSeen DEF DisplaceInv
<1>5. ASSUME NEW x \in Slots, Replace(x) PROVE DisplaceInv'
  <2>1. /\ call' = call /\ slot'[x] \in {Foreign, Absent} /\ x \notin replaced
        /\ \A s \in Slots \ {x} : slot'[s] = slot[s]
    BY <1>5 DEF Replace, IInv, TypeOK
  <2>2. ASSUME NEW c \in Calls PROVE Gone(c)'
    <3>1. call[c].cur \in Slots /\ call[c].settled # Absent
      BY CallIsTyped DEF IInv, Locals
    <3>2. At(c, "store") /\ call[c].cur = x => call[c].settled # Foreign
      BY <1>1, <2>1 DEF SeenInv, Unseen, At
    <3>3. At(c, "store") /\ call[c].cur = x => slot'[x] # call[c].settled
      BY <2>1, <3>1, <3>2
    <3>4. At(c, "store") /\ call[c].cur # x => slot'[call[c].cur] = slot[call[c].cur]
      BY <2>1, <3>1
    <3> QED BY <1>1, <2>1, <3>3, <3>4 DEF Gone, Running, Nested, At
  <2> QED BY <1>1, <1>5, <2>2, ReplaceKeepsSeen DEF DisplaceInv
<1>6. CASE UNCHANGED vars
  <2>1. /\ call' = call /\ slot' = slot /\ ledger' = ledger /\ replaced' = replaced
    BY <1>6 DEF vars
  <2>2. \A s \in Slots : \A v : Unseen(s, v)' => Unseen(s, v)
    BY <2>1 DEF Unseen, Unstored, ToBuild, At
  <2>3. \A s \in Slots : \A v : v = slot'[s] => ~Unseen(s, v)'
    BY <1>1, <2>1, <2>2, SeenHolds
  <2>4. SeenInv'
    BY <1>1, <2>1, <2>2, <2>3, OutsidersKeepSeen
  <2>5. \A c \in Calls : Gone(c)'
    BY <1>1, <2>1 DEF Gone, Running, Nested, At
  <2> QED BY <2>4, <2>5 DEF DisplaceInv
<1> QED BY <1>2, <1>3, <1>4, <1>5, <1>6 DEF Next

LEMMA DisplaceHolds == Spec => [](IInv /\ Books /\ DisplaceInv)
<1>1. IInv /\ Books /\ DisplaceInv /\ [Next]_vars => DisplaceInv'
  BY NextKeepsDisplace
<1> QED BY <1>1, InitHoldsDisplace, BooksHold, PTL DEF Spec

\* A write on a slot that can tell displaces the value that will be given back,
\* whatever target code re-enters and on any number of threads.
THEOREM UninstallGivesItBack == Spec => UninstallGivesBack
<1>1. IInv /\ Books /\ DisplaceInv /\ [Next]_vars => [SavedIsDisplaced]_vars
  BY DEF DisplaceInv, Gone, SavedIsDisplaced
<1> QED BY <1>1, DisplaceHolds, PTL DEF Spec, UninstallGivesBack

-----------------------------------------------------------------------------
\* What a rollback takes back, for any threads, slots and re-entry.  While it
\* puts an original back its dispatcher is still answered for, so whoever reads
\* the slot extends that dispatcher or fails, and nobody gets to a store.
Inside == {"decide", "reserve", "settle", "check", "store", "stored"}

UndoInv ==
  \A c \in Calls : At(c, "undo") =>
    /\ \E e \in call[c].unvisited : e.slot = call[c].cur
    /\ call[c].cur \notin replaced =>
         /\ slot[call[c].cur] = Built(c)
         /\ \A d \in Calls :
              Running(d) /\ Nested(c, d) /\ call[d].pc \in Inside /\ call[d].cur = call[c].cur =>
                At(d, "decide") /\ call[d].live = Built(c)

\* A call past its first read of a slot read it in this step or was past it
\* before, and went on from there because nobody answered for what it read.
Comes(c) ==
  call'[c].pc \in Inside =>
    \/ At(c, "next") /\ call'[c].pc = "decide" /\ call'[c].live = slot[call'[c].cur]
    \/ /\ call[c].pc \in Inside /\ call'[c].cur = call[c].cur
       /\ At(c, "decide") => LiveOwner(call[c].live) = Nobody

LEMMA StepComes ==
  ASSUME IInv, NEW c \in Calls, Step(c)
  PROVE  Comes(c)
<1>1. TypeOK /\ call[c].cur \in Slots
  BY CallIsTyped DEF IInv
<1>2. CASE call'[c].pc \notin Inside
  BY <1>2 DEF Comes
<1>3. ASSUME NEW s \in Slots, Read(c, s) PROVE Comes(c)
  <2>1. call'[c].pc = "next" \/ (call'[c].pc = "decide" /\ call'[c].cur = s /\ call'[c].live = slot[s])
    BY <1>1, <1>3, ReadEffect DEF Goes
  <2>2. At(c, "next")
    BY <1>3 DEF Read
  <2> QED BY <2>1, <2>2 DEF Comes, Inside
<1>4. ASSUME NEW v, Extend(c, v) PROVE call'[c].pc = "next"
  BY <1>1, <1>4, CallIsTyped DEF Extend, TypeOK, Locals
<1>5. ASSUME call' = Fail(c) PROVE call'[c].pc = "restore"
  BY <1>1, <1>5, FailEffect DEF Fails
<1>6. CASE Decide(c)
  <2>1. CASE LiveOwner(call[c].live) = Nobody /\ call' = Goto(c, "reserve")
    <3>1. call'[c].cur = call[c].cur /\ At(c, "decide")
      BY <1>1, <1>6, <2>1, GotoEffect DEF Decide
    <3> QED BY <2>1, <3>1 DEF Comes, Inside, At
  <2>2. CASE call'[c].pc \in {"next", "restore"}
    BY <1>2, <2>2 DEF Inside
  <2> QED BY <1>4, <1>5, <1>6, <2>1, <2>2 DEF Decide
<1>7. CASE Reserve(c)
  <2>1. At(c, "reserve") /\ (call'[c].pc = "restore" \/ call'[c].cur = call[c].cur)
    BY <1>1, <1>7, ReserveEffect DEF Fails, Goes, Reserve
  <2> QED BY <1>2, <2>1 DEF Comes, Inside, At
<1>8. CASE Settle(c)
  <2>1. At(c, "settle") /\ (call'[c].pc = "next" \/ call'[c].cur = call[c].cur)
    BY <1>1, <1>8, SettleEffect DEF Goes, Settle
  <2> QED BY <1>2, <2>1 DEF Comes, Inside, At
<1>9. CASE Check(c)
  <2>1. At(c, "check")
    BY <1>9 DEF Check
  <2>2. CASE Claim(c)
    <3>1. call'[c].cur = call[c].cur
      BY <1>1, <2>2, ClaimEffect
    <3> QED BY <2>1, <3>1 DEF Comes, Inside, At
  <2>3. CASE ~Claim(c)
    <3>1. call'[c].pc \in {"next", "restore"}
      BY <1>4, <1>5, <1>9, <2>3 DEF Check
    <3> QED BY <1>2, <3>1 DEF Inside
  <2> QED BY <2>2, <2>3
<1>10. CASE Store(c)
  <2>1. At(c, "store") /\ call'[c].cur = call[c].cur
    BY <1>1, <1>10, GotoEffect DEF Store
  <2> QED BY <2>1 DEF Comes, Inside, At
<1>11. CASE Land(c) \/ Raise(c) \/ Return(c) \/ Finish(c) \/ Publish(c) \/ Handoff(c) \/ Unwind(c)
  <2>1. call'[c].pc \in {"next", "restore", "done", "publish", "handoff", "release"}
    BY <1>1, <1>5, <1>11, LandEffect, ReturnEffect, GotoEffect
       DEF Raise, Finish, Publish, Handoff, Unwind, Goes
  <2> QED BY <1>2, <2>1 DEF Inside
<1>12. ASSUME NEW e \in call[c].unvisited, RestoreEntry(c, e)
       PROVE  call'[c].pc \in {"restore", "undo"}
  BY <1>1, <1>12, RestoreEffect
<1> QED BY <1>2, <1>3, <1>6, <1>7, <1>8, <1>9, <1>10, <1>11, <1>12 DEF Step, Inside

\* The dispatcher a rollback is about to take back is answered for by its
\* Patcher, and the slot is reserved for the rollback's Patcher and thread.
LEMMA UndoIsHeld ==
  ASSUME IInv, Books, UndoInv, NEW c \in Calls, At(c, "undo")
  PROVE  /\ HeldAt(c, call[c].cur) /\ Built(c) \in Dispatchers
         /\ Built(c) \in inflight[call[c].patcher]
         /\ LiveOwner(Built(c)) = call[c].patcher
<1>1. call[c].patcher \in Patchers /\ call[c].cur \in Slots
  BY CallIsTyped DEF IInv
<1>2. PICK e \in call[c].unvisited : e.slot = call[c].cur
  BY DEF UndoInv
<1>3. e.wrapper = <<c, e.slot>> /\ e.wrapper \in inflight[call[c].patcher]
  BY <1>2 DEF Books, WrapsInv, At
<1>4. Built(c) \in inflight[call[c].patcher] /\ Built(c) \in Dispatchers
  BY <1>1, <1>2, <1>3 DEF Built, Dispatchers
<1>5. Built(c)[1] = c /\ Built(c)[2] = call[c].cur
  BY DEF Built
<1>6. HeldAt(c, call[c].cur) /\ Owner(Built(c)) = call[c].patcher
  BY <1>1, <1>4, <1>5 DEF Books, InflightInv, Owner
<1> QED BY <1>4, <1>6 DEF LiveOwner, Answers

\* Who may write a slot that c is giving back runs in c.
LEMMA WriterRunsInside ==
  ASSUME IInv, Books, UndoInv, NEW c \in Calls, At(c, "undo"),
         NEW d \in Calls, d # c, OnTop(d), HeldAt(d, call[c].cur)
  PROVE  Nested(c, d)
<1>1. call[c].thread = call[d].thread
  BY UndoIsHeld DEF HeldAt
<1> QED BY <1>1, RunsInside DEF Running, At

\* No step of another call changes the slot.
LEMMA UndoUndisturbed ==
  ASSUME IInv, Books, UndoInv, NEW c \in Calls, At(c, "undo"), call[c].cur \notin replaced,
         NEW d \in Calls, d # c, Step(d)
  PROVE  slot'[call[c].cur] = slot[call[c].cur]
<1>1. /\ TypeOK /\ OnTop(d) /\ Running(d) /\ call[c].cur \in Slots
      /\ call[d].patcher \in Patchers /\ call[d].cur \in Slots
  BY CallIsTyped DEF IInv, Step, OnTop
<1> SUFFICES ASSUME slot'[call[c].cur] # slot[call[c].cur] PROVE FALSE
  OBVIOUS
<1>2. CASE Store(d) /\ call[d].cur = call[c].cur
  <2>1. HeldAt(d, call[c].cur) /\ At(d, "store")
    BY <1>1, <1>2 DEF Store, At, IInv, Held, InWindow, HeldAt
  <2>2. Nested(c, d)
    BY <1>1, <2>1, WriterRunsInside
  <2>3. At(d, "decide")
    BY <1>1, <1>2, <2>1, <2>2 DEF UndoInv, Inside, At
  <2> QED BY <2>1, <2>3 DEF At
<1>3. CASE At(d, "undo") /\ call[d].cur = call[c].cur
  <2>1. slot[call[c].cur] = Built(c) /\ slot[call[c].cur] = Built(d)
    BY <1>3 DEF UndoInv
  <2> QED BY <2>1 DEF Built
<1>4. Puts(d)
  BY StepPuts
<1> QED BY <1>1, <1>2, <1>3, <1>4 DEF Puts

LEMMA StepKeepsUndo ==
  ASSUME IInv, Books, UndoInv, NEW a \in Calls, Step(a)
  PROVE  UndoInv'
<1>1. /\ TypeOK /\ OnTop(a) /\ Running(a) /\ Frame(a) /\ Comes(a)
      /\ replaced' = replaced /\ \A d \in Calls \ {a} : call'[d] = call[d]
  BY StepFrame, StepComes DEF IInv, Step, OnTop, Frame
<1> SUFFICES ASSUME NEW c \in Calls, At(c, "undo")'
             PROVE  /\ \E e \in call'[c].unvisited : e.slot = call'[c].cur
                    /\ call'[c].cur \notin replaced =>
                         /\ slot'[call'[c].cur] = Built(c)'
                         /\ \A d \in Calls :
                              /\ Running(d)' /\ Nested(c, d)' /\ call'[d].pc \in Inside
                              /\ call'[d].cur = call'[c].cur
                              => At(d, "decide")' /\ call'[d].live = Built(c)'
  BY <1>1 DEF UndoInv
<1>2. CASE c = a
  <2>1. PICK e \in call[c].unvisited : Finds(c, e) /\ Steady(c)
    <3>1. call'[a].pc \notin Installing \cup {"restore", "publish", "handoff", "release", "done"}
      BY <1>2 DEF At, Installing
    <3>2. ~Quiet(a) /\ ~(At(a, "check") /\ Claim(a)) /\ ~Store(a) /\ ~Publish(a) /\ ~Handoff(a)
            /\ ~Return(a)
      BY <1>1, <3>1, ClaimEffect, GotoEffect, ReturnEffect
         DEF Quiet, Store, Publish, Handoff, Goes, Installing
    <3>3. \E e \in call[a].unvisited : RestoreEntry(a, e)
      BY <3>2, StepCases
    <3>4. PICK e \in call[a].unvisited : RestoreEntry(a, e)
      BY <3>3
    <3>5. Finds(a, e) /\ Steady(a)
      BY <1>1, <3>1, <3>4, RestoreEffect DEF Visits
    <3> QED BY <1>2, <3>5
  <2>2. call'[c].unvisited = call[c].unvisited /\ call'[c].cur = e.slot /\ slot' = slot
        /\ slot[e.slot] = e.wrapper
    BY <2>1 DEF Finds
  <2>3. e.wrapper = <<c, e.slot>>
    BY <2>1 DEF Books, WrapsInv
  <2>4. slot'[e.slot] = <<c, e.slot>>
    BY <2>2, <2>3
  <2>5. \A d \in Calls : ~(Running(d)' /\ Nested(c, d)')
    <3> SUFFICES ASSUME NEW d \in Calls, Running(d)', Nested(c, d)' PROVE FALSE
      OBVIOUS
    <3>1. CASE d = c
      <4>1. call'[c].depth = call[c].depth /\ call[c].depth \in Nat
        BY <1>1, <2>1, CallIsTyped DEF Steady, Locals
      <4> QED BY <3>1, <4>1 DEF Nested
    <3>2. CASE d # c
      <4>1. Running(d) /\ Nested(c, d)
        BY <1>1, <1>2, <2>1, <3>2 DEF Running, At, Nested, Steady
      <4> QED BY <1>1, <1>2, <4>1 DEF OnTop
    <3> QED BY <3>1, <3>2
  <2> QED BY <2>1, <2>2, <2>4, <2>5 DEF Built
<1>3. CASE c # a
  <2>1. call'[c] = call[c] /\ At(c, "undo")
    BY <1>1, <1>3 DEF At
  <2>2. \E e \in call'[c].unvisited : e.slot = call'[c].cur
    BY <2>1 DEF UndoInv
  <2>3. Built(c)' = Built(c)
    BY <2>1 DEF Built
  <2> SUFFICES ASSUME call[c].cur \notin replaced
               PROVE  /\ slot'[call[c].cur] = Built(c)
                      /\ \A d \in Calls :
                           /\ Running(d)' /\ Nested(c, d)' /\ call'[d].pc \in Inside
                           /\ call'[d].cur = call[c].cur
                           => At(d, "decide")' /\ call'[d].live = Built(c)
    BY <2>1, <2>2, <2>3
  <2>4. slot[call[c].cur] = Built(c)
    BY <2>1 DEF UndoInv
  <2>5. slot'[call[c].cur] = Built(c)
    BY <1>3, <2>1, <2>4, UndoUndisturbed
  <2>6. ASSUME NEW d \in Calls, Running(d)', Nested(c, d)', call'[d].pc \in Inside,
               call'[d].cur = call[c].cur
        PROVE  At(d, "decide")' /\ call'[d].live = Built(c)
    <3>1. CASE d # a
      <4>1. call'[d] = call[d]
        BY <1>1, <3>1
      <4>2. Running(d) /\ Nested(c, d) /\ call[d].pc \in Inside /\ call[d].cur = call[c].cur
        BY <2>1, <2>6, <4>1 DEF Running, At, Nested
      <4>3. At(d, "decide") /\ call[d].live = Built(c)
        BY <2>1, <4>2 DEF UndoInv
      <4> QED BY <4>1, <4>3 DEF At
    <3>2. CASE d = a
      <4>1. ~At(a, "release")
        <5>1. Return(a) => call'[a].pc = "done"
          BY <1>1, ReturnEffect
        <5>2. At(a, "release") => Return(a)
          BY StepCases, RestoreEffect, <1>1 DEF Quiet, Store, Publish, Handoff, Installing, At
        <5> QED BY <2>6, <3>2, <5>1, <5>2 DEF Inside
      <4>2. Nested(c, a)
        BY <1>1, <2>1, <2>6, <3>2, <4>1 DEF Frame, Nested
      <4>3. CASE call'[a].pc = "decide" /\ call'[a].live = slot[call'[a].cur]
        BY <2>4, <2>6, <3>2, <4>3 DEF At
      <4>4. CASE /\ call[a].pc \in Inside /\ call'[a].cur = call[a].cur
                 /\ At(a, "decide") => LiveOwner(call[a].live) = Nobody
        <5>1. At(a, "decide") /\ call[a].live = Built(c)
          BY <1>1, <2>1, <2>6, <3>2, <4>2, <4>4 DEF UndoInv
        <5>2. LiveOwner(Built(c)) = call[c].patcher /\ call[c].patcher \in Patchers
          BY <1>1, <2>1, UndoIsHeld, CallIsTyped
        <5> QED BY <4>4, <5>1, <5>2, NobodyAssumption
      <4> QED BY <1>1, <2>6, <3>2, <4>3, <4>4 DEF Comes
    <3> QED BY <3>1, <3>2
  <2> QED BY <2>5, <2>6
<1> QED BY <1>2, <1>3

LEMMA StartKeepsUndo ==
  ASSUME IInv, UndoInv, NEW a \in Calls, NEW p \in Patchers, NEW m \in Modules,
         NEW t \in Threads, Start(a, p, m, t)
  PROVE  UndoInv'
<1>1. /\ \A d \in Calls \ {a} : call'[d] = call[d]
      /\ call'[a].pc = "next" /\ slot' = slot /\ replaced' = replaced
  BY StartEffect DEF IInv, sharedVars, historyVars
<1>2. ASSUME NEW c \in Calls, At(c, "undo")' PROVE call'[c] = call[c] /\ At(c, "undo")
  BY <1>1, <1>2 DEF At
<1>3. ASSUME NEW c \in Calls, NEW d \in Calls, At(c, "undo")', Running(d)', Nested(c, d)',
             call'[d].pc \in Inside
      PROVE  call'[d] = call[d] /\ Running(d) /\ Nested(c, d)
  <2>1. d # a
    BY <1>1, <1>3 DEF Inside
  <2> QED BY <1>1, <1>2, <1>3, <2>1 DEF Running, At, Nested
<1>4. ASSUME NEW c \in Calls, At(c, "undo")'
      PROVE  /\ \E e \in call'[c].unvisited : e.slot = call'[c].cur
             /\ call'[c].cur \notin replaced' =>
                  /\ slot'[call'[c].cur] = Built(c)'
                  /\ \A d \in Calls :
                       /\ Running(d)' /\ Nested(c, d)' /\ call'[d].pc \in Inside
                       /\ call'[d].cur = call'[c].cur
                       => At(d, "decide")' /\ call'[d].live = Built(c)'
  <2>1. call'[c] = call[c] /\ At(c, "undo")
    BY <1>2, <1>4
  <2>2. Built(c)' = Built(c)
    BY <2>1 DEF Built
  <2>3. ASSUME NEW d \in Calls, call[c].cur \notin replaced, Running(d)', Nested(c, d)',
               call'[d].pc \in Inside, call'[d].cur = call[c].cur
        PROVE  At(d, "decide")' /\ call'[d].live = Built(c)
    <3>1. call'[d] = call[d] /\ Running(d) /\ Nested(c, d)
      BY <1>3, <1>4, <2>3
    <3>2. At(d, "decide") /\ call[d].live = Built(c)
      BY <2>1, <2>3, <3>1 DEF UndoInv
    <3> QED BY <3>1, <3>2 DEF At
  <2> QED BY <1>1, <2>1, <2>2, <2>3 DEF UndoInv
<1> QED BY <1>4 DEF UndoInv

LEMMA NextKeepsUndo == IInv /\ Books /\ UndoInv /\ [Next]_vars => UndoInv'
<1> SUFFICES ASSUME IInv, Books, UndoInv, [Next]_vars PROVE UndoInv'
  OBVIOUS
<1>1. ASSUME NEW c \in Calls, NEW p \in Patchers, NEW m \in Modules, NEW t \in Threads,
             Start(c, p, m, t)
      PROVE  UndoInv'
  BY <1>1, StartKeepsUndo
<1>2. ASSUME NEW p \in Patchers, Uninstall(p) PROVE UndoInv'
  BY <1>2 DEF Uninstall, UndoInv, Running, At
<1>3. ASSUME NEW s \in Slots, Replace(s) PROVE UndoInv'
  <2>1. /\ call' = call /\ replaced' = replaced \cup {s}
        /\ \A x \in Slots : x # s => slot'[x] = slot[x]
    BY <1>3 DEF Replace, IInv, TypeOK
  <2>2. \A c \in Calls : call[c].cur \in Slots
    BY CallIsTyped DEF IInv
  <2> QED BY <2>1, <2>2 DEF UndoInv, Running, Nested, Built, At
<1>4. CASE UNCHANGED vars
  BY <1>4 DEF vars, UndoInv, Running, Nested, Built, At
<1> QED BY <1>1, <1>2, <1>3, <1>4, StepKeepsUndo DEF Next

LEMMA UndoHolds == Spec => [](IInv /\ Books /\ UndoInv)
<1>1. Init => UndoInv
  <2> SUFFICES ASSUME Init PROVE UndoInv
    OBVIOUS
  <2>1. \A c \in Calls : call[c].pc = "idle"
    BY DEF Init, Fresh
  <2> QED BY <2>1 DEF UndoInv, At
<1>2. IInv /\ Books /\ UndoInv /\ [Next]_vars => UndoInv'
  BY NextKeepsUndo
<1> QED BY <1>1, <1>2, BooksHold, PTL DEF Spec

\* From the read that finds its dispatcher to the write that puts the original
\* back, a rollback has no other install to lose, on any threads and whatever
\* target code re-enters.  What the program itself binds there is not spared.
THEOREM RollbacksAreCurrent == Spec => []RollbackIsCurrent
<1>1. UndoInv => RollbackIsCurrent
  BY DEF UndoInv, RollbackIsCurrent
<1> QED BY <1>1, UndoHolds, PTL

-----------------------------------------------------------------------------
\* What stays in place, for any threads and any slots, when nothing re-enters
\* the window: a write finds in the slot what the second read saw, and that was
\* no dispatcher anybody answers for.
Dead(w) == ~Answers(Owner(w), w)

Displaces(c) ==
  ~WindowReenters /\ call[c].cur \notin replaced =>
    /\ call[c].pc \in {"check", "store"} => slot[call[c].cur] = call[c].settled
    /\ At(c, "store") =>
         \A w \in Dispatchers : call[c].settled = w => Dead(w) /\ w[2] = call[c].cur

\* Until the call that built it fails, a dispatcher is in its slot from its
\* store on, and so is what the ledger records, until its Patcher is uninstalled.
InPlaceInv ==
  ~WindowReenters => \A c \in Calls : ~call[c].failed =>
    /\ \A e \in call[c].wrapped :
         e.slot \notin replaced /\ ~(At(c, "store") /\ call[c].cur = e.slot) =>
           slot[e.slot] = e.wrapper
    /\ \A e \in ledger[call[c].patcher] :
         /\ e.wrapper[1] = c /\ e.slot \notin replaced
         /\ call[c].patcher \notin uninstalled
         => slot[e.slot] = e.wrapper

StaysInv == InPlaceInv /\ \A c \in Calls : Displaces(c)

\* Nobody starts to answer for a dispatcher that has been seen in a slot.
LEMMA StepKeepsDead ==
  ASSUME IInv, Books, NEW c \in Calls, Step(c),
         NEW w \in Dispatchers, Dead(w), ~Unseen(w[2], w)
  PROVE  Dead(w)'
<1>1. /\ TypeOK /\ Frame(c) /\ call[c].patcher \in Patchers
      /\ w[1] \in Calls /\ w[2] \in Slots /\ w = <<w[1], w[2]>>
  BY StepFrame, CallIsTyped DEF IInv, Dispatchers
<1>2. Owner(w)' = Owner(w) /\ Owner(w) \in Patchers
  BY <1>1, CallIsTyped DEF Owner, Frame
<1>3. w \notin inflight[Owner(w)] /\ \A e \in ledger[Owner(w)] : e.wrapper # w
  BY DEF Dead, Answers
<1> SUFFICES /\ w \notin inflight'[Owner(w)]
             /\ \A e \in ledger'[Owner(w)] : e.wrapper # w
  BY <1>2 DEF Dead, Answers
<1>4. CASE UNCHANGED <<inflight, ledger>>
  BY <1>3, <1>4
<1>5. CASE At(c, "check") /\ Claim(c)
  <2>1. Unseen(call[c].cur, Built(c))
    <3>1. call[c].cur \in call[c].todo
      BY <1>5 DEF Books, LoopInv, Installing, At
    <3> QED BY <1>5, <3>1 DEF Unseen, Unstored, ToBuild, Installing, Built, At
  <2>2. w # Built(c)
    BY <2>1 DEF Built
  <2>3. /\ \A p \in Patchers :
             inflight'[p] \subseteq inflight[p] \cup {Built(c)}
        /\ ledger' = ledger
    BY <1>1, <1>5 DEF Claim, TypeOK
  <2> QED BY <1>2, <1>3, <2>2, <2>3
<1>6. CASE Publish(c)
  <2>1. /\ inflight' = inflight
        /\ \A p \in Patchers : ledger'[p] \subseteq
             IF p = call[c].patcher THEN ledger[p] \cup call[c].wrapped ELSE ledger[p]
    BY <1>1, <1>6 DEF Publish, TypeOK
  <2>2. ASSUME NEW e \in call[c].wrapped, call[c].patcher = Owner(w) PROVE e.wrapper # w
    <3>1. e.wrapper \in inflight[call[c].patcher]
      BY <1>6 DEF Books, WrapsInv, Publish, At
    <3> QED BY <1>3, <2>2, <3>1
  <2> QED BY <1>2, <1>3, <2>1, <2>2
<1>7. CASE Handoff(c)
  <2>1. ledger' = ledger /\ \A p \in Patchers : inflight'[p] \subseteq inflight[p]
    BY <1>1, <1>7 DEF Handoff, TypeOK
  <2> QED BY <1>2, <1>3, <2>1
<1> QED BY <1>4, <1>5, <1>6, <1>7, StepCases
       DEF Quiet, Store, RestoreEntry, Look, PutBack, sharedVars, Return

\* The call that reads a second time, and the one that claims.
LEMMA OwnDisplaces ==
  ASSUME IInv, Books, SeenInv, NEW c \in Calls, Displaces(c), Step(c)
  PROVE  Displaces(c)'
<1>1. TypeOK /\ Frame(c) /\ Reads(c) /\ call[c].cur \in Slots
  BY StepFrame, StepReads, CallIsTyped DEF IInv
<1>2. replaced' = replaced
  BY <1>1 DEF Frame
<1>3. CASE call'[c].pc = "check"
  <2>1. call'[c].settled = slot[call'[c].cur] /\ slot' = slot
    <3>1. Quiet(c)
      <4>1. ~(At(c, "check") /\ Claim(c)) /\ ~Store(c) /\ ~Publish(c) /\ ~Handoff(c) /\ ~Return(c)
        BY <1>1, <1>3, ClaimEffect, GotoEffect, ReturnEffect
           DEF Store, Publish, Handoff, Goes
      <4>2. \A e \in call[c].unvisited : ~RestoreEntry(c, e)
        BY <1>1, <1>3, RestoreEffect
      <4> QED BY <4>1, <4>2, StepCases
    <3> QED BY <1>1, <1>3, <3>1 DEF Reads, Quiet
  <2>2. slot'[call'[c].cur] = call'[c].settled
    BY <2>1
  <2> QED BY <1>3, <2>2 DEF Displaces, At
<1>4. CASE call'[c].pc = "store"
  <2>1. At(c, "check") /\ Claim(c) /\ LiveOwner(call[c].settled) = Nobody
    BY <1>1, <1>4 DEF Reads
  <2>2. /\ call'[c].cur = call[c].cur /\ call'[c].settled = call[c].settled
        /\ slot' = slot
    BY <1>1, <2>1, ClaimEffect DEF Claim
  <2>3. ASSUME NEW w \in Dispatchers, call[c].settled = w
        PROVE  Dead(w)' /\ w[2] = call[c].cur
    <3>1. Dead(w)
      <4>1. Owner(w) \in Patchers
        BY <1>1, CallIsTyped DEF Dispatchers, Owner
      <4> QED BY <2>1, <2>3, <4>1, NobodyAssumption DEF LiveOwner, Dead
    <3>2. w[2] = call[c].cur
      BY <2>1, <2>3 DEF Books, HomeInv
    <3>3. ~Unseen(w[2], w)
      BY <2>1, <2>3, <3>2 DEF SeenInv, At
    <3> QED BY <3>1, <3>2, <3>3, StepKeepsDead
  <2>4. call[c].cur \notin replaced /\ ~WindowReenters => slot'[call[c].cur] = call[c].settled
    BY <2>1, <2>2 DEF Displaces, At
  <2>5. \A w \in Dispatchers : call'[c].settled = w => Dead(w)' /\ w[2] = call'[c].cur
    BY <2>2, <2>3
  <2>6. call'[c].cur \notin replaced' /\ ~WindowReenters => slot'[call'[c].cur] = call'[c].settled
    BY <1>2, <2>2, <2>4
  <2> QED BY <1>4, <2>5, <2>6 DEF Displaces
<1>5. CASE call'[c].pc \notin {"check", "store"}
  BY <1>5 DEF Displaces, At
<1> QED BY <1>3, <1>4, <1>5

\* A step of another call, nested in c or on another thread.
LEMMA OthersDisplace ==
  ASSUME IInv, Books, Alone, SeenInv, NEW a \in Calls, Displaces(a),
         NEW c \in Calls, c # a, Step(c)
  PROVE  Displaces(a)'
<1>1. call'[a] = call[a] /\ replaced' = replaced
  BY StepFrame DEF Frame
<1>2. ~WindowReenters /\ call[a].pc \in {"check", "store"} =>
        slot'[call[a].cur] = slot[call[a].cur]
  BY WindowUndisturbed
<1>3. ASSUME NEW w \in Dispatchers, At(a, "store"), call[a].settled = w, Dead(w),
             w[2] = call[a].cur
      PROVE  Dead(w)'
  <2>1. ~Unseen(w[2], w)
    BY <1>3 DEF SeenInv, At
  <2> QED BY <1>3, <2>1, StepKeepsDead
<1> QED BY <1>1, <1>2, <1>3 DEF Displaces, At

\* What is in place and answered for is written over by nobody, and a rollback
\* takes out its own.
LEMMA InPlaceStays ==
  ASSUME IInv, Books, UndoInv, StaysInv, ~WindowReenters, NEW c \in Calls, Step(c),
         NEW s \in Slots \ replaced, NEW w \in Dispatchers, slot[s] = w, ~Dead(w),
         ~call[w[1]].failed
  PROVE  slot'[s] = w
<1>1. TypeOK /\ call[c].cur \in Slots
  BY CallIsTyped DEF IInv
<1>2. CASE UNCHANGED slot
  BY <1>2
<1>3. CASE Store(c)
  <2>1. call[c].cur # s
    <3>1. Displaces(c)
      BY DEF StaysInv
    <3> QED BY <1>3, <3>1 DEF Store, At, Displaces
  <2> QED BY <1>1, <1>3, <2>1 DEF Store, TypeOK
<1>4. ASSUME NEW e \in call[c].unvisited, RestoreEntry(c, e) PROVE slot'[s] = w
  <2>1. CASE At(c, "undo") /\ call[c].cur = s
    <3>1. slot[s] = <<c, s>> /\ call[c].failed
      BY <2>1 DEF UndoInv, Built, Books, LoopInv, At
    <3> QED BY <3>1
  <2>2. CASE ~(At(c, "undo") /\ call[c].cur = s)
    BY <1>1, <2>2, StepPuts, <1>4 DEF Puts, RestoreEntry, Look, PutBack, Store, At
  <2> QED BY <2>1, <2>2
<1>5. UNCHANGED slot \/ Store(c) \/ \E e \in call[c].unvisited : RestoreEntry(c, e)
  BY StepCases DEF Quiet, Claim, Publish, Handoff, Return
<1> QED BY <1>2, <1>3, <1>4, <1>5

LEMMA StoreOrFail ==
  ASSUME TypeOK, NEW c \in Calls, Step(c), At(c, "store")
  PROVE  Store(c) \/ call'[c].failed
<1>1. Raise(c) => call'[c].failed
  BY FailEffect DEF Raise, Fails
<1> QED BY <1>1 DEF Step, Read, Decide, Reserve, Settle, Check, Land, Finish, RestoreEntry,
               Look, PutBack, Unwind, Publish, Handoff, Return, At

\* The wraps and the records a step adds, to a call that has not failed.
LEMMA StepAdds ==
  ASSUME IInv, Books, NEW c \in Calls, Step(c)
  PROVE  /\ call'[c].failed \/ ~call[c].failed
         /\ \A e \in call'[c].wrapped :
              \/ e \in call[c].wrapped
              \/ /\ At(c, "check") /\ call'[c].pc = "store"
                 /\ call'[c].cur = e.slot
         /\ \A p \in Patchers : \A e \in ledger'[p] :
              \/ e \in ledger[p]
              \/ /\ At(c, "publish") /\ UNCHANGED slot /\ e \in call[c].wrapped
                 /\ p = call[c].patcher
<1>1. TypeOK /\ call[c].patcher \in Patchers
  BY CallIsTyped DEF IInv
<1>2. CASE Quiet(c)
  BY <1>2 DEF Quiet
<1>3. CASE At(c, "check") /\ Claim(c)
  <2> DEFINE entry == [slot |-> call[c].cur, live |-> call[c].live, wrapper |-> Built(c)]
  <2>1. /\ call'[c].wrapped = call[c].wrapped \cup {entry} /\ ledger' = ledger
        /\ call'[c].failed = call[c].failed /\ call'[c].pc = "store"
        /\ call'[c].cur = call[c].cur
    BY <1>1, <1>3, ClaimEffect DEF Claim
  <2>2. entry.slot = call[c].cur
    OBVIOUS
  <2> HIDE DEF entry
  <2> QED BY <1>3, <2>1, <2>2
<1>4. CASE Store(c) \/ Handoff(c)
  <2>1. /\ call'[c].wrapped = call[c].wrapped /\ call'[c].failed = call[c].failed
        /\ ledger' = ledger
    BY <1>1, <1>4, GotoEffect DEF Store, Handoff, Goes, SameWork
  <2> QED BY <2>1
<1>5. ASSUME NEW x \in call[c].unvisited, RestoreEntry(c, x)
      PROVE  /\ call'[c].wrapped \subseteq call[c].wrapped /\ ledger' = ledger
             /\ call'[c].failed = call[c].failed
  BY <1>1, <1>5, RestoreEffect DEF RestoreEntry, Look, PutBack, sharedVars, Finds, Visits
<1>6. CASE Publish(c)
  <2>1. /\ call'[c].wrapped = call[c].wrapped /\ call'[c].failed = call[c].failed
        /\ slot' = slot /\ At(c, "publish")
    BY <1>1, <1>6, GotoEffect DEF Publish, Goes, SameWork
  <2>2. \A p \in Patchers :
          ledger'[p] = IF p = call[c].patcher THEN ledger[p] \cup call[c].wrapped ELSE ledger[p]
    BY <1>1, <1>6 DEF Publish, TypeOK
  <2> QED BY <2>1, <2>2
<1>7. CASE Return(c)
  <2>1. call'[c].wrapped = {} /\ call'[c].failed = call[c].failed /\ ledger' = ledger
    BY <1>1, <1>7, ReturnEffect DEF Return
  <2> QED BY <2>1
<1> QED BY <1>2, <1>3, <1>4, <1>5, <1>6, <1>7, StepCases

LEMMA StepKeepsInPlace ==
  ASSUME IInv, Books, UndoInv, StaysInv, NEW c \in Calls, Step(c)
  PROVE  InPlaceInv'
<1>1. /\ TypeOK /\ Frame(c) /\ call[c].cur \in Slots
  BY StepFrame, CallIsTyped DEF IInv
<1>2. /\ \A d \in Calls \ {c} : call'[d] = call[d]
      /\ \A d \in Calls : call'[d].patcher = call[d].patcher
      /\ UNCHANGED <<replaced, uninstalled>>
  BY <1>1 DEF Frame
<1> SUFFICES ASSUME ~WindowReenters, NEW a \in Calls, ~call'[a].failed
             PROVE  /\ \A e \in call'[a].wrapped :
                         e.slot \notin replaced /\ ~(At(a, "store")' /\ call'[a].cur = e.slot) =>
                           slot'[e.slot] = e.wrapper
                    /\ \A e \in ledger'[call[a].patcher] :
                         /\ e.wrapper[1] = a /\ e.slot \notin replaced
                         /\ call[a].patcher \notin uninstalled
                         => slot'[e.slot] = e.wrapper
  BY <1>2 DEF InPlaceInv
<1>3. ~call[a].failed /\ call[a].patcher \in Patchers
  BY <1>1, <1>2, StepAdds, CallIsTyped
<1>4. ASSUME NEW e \in Entry, e.slot \notin replaced, e.wrapper[1] = a,
             Answers(call[a].patcher, e.wrapper), slot[e.slot] = e.wrapper
      PROVE  slot'[e.slot] = e.wrapper
  <2>1. e.wrapper \in Dispatchers /\ e.slot \in Slots /\ ~Dead(e.wrapper)
    BY <1>4 DEF Entry, Dead, Owner
  <2> QED BY <1>3, <1>4, <2>1, InPlaceStays
<1>5. ASSUME NEW e \in call[a].wrapped, e.slot \notin replaced,
             ~(At(a, "store") /\ call[a].cur = e.slot)
      PROVE  slot'[e.slot] = e.wrapper
  <2>1. slot[e.slot] = e.wrapper
    BY <1>3, <1>5 DEF StaysInv, InPlaceInv
  <2>2. e \in Entry /\ e.wrapper[1] = a /\ Answers(call[a].patcher, e.wrapper)
    BY <1>1, CallIsTyped, BuiltIsAnswered DEF Locals
  <2> QED BY <1>4, <1>5, <2>1, <2>2
<1>6. ASSUME NEW e \in call'[a].wrapped, e.slot \notin replaced,
             ~(At(a, "store")' /\ call'[a].cur = e.slot)
      PROVE  slot'[e.slot] = e.wrapper
  <2>1. CASE a # c
    BY <1>2, <1>5, <1>6, <2>1 DEF At
  <2>2. CASE a = c
    <3>1. e \in call[c].wrapped
      BY <1>6, <2>2, StepAdds DEF At
    <3>2. CASE At(c, "store") /\ call[c].cur = e.slot
      <4>1. Store(c)
        BY <1>1, <1>6, <2>2, <3>2, StoreOrFail
      <4>2. e.wrapper = Built(c)
        BY <3>1, <3>2 DEF Books, WrapsInv, Built
      <4> QED BY <1>1, <3>2, <4>1, <4>2 DEF Store, TypeOK
    <3> QED BY <1>5, <1>6, <2>2, <3>1, <3>2
  <2> QED BY <2>1, <2>2
<1>7. ASSUME NEW e \in ledger'[call[a].patcher], e.wrapper[1] = a, e.slot \notin replaced,
             call[a].patcher \notin uninstalled
      PROVE  slot'[e.slot] = e.wrapper
  <2>1. CASE e \in ledger[call[a].patcher]
    <3>1. slot[e.slot] = e.wrapper
      BY <1>3, <1>7, <2>1 DEF StaysInv, InPlaceInv
    <3>2. e \in Entry /\ Answers(call[a].patcher, e.wrapper)
      BY <1>1, <1>3, <2>1 DEF TypeOK, Answers
    <3> QED BY <1>4, <1>7, <3>1, <3>2
  <2>2. CASE At(c, "publish") /\ UNCHANGED slot /\ e \in call[c].wrapped
    <3>1. a = c
      BY <1>7, <2>2 DEF Books, WrapsInv
    <3> QED BY <1>5, <1>7, <2>2, <3>1 DEF At
  <2> QED BY <1>3, <1>7, <2>1, <2>2, StepAdds
<1> QED BY <1>6, <1>7

LEMMA StartKeepsStays ==
  ASSUME IInv, Books, SeenInv, StaysInv, NEW c \in Calls, NEW p \in Patchers, NEW m \in Modules,
         NEW t \in Threads, Start(c, p, m, t)
  PROVE  StaysInv'
<1>1. /\ \A d \in Calls \ {c} : call'[d] = call[d]
      /\ At(c, "idle") /\ call'[c].pc = "next" /\ call'[c].wrapped = {}
      /\ call'[c].patcher = p
      /\ UNCHANGED <<slot, ledger, inflight, replaced, uninstalled>>
  BY StartEffect DEF IInv, sharedVars, historyVars
<1>2. InPlaceInv'
  <2>1. \A e \in ledger[p] : e.wrapper[1] # c
    BY <1>1 DEF Books, LedgerInv, At
  <2> QED BY <1>1, <2>1 DEF StaysInv, InPlaceInv, At
<1>3. ASSUME NEW a \in Calls PROVE Displaces(a)'
  <2>1. CASE a = c
    BY <1>1, <2>1 DEF Displaces, At
  <2>2. CASE a # c
    <3>1. ASSUME NEW w \in Dispatchers, At(a, "store"), call[a].settled = w, Dead(w),
                 w[2] = call[a].cur
          PROVE  Dead(w)'
      <4>1. ~Unseen(w[2], w)
        BY <3>1 DEF SeenInv, At
      <4>2. w[1] # c
        BY <1>1, <4>1 DEF Unseen, Unstored, ToBuild, Dispatchers
      <4>3. Owner(w)' = Owner(w)
        BY <1>1, <4>2 DEF Owner, Dispatchers
      <4> QED BY <1>1, <3>1, <4>3 DEF Dead, Answers
    <3> QED BY <1>1, <2>2, <3>1 DEF StaysInv, Displaces, At
  <2> QED BY <2>1, <2>2
<1> QED BY <1>2, <1>3 DEF StaysInv

LEMMA UninstallKeepsStays ==
  ASSUME IInv, Books, StaysInv, NEW p \in Patchers, Uninstall(p)
  PROVE  StaysInv'
<1>1. TypeOK /\ \A c \in Calls : ~Running(c)
  BY DEF IInv, Uninstall
<1>2. call' = call /\ replaced \subseteq replaced' /\ uninstalled' = uninstalled \cup {p}
  BY <1>1, UninstallBooks DEF Uninstall
<1>3. /\ \A q \in Patchers : q # p => ledger'[q] = ledger[q]
      /\ \A s \in Slots :
           slot'[s] = slot[s] \/ \E e \in ledger[p] : e.slot = s /\ slot[s] = e.wrapper
  BY <1>1, UninstallEffect
<1>4. \A c \in Calls : call[c].wrapped = {} /\ call[c].pc \notin {"check", "store"}
  BY <1>1, NothingInFlight DEF Running, At
<1>5. \A c \in Calls : call[c].patcher \in Patchers
  BY <1>1, CallIsTyped
<1>6. ASSUME ~WindowReenters, NEW c \in Calls, ~call[c].failed, call[c].patcher # p,
             call[c].patcher \notin uninstalled,
             NEW e \in ledger[call[c].patcher], e.wrapper[1] = c, e.slot \notin replaced
      PROVE  slot'[e.slot] = e.wrapper
  <2>1. slot[e.slot] = e.wrapper
    BY <1>6 DEF StaysInv, InPlaceInv
  <2>2. e.slot \in Slots
    BY <1>1, <1>5 DEF TypeOK, Entry
  <2>3. \A x \in ledger[p] : x.wrapper # e.wrapper
    BY <1>5, <1>6 DEF Books, LedgerInv, Owner
  <2> QED BY <1>3, <2>1, <2>2, <2>3
<1>7. InPlaceInv'
  BY <1>2, <1>3, <1>4, <1>5, <1>6 DEF InPlaceInv
<1>8. \A c \in Calls : Displaces(c)'
  BY <1>2, <1>4 DEF Displaces, At
<1> QED BY <1>7, <1>8 DEF StaysInv

LEMMA ReplaceKeepsStays ==
  ASSUME IInv, StaysInv, NEW s \in Slots, Replace(s)
  PROVE  StaysInv'
<1>1. /\ UNCHANGED <<call, ledger, inflight, uninstalled>> /\ replaced' = replaced \cup {s}
      /\ \A x \in Slots : x # s => slot'[x] = slot[x]
  BY DEF Replace, IInv, TypeOK
<1>2. /\ \A c \in Calls : call[c].cur \in Slots /\ call[c].patcher \in Patchers
      /\ \A c \in Calls : \A e \in call[c].wrapped : e.slot \in Slots
      /\ \A p \in Patchers : \A e \in ledger[p] : e.slot \in Slots
  BY CallIsTyped DEF IInv, TypeOK, Locals, Entry
<1>3. InPlaceInv'
  BY <1>1, <1>2 DEF StaysInv, InPlaceInv, At
<1>4. \A w \in Dispatchers : Dead(w) => Dead(w)'
  BY <1>1 DEF Dead, Answers, Owner
<1>5. \A c \in Calls : Displaces(c)'
  BY <1>1, <1>2, <1>4 DEF StaysInv, Displaces, At
<1> QED BY <1>3, <1>5 DEF StaysInv

LEMMA InitHoldsStays == Init => StaysInv
<1> SUFFICES ASSUME Init PROVE StaysInv
  OBVIOUS
<1>1. \A c \in Calls : call[c].pc = "idle" /\ call[c].wrapped = {} /\ call[c].patcher \in Patchers
  BY InitHoldsInvariant, CallIsTyped DEF Init, Fresh, IInv
<1>2. \A p \in Patchers : ledger[p] = {}
  BY DEF Init
<1> QED BY <1>1, <1>2 DEF StaysInv, InPlaceInv, Displaces, At

LEMMA NextKeepsStays ==
  IInv /\ Books /\ PlaceInv /\ DisplaceInv /\ UndoInv /\ StaysInv /\ [Next]_vars => StaysInv'
<1> SUFFICES ASSUME IInv, Books, PlaceInv, DisplaceInv, UndoInv, StaysInv, [Next]_vars PROVE StaysInv'
  OBVIOUS
<1>1. SeenInv /\ Alone /\ \A c \in Calls : Displaces(c)
  BY DEF DisplaceInv, PlaceInv, StaysInv
<1>2. ASSUME NEW c \in Calls, NEW p \in Patchers, NEW m \in Modules, NEW t \in Threads,
             Start(c, p, m, t)
      PROVE  StaysInv'
  BY <1>1, <1>2, StartKeepsStays
<1>3. ASSUME NEW c \in Calls, Step(c) PROVE StaysInv'
  BY <1>1, <1>3, StepKeepsInPlace, OwnDisplaces, OthersDisplace DEF StaysInv
<1>4. CASE UNCHANGED vars
  BY <1>4 DEF vars, StaysInv, InPlaceInv, Displaces, Dead, Answers, Owner, At
<1> QED BY <1>2, <1>3, <1>4, UninstallKeepsStays, ReplaceKeepsStays DEF Next

\* No install overwrites another: what a successful call left in place stays
\* there until the program replaces it or it is uninstalled, on any threads and
\* any slots, when nothing re-enters the window.
THEOREM NoInstallOrphaned ==
  ASSUME ~WindowReenters
  PROVE  Spec => []NoInstallIsOrphaned
<1>1. IInv /\ Books /\ StaysInv => NoInstallIsOrphaned
  <2> SUFFICES ASSUME IInv, Books, StaysInv, NEW p \in Patchers \ uninstalled,
                      NEW e \in ledger[p], Succeeded(e.wrapper[1]), e.slot \notin replaced
               PROVE  slot[e.slot] = e.wrapper
    BY DEF NoInstallIsOrphaned
  <2>1. e.wrapper[1] \in Calls
    BY DEF IInv, TypeOK, Entry, Dispatchers
  <2>2. call[e.wrapper[1]].patcher = p /\ ~call[e.wrapper[1]].failed
    BY DEF Books, LedgerInv, Owner, Succeeded
  <2> QED BY <2>1, <2>2 DEF StaysInv, InPlaceInv
<1>2. IInv /\ Books /\ PlaceInv /\ DisplaceInv /\ UndoInv /\ StaysInv /\ [Next]_vars => StaysInv'
  BY NextKeepsStays
<1> QED BY <1>1, <1>2, InitHoldsStays, PlacesHold, DisplaceHolds, UndoHolds, PTL DEF Spec
=============================================================================
