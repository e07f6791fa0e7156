---------------------------- MODULE SlotInstall -----------------------------
(***************************************************************************)
(* patcher.Patcher._patch: installing dispatchers on the attributes a      *)
(* module's rules name, and taking them back when the call fails.          *)
(*                                                                         *)
(* Calls of _patch run on several threads and on behalf of several         *)
(* Patchers.  Reading or writing a slot runs code of the target program,   *)
(* and an import in that code calls _patch again on the same thread before *)
(* the outer call goes on.  Any read, check or write may raise; a write    *)
(* may raise before or after it stored.                                    *)
(*                                                                         *)
(* uninstall() is one action here, between calls of _patch (LedgerWalk     *)
(* takes its walk apart); the order in which it walks the ledger is        *)
(* immaterial where no dispatcher is saved as another's original           *)
(* (DispatchersDoNotNest).                                                 *)
(***************************************************************************)
EXTENDS Naturals

CONSTANTS
  Patchers, Modules, Rules, Slots,
  OwnerOf, ModuleOf, SlotOf,  \* of each rule: Patcher, module, attribute
  Calls,          \* bound: invocations of _patch
  Threads,
  Stable,         \* slots whose consecutive reads return the same object
  Replaceable,    \* bound: slots the program replaces or deletes, once each
  WindowReenters, \* target code imports between the second read and the store
  Original, Foreign, Absent, Free, Nobody

ASSUME RulesAssumption ==
  /\ OwnerOf \in [Rules -> Patchers]
  /\ ModuleOf \in [Rules -> Modules]
  /\ SlotOf \in [Rules -> Slots]
ASSUME SlotsAssumption == Slots # {} /\ Stable \subseteq Slots /\ Replaceable \subseteq Slots
ASSUME ReentryAssumption == WindowReenters \in BOOLEAN
ASSUME CallersAssumption == Patchers # {} /\ Modules # {} /\ Threads # {}

\* The dispatcher a call builds for a slot; a call builds one per slot at most.
Dispatchers == Calls \X Slots

ASSUME NobodyAssumption ==
  /\ Nobody \notin Patchers
  /\ {Original, Foreign, Absent} \cap Dispatchers = {}
  /\ Absent \notin {Original, Foreign}
  /\ Original # Foreign

Values == {Original, Foreign, Absent} \cup Dispatchers
Entry == [slot : Slots, live : Values, wrapper : Dispatchers]
Reservation == [patcher : Patchers, thread : Threads, token : Calls]

ASSUME FreeAssumption == Free \notin Reservation

VARIABLES
  slot,           \* what each attribute holds
  reserved,       \* _SLOT_RESERVATIONS
  ledger,         \* self._wrapped and self._wrapped_by_id
  inflight,       \* self._inflight
  served,         \* each dispatcher's composite.served
  pending,        \* self._pending
  applied,        \* self.applied
  call,           \* the locals of each call
  replaced,       \* history: slots the program replaced
  uninstalled     \* history: Patchers that were uninstalled

vars == <<slot, reserved, ledger, inflight, served, pending, applied, call,
          replaced, uninstalled>>
sharedVars == <<slot, reserved, ledger, inflight, served, pending, applied>>
historyVars == <<replaced, uninstalled>>

Labels == {"idle", "next", "decide", "reserve", "settle", "check", "store",
           "stored", "restore", "undo", "publish", "handoff", "release", "done"}

\* depth orders the calls on one thread's stack.
Locals ==
  [pc : Labels, patcher : Patchers, module : Modules, thread : Threads,
   depth : Nat, todo : SUBSET Slots, cur : Slots, live : Values \ {Absent},
   settled : Values \ {Absent}, wrapped : SUBSET Entry, unvisited : SUBSET Entry,
   landed : SUBSET Rules, extended : SUBSET (Dispatchers \X SUBSET Rules),
   tokens : SUBSET Slots, failed : BOOLEAN]

TypeOK ==
  /\ slot \in [Slots -> Values]
  /\ reserved \in [Slots -> Reservation \cup {Free}]
  /\ ledger \in [Patchers -> SUBSET Entry]
  /\ inflight \in [Patchers -> SUBSET Dispatchers]
  /\ served \in [Dispatchers -> SUBSET Rules]
  /\ pending \in [Patchers -> SUBSET Rules]
  /\ applied \in [Patchers -> SUBSET Rules]
  /\ call \in [Calls -> Locals]
  /\ replaced \subseteq Replaceable
  /\ uninstalled \subseteq Patchers

\* The locals of a call that starts, and of one that has not.
Fresh(label, p, m, t, depth, todo) ==
  [pc |-> label, patcher |-> p, module |-> m, thread |-> t, depth |-> depth,
   todo |-> todo, cur |-> CHOOSE s \in Slots : TRUE, live |-> Original,
   settled |-> Original, wrapped |-> {}, unvisited |-> {}, landed |-> {},
   extended |-> {}, tokens |-> {}, failed |-> FALSE]

RulesOf(p) == {r \in Rules : OwnerOf[r] = p}

Init ==
  /\ slot = [s \in Slots |-> Original]
  /\ reserved = [s \in Slots |-> Free]
  /\ ledger = [p \in Patchers |-> {}]
  /\ inflight = [p \in Patchers |-> {}]
  /\ served = [d \in Dispatchers |-> {}]
  /\ pending = [p \in Patchers |-> RulesOf(p)]
  /\ applied = [p \in Patchers |-> {}]
  /\ call = [c \in Calls |->
       Fresh("idle", CHOOSE p \in Patchers : TRUE, CHOOSE m \in Modules : TRUE,
             CHOOSE t \in Threads : TRUE, 0, {})]
  /\ replaced = {}
  /\ uninstalled = {}

-----------------------------------------------------------------------------
At(c, label) == call[c].pc = label
Running(c) == ~At(c, "idle") /\ ~At(c, "done")
Nested(c, d) == call[d].thread = call[c].thread /\ call[c].depth < call[d].depth

\* A call goes on when every call nested in it has returned.
OnTop(c) == Running(c) /\ \A d \in Calls : ~(Running(d) /\ Nested(c, d))

Mine(c) == {r \in RulesOf(call[c].patcher) : ModuleOf[r] = call[c].module}
RulesAt(c) == {r \in Mine(c) : SlotOf[r] = call[c].cur}
Built(c) == <<c, call[c].cur>>
Owner(w) == call[w[1]].patcher

\* _live_dispatcher_owner: the Patcher that answers for what a slot held.
Answers(p, w) == w \in inflight[p] \/ \E e \in ledger[p] : e.wrapper = w
LiveOwner(v) ==
  IF v \in Dispatchers /\ Answers(Owner(v), v) THEN Owner(v) ELSE Nobody

\* Where target code can run, and with it an import that calls _patch.
Reentrant == {"next", "decide", "reserve", "settle", "check", "store", "stored", "restore",
              "undo"}

\* Patcher p is between its second read and its store on the thread.
Writing(p, t) ==
  \E c \in Calls : /\ call[c].patcher = p /\ call[c].thread = t
                   /\ call[c].pc \in {"check", "store"}

\* A call starts on an idle thread, or inside target code another call runs.
\* Pass 1 writes nothing: it keeps the attributes that exist.
Start(c, p, m, t) ==
  LET onThread == {d \in Calls : Running(d) /\ call[d].thread = t}
      todo == {SlotOf[r] : r \in {q \in RulesOf(p) : ModuleOf[q] = m}} IN
  /\ At(c, "idle")
  /\ \/ /\ onThread = {}
        /\ call' = [call EXCEPT ![c] =
             Fresh("next", p, m, t, 1, {s \in todo : slot[s] # Absent})]
     \/ \E d \in onThread :
          /\ OnTop(d) /\ call[d].pc \in Reentrant
          /\ WindowReenters \/ ~Writing(p, t)
          /\ call' = [call EXCEPT ![c] =
               Fresh("next", p, m, t, call[d].depth + 1,
                     {s \in todo : slot[s] # Absent})]
  /\ UNCHANGED <<sharedVars, historyVars>>

Goto(c, label) == [call EXCEPT ![c].pc = label]
Leave(c) == [call EXCEPT ![c].pc = "next", ![c].todo = @ \ {call[c].cur}]
Fail(c) == [call EXCEPT ![c].pc = "restore", ![c].failed = TRUE,
                        ![c].unvisited = call[c].wrapped]

\* Pass 2, the top of the loop: the first read.  An absent name is skipped.
Read(c, s) ==
  /\ At(c, "next") /\ s \in call[c].todo
  /\ call' = IF slot[s] = Absent
             THEN [call EXCEPT ![c].todo = @ \ {s}]
             ELSE [call EXCEPT ![c].pc = "decide", ![c].cur = s, ![c].live = slot[s]]
  /\ UNCHANGED <<sharedVars, historyVars>>

\* _extend_dispatcher and _land: the rules the dispatcher does not serve yet
\* join it, stop being pending, and the call moves to its next slot.
Extend(c, w) ==
  LET added == RulesAt(c) \ served[w] IN
  /\ served' = [served EXCEPT ![w] = @ \cup added]
  /\ pending' = [pending EXCEPT ![call[c].patcher] = @ \ added]
  /\ call' = [call EXCEPT
       ![c].pc = "next", ![c].todo = @ \ {call[c].cur},
       ![c].landed = @ \cup added,
       ![c].extended = IF added = {} THEN @ ELSE @ \cup {<<w, added>>}]
  /\ UNCHANGED <<slot, reserved, ledger, inflight, applied, historyVars>>

\* The ownership question asked of the first read.
Decide(c) ==
  /\ At(c, "decide")
  /\ \/ LiveOwner(call[c].live) = call[c].patcher /\ Extend(c, call[c].live)
     \/ /\ LiveOwner(call[c].live) # call[c].patcher
        /\ call' = IF LiveOwner(call[c].live) = Nobody THEN Goto(c, "reserve") ELSE Fail(c)
        /\ UNCHANGED <<sharedVars, historyVars>>

\* Mutant of Admitted: the registry admits whoever asks.
AdmittedAll(c, s) == TRUE

\* _reserve_slot grants a held slot to the same Patcher on the same thread.
Admitted(c, s) ==
  \/ reserved[s] = Free
  \/ reserved[s].patcher = call[c].patcher /\ reserved[s].thread = call[c].thread

\* _reserve_slot, under _RESERVATION_LOCK; the token is remembered first.
Reserve(c) ==
  LET s == call[c].cur IN
  /\ At(c, "reserve")
  /\ reserved' = IF reserved[s] = Free
                 THEN [reserved EXCEPT ![s] = [patcher |-> call[c].patcher,
                                               thread |-> call[c].thread, token |-> c]]
                 ELSE reserved
  /\ call' = IF Admitted(c, s)
             THEN [call EXCEPT ![c].pc = "settle", ![c].tokens = @ \cup {s}]
             ELSE [Fail(c) EXCEPT ![c].tokens = @ \cup {s}]
  /\ UNCHANGED <<slot, ledger, inflight, served, pending, applied, historyVars>>

\* The second read, inside the reservation.
Settle(c) ==
  LET now == slot[call[c].cur] IN
  /\ At(c, "settle")
  /\ call' = IF now = Absent THEN Leave(c)
             ELSE [call EXCEPT ![c].pc = "check", ![c].settled = now]
  /\ UNCHANGED <<sharedVars, historyVars>>

\* Mutant of Substituted: the settled value is never compared.
NeverSubstituted(c) == FALSE

\* The gated check: what was decided on is gone, and a third read says the slot
\* can tell.
Substituted(c) ==
  /\ call[c].settled # call[c].live
  /\ call[c].cur \in Stable
  /\ slot[call[c].cur] = call[c].settled

\* Mutant of Claim: the dispatcher is not registered before the write.
ClaimUnregistered(c) ==
  /\ served' = [served EXCEPT ![Built(c)] = RulesAt(c)]
  /\ call' = [call EXCEPT ![c].pc = "store", ![c].wrapped = @ \cup
       {[slot |-> call[c].cur, live |-> call[c].live, wrapper |-> Built(c)]}]
  /\ UNCHANGED <<slot, reserved, ledger, inflight, pending, applied, historyVars>>

\* Mutant of Claim: the ledger entry is not claimed before the write.
ClaimUnrecorded(c) ==
  /\ inflight' = [inflight EXCEPT ![call[c].patcher] = @ \cup {Built(c)}]
  /\ served' = [served EXCEPT ![Built(c)] = RulesAt(c)]
  /\ call' = Goto(c, "store")
  /\ UNCHANGED <<slot, reserved, ledger, pending, applied, historyVars>>

\* Registered as ours and recorded, both before the write.
Claim(c) ==
  /\ inflight' = [inflight EXCEPT ![call[c].patcher] = @ \cup {Built(c)}]
  /\ served' = [served EXCEPT ![Built(c)] = RulesAt(c)]
  /\ call' = [call EXCEPT ![c].pc = "store", ![c].wrapped = @ \cup
       {[slot |-> call[c].cur, live |-> call[c].live, wrapper |-> Built(c)]}]
  /\ UNCHANGED <<slot, reserved, ledger, pending, applied, historyVars>>

\* The ownership question asked of the second read.
Check(c) ==
  LET owner == LiveOwner(call[c].settled) IN
  /\ At(c, "check")
  /\ \/ owner = call[c].patcher /\ Extend(c, call[c].settled)
     \/ owner = Nobody /\ ~Substituted(c) /\ Claim(c)
     \/ /\ owner # call[c].patcher
        /\ owner # Nobody \/ Substituted(c)
        /\ call' = Fail(c)
        /\ UNCHANGED <<sharedVars, historyVars>>

\* setattr stores the dispatcher; target code may still run before it returns.
Store(c) ==
  /\ At(c, "store")
  /\ slot' = [slot EXCEPT ![call[c].cur] = Built(c)]
  /\ call' = Goto(c, "stored")
  /\ UNCHANGED <<reserved, ledger, inflight, served, pending, applied, historyVars>>

\* setattr returned: _land.
Land(c) ==
  /\ At(c, "stored")
  /\ pending' = [pending EXCEPT ![call[c].patcher] = @ \ RulesAt(c)]
  /\ call' = [Leave(c) EXCEPT ![c].landed = @ \cup RulesAt(c)]
  /\ UNCHANGED <<slot, reserved, ledger, inflight, served, applied, historyVars>>

\* A read, a shape check, a refused merge or the write raises.
Raise(c) ==
  /\ call[c].pc \in {"next", "decide", "reserve", "settle", "check", "store", "stored"}
  /\ call' = Fail(c)
  /\ UNCHANGED <<sharedVars, historyVars>>

\* The loop is over.
Finish(c) ==
  /\ At(c, "next") /\ call[c].todo = {}
  /\ call' = Goto(c, "publish")
  /\ UNCHANGED <<sharedVars, historyVars>>

-----------------------------------------------------------------------------
\* _undo_one, the read.  Our own wrapper is put back next; anything else is
\* released where it is; a read that raises keeps the entry, and the read of an
\* absent name does.
Look(c, e) ==
  /\ At(c, "restore")
  /\ \/ /\ slot[e.slot] = e.wrapper
        /\ call' = [call EXCEPT ![c].pc = "undo", ![c].cur = e.slot]
     \/ /\ slot[e.slot] \notin {e.wrapper, Absent}
        /\ call' = [call EXCEPT ![c].unvisited = @ \ {e}, ![c].wrapped = @ \ {e}]
     \/ call' = [call EXCEPT ![c].unvisited = @ \ {e}]
  /\ UNCHANGED <<sharedVars, historyVars>>

\* _undo_one, the write: the original goes back over whatever the slot holds by
\* now.  A refusal keeps the entry, whether or not the write landed.
PutBack(c, e) ==
  LET restored == [slot EXCEPT ![e.slot] = e.live] IN
  /\ At(c, "undo") /\ e.slot = call[c].cur
  /\ \/ /\ slot' = restored
        /\ call' = [call EXCEPT ![c].pc = "restore", ![c].unvisited = @ \ {e},
                                ![c].wrapped = @ \ {e}]
     \/ /\ slot' \in {slot, restored}
        /\ call' = [call EXCEPT ![c].pc = "restore", ![c].unvisited = @ \ {e}]
  /\ UNCHANGED <<reserved, ledger, inflight, served, pending, applied, historyVars>>

\* _restore over the call's own wraps.  `unvisited` are those not visited yet.
RestoreEntry(c, e) == Look(c, e) \/ PutBack(c, e)

\* The rules this call put into dispatchers that were already live.
Additions(c, w) == UNION {x[2] : x \in {y \in call[c].extended : y[1] = w}}

\* Mutant of Unwind: what landed is not made pending again.
UnwindForgetsLanded(c) ==
  /\ At(c, "restore") /\ call[c].unvisited = {}
  /\ served' = [w \in Dispatchers |-> served[w] \ Additions(c, w)]
  /\ call' = Goto(c, "publish")
  /\ UNCHANGED <<slot, reserved, ledger, inflight, pending, applied, historyVars>>

\* Mutant of Unwind: _unextend is not called.
UnwindKeepsAdditions(c) ==
  /\ At(c, "restore") /\ call[c].unvisited = {}
  /\ pending' = [pending EXCEPT ![call[c].patcher] = @ \cup call[c].landed]
  /\ call' = Goto(c, "publish")
  /\ UNCHANGED <<slot, reserved, ledger, inflight, served, applied, historyVars>>

\* The rest of the handler: landed rules are pending again, and _unextend.
Unwind(c) ==
  /\ At(c, "restore") /\ call[c].unvisited = {}
  /\ pending' = [pending EXCEPT ![call[c].patcher] = @ \cup call[c].landed]
  /\ served' = [w \in Dispatchers |-> served[w] \ Additions(c, w)]
  /\ call' = Goto(c, "publish")
  /\ UNCHANGED <<slot, reserved, ledger, inflight, applied, historyVars>>

\* _publish, in the finally: on every exit, what is still wrapped.
Publish(c) ==
  /\ At(c, "publish")
  /\ ledger' = [ledger EXCEPT ![call[c].patcher] = @ \cup call[c].wrapped]
  /\ call' = Goto(c, "handoff")
  /\ UNCHANGED <<slot, reserved, inflight, served, pending, applied, historyVars>>

\* The ids this call registered leave the in-flight map.
Handoff(c) ==
  /\ At(c, "handoff")
  /\ inflight' = [inflight EXCEPT ![call[c].patcher] = {w \in @ : w[1] # c}]
  /\ call' = Goto(c, "release")
  /\ UNCHANGED <<slot, reserved, ledger, served, pending, applied, historyVars>>

\* Mutant of Ours: the release matches on the Patcher, not on the token.
OursByPatcher(c, s) == reserved[s] # Free /\ reserved[s].patcher = call[c].patcher

\* _release_slot: the reservation is dropped by the call whose token it holds.
Ours(c, s) == reserved[s] # Free /\ reserved[s].token = c

\* The reservations go last; applied grows only if the call succeeded.
Return(c) ==
  /\ At(c, "release")
  /\ reserved' = [s \in Slots |->
       IF s \in call[c].tokens /\ Ours(c, s) THEN Free ELSE reserved[s]]
  /\ applied' = IF call[c].failed THEN applied
                ELSE [applied EXCEPT ![call[c].patcher] = @ \cup call[c].landed]
  /\ call' = [call EXCEPT ![c] =
       [Fresh("done", @.patcher, @.module, @.thread, 0, {}) EXCEPT !.failed = call[c].failed]]
  /\ UNCHANGED <<slot, ledger, inflight, served, pending, historyVars>>

\* uninstall(), between calls: every entry is settled or refused.  The program
\* may replace a slot between the read that finds our wrapper and the write,
\* which then goes over the replacement.
Uninstall(p) ==
  /\ \A c \in Calls : ~Running(c)
  /\ \E refused \in SUBSET ledger[p] : \E written \in SUBSET refused :
       LET settled == ledger[p] \ refused
           back(s) == {e \in settled \cup written : e.slot = s /\ slot[s] = e.wrapper} IN
       /\ \A e \in settled : slot[e.slot] # Absent
       /\ slot' = [s \in Slots |->
            IF back(s) = {} THEN slot[s] ELSE (CHOOSE e \in back(s) : TRUE).live]
       /\ ledger' = [ledger EXCEPT ![p] = refused]
       /\ \E overtaken \in SUBSET {s \in Replaceable : back(s) # {}} :
            replaced' = replaced \cup overtaken
  /\ pending' = [pending EXCEPT ![p] = {}]
  /\ applied' = [applied EXCEPT ![p] = {}]
  /\ uninstalled' = uninstalled \cup {p}
  /\ UNCHANGED <<reserved, inflight, served, call>>

\* The program binds another callable over the attribute, or deletes it.
Replace(s) ==
  /\ s \in Replaceable \ replaced
  /\ \E v \in {Foreign, Absent} : slot' = [slot EXCEPT ![s] = v]
  /\ replaced' = replaced \cup {s}
  /\ UNCHANGED <<reserved, ledger, inflight, served, pending, applied, call, uninstalled>>

Step(c) ==
  /\ OnTop(c)
  /\ \/ \E s \in Slots : Read(c, s)
     \/ Decide(c) \/ Reserve(c) \/ Settle(c) \/ Check(c) \/ Store(c) \/ Land(c)
     \/ Raise(c) \/ Finish(c)
     \/ \E e \in call[c].unvisited : RestoreEntry(c, e)
     \/ Unwind(c) \/ Publish(c) \/ Handoff(c) \/ Return(c)

Next ==
  \/ \E c \in Calls, p \in Patchers, m \in Modules, t \in Threads : Start(c, p, m, t)
  \/ \E c \in Calls : Step(c)
  \/ \E p \in Patchers : Uninstall(p)
  \/ \E s \in Slots : Replace(s)

Spec == Init /\ [][Next]_vars

-----------------------------------------------------------------------------
\* Between the second read and the end of the write, a slot is one thread's and
\* one Patcher's: the ownership that was read is still true at the write.
InWindow(c, s) ==
  call[c].pc \in {"settle", "check", "store", "stored"} /\ call[c].cur = s
WindowIsExclusive ==
  \A c, d \in Calls, s \in Slots :
    InWindow(c, s) /\ InWindow(d, s) =>
      call[c].patcher = call[d].patcher /\ call[c].thread = call[d].thread

\* A dispatcher that is live in its attribute is always one its Patcher answers
\* for, and once the call that built it has returned it can be removed: no
\* wrap is live that nobody records.  SlotInstallProofs proves it for one
\* instrumenting thread, whatever target code re-enters, and for several on
\* stable slots whose window nothing re-enters.
NothingLiveIsUnrecorded ==
  \A s \in Slots \ replaced :
    slot[s] \in Dispatchers =>
      /\ Answers(Owner(slot[s]), slot[s])
      /\ ~Running(slot[s][1]) =>
           \E e \in ledger[Owner(slot[s])] : e.wrapper = slot[s]

\* No rule fires twice because its dispatcher wraps another: what an entry
\* saves as the original is never a dispatcher, whoever else was installing or
\* rolling back.  Only a slot that the program replaced meanwhile escapes.
\* With several threads and re-entry it takes three calls to break it.
Wraps(p) == ledger[p] \cup UNION {call[c].wrapped : c \in {d \in Calls : call[d].patcher = p}}
DispatchersDoNotNest ==
  \A p \in Patchers : \A e \in Wraps(p) :
    e.slot \notin replaced => e.live \notin Dispatchers

\* No install overwrites another: the dispatcher a call left in place when it
\* succeeded stays there until the program replaces it or it is uninstalled.
\* A call that re-enters the window of its own Patcher's breaks it.
Succeeded(c) == At(c, "done") /\ ~call[c].failed
NoInstallIsOrphaned ==
  \A p \in Patchers \ uninstalled : \A e \in ledger[p] :
    Succeeded(e.wrapper[1]) /\ e.slot \notin replaced => slot[e.slot] = e.wrapper

\* A reservation belongs to a call in progress.
ReservationsEndWithCalls ==
  \A s \in Slots : reserved[s] # Free => Running(reserved[s].token)

\* Where the slot can tell, a write displaces the value it will give back,
\* unless the program replaced it again after the second read.
SavedIsDisplaced ==
  \A c \in Calls :
    At(c, "store") /\ At(c, "stored")' /\ call[c].cur \in Stable
      /\ slot[call[c].cur] = call[c].settled =>
        call[c].live = slot[call[c].cur]
UninstallGivesBack == [][SavedIsDisplaced]_vars

\* A rollback takes out nobody's install but its own: from the read that finds
\* its dispatcher to the write, no other dispatcher reaches the slot, from
\* another thread or from inside the rollback's target code.  What the program
\* binds there meanwhile is lost, and so is a dispatcher built over that: the
\* limit that docs/rules.md:283-285 states.
RollbackIsCurrent ==
  \A c \in Calls :
    At(c, "undo") /\ call[c].cur \notin replaced => slot[call[c].cur] = Built(c)

\* What displaced() and pending() answer, and what is in force.
InForce(r) ==
  LET w == slot[SlotOf[r]] IN
  LiveOwner(w) = OwnerOf[r] /\ r \in served[w]
Displaced(r) ==
  /\ \E e \in ledger[OwnerOf[r]] : r \in served[e.wrapper]
  /\ ~InForce(r)
Between(p) == p \notin uninstalled /\ \A c \in Calls : Running(c) => call[c].patcher # p

\* A rule that joined a dispatcher whose own call then failed.
WentDownWithAnother(r) ==
  \E c \in Calls, s \in Slots :
    /\ call[c].failed
    /\ r \in served[<<c, s>>] /\ ModuleOf[r] # call[c].module

\* Every rule of a live Patcher is in force, or pending() names it, or
\* displaced() does: a rollback loses none, except one that another call had
\* put into the dispatcher that was rolled back.
RulesAreAccountedFor ==
  \A r \in Rules :
    Between(OwnerOf[r]) =>
      \/ InForce(r) \/ Displaced(r) \/ r \in pending[OwnerOf[r]]
      \/ WentDownWithAnother(r)

\* docs/rules.md: "a patch rolled back all stay pending and are reported ...
\* rather than going quiet".
NoRuleGoesQuiet ==
  \A r \in Rules :
    Between(OwnerOf[r]) => InForce(r) \/ Displaced(r) \/ r \in pending[OwnerOf[r]]

\* What fires is named: a rule served in an attribute is in `applied`, unless
\* its call is still in progress, its restore was refused, or it was
\* uninstalled and refused.
FiringRulesAreNamed ==
  \A s \in Slots :
    LET w == slot[s] IN
    w \in Dispatchers /\ Owner(w) \notin uninstalled /\ ~call[w[1]].failed =>
      \A r \in served[w] :
        \/ r \in applied[Owner(w)]
        \/ \E c \in Calls : Running(c) /\ r \in Mine(c)
=============================================================================
