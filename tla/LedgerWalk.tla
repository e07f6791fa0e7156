----------------------------- MODULE LedgerWalk -----------------------------
(***************************************************************************)
(* The walk of uninstall over a Patcher's ledger, statement by statement:  *)
(* _restore and _undo_one over the list _patch publishes to.               *)
(*                                                                         *)
(* The getattr and the setattr of a restore run code of the target, which  *)
(* may call uninstall again: walks nest, the innermost runs, and they      *)
(* share one list.  Calls of _patch claim, store and publish at any moment *)
(* of a walk, from that code or from another thread.  What a restore puts  *)
(* back, and what others bind over a wrapper, is no wrapper of this        *)
(* Patcher: a slot holds the wrapper of an entry or none.                  *)
(***************************************************************************)
EXTENDS Naturals, Sequences, SequencesExt

CONSTANTS
  Entries, Slots,
  SlotOf,         \* the slot each entry names
  MaxDepth,       \* bound: uninstalls running inside one another
  None

ASSUME SlotOfAssumption == SlotOf \in [Entries -> Slots]
ASSUME MaxDepthAssumption == MaxDepth \in Nat
ASSUME NoneAssumption == None \notin Entries

VARIABLES
  slot,           \* the entry whose wrapper each slot holds
  phase,          \* how far _patch got with each entry
  ledger,         \* self._wrapped
  depth,          \* uninstalls running
  walk            \* each one's locals; walk[depth] runs

vars == <<slot, phase, ledger, depth, walk>>

Labels == {"pass", "read", "store", "stored", "done", "raised"}

\* i is 1-based.  `known`: the entries it found.  `inner`: what the walks inside
\* it reported as refused.
Walks == [pc : Labels, i : Nat, entry : Entries \cup {None},
          refused : SUBSET Entries, inner : SUBSET Entries, known : SUBSET Entries]

TypeOK ==
  /\ slot \in [Slots -> Entries \cup {None}]
  /\ phase \in [Entries -> {"new", "claimed", "landed", "published", "gone"}]
  /\ ledger \in Seq(Entries)
  /\ depth \in 0..MaxDepth
  /\ walk \in [1..MaxDepth -> Walks]

Locals(i, known) ==
  [pc |-> "pass", i |-> i, entry |-> None, refused |-> {}, inner |-> {}, known |-> known]

Init ==
  /\ slot = [s \in Slots |-> None]
  /\ phase = [e \in Entries |-> "new"]
  /\ ledger = <<>>
  /\ depth = 0
  /\ walk = [d \in 1..MaxDepth |-> Locals(0, {})]

-----------------------------------------------------------------------------
Holds(e) == slot[SlotOf[e]] = e
Cleared(e) == [slot EXCEPT ![SlotOf[e]] = None]
Enters(e, p) == phase' = [phase EXCEPT ![e] = p]

\* _patch, under the reservation of the slot: the second read finds no wrapper of
\* ours, and the entry is claimed before the write.
Claim(e) ==
  /\ phase[e] = "new" /\ slot[SlotOf[e]] = None
  /\ \A x \in Entries : SlotOf[x] = SlotOf[e] => phase[x] \notin {"claimed", "landed"}
  /\ Enters(e, "claimed")
  /\ UNCHANGED <<slot, ledger, depth, walk>>

\* The write itself, with whatever happened since the claim.
Land(e) ==
  /\ phase[e] = "claimed"
  /\ slot' = [slot EXCEPT ![SlotOf[e]] = e]
  /\ Enters(e, "landed")
  /\ UNCHANGED <<ledger, depth, walk>>

Publish(e) ==
  /\ phase[e] = "landed"
  /\ ledger' = Append(ledger, e)
  /\ Enters(e, "published")
  /\ UNCHANGED <<slot, depth, walk>>

\* The call fails: its own undo, then what survives it is published.
RollBack(e) ==
  /\ phase[e] \in {"claimed", "landed"}
  /\ \/ /\ slot' = IF Holds(e) THEN Cleared(e) ELSE slot
        /\ Enters(e, "gone")
        /\ UNCHANGED ledger
     \/ /\ slot' \in {slot, IF Holds(e) THEN Cleared(e) ELSE slot}
        /\ ledger' = Append(ledger, e)
        /\ Enters(e, "published")
  /\ UNCHANGED <<depth, walk>>

\* The program under test, or another Patcher, binds something else.
Replace(s) ==
  /\ slot[s] # None
  /\ slot' = [slot EXCEPT ![s] = None]
  /\ UNCHANGED <<phase, ledger, depth, walk>>

-----------------------------------------------------------------------------
At(label) == depth > 0 /\ walk[depth].pc = label
W == walk[depth]

\* Where code of the target runs: inside the getattr, and inside the setattr
\* before and after it stores.
InTarget == depth > 0 => walk[depth].pc \in {"read", "store", "stored"}

\* uninstall, up to the range its _restore computes.
Begin ==
  /\ depth < MaxDepth /\ InTarget
  /\ depth' = depth + 1
  /\ walk' = [walk EXCEPT ![depth + 1] = Locals(Len(ledger), Range(ledger))]
  /\ UNCHANGED <<slot, phase, ledger>>

\* Mutant of Fetch: an index the list no longer has ends the loop.
FetchOrStop ==
  /\ At("pass") /\ W.i > 0
  /\ walk' = IF W.i \in DOMAIN ledger
             THEN [walk EXCEPT ![depth].pc = "read", ![depth].entry = ledger[W.i]]
             ELSE [walk EXCEPT ![depth].pc = "done"]
  /\ UNCHANGED <<slot, phase, ledger, depth>>

\* entries[i]: an index the list no longer has raises.
Fetch ==
  /\ At("pass") /\ W.i > 0
  /\ walk' = IF W.i \in DOMAIN ledger
             THEN [walk EXCEPT ![depth].pc = "read", ![depth].entry = ledger[W.i]]
             ELSE [walk EXCEPT ![depth].pc = "raised"]
  /\ UNCHANGED <<slot, phase, ledger, depth>>

Finish ==
  /\ At("pass") /\ W.i = 0
  /\ walk' = [walk EXCEPT ![depth].pc = "done"]
  /\ UNCHANGED <<slot, phase, ledger, depth>>

\* Mutant of Settled: whatever stands at the index is deleted.
SettledByIndex == IF W.i \in DOMAIN ledger THEN RemoveAt(ledger, W.i) ELSE ledger

\* The entry is dropped if it is still where the walk read it.
Settled ==
  IF W.i \in DOMAIN ledger /\ ledger[W.i] = W.entry THEN RemoveAt(ledger, W.i) ELSE ledger

NextPass == walk' = [walk EXCEPT ![depth].pc = "pass", ![depth].i = @ - 1]
Settle == ledger' = Settled /\ NextPass

\* _undo_one's handler: the entry stays, and is reported.
Refuse ==
  /\ walk' = [walk EXCEPT ![depth].pc = "pass", ![depth].i = @ - 1,
                          ![depth].refused = @ \cup {W.entry}]
  /\ UNCHANGED ledger

\* getattr answers, or raises: what is not our wrapper is released.
Read ==
  /\ At("read")
  /\ \/ /\ Holds(W.entry)
        /\ walk' = [walk EXCEPT ![depth].pc = "store"]
        /\ UNCHANGED ledger
     \/ ~Holds(W.entry) /\ Settle
     \/ Refuse
  /\ UNCHANGED <<slot, phase, depth>>

\* setattr or delattr stores, onto whatever its own code left there.
Store ==
  /\ At("store")
  /\ slot' = Cleared(W.entry)
  /\ walk' = [walk EXCEPT ![depth].pc = "stored"]
  /\ UNCHANGED <<phase, ledger, depth>>

\* It returns, or raises, with or without having stored.
Stored ==
  /\ \/ At("stored") /\ Settle
     \/ (At("store") \/ At("stored")) /\ Refuse
  /\ UNCHANGED <<slot, phase, depth>>

\* uninstall returns its refusals to the code that called it, or raises there.
End ==
  /\ At("done") \/ At("raised")
  /\ depth' = depth - 1
  /\ walk' = [d \in 1..MaxDepth |->
       IF d = depth THEN Locals(0, {})
       ELSE IF d = depth - 1 THEN [walk[d] EXCEPT !.inner = @ \cup W.refused \cup W.inner]
       ELSE walk[d]]
  /\ UNCHANGED <<slot, phase, ledger>>

Next ==
  \/ \E e \in Entries : Claim(e) \/ Land(e) \/ Publish(e) \/ RollBack(e)
  \/ \E s \in Slots : Replace(s)
  \/ Begin \/ Fetch \/ Finish \/ Read \/ Store \/ Stored \/ End

Spec == Init /\ [][Next]_vars

-----------------------------------------------------------------------------
\* A wrapper that stands in its slot is recorded from the moment its call
\* publishes it: no walk forgets it, however the list shifts under it
\* (patcher.py:433-446).
NothingWrappedIsForgotten ==
  \A e \in Entries : Holds(e) /\ phase[e] = "published" => e \in Range(ledger)

\* An uninstall that returns took off all it found, except what it reports as
\* refused; one that raises left nothing but that and what an uninstall inside
\* it reported.  What it leaves besides was published while it ran.
WalkSettlesWhatItFound ==
  \A d \in 1..depth :
    /\ walk[d].pc = "done" => Range(ledger) \cap walk[d].known \subseteq walk[d].refused
    /\ walk[d].pc = "raised" =>
         Range(ledger) \cap walk[d].known \subseteq walk[d].refused \cup walk[d].inner
=============================================================================
