------------------------------ MODULE HookStack ------------------------------
(***************************************************************************)
(* The import hooks of several Patchers, and of strangers, one over        *)
(* another on builtins.__import__: install_hook, the closure it installs,  *)
(* the hook's part of uninstall, and activate, which installs, patches and *)
(* uninstalls when patching fails.                                         *)
(*                                                                         *)
(* A callable is known by who made it and its number among that owner's.   *)
(* What a callable delegates to never changes, so chain[f] is all a call   *)
(* of f goes through, outermost first.  The module an import loads, the    *)
(* attributes a Patcher reads and the attribute uninstall reads off a      *)
(* stranger's callable are code of others, in which anything may happen    *)
(* that can happen here.                                                   *)
(***************************************************************************)
EXTENDS Naturals, Sequences

CONSTANTS
  Patchers, Strangers,
  MaxHooks,       \* bound: callables one owner puts on __import__
  None

ASSUME OwnersAssumption ==
  Patchers \cap Strangers = {} /\ None \notin Patchers \cup Strangers
ASSUME MaxHooksAssumption == MaxHooks \in Nat

Owners == Patchers \cup Strangers
Builtin == <<None, 0>>
Callables == (Owners \X (1..MaxHooks)) \cup {Builtin}
ASSUME NoneAssumption == None \notin Callables

VARIABLES
  live,           \* builtins.__import__
  chain,          \* of each callable: itself, and all it delegates to
  made,           \* callables each owner made
  hook,           \* self._hook
  asking,         \* Patchers whose uninstall asks whose the live callable is
  holder,         \* who has the Patcher: its user, a running activate, nobody
  import          \* one import: the callables it goes through and the one it is in,
                  \* the hooks it found, and the Patchers it let patch

vars == <<live, chain, made, hook, asking, holder, import>>

Imports ==
  [path : Seq(Callables), at : Nat, found : [Patchers -> Callables \cup {None}],
   served : SUBSET Patchers]

TypeOK ==
  /\ live \in Callables
  /\ chain \in [Callables -> Seq(Callables)]
  /\ made \in [Owners -> 0..MaxHooks]
  /\ hook \in [Patchers -> Callables \cup {None}]
  /\ asking \subseteq Patchers
  /\ holder \in [Patchers -> {"held", "activating", "lost"}]
  /\ import \in Imports

Init ==
  /\ live = Builtin
  /\ chain = [f \in Callables |-> IF f = Builtin THEN <<Builtin>> ELSE <<>>]
  /\ made = [o \in Owners |-> 0]
  /\ hook = [p \in Patchers |-> None]
  /\ asking = {}
  /\ holder = [p \in Patchers |-> "held"]
  /\ import = [path |-> <<Builtin>>, at |-> 1, found |-> hook, served |-> {}]

-----------------------------------------------------------------------------
Hooked(p) == hook[p] # None
Made(o) == <<o, made[o] + 1>>
Below(f) == chain[f][2]

\* A new callable over the live one, which it keeps and delegates to.
Displace(o) ==
  /\ made[o] < MaxHooks
  /\ made' = [made EXCEPT ![o] = @ + 1]
  /\ chain' = [chain EXCEPT ![Made(o)] = <<Made(o)>> \o chain[live]]
  /\ live' = Made(o)

Hook(p) ==
  /\ ~Hooked(p)
  /\ Displace(p)
  /\ hook' = [hook EXCEPT ![p] = Made(p)]
  /\ UNCHANGED <<asking, import>>

\* install_hook; a second call finds the hook and returns.
InstallHook(p) == holder[p] = "held" /\ Hook(p) /\ UNCHANGED holder

\* activate builds a Patcher of its own, and hooks it first.
Activate(p) ==
  /\ holder[p] = "held" /\ made[p] = 0
  /\ Hook(p)
  /\ holder' = [holder EXCEPT ![p] = "activating"]

ActivateReturns(p) ==
  /\ holder[p] = "activating"
  /\ holder' = [holder EXCEPT ![p] = "held"]
  /\ UNCHANGED <<live, chain, made, hook, asking, import>>

-----------------------------------------------------------------------------
\* Mutant of IsPytemanHook: by the marker alone, which a retired hook keeps.
IsMarked(f) == f[1] \in Patchers

\* _is_pyteman_hook: the hook some Patcher has now.
IsPytemanHook(f) == \E p \in Patchers : hook[p] = f

Refused(p) == Hooked(p) /\ live # hook[p] /\ IsPytemanHook(live)

\* Mutant of Unhook: what the hook displaced goes back, whatever is live.
UnhookBlindly(p) ==
  /\ Hooked(p) /\ p \notin asking
  /\ live' = Below(hook[p])
  /\ hook' = [hook EXCEPT ![p] = None]
  /\ UNCHANGED asking

\* uninstall, unless it is refused: ours is taken off, a stranger's is asked
\* whose it is, which runs its code.
Unhook(p) ==
  /\ Hooked(p) /\ p \notin asking
  /\ \/ /\ live = hook[p]
        /\ live' = Below(live)
        /\ hook' = [hook EXCEPT ![p] = None]
        /\ UNCHANGED asking
     \/ /\ live # hook[p] /\ ~IsPytemanHook(live)
        /\ asking' = asking \cup {p}
        /\ UNCHANGED <<live, hook>>

Uninstall(p) ==
  /\ holder[p] = "held"
  /\ Unhook(p)
  /\ UNCHANGED <<chain, made, holder, import>>

\* The stranger's callable stays where it is, and the hook under it is retired.
Retire(p) ==
  /\ p \in asking
  /\ asking' = asking \ {p}
  /\ hook' = [hook EXCEPT ![p] = None]
  /\ UNCHANGED <<live, chain, made, holder, import>>

\* Patching failed: activate uninstalls, notes a refusal on the error it
\* raises, and nobody has the Patcher any more.
ActivateFails(p) ==
  /\ holder[p] = "activating"
  /\ holder' = [holder EXCEPT ![p] = "lost"]
  /\ Unhook(p) \/ ((Refused(p) \/ ~Hooked(p)) /\ UNCHANGED <<live, hook, asking>>)
  /\ UNCHANGED <<chain, made, import>>

-----------------------------------------------------------------------------
\* A stranger wraps __import__, and takes its callable off while it is live.
StrangerEnters(s) == Displace(s) /\ UNCHANGED <<hook, asking, holder, import>>

StrangerLeaves(s) ==
  /\ live[1] = s
  /\ live' = Below(live)
  /\ UNCHANGED <<chain, made, hook, asking, holder, import>>

\* `import name`: down the chain, and up again through what each callable does
\* after the one below it returned.
Import ==
  /\ import.at = 1
  /\ import' = [path |-> chain[live], at |-> Len(chain[live]), found |-> hook, served |-> {}]
  /\ UNCHANGED <<live, chain, made, hook, asking, holder>>

\* hooked(), after orig(): it patches if it is still its Patcher's hook.
Rise ==
  LET f == import.path[import.at - 1] IN
  /\ import.at > 1
  /\ import' = [import EXCEPT
       !.at = @ - 1,
       !.served = @ \cup {p \in Patchers : hook[p] = f}]
  /\ UNCHANGED <<live, chain, made, hook, asking, holder>>

Next ==
  \/ \E p \in Patchers :
       \/ InstallHook(p) \/ Activate(p) \/ ActivateReturns(p) \/ ActivateFails(p)
       \/ Uninstall(p) \/ Retire(p)
  \/ \E s \in Strangers : StrangerEnters(s) \/ StrangerLeaves(s)
  \/ Import \/ Rise

Spec == Init /\ [][Next]_vars

\* Whoever has a Patcher asks it to leave again and again.
Fairness == \A p \in Patchers : WF_vars(Uninstall(p)) /\ WF_vars(Retire(p))
FairSpec == Spec /\ Fairness

-----------------------------------------------------------------------------
\* The live __import__ reaches the hook of every Patcher that has one, whoever
\* came and left above and below it: neither an uninstall nor a stranger that
\* takes off its own callable drops another's hook (patcher.py:3672-3683).
NoHookIsDropped ==
  \A p \in Patchers : Hooked(p) => \E i \in DOMAIN chain[live] : chain[live][i] = hook[p]

\* An import lets every Patcher patch whose hook it found and that did not leave
\* meanwhile, however hooks were stacked, retired and taken off while it ran.
ImportsServeTheHooked ==
  import.at = 1 =>
    \A p \in Patchers :
      Hooked(p) /\ import.found[p] = hook[p] => p \in import.served

\* A refused uninstall is worth a retry: a Patcher that keeps asking leaves,
\* unless one nobody has is hooked, or one that activate still works on
\* (patcher.py:705-707).
EveryoneLeaves ==
  \A p \in Patchers :
    Hooked(p) ~> (~Hooked(p) \/ \E q \in Patchers : Hooked(q) /\ holder[q] # "held")
==============================================================================
