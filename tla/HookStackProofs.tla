-------------------------- MODULE HookStackProofs ---------------------------
(***************************************************************************)
(* HookStack for every set of Patchers and strangers and any number of     *)
(* hooks: none is dropped, and an import serves all it found.              *)
(***************************************************************************)
EXTENDS HookStack, TLAPS, SequenceTheorems

IsMade(f) == f = Builtin \/ f[2] <= made[f[1]]

\* What a callable goes through starts with it, ends with the builtin, and goes on
\* with what the callable below it goes through.
Chain(f) ==
  LET c == chain[f] IN
  /\ Len(c) > 0 /\ c[1] = f /\ c[Len(c)] = Builtin
  /\ \A i \in DOMAIN c : IsMade(c[i])
  /\ f # Builtin => Len(c) > 1 /\ Tail(c) = chain[c[2]]
ChainInv == IsMade(live) /\ \A f \in Callables : IsMade(f) => Chain(f)

\* A hook is one of its Patcher's own callables, and the live callable reaches it.
HookInv ==
  \A p \in Patchers : Hooked(p) =>
    /\ hook[p] \in Callables /\ hook[p][1] = p /\ IsMade(hook[p])
    /\ \E i \in DOMAIN chain[live] : chain[live][i] = hook[p]

\* The import still has to come by every hook it found, or it did.
ImportInv ==
  /\ import.at \in 1..Len(import.path)
  /\ \A p \in Patchers : import.found[p] # None => IsMade(import.found[p])
  /\ \A p \in Patchers : Hooked(p) /\ import.found[p] = hook[p] =>
       \/ p \in import.served
       \/ \E i \in 1..(import.at - 1) : import.path[i] = hook[p]

IInv == TypeOK /\ ChainInv /\ HookInv /\ ImportInv

-----------------------------------------------------------------------------
LEMMA Prepended ==
  ASSUME NEW S, NEW s \in Seq(S), NEW x \in S, NEW c, c = <<x>> \o s
  PROVE  /\ c \in Seq(S) /\ Len(c) = Len(s) + 1 /\ c[1] = x
         /\ \A i \in 1..Len(s) : c[i + 1] = s[i]
         /\ \A i \in DOMAIN c : i = 1 \/ (i - 1 \in DOMAIN s /\ c[i] = s[i - 1])
         /\ Tail(c) = s
<1>1. c \in Seq(S) /\ Len(c) = Len(s) + 1 /\ c[1] = x
  OBVIOUS
<1>2. \A i \in 1..Len(s) : c[i + 1] = s[i]
  OBVIOUS
<1>3. \A i \in DOMAIN c : i = 1 \/ (i - 1 \in DOMAIN s /\ c[i] = s[i - 1])
  OBVIOUS
<1>4. Tail(c) = s
  <2>1. Tail(c) \in Seq(S) /\ Len(Tail(c)) = Len(s)
    BY <1>1
  <2>2. \A i \in 1..Len(s) : Tail(c)[i] = s[i]
    BY <1>1, <1>2, <2>1
  <2> QED
    BY <2>1, <2>2, SeqEqual
<1> QED
  BY <1>1, <1>2, <1>3, <1>4

LEMMA Owned ==
  /\ Builtin \in Callables
  /\ \A f \in Callables : f # Builtin => f[1] \in Owners /\ f[2] \in 1..MaxHooks
  /\ \A o \in Owners, k \in 1..MaxHooks : <<o, k>> \in Callables /\ <<o, k>> # Builtin
  BY OwnersAssumption DEF Callables, Builtin, Owners

LEMMA InitIInv == Init => IInv
<1> SUFFICES ASSUME Init PROVE IInv
  OBVIOUS
<1> USE DEF Init
<1>1. TypeOK
  <2>1. import \in Imports
    BY Owned DEF Imports
  <2>2. chain \in [Callables -> Seq(Callables)]
    BY Owned
  <2> QED
    BY <2>1, <2>2, MaxHooksAssumption, Owned DEF TypeOK
<1>2. ChainInv
  <2>1. \A f \in Callables : IsMade(f) => f = Builtin
    BY Owned, MaxHooksAssumption DEF IsMade
  <2>2. Chain(Builtin)
    BY Owned DEF Chain, IsMade
  <2> QED
    BY <2>1, <2>2 DEF ChainInv, IsMade
<1>3. HookInv /\ ImportInv
  BY DEF HookInv, ImportInv, Hooked
<1> QED
  BY <1>1, <1>2, <1>3 DEF IInv

LEMMA StepTypeOK == IInv /\ [Next]_vars => TypeOK'
<1> SUFFICES ASSUME IInv, [Next]_vars PROVE TypeOK'
  OBVIOUS
<1>0. TypeOK /\ ChainInv /\ HookInv /\ ImportInv
  BY DEF IInv
<1>1. ASSUME NEW o \in Owners, Displace(o)
      PROVE  /\ live' \in Callables /\ chain' \in [Callables -> Seq(Callables)]
             /\ made' \in [Owners -> 0..MaxHooks] /\ Made(o) \in Callables
  <2>1. Made(o) \in Callables
    <3>1. made[o] + 1 \in 1..MaxHooks
      BY <1>0, <1>1, MaxHooksAssumption DEF Displace, TypeOK
    <3> QED
      BY <3>1, Owned DEF Made
  <2>2. <<Made(o)>> \o chain[live] \in Seq(Callables)
    BY <1>0, <2>1, Prepended DEF TypeOK
  <2> QED
    BY <1>0, <1>1, <2>1, <2>2, MaxHooksAssumption DEF Displace, TypeOK
<1>2. ASSUME NEW f \in Callables, IsMade(f), f # Builtin PROVE Below(f) \in Callables
  BY <1>0, <1>2 DEF ChainInv, Chain, Below, TypeOK
<1>3. ASSUME NEW p \in Patchers, Hook(p) PROVE hook' \in [Patchers -> Callables \cup {None}]
  BY <1>0, <1>1, <1>3 DEF Hook, Owners, TypeOK
<1>4. ASSUME NEW p \in Patchers, InstallHook(p) \/ Activate(p) PROVE TypeOK'
  <2>1. Hook(p) /\ holder' \in [Patchers -> {"held", "activating", "lost"}]
    BY <1>0, <1>4 DEF InstallHook, Activate, TypeOK
  <2>2. Displace(p) /\ UNCHANGED <<asking, import>>
    BY <2>1 DEF Hook
  <2> QED
    BY <1>0, <1>1, <1>3, <2>1, <2>2 DEF Owners, TypeOK
<1>5. ASSUME NEW p \in Patchers, Unhook(p)
      PROVE  live' \in Callables /\ hook' \in [Patchers -> Callables \cup {None}] /\ asking' \subseteq Patchers
  <2>1. CASE live = hook[p] /\ live' = Below(live) /\ hook' = [hook EXCEPT ![p] = None] /\ UNCHANGED asking
    <3>1. hook[p] \in Callables /\ IsMade(hook[p]) /\ hook[p][1] = p
      BY <1>0, <1>5 DEF Unhook, HookInv
    <3>2. hook[p] # Builtin
      BY <3>1, OwnersAssumption DEF Builtin
    <3> QED
      BY <1>0, <1>2, <2>1, <3>1, <3>2 DEF TypeOK
  <2>2. CASE asking' = asking \cup {p} /\ UNCHANGED <<live, hook>>
    BY <1>0, <2>2 DEF TypeOK
  <2> QED
    BY <1>5, <2>1, <2>2 DEF Unhook
<1>6. ASSUME NEW p \in Patchers, ActivateReturns(p) \/ ActivateFails(p) \/ Uninstall(p) \/ Retire(p)
      PROVE  TypeOK'
  <2>1. CASE ActivateReturns(p) \/ Retire(p)
    BY <1>0, <2>1 DEF ActivateReturns, Retire, TypeOK
  <2>2. CASE ActivateFails(p) \/ Uninstall(p)
    BY <1>0, <1>5, <2>2 DEF ActivateFails, Uninstall, TypeOK
  <2> QED
    BY <1>6, <2>1, <2>2
<1>7. ASSUME NEW s \in Strangers, StrangerEnters(s) \/ StrangerLeaves(s) PROVE TypeOK'
  <2>1. CASE StrangerEnters(s)
    BY <1>0, <1>1, <2>1 DEF StrangerEnters, Owners, TypeOK
  <2>2. CASE StrangerLeaves(s)
    BY <1>0, <1>2, <2>2, OwnersAssumption DEF StrangerLeaves, Builtin, ChainInv, TypeOK
  <2> QED
    BY <1>7, <2>1, <2>2
<1>8. ASSUME Import \/ Rise PROVE TypeOK'
  <2>1. CASE Import
    <3>1. Len(chain[live]) \in Nat /\ chain[live] \in Seq(Callables)
          /\ hook \in [Patchers -> Callables \cup {None}]
      BY <1>0 DEF TypeOK
    <3>2. import' \in Imports
      BY <2>1, <3>1 DEF Import, Imports
    <3> QED
      BY <1>0, <2>1, <3>2 DEF Import, TypeOK
  <2>2. CASE Rise
    <3>1. PICK x \in SUBSET Patchers :
            import' = [import EXCEPT !.at = import.at - 1, !.served = import.served \cup x]
      BY <2>2 DEF Rise
    <3>2. import \in Imports /\ import.at - 1 \in Nat
      BY <1>0, <2>2 DEF Rise, Imports, TypeOK
    <3>3. import' \in Imports
      BY <3>1, <3>2 DEF Imports
    <3> QED
      BY <1>0, <2>2, <3>3 DEF Rise, TypeOK
  <2> QED
    BY <1>8, <2>1, <2>2
<1>9. CASE UNCHANGED vars
  BY <1>0, <1>9 DEF vars, TypeOK
<1> QED
  BY <1>4, <1>6, <1>7, <1>8, <1>9 DEF Next

\* A new callable over the live one: every chain and every hook there was stands.
LEMMA StepDisplace ==
  ASSUME IInv, TypeOK', NEW o \in Owners, Displace(o)
  PROVE  /\ ChainInv' /\ ~IsMade(Made(o)) /\ Made(o) \in Callables
         /\ chain'[live'][1] = Made(o) /\ 1 \in DOMAIN chain'[live']
         /\ \A f \in Callables : IsMade(f) => IsMade(f)'
         /\ \A i \in DOMAIN chain[live] :
              i + 1 \in DOMAIN chain'[live'] /\ chain'[live'][i + 1] = chain[live][i]
<1> PICK n : n = Made(o)
  OBVIOUS
<1> PICK c : c = <<n>> \o chain[live]
  OBVIOUS
<1>0. TypeOK /\ ChainInv /\ live \in Callables /\ IsMade(live) /\ Chain(live)
  BY DEF IInv, ChainInv, TypeOK
<1>1. /\ n \in Callables /\ n # Builtin /\ n[1] = o /\ n[2] = made[o] + 1 /\ made[o] \in Nat
      /\ ~IsMade(n)
  <2>1. made[o] \in Nat /\ made[o] + 1 \in 1..MaxHooks
    BY <1>0, MaxHooksAssumption DEF Displace, TypeOK
  <2>2. n = <<o, made[o] + 1>> /\ n \in Callables /\ n # Builtin
    BY <2>1, Owned DEF Made
  <2> QED
    BY <2>1, <2>2 DEF IsMade
<1>2. /\ made' = [made EXCEPT ![o] = made[o] + 1] /\ live' = n
      /\ chain' = [chain EXCEPT ![n] = c]
  BY DEF Displace
<1>3. /\ c \in Seq(Callables) /\ Len(c) = Len(chain[live]) + 1 /\ c[1] = n
      /\ \A i \in 1..Len(chain[live]) : c[i + 1] = chain[live][i]
      /\ \A i \in DOMAIN c : i = 1 \/ (i - 1 \in DOMAIN chain[live] /\ c[i] = chain[live][i - 1])
      /\ Tail(c) = chain[live]
  <2>1. chain[live] \in Seq(Callables)
    BY <1>0 DEF TypeOK
  <2> QED
    BY <1>1, <2>1, Prepended
<1>4. \A f \in Callables : IsMade(f) => IsMade(f)'
  BY <1>0, <1>1, <1>2, Owned DEF IsMade, TypeOK
<1>5. \A f \in Callables : IsMade(f)' => f = n \/ IsMade(f)
  <2> SUFFICES ASSUME NEW f \in Callables, f # n, f # Builtin, f[2] <= made'[f[1]]
               PROVE  f[2] <= made[f[1]]
    BY DEF IsMade
  <2>1. f[1] \in Owners /\ f[2] \in 1..MaxHooks /\ f = <<f[1], f[2]>> /\ n = <<o, made[o] + 1>>
    BY Owned DEF Callables, Made
  <2> QED
    BY <1>0, <1>1, <1>2, <2>1, MaxHooksAssumption DEF TypeOK
<1>6. chain'[n] = c /\ \A f \in Callables : f # n => chain'[f] = chain[f]
  BY <1>0, <1>1, <1>2 DEF TypeOK
<1>7. ASSUME NEW f \in Callables, IsMade(f), f # n PROVE Chain(f)'
  <2>1. Chain(f) /\ chain[f] \in Seq(Callables)
    BY <1>0, <1>7 DEF ChainInv, TypeOK
  <2>2. f # Builtin => IsMade(chain[f][2]) /\ chain[f][2] \in Callables
    BY <2>1 DEF Chain
  <2>3. \A i \in DOMAIN chain[f] : IsMade(chain[f][i])'
    <3> TAKE i \in DOMAIN chain[f]
    <3>1. chain[f][i] \in Callables /\ IsMade(chain[f][i])
      BY <2>1 DEF Chain
    <3>2. /\ chain[f][i] = Builtin \/ chain[f][i][2] <= made'[chain[f][i][1]]
      BY <1>4, <3>1 DEF IsMade
    <3> QED
      BY <1>6, <1>7, <3>2 DEF IsMade
  <2> QED
    BY <1>1, <1>6, <1>7, <2>1, <2>2, <2>3 DEF Chain
<1>8. Chain(n)'
  <2>1. Len(chain[live]) > 0 /\ Len(chain[live]) \in Nat /\ DOMAIN chain[live] = 1..Len(chain[live])
    BY <1>0 DEF Chain, TypeOK
  <2>2. c[Len(c)] = Builtin /\ c[2] = live /\ DOMAIN c = 1..Len(c)
    BY <1>0, <1>3, <2>1 DEF Chain
  <2>3. \A i \in DOMAIN c : c[i] = Builtin \/ c[i][2] <= made'[c[i][1]]
    <3> TAKE i \in DOMAIN c
    <3>1. CASE i = 1
      BY <1>0, <1>1, <1>2, <1>3, <3>1 DEF TypeOK
    <3>2. CASE i # 1
      <4>1. i - 1 \in DOMAIN chain[live] /\ c[i] = chain[live][i - 1]
        BY <1>3, <3>2
      <4>2. IsMade(c[i]) /\ c[i] \in Callables
        BY <1>0, <4>1 DEF Chain, TypeOK
      <4> QED
        BY <1>4, <4>2 DEF IsMade
    <3> QED
      BY <3>1, <3>2
  <2>4. chain'[live] = chain[live]
    BY <1>0, <1>1, <1>6
  <2> QED
    BY <1>1, <1>3, <1>6, <2>1, <2>2, <2>3, <2>4 DEF Chain, IsMade
<1>9. ChainInv'
  <2>1. IsMade(live)'
    BY <1>0, <1>1, <1>2 DEF IsMade, TypeOK
  <2> QED
    BY <1>5, <1>7, <1>8, <2>1 DEF ChainInv
<1>10. /\ chain'[live'] = c /\ 1 \in DOMAIN c
       /\ \A i \in DOMAIN chain[live] : i + 1 \in DOMAIN c /\ c[i + 1] = chain[live][i]
  <2>1. /\ chain[live] \in Seq(Callables) /\ Len(chain[live]) \in Nat
        /\ DOMAIN chain[live] = 1..Len(chain[live])
    BY <1>0 DEF TypeOK
  <2>2. DOMAIN c = 1..(Len(chain[live]) + 1)
    BY <1>3
  <2> QED
    BY <1>2, <1>3, <1>6, <2>1, <2>2
<1> QED
  BY <1>1, <1>3, <1>4, <1>9, <1>10

\* The live callable goes: the one below it reaches all the rest.
LEMMA StepBelow ==
  ASSUME IInv, live # Builtin, live' = Below(live), UNCHANGED <<chain, made>>
  PROVE  /\ ChainInv'
         /\ \A i \in DOMAIN chain[live] : chain[live][i] # live =>
              \E k \in DOMAIN chain[live'] : chain[live'][k] = chain[live][i]
<1> PICK c : c = chain[live]
  OBVIOUS
<1>1. /\ ChainInv /\ c \in Seq(Callables) /\ Len(c) \in Nat /\ DOMAIN c = 1..Len(c)
      /\ c[1] = live /\ Len(c) > 1 /\ Tail(c) = chain[c[2]] /\ IsMade(c[2]) /\ live' = c[2]
  <2>1. ChainInv /\ live \in Callables /\ Chain(live) /\ c \in Seq(Callables)
    BY DEF IInv, ChainInv, TypeOK
  <2> QED
    BY <2>1 DEF Chain, Below
<1>2. ChainInv'
  BY <1>1 DEF ChainInv, Chain, IsMade
<1>3. ASSUME NEW i \in DOMAIN c, c[i] # live
      PROVE  i - 1 \in DOMAIN Tail(c) /\ Tail(c)[i - 1] = c[i]
  BY <1>1, <1>3
<1>4. chain[live'] = Tail(c) /\ chain' = chain
  BY <1>1
<1> QED
  BY <1>2, <1>3, <1>4

\* Hooks stand while their Patchers keep them and the live callable reaches them.
LEMMA StepHooks == IInv /\ [Next]_vars /\ TypeOK' => ChainInv' /\ HookInv'
<1> SUFFICES ASSUME IInv, [Next]_vars, TypeOK' PROVE ChainInv' /\ HookInv'
  OBVIOUS
<1>0. TypeOK /\ ChainInv /\ HookInv
  BY DEF IInv
<1>1. ASSUME NEW o \in Owners, Displace(o),
             \A p \in Patchers : hook'[p] = hook[p] \/ (o = p /\ hook'[p] = Made(p))
      PROVE  ChainInv' /\ HookInv'
  <2>1. /\ ChainInv' /\ Made(o) \in Callables /\ Made(o)[1] = o
        /\ chain'[live'][1] = Made(o) /\ 1 \in DOMAIN chain'[live']
        /\ \A f \in Callables : IsMade(f) => IsMade(f)'
        /\ \A i \in DOMAIN chain[live] :
             i + 1 \in DOMAIN chain'[live'] /\ chain'[live'][i + 1] = chain[live][i]
    BY <1>1, StepDisplace DEF Made
  <2>2. made'[o] = made[o] + 1 /\ made[o] + 1 <= made'[o]
    BY <1>0, <1>1, MaxHooksAssumption DEF Displace, TypeOK
  <2>3. ASSUME NEW p \in Patchers, Hooked(p)'
        PROVE  /\ hook'[p] \in Callables /\ hook'[p][1] = p
               /\ hook'[p] = Builtin \/ hook'[p][2] <= made'[hook'[p][1]]
               /\ \E i \in DOMAIN chain'[live'] : chain'[live'][i] = hook'[p]
    <3>1. CASE hook'[p] = hook[p]
      <4>1. Hooked(p)
        BY <2>3, <3>1 DEF Hooked
      <4> QED
        BY <1>0, <2>1, <3>1, <4>1 DEF HookInv, IsMade
    <3>2. CASE o = p /\ hook'[p] = Made(p)
      BY <2>1, <2>2, <3>2 DEF Made
    <3> QED
      BY <1>1, <3>1, <3>2
  <2> QED
    BY <2>1, <2>3 DEF HookInv, IsMade
<1>2. ASSUME live # Builtin, live' = Below(live), UNCHANGED <<chain, made>>,
             \A p \in Patchers : hook'[p] = None \/ (hook'[p] = hook[p] /\ hook[p] # live)
      PROVE  ChainInv' /\ HookInv'
  <2>1. ChainInv'
    BY <1>2, StepBelow
  <2>2. ASSUME NEW p \in Patchers, Hooked(p)'
        PROVE  /\ Hooked(p) /\ hook'[p] = hook[p]
               /\ \E k \in DOMAIN chain[live'] : chain[live'][k] = hook[p]
    BY <1>0, <1>2, <2>2, StepBelow DEF HookInv, Hooked
  <2>3. HookInv'
    BY <1>0, <1>2, <2>2 DEF HookInv, IsMade
  <2> QED
    BY <2>1, <2>3
<1>3. ASSUME UNCHANGED <<live, chain, made>>,
             \A p \in Patchers : hook'[p] = None \/ hook'[p] = hook[p]
      PROVE  ChainInv' /\ HookInv'
  BY <1>0, <1>3 DEF ChainInv, Chain, IsMade, HookInv, Hooked
<1>4. ASSUME NEW p \in Patchers, Hook(p) PROVE ChainInv' /\ HookInv'
  BY <1>0, <1>1, <1>4 DEF Hook, Owners, TypeOK
<1>5. ASSUME NEW p \in Patchers, Unhook(p), UNCHANGED <<chain, made>> PROVE ChainInv' /\ HookInv'
  <2>1. CASE live = hook[p] /\ live' = Below(live) /\ hook' = [hook EXCEPT ![p] = None]
    <3>1. hook[p][1] = p /\ live # Builtin
      BY <1>0, <1>5, <2>1, OwnersAssumption DEF HookInv, Unhook, Builtin
    <3>2. \A q \in Patchers : hook'[q] = None \/ (hook'[q] = hook[q] /\ hook[q] # live)
      <4> TAKE q \in Patchers
      <4>1. q # p => hook'[q] = hook[q]
        BY <1>0, <2>1 DEF TypeOK
      <4>2. hook'[p] = None
        BY <1>0, <2>1 DEF TypeOK
      <4>3. Hooked(q) /\ hook[q] = live => q = p
        BY <1>0, <2>1, <3>1 DEF HookInv
      <4> QED
        BY <4>1, <4>2, <4>3 DEF Hooked
    <3> QED
      BY <1>2, <1>5, <2>1, <3>1, <3>2
  <2>2. CASE UNCHANGED <<live, hook>>
    BY <1>3, <1>5, <2>2
  <2> QED
    BY <1>5, <2>1, <2>2 DEF Unhook
<1>6. ASSUME NEW p \in Patchers,
             InstallHook(p) \/ Activate(p) \/ ActivateReturns(p) \/ ActivateFails(p)
             \/ Uninstall(p) \/ Retire(p)
      PROVE  ChainInv' /\ HookInv'
  <2>1. CASE InstallHook(p) \/ Activate(p)
    BY <1>4, <2>1 DEF InstallHook, Activate
  <2>2. CASE Uninstall(p) \/ ActivateFails(p)
    <3>1. UNCHANGED <<chain, made>> /\ (Unhook(p) \/ UNCHANGED <<live, hook>>)
      BY <2>2 DEF Uninstall, ActivateFails
    <3> QED
      BY <1>3, <1>5, <3>1
  <2>3. CASE ActivateReturns(p) \/ Retire(p)
    <3>1. /\ UNCHANGED <<live, chain, made>>
          /\ \A q \in Patchers : hook'[q] = None \/ hook'[q] = hook[q]
      BY <1>0, <2>3 DEF ActivateReturns, Retire, TypeOK
    <3> QED
      BY <1>3, <3>1
  <2> QED
    BY <1>6, <2>1, <2>2, <2>3
<1>7. ASSUME NEW s \in Strangers, StrangerEnters(s) \/ StrangerLeaves(s)
      PROVE  ChainInv' /\ HookInv'
  <2>1. CASE StrangerEnters(s)
    BY <1>1, <2>1 DEF StrangerEnters, Owners
  <2>2. CASE StrangerLeaves(s)
    <3>1. live # Builtin /\ \A q \in Patchers : Hooked(q) => hook[q] # live
      BY <1>0, <2>2, OwnersAssumption DEF StrangerLeaves, Builtin, HookInv
    <3>2. \A q \in Patchers : hook'[q] = None \/ (hook'[q] = hook[q] /\ hook[q] # live)
      BY <2>2, <3>1 DEF StrangerLeaves, Hooked
    <3> QED
      BY <1>2, <2>2, <3>1, <3>2 DEF StrangerLeaves
  <2> QED
    BY <1>7, <2>1, <2>2
<1>8. CASE Import \/ Rise \/ UNCHANGED vars
  <2>1. UNCHANGED <<live, chain, made, hook>>
    BY <1>8 DEF Import, Rise, vars
  <2> QED
    BY <1>3, <2>1
<1> QED
  BY <1>6, <1>7, <1>8 DEF Next

\* An import comes by what it found, from the bottom of its chain up.
LEMMA StepImport == IInv /\ [Next]_vars => ImportInv'
<1> SUFFICES ASSUME IInv, [Next]_vars PROVE ImportInv'
  OBVIOUS
<1>0. TypeOK /\ ChainInv /\ HookInv /\ ImportInv
  BY DEF IInv
<1>1. ASSUME UNCHANGED import,
             \A f \in Callables : IsMade(f) => IsMade(f)',
             \A p \in Patchers :
               \/ hook'[p] \in {None, hook[p]}
               \/ ~IsMade(hook'[p]) /\ hook'[p] # None
      PROVE  ImportInv'
  <2>1. \A p \in Patchers : import.found[p] \in Callables \cup {None}
    BY <1>0 DEF TypeOK, Imports
  <2>2. \A p \in Patchers : import.found[p] # None => IsMade(import.found[p])'
    <3> TAKE p \in Patchers
    <3> HAVE import.found[p] # None
    <3>1. import.found[p] \in Callables /\ IsMade(import.found[p])
      BY <1>0, <2>1 DEF ImportInv
    <3>2. import.found[p] = Builtin \/ import.found[p][2] <= made'[import.found[p][1]]
      BY <1>1, <3>1 DEF IsMade
    <3> QED
      BY <1>1, <3>2 DEF IsMade
  <2>3. ASSUME NEW p \in Patchers, Hooked(p)', import.found[p] = hook'[p]
        PROVE  Hooked(p) /\ import.found[p] = hook[p]
    BY <1>0, <1>1, <2>3 DEF ImportInv, Hooked
  <2> QED
    BY <1>0, <1>1, <2>2, <2>3 DEF ImportInv
<1>2. ASSUME NEW p \in Patchers, Hook(p) PROVE ImportInv'
  <2>1. /\ UNCHANGED import /\ Displace(p) /\ p \in Owners /\ hook' = [hook EXCEPT ![p] = Made(p)]
    BY <1>2 DEF Hook, Owners
  <2>2. /\ made' = [made EXCEPT ![p] = made[p] + 1] /\ made \in [Owners -> 0..MaxHooks]
        /\ hook \in [Patchers -> Callables \cup {None}]
    BY <1>0, <2>1 DEF Displace, TypeOK
  <2>3. Made(p) # None /\ ~IsMade(Made(p))
    <3>1. made[p] \in Nat /\ made[p] + 1 \in 1..MaxHooks
      BY <2>1, <2>2, MaxHooksAssumption DEF Displace
    <3>2. Made(p) \in Callables /\ Made(p) # Builtin
      BY <2>1, <3>1, Owned DEF Made
    <3> QED
      BY <3>1, <3>2, NoneAssumption DEF Made, IsMade
  <2>4. \A f \in Callables : IsMade(f) => IsMade(f)'
    <3> TAKE f \in Callables
    <3>1. f # Builtin => f[1] \in Owners
      BY Owned
    <3>2. \A o \in Owners : made[o] <= made'[o] /\ made[o] \in Nat /\ made'[o] \in Nat
      BY <2>1, <2>2, MaxHooksAssumption
    <3>3. f # Builtin => f[2] \in Nat
      BY Owned
    <3> QED
      BY <3>1, <3>2, <3>3 DEF IsMade
  <2> QED
    BY <1>1, <2>1, <2>2, <2>3, <2>4
<1>3. ASSUME UNCHANGED <<import, made>>, \A p \in Patchers : hook'[p] \in {None, hook[p]}
      PROVE  ImportInv'
  BY <1>1, <1>3 DEF IsMade
<1>4. ASSUME NEW p \in Patchers,
             InstallHook(p) \/ Activate(p) \/ ActivateReturns(p) \/ ActivateFails(p)
             \/ Uninstall(p) \/ Retire(p)
      PROVE  ImportInv'
  <2>1. CASE InstallHook(p) \/ Activate(p)
    BY <1>2, <2>1 DEF InstallHook, Activate
  <2>2. CASE ActivateReturns(p) \/ ActivateFails(p) \/ Uninstall(p) \/ Retire(p)
    <3>1. /\ UNCHANGED <<import, made>>
          /\ hook' = hook \/ hook' = [hook EXCEPT ![p] = None]
      BY <2>2 DEF ActivateReturns, ActivateFails, Uninstall, Retire, Unhook
    <3> QED
      BY <1>0, <1>3, <3>1 DEF TypeOK
  <2> QED
    BY <1>4, <2>1, <2>2
<1>5. ASSUME NEW s \in Strangers, StrangerEnters(s) \/ StrangerLeaves(s) PROVE ImportInv'
  <2>1. CASE StrangerLeaves(s)
    BY <1>3, <2>1 DEF StrangerLeaves
  <2>2. CASE StrangerEnters(s)
    <3>1. UNCHANGED <<import, hook>> /\ made' = [made EXCEPT ![s] = made[s] + 1]
      BY <2>2 DEF StrangerEnters, Displace
    <3>2. \A f \in Callables : IsMade(f) => IsMade(f)'
      <4> TAKE f \in Callables
      <4>1. f # Builtin => f[1] \in Owners /\ f[2] \in Nat
        BY Owned
      <4>2. \A o \in Owners : made[o] <= made'[o] /\ made[o] \in Nat /\ made'[o] \in Nat
        BY <1>0, <3>1, MaxHooksAssumption DEF TypeOK
      <4> QED
        BY <4>1, <4>2 DEF IsMade
    <3> QED
      BY <1>1, <3>1, <3>2
  <2> QED
    BY <1>5, <2>1, <2>2
<1>6. CASE Import
  <2>1. /\ import' = [path |-> chain[live], at |-> Len(chain[live]), found |-> hook, served |-> {}]
        /\ UNCHANGED <<made, hook>>
    BY <1>6 DEF Import
  <2>2. /\ chain[live] \in Seq(Callables) /\ Len(chain[live]) \in Nat /\ Len(chain[live]) > 0
        /\ chain[live][Len(chain[live])] = Builtin
    BY <1>0 DEF ChainInv, Chain, TypeOK
  <2>3. ASSUME NEW p \in Patchers, Hooked(p)
        PROVE  IsMade(hook[p]) /\ \E i \in 1..(Len(chain[live]) - 1) : chain[live][i] = hook[p]
    <3>1. IsMade(hook[p]) /\ hook[p] # Builtin
      BY <1>0, <2>3, OwnersAssumption DEF HookInv, Builtin
    <3>2. PICK i \in DOMAIN chain[live] : chain[live][i] = hook[p]
      BY <1>0, <2>3 DEF HookInv
    <3>3. i \in 1..Len(chain[live]) /\ i # Len(chain[live])
      BY <2>2, <3>1, <3>2
    <3> QED
      BY <2>2, <3>1, <3>2, <3>3
  <2> QED
    BY <2>1, <2>2, <2>3 DEF ImportInv, Hooked, IsMade
<1>7. CASE Rise
  <2> PICK f : f = import.path[import.at - 1]
    OBVIOUS
  <2>1. /\ import \in Imports /\ import.at > 1 /\ UNCHANGED <<made, hook>>
        /\ import' = [import EXCEPT !.at = import.at - 1,
                                   !.served = import.served \cup {p \in Patchers : hook[p] = f}]
    BY <1>0, <1>7 DEF Rise, TypeOK
  <2>2. /\ import'.at = import.at - 1 /\ import'.path = import.path /\ import'.found = import.found
        /\ import'.served = import.served \cup {p \in Patchers : hook[p] = f}
    BY <2>1 DEF Imports
  <2>3. import.at \in Nat /\ import.at \in 1..Len(import.path) /\ Len(import.path) \in Nat
    BY <1>0, <2>1 DEF ImportInv, Imports
  <2>4. ASSUME NEW p \in Patchers, Hooked(p), import.found[p] = hook[p]
        PROVE  p \in import'.served \/ \E i \in 1..(import'.at - 1) : import.path[i] = hook[p]
    <3>1. CASE p \in import.served
      BY <2>2, <3>1
    <3>2. ASSUME NEW i \in 1..(import.at - 1), import.path[i] = hook[p]
          PROVE  p \in import'.served \/ \E k \in 1..(import'.at - 1) : import.path[k] = hook[p]
      <4>1. CASE i = import.at - 1
        BY <2>2, <3>2, <4>1
      <4>2. CASE i # import.at - 1
        BY <2>2, <2>3, <3>2, <4>2
      <4> QED
        BY <4>1, <4>2
    <3> QED
      BY <1>0, <2>4, <3>1, <3>2 DEF ImportInv
  <2> QED
    BY <1>0, <2>1, <2>2, <2>3, <2>4 DEF ImportInv, Hooked, IsMade
<1>8. CASE UNCHANGED vars
  BY <1>3, <1>8 DEF vars
<1> QED
  BY <1>4, <1>5, <1>6, <1>7, <1>8 DEF Next

LEMMA StepIInv == IInv /\ [Next]_vars => IInv'
  BY StepTypeOK, StepHooks, StepImport DEF IInv

-----------------------------------------------------------------------------
LEMMA Invariant == Spec => []IInv
  BY InitIInv, StepIInv, PTL DEF Spec

\* The state of the hooks is always one of TypeOK.
THEOREM TypeCorrect == Spec => []TypeOK
<1>1. IInv => TypeOK
  BY DEF IInv
<1> QED
  BY <1>1, Invariant, PTL

\* No uninstall and no stranger drops the hook of another Patcher from what the
\* live __import__ reaches (patcher.py:3672-3683).
THEOREM HooksAreReached == Spec => []NoHookIsDropped
<1>1. IInv => NoHookIsDropped
  BY DEF IInv, HookInv, NoHookIsDropped
<1> QED
  BY <1>1, Invariant, PTL

\* An import lets every Patcher patch whose hook it found and that stayed.
THEOREM ImportsServe == Spec => []ImportsServeTheHooked
<1>1. IInv => ImportsServeTheHooked
  BY DEF IInv, ImportInv, ImportsServeTheHooked
<1> QED
  BY <1>1, Invariant, PTL
=============================================================================
