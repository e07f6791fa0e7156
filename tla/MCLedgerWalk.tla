---------------------------- MODULE MCLedgerWalk ----------------------------
EXTENDS LedgerWalk

CONSTANTS e1, e2, e3, e4, s1, s2, s3

\* e4 wraps again what e1 wrapped.
MCSlotOf == (e1 :> s1) @@ (e2 :> s2) @@ (e3 :> s3) @@ (e4 :> s1)
Symmetry == Permutations({e1, e4})
=============================================================================
