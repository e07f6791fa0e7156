--------------------------- MODULE MCSlotInstall ----------------------------
\* SlotInstall on two attributes.  Rules ra and rb belong to one module, rc
\* reaches the attribute of ra through a second module, rd belongs to a rival Patcher.
EXTENDS SlotInstall, TLC

CONSTANTS c1, c2, c3, t1, t2, pa, pb, m1, m2, s1, s2, ra, rb, rc, rd

MCOwnerOf == [r \in Rules |-> IF r = rd THEN pb ELSE pa]
MCModuleOf == [r \in Rules |-> IF r = rc THEN m2 ELSE m1]
MCSlotOf == [r \in Rules |-> IF r = rb THEN s2 ELSE s1]

\* Invocations are interchangeable.
Symmetry == Permutations(Calls)
=============================================================================
