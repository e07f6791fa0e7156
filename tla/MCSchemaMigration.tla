-------------------------- MODULE MCSchemaMigration --------------------------
EXTENDS SchemaMigration

CONSTANTS r1, r2, r3, c1, c2

\* Two rows of one cell, which can collide, and one of another.
MCCell == [r \in Rows |-> IF r = r3 THEN c2 ELSE c1]
==============================================================================
