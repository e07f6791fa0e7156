---------------------------- MODULE MCFiringLog -----------------------------
\* FiringLog on two instances, the first shared by two threads.
EXTENDS FiringLog

CONSTANTS t1, t2, t3, i1, i2

MCInstanceOf == [t \in Threads |-> IF t = t3 THEN i2 ELSE i1]
=============================================================================
