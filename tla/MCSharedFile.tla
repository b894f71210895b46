----------------------------- MODULE MCSharedFile -----------------------------
EXTENDS DocProperties

CONSTANTS t1, t2, e1, e2, a1

\* Each tab has one edit to make.
Authors == [e \in {e1, e2} |-> IF e = e1 THEN t1 ELSE t2]
=============================================================================
