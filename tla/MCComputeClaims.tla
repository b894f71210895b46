--------------------------- MODULE MCComputeClaims ---------------------------
(* ComputeClaims and its properties on small instances.                    *)
EXTENDS ClaimsProperties, TLC

OneEach == [o \in Owners |-> 1]
Interchangeable == Permutations(Workspaces) \cup Permutations(Requests)

\* Requests in progress and decisions to release that are still to act.
Pending == {r \in Requests : req[r].pc # "idle"} \cup {w \in Workspaces : late[w] > 0}

\* Bound: two of them at once, one when every operation has been queued.
FewPending == Cardinality(Pending) <= IF ops = MaxOps THEN 1 ELSE 2
=============================================================================
