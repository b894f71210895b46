---------------------------- MODULE MCMembership ----------------------------
(* Membership and its properties on a small instance.                      *)
EXTENDS MemberProperties, FiniteSets, TLC

Interchangeable == Permutations(Users) \cup Permutations(Requests)

\* Bounds: one account goes, or the workspace; a second link is of interest to
\* those who may have the first one still, and to those who remove them.
OneGoes == Cardinality(Users \ accounts) + (IF deleting THEN 1 ELSE 0) <= 1
SecondLink ==
    minted > 1 =>
        /\ accounts = Users /\ ~deleting
        /\ \A r \in Requests : req[r].pc \in {"idle", "join", "share", "remove"}
=============================================================================
