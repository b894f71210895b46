-------------------------- MODULE ClaimsProperties --------------------------
(* What ComputeClaims promises.                                            *)
EXTENDS ComputeClaims

\* The workspaces that count for an owner: ready, or reserved.
Held(o) ==
    {w \in Workspaces : owner[w] = o /\ (phase[w] = "ready" \/ <<o, w>> \in claims)}

\* An owner never has more workspaces ready or reserved than the plan allows,
\* whatever starts, completes, fails, is transferred or released late
\* (findOtherOwnerCompute under lockComputeOwners, and the check of 'complete').
HeldWithinLimit == \A o \in Owners : Cardinality(Held(o)) <= Limit[o]

\* A reservation belongs to the owner of the workspace: none is left to a former
\* owner by a transfer, or taken for one by a start that read the owner before
\* it (the second read in reserveFreeWorkspaceCompute, transferClaim).
ClaimsFollowOwner == \A c \in claims : c[1] = owner[c[2]]

\* Requests that hold locks on owners never wait for each other in a circle: of
\* all who hold one, somebody does not wait (lockComputeOwners' ORDER BY).
Waits(h) ==
    h \in Requests /\ req[h].pc = "lock" /\ ~HasLocks(h)
    /\ \A o \in LockNext(h) : lock[o] # None
LocksDrain ==
    (\E o \in Owners : lock[o] # None) =>
        \E o \in Owners : lock[o] # None /\ ~Waits(lock[o])

-----------------------------------------------------------------------------
(* The inductive invariant that implies the first two.                     *)

Fits(o, w) == Cardinality(Held(o) \cup {w}) <= Limit[o]

\* Between its check and its insert a reservation keeps the lock, its workspace
\* keeps the owner, and there is room for it.
InsertsFit ==
    \A r \in Requests : req[r].pc = "insert" =>
        /\ lock[req[r].from] = r
        /\ owner[req[r].ws] = req[r].from
        /\ Fits(req[r].from, req[r].ws)

\* So does the transaction of 'complete', whose claim may be deleted meanwhile.
CommitsFit ==
    \A w \in Workspaces : run[w] = "commit" =>
        lock[owner[w]] = w /\ Fits(owner[w], w)

ClaimsInv ==
    TypeOK /\ HeldWithinLimit /\ ClaimsFollowOwner /\ InsertsFit /\ CommitsFit

-----------------------------------------------------------------------------
(* The inductive invariant that implies the third.                         *)

\* What a request has locked comes before all that it still has to lock, and the
\* locks are gone before it queues.  No more than finitely many are held.
LocksInv ==
    /\ TypeOK
    /\ \E b \in Nat : \A o \in Owners : lock[o] # None => o <= b
    /\ \A r \in Requests, o \in Owners : lock[o] = r =>
         /\ req[r].pc \in {"lock", "insert"}
         /\ req[r].pc = "lock" => \A p \in Missing(r) : o < p
=============================================================================
