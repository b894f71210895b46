-------------------------- MODULE MemberProperties --------------------------
(* What the members of a workspace are promised.                           *)
EXTENDS Membership

Pcs == {"idle", "share", "join", "look", "check", "insert", "update",
        "grant", "promote", "remove", "delete"}

\* The state is well formed, and only accounts that exist are members.
TypeOK ==
    /\ accounts \subseteq Users
    /\ owner \in accounts
    /\ deleting \in BOOLEAN
    /\ role \in [Users -> Roles \cup {None}]
    /\ \A u \in Users : role[u] # None => u \in accounts
    /\ link \in [token : Nat, role : Invited \cup {None},
                 by : Users \cup {None}]
    /\ minted \in Nat
    /\ barred \in [Users -> Nat]
    /\ req \in [Requests -> [pc : Pcs, caller : Users \cup {None},
                             target : Users \cup {None}, to : Roles \cup {None},
                             was : Roles \cup {None}, token : Nat]]

\* Nobody but the owner of the row is a member with the owner's role, whatever
\* transfers, role changes and removals overlap (the demotion of every owner in
\* a transfer; roles that are added or changed without it are never "owner").
OwnerAlone == \A u \in Users : role[u] = "owner" => u = owner

\* The request that this step ends.
Ended(r) == req[r].pc # "idle" /\ req'[r] = Idle
By(who) == \E r \in Requests : Ended(r) /\ req[r].caller \in who

\* What only the owner may do takes effect only while he owns the workspace,
\* although he asked earlier: another owner, a removal of somebody else, the
\* deletion (the checks repeated under the row's lock in lockTransferredWorkspace,
\* removeGen2WorkspaceMember and deleteGen2Workspace).
OwnerDecides ==
    [][/\ owner' # owner => By({owner})
       /\ \A u \in Users :
            role[u] # None /\ role'[u] = None /\ u \in accounts' => By({owner, u})
       /\ ~deleting /\ deleting' => By({owner})]_vars

\* Nobody who was removed comes back with a link from before his removal, also
\* not if he presented it before and is let in later (removeGen2WorkspaceMember
\* clears the link, requireActiveWorkspaceInvite looks at it again under the lock).
KeptOut ==
    [][\A r \in Requests :
         LET u == req[r].caller IN
         Ended(r) /\ req[r].pc = "join" /\ role[u] = None /\ role'[u] # None =>
            req[r].token > barred[u]]_vars

\* The owner is a member of the workspace with the owner's role: the code says
\* "Cannot demote the owner directly. Transfer ownership to another member."
OwnerSeated == role[owner] = "owner"
=============================================================================
