----------------------------- MODULE Membership -----------------------------
(***************************************************************************)
(* Members, roles, the owner and the share link of one workspace           *)
(* (gen2/workspaces.ts, workspace-owner-transfer.ts, workspace-share-      *)
(* invite.ts, workspace-invite-access.ts), with the deletion of accounts   *)
(* (auth/account-deletion*.ts).                                            *)
(*                                                                         *)
(* Every handler first reads the caller's row of gen2_workspace_members    *)
(* and acts one or two statements later on what it has read.  Transfer,    *)
(* removal, joining and the share link lock the workspace's row and look   *)
(* again; adding a member and changing a role do not.                      *)
(*                                                                         *)
(* A step is a statement or a transaction.  Plans, claims and compute      *)
(* sessions of a transfer are in ComputeClaims and WorkspaceRows: here a   *)
(* transfer and a deletion may be refused at any time (Dies), as they are  *)
(* while the workspace starts.  Not modelled: the lists that are read and  *)
(* published after a change, a deletion that fails and leaves `deleting`   *)
(* (ArmLifecycle), and joining by an owner link, which no code can mint    *)
(* (createGen2ShareLink refuses the role).                                  *)
(***************************************************************************)
EXTENDS Naturals

CONSTANTS Users,      \* accounts
          Requests,   \* requests that may be under way at once
          MaxLinks,   \* bound: share links that are minted
          None

ASSUME MembersAssumption ==
    /\ Users # {} /\ None \notin Users
    /\ None \notin {"owner", "editor", "viewer"}
    /\ MaxLinks \in Nat

Roles == {"owner", "editor", "viewer"}
Invited == {"editor", "viewer"}

VARIABLES
    accounts,   \* the rows of `users`
    owner,      \* gen2_workspaces.owner_id
    deleting,   \* whether gen2_workspaces.status is `deleting`
    role,       \* gen2_workspace_members: the role of a member, None of others
    link,       \* gen2_workspaces.active_invite_*; the token 0 is null or expired
    minted,     \* the share links there have been
    barred,     \* history: how many links there were when a user was removed
    req         \* the requests under way

vars == <<accounts, owner, deleting, role, link, minted, barred, req>>

NoLink == [token |-> 0, role |-> None, by |-> None]
Idle == [pc |-> "idle", caller |-> None, target |-> None, to |-> None,
         was |-> None, token |-> 0]

\* createGen2Workspace: the founder owns the workspace and is its only member.
Init ==
    /\ accounts = Users
    /\ owner \in Users
    /\ deleting = FALSE
    /\ role = [u \in Users |-> IF u = owner THEN "owner" ELSE None]
    /\ link = NoLink /\ minted = 0
    /\ barred = [u \in Users |-> 0]
    /\ req = [r \in Requests |-> Idle]

Goes(r, next) == req' = [req EXCEPT ![r] = next]
Moves(r, pc) == Goes(r, [req[r] EXCEPT !.pc = pc, !.was = None])
Ends(r) == Goes(r, Idle)

\* requireGen2Member: what a caller must be before anything else is looked at.
Member(u) == u \in accounts /\ role[u] # None /\ ~deleting

-----------------------------------------------------------------------------
(* The requests as they arrive: each reads the caller's role.              *)

Asks(r, pc, u, v, to) ==
    /\ req[r].pc = "idle"
    /\ Member(u)
    /\ Goes(r, [Idle EXCEPT !.pc = pc, !.caller = u, !.target = v, !.to = to,
                            !.was = IF pc = "look" THEN role[u] ELSE None])
    /\ UNCHANGED <<accounts, owner, deleting, role, link, minted, barred>>

\* createGen2ShareLink: for everyone but viewers; the role may be left open.
AsksLink(r, u) ==
    /\ role[u] # "viewer"
    /\ \E to \in Invited \cup {None} : Asks(r, "share", u, None, to)

\* addGen2WorkspaceMember
AsksAdd(r, u, v) ==
    /\ role[u] # "viewer" /\ v \in accounts
    /\ \/ \E to \in Invited : Asks(r, "look", u, v, to)
       \/ role[u] = "owner" /\ Asks(r, "grant", u, v, "owner")

\* updateGen2WorkspaceMemberRole
AsksChange(r, u, v) ==
    /\ role[u] = "owner"
    /\ \E to \in Roles : Asks(r, "check", u, v, to)

\* removeGen2WorkspaceMember
AsksRemove(r, u, v) ==
    /\ role[u] = "owner" \/ u = v
    /\ Asks(r, "remove", u, v, None)

\* deleteGen2Workspace
AsksDelete(r, u) ==
    /\ role[u] = "owner"
    /\ Asks(r, "delete", u, None, None)

\* joinGen2Workspace: whoever has the link that is active now reads its role.
AsksJoin(r, u) ==
    /\ req[r].pc = "idle"
    /\ u \in accounts /\ ~deleting
    /\ link.token # 0
    /\ Goes(r, [Idle EXCEPT !.pc = "join", !.caller = u, !.token = link.token,
                            !.to = link.role])
    /\ UNCHANGED <<accounts, owner, deleting, role, link, minted, barred>>

-----------------------------------------------------------------------------
(* Share links (getOrCreateWorkspaceShareInvite, under the row's lock).    *)

\* A role left open is that of the last link, also of one that was cleared by a
\* transfer, which leaves the column.
LinkRole(to) ==
    IF to # None THEN to ELSE IF link.role = "viewer" THEN "viewer" ELSE "editor"

Reuses(r) ==
    /\ req[r].pc = "share"
    /\ link.token # 0 /\ link.role = LinkRole(req[r].to)
    /\ Ends(r)
    /\ UNCHANGED <<accounts, owner, deleting, role, link, minted, barred>>

Mints(r) ==
    /\ req[r].pc = "share"
    /\ ~(link.token # 0 /\ link.role = LinkRole(req[r].to))
    /\ minted < MaxLinks
    /\ req[r].caller \in accounts
    /\ minted' = minted + 1
    /\ link' = [token |-> minted + 1, role |-> LinkRole(req[r].to),
                by |-> req[r].caller]
    /\ Ends(r)
    /\ UNCHANGED <<accounts, owner, deleting, role, barred>>

\* Seven days pass: all who read the row take an expired link for none, but its
\* role stays, as after a transfer.
Expires ==
    /\ link.token # 0
    /\ link' = [link EXCEPT !.token = 0]
    /\ UNCHANGED <<accounts, owner, deleting, role, minted, barred, req>>

\* variant: the workspace has some link of that role.
StillSome(q) ==
    /\ link.token # 0 /\ link.role = q.to
    /\ ~deleting

\* requireActiveWorkspaceInvite: the same link is still the active one.
StillActive(q) ==
    /\ link.token = q.token /\ link.role = q.to
    /\ ~deleting

\* joinGen2Workspace, the transaction; a member keeps the role he has.
Joins(r) ==
    LET u == req[r].caller IN
    /\ req[r].pc = "join"
    /\ StillActive(req[r])
    /\ u \in accounts
    /\ role' = [role EXCEPT ![u] = IF @ = None THEN req[r].to ELSE @]
    /\ Ends(r)
    /\ UNCHANGED <<accounts, owner, deleting, link, minted, barred>>

-----------------------------------------------------------------------------
(* Adding a member and changing a role, without a lock.                    *)

\* addGen2WorkspaceMember reads the row of the member to be: a role may only be
\* changed by an owner, and never the owner's.
Looks(r) ==
    LET q == req[r]  is == role[q.target] IN
    /\ q.pc = "look"
    /\ \/ is = None /\ Moves(r, "insert")
       \/ /\ is # None /\ is # "owner"
          /\ q.was = "owner" \/ is = q.to
          /\ Moves(r, "update")
    /\ UNCHANGED <<accounts, owner, deleting, role, link, minted, barred>>

\* updateGen2WorkspaceMemberRole reads the row of the member to change.
Checks(r) ==
    LET q == req[r]  is == role[q.target] IN
    /\ q.pc = "check"
    /\ is # None
    /\ is = "owner" => q.to = "owner"
    /\ Moves(r, IF q.to = "owner" THEN "promote" ELSE "update")
    /\ UNCHANGED <<accounts, owner, deleting, role, link, minted, barred>>

\* The primary key refuses a row that came to be since, the foreign key one of
\* an account that is gone.
Inserts(r) ==
    LET q == req[r] IN
    /\ q.pc = "insert"
    /\ role[q.target] = None /\ q.target \in accounts
    /\ role' = [role EXCEPT ![q.target] = q.to]
    /\ Ends(r)
    /\ UNCHANGED <<accounts, owner, deleting, link, minted, barred>>

\* The update names workspace and user only, and finds no row of one removed.
Updates(r) ==
    LET q == req[r] IN
    /\ q.pc = "update"
    /\ role' = [role EXCEPT ![q.target] = IF @ = None THEN None ELSE q.to]
    /\ Ends(r)
    /\ UNCHANGED <<accounts, owner, deleting, link, minted, barred>>

-----------------------------------------------------------------------------
(* Transfer, removal and deletion, under the lock of the workspace's row.  *)

\* variant: whoever was the owner when he asked.
TransferByMember(q) ==
    /\ ~deleting
    /\ q.target \in accounts

\* lockTransferredWorkspace: the caller is still the owner.
MayTransfer(q) ==
    /\ owner = q.caller
    /\ ~deleting
    /\ q.target \in accounts

\* variant: the former owner keeps the role.
NobodyDemoted == role

\* All who have the role of the owner become editors.
Demoted == [u \in Users |-> IF role[u] = "owner" THEN "editor" ELSE role[u]]

\* The two transfers: addGen2WorkspaceMember inserts or updates the new owner's
\* row, updateGen2WorkspaceMemberRole only updates one that is there.
Transfers(r) ==
    LET q == req[r] IN
    /\ q.pc \in {"grant", "promote"}
    /\ MayTransfer(q)
    /\ owner' = q.target
    /\ role' = IF q.pc = "grant" \/ role[q.target] # None
               THEN [Demoted EXCEPT ![q.target] = "owner"]
               ELSE Demoted
    /\ link' = [link EXCEPT !.token = 0]
    /\ Ends(r)
    /\ UNCHANGED <<accounts, deleting, minted, barred>>

\* removeGen2WorkspaceMember: the caller is still the owner, or leaves himself.
MayRemove(q) == q.caller \in {owner, q.target}

Removes(r) ==
    LET q == req[r] IN
    /\ q.pc = "remove"
    /\ MayRemove(q)
    /\ role[q.target] \in Invited
    /\ role' = [role EXCEPT ![q.target] = None]
    /\ link' = NoLink
    /\ barred' = [barred EXCEPT ![q.target] = minted]
    /\ Ends(r)
    /\ UNCHANGED <<accounts, owner, deleting, minted>>

\* deleteGen2Workspace's transaction (on ARM claimOperation compares the owner).
Deletes(r) ==
    /\ req[r].pc = "delete"
    /\ owner = req[r].caller
    /\ deleting' = TRUE
    /\ Ends(r)
    /\ UNCHANGED <<accounts, owner, role, link, minted, barred>>

-----------------------------------------------------------------------------
(* What else happens.                                                      *)

\* deleteAccount: only of somebody who owns nothing; the foreign keys remove the
\* membership, and a link of his own making is cleared.
DeletesAccount(u) ==
    /\ u \in accounts /\ owner # u
    /\ accounts' = accounts \ {u}
    /\ role' = [role EXCEPT ![u] = None]
    /\ link' = IF link.by = u THEN NoLink ELSE link
    /\ UNCHANGED <<owner, deleting, minted, barred, req>>

\* A request is refused by a check, a plan or the database, or is cut off.
Dies(r) ==
    /\ req[r].pc # "idle"
    /\ Ends(r)
    /\ UNCHANGED <<accounts, owner, deleting, role, link, minted, barred>>

Arrives(r) ==
    \E u \in Users :
        \/ AsksLink(r, u) \/ AsksJoin(r, u) \/ AsksDelete(r, u)
        \/ \E v \in Users : AsksAdd(r, u, v) \/ AsksChange(r, u, v) \/ AsksRemove(r, u, v)

Acts(r) ==
    \/ Reuses(r) \/ Mints(r) \/ Joins(r)
    \/ Looks(r) \/ Checks(r) \/ Inserts(r) \/ Updates(r)
    \/ Transfers(r) \/ Removes(r) \/ Deletes(r)

Next ==
    \/ \E r \in Requests : Arrives(r) \/ Acts(r) \/ Dies(r)
    \/ Expires
    \/ \E u \in Users : DeletesAccount(u)

Spec == Init /\ [][Next]_vars
=============================================================================
