---------------------------- MODULE WorkspaceRows ----------------------------
(***************************************************************************)
(* A workspace on the Firecracker host, as the web application keeps it:   *)
(* its row in gen2_workspaces, its open compute session, and the guest at  *)
(* the orchestrator.  Members open, stop, delete and hand over the         *)
(* workspace; the quota cron meters and stops it; the host is deallocated  *)
(* and hibernates idle guests when it pleases (FirecrackerHost models the  *)
(* host itself).                                                           *)
(*                                                                         *)
(* Left out: closed sessions and their minutes (`spent` says whose pool is *)
(* used up), the source of a first start and whether it may build a fresh  *)
(* disk, the guest's identity, plans, and limits on the rows of one round. *)
(***************************************************************************)
EXTENDS Naturals, FiniteSets

CONSTANTS
    Requests,   \* requests of members that may be under way at one time
    Owners,     \* members that may own the workspace
    Cron,       \* the compute cron, one round at a time
    MaxOverlap, \* bound: how many of them are under way at one time
    None

VARIABLES
    row,        \* the row of gen2_workspaces, None once deleted
    session,    \* owner of the open row of gen2_compute_sessions, or None
    guest,      \* whether the orchestrator runs the guest
    host,       \* "up" or "stopped"
    spent,      \* owners whose pool of minutes is used up
    op,         \* what each request and the cron are at
    mishap      \* the one rare event a behaviour may have, or None

vars == <<row, session, guest, host, spent, op, mishap>>

Actors == Requests \cup {Cron}

Statuses == {"pending", "provisioning", "ready", "stopped", "failed", "deleting"}

\* What may go wrong: a process ends in the middle, a call fails, a call is
\* carried out but its answer is lost, an invitation refreshes `updatedAt` of a
\* row that is being started, a start outlives its lease.  A transfer counts as
\* one too, to bound the owners a row has had.
Mishaps == {"died", "refused", "lost", "touched", "slow", "transferred"}

Rows ==
    [status : Statuses, owner : Owners, holder : Actors \cup {None}, stale : BOOLEAN]

ASSUME RowConstants ==
    /\ Owners # {}
    /\ Cron \notin Requests
    /\ None \notin Requests \cup Owners \cup {Cron} \cup Mishaps \cup Rows

\* A row's lease is the `updatedAt` its holder wrote: `holder` is the actor
\* whose compare-and-set would succeed, `stale` that 210 s have passed.
Row(status, owner) == [status |-> status, owner |-> owner, holder |-> None, stale |-> FALSE]

Leased(r, a) == [r EXCEPT !.status = "provisioning", !.holder = a, !.stale = FALSE]

Idle == [pc |-> "idle", owner |-> None, was |-> None]
At(pc) == [Idle EXCEPT !.pc = pc]
For(pc, owner) == [At(pc) EXCEPT !.owner = owner]

Leasing == {"wake", "current", "provision", "meter", "commit", "failing",
            "destroy", "end", "stopped"}

Init ==
    /\ row = Row("pending", CHOOSE o \in Owners : TRUE)
    /\ session = None
    /\ guest = FALSE
    /\ host = "stopped"
    /\ spent = {}
    /\ op = [a \in Actors |-> Idle]
    /\ mishap = None

\* An idle actor begins only while fewer than MaxOverlap are under way.
Free(a) ==
    /\ op[a].pc = "idle"
    /\ Cardinality({b \in Actors : op[b].pc # "idle"}) < MaxOverlap

Goes(a, next) == op' = [op EXCEPT ![a] = next]
Becomes(status) == [row EXCEPT !.status = status, !.holder = None, !.stale = FALSE]
Mishap(kind) == mishap = None /\ mishap' = kind

\* requireGen2Member: a row that is being deleted is shown to nobody.
Shown == row # None /\ row.status # "deleting"

\* startComputeSession: one open session for a workspace, the first stays.
Metered(owner) == IF session = None THEN owner ELSE session

\* writeGen2Instance under a lease: nothing unless the lease is still there.
Writes(a, status) ==
    row' = IF row # None /\ row.status = "provisioning" /\ row.holder = a
           THEN Becomes(status) ELSE row

-----------------------------------------------------------------------------
\* ensureGen2Instance.

\* What the request has read: the owner, and the status that is written back
\* when the host cannot be woken.
Reading(pc) ==
    [pc |-> pc, owner |-> row.owner,
     was |-> IF row.status = "provisioning" THEN "failed" ELSE row.status]

FirstCall(was) == IF was = "ready" THEN "ask" ELSE "claim"

\* The pool of the owner is checked.  Before a member is refused, a session
\* whose guest has gone is to end (reconcileWorkspaceComputeSession).
Opens(r) ==
    /\ Free(r) /\ Shown
    /\ \/ row.owner \notin spent /\ Goes(r, Reading(FirstCall(row.status)))
       \/ /\ row.owner \in spent /\ session # None /\ ~guest
          /\ Goes(r, Reading("expire"))
    /\ UNCHANGED <<row, session, guest, host, spent, mishap>>

\* It ends when its guest became idle, which may leave minutes.
Trims == session' = None /\ spent' \in {spent, spent \ {session}}

Expires(r) ==
    /\ op[r].pc = "expire"
    /\ Trims
    /\ Goes(r, IF op[r].owner \in spent' THEN Idle
               ELSE [op[r] EXCEPT !.pc = FirstCall(op[r].was)])
    /\ UNCHANGED <<row, guest, host, mishap>>

\* ensureHostReady wakes the host, or gives up while the host is booting.
HostReady == host' = "up"
HostBooting == host = "stopped" /\ host' = "up"

\* A row that says ready is not believed: the guest may be hibernated.
Asks(r) ==
    /\ op[r].pc = "ask"
    /\ \/ /\ HostReady
          /\ Goes(r, IF guest THEN For("attach", op[r].owner)
                     ELSE For("reclaim", op[r].owner))
       \/ HostBooting /\ Goes(r, Idle)
    /\ UNCHANGED <<row, session, guest, spent, mishap>>

Attaches(r) ==
    /\ op[r].pc = "attach"
    /\ session' = Metered(op[r].owner)
    /\ Goes(r, Idle)
    /\ UNCHANGED <<row, guest, host, spent, mishap>>

\* variant: a lease never expires
ClaimableOnce ==
    row # None /\ row.status \in {"pending", "stopped", "failed", "ready"}

\* variant: a row that is being started may be claimed at once
ClaimableAlways ==
    /\ row # None
    /\ row.status \in {"pending", "stopped", "failed", "ready", "provisioning"}

\* claimProvisioning.
Claimable ==
    /\ row # None
    /\ \/ row.status \in {"pending", "stopped", "failed", "ready"}
       \/ row.status = "provisioning" /\ row.stale

Claims(r) ==
    /\ op[r].pc \in {"claim", "reclaim"}
    /\ IF Claimable
       THEN /\ row' = Leased(row, r)
            /\ Goes(r, IF op[r].pc = "claim" THEN [op[r] EXCEPT !.pc = "wake"]
                       ELSE For("current", op[r].owner))
       ELSE row' = row /\ Goes(r, Idle)
    /\ UNCHANGED <<session, guest, host, spent, mishap>>

\* A host that is not up in time leaves the row as it was read.
Wakes(r) ==
    /\ op[r].pc = "wake"
    /\ \/ /\ HostReady /\ row' = row
          /\ Goes(r, For(IF guest THEN "meter" ELSE "provision", op[r].owner))
       \/ HostBooting /\ Writes(r, op[r].was) /\ Goes(r, Idle)
    /\ UNCHANGED <<session, guest, spent, mishap>>

FindsGuest(r) ==
    /\ op[r].pc = "current"
    /\ Goes(r, IF host = "stopped" THEN At("failing")
               ELSE For(IF guest THEN "meter" ELSE "provision", op[r].owner))
    /\ UNCHANGED <<row, session, guest, host, spent, mishap>>

Provisions(r) ==
    /\ op[r].pc = "provision"
    /\ \/ /\ host = "up" /\ guest' = TRUE
          /\ Goes(r, For("meter", op[r].owner)) /\ UNCHANGED mishap
       \/ /\ host = "stopped"
          /\ Goes(r, At("failing")) /\ UNCHANGED <<guest, mishap>>
       \/ /\ host = "up" /\ Mishap("refused")
          /\ Goes(r, At("failing")) /\ UNCHANGED guest
       \/ /\ host = "up" /\ Mishap("lost") /\ guest' = TRUE
          /\ Goes(r, At("failing"))
    /\ UNCHANGED <<row, session, host, spent>>

\* The pool is checked once more before the session begins.
Meters(r) ==
    /\ op[r].pc = "meter"
    /\ IF op[r].owner \in spent
       THEN session' = session /\ Goes(r, At("failing"))
       ELSE session' = Metered(op[r].owner) /\ Goes(r, At("commit"))
    /\ UNCHANGED <<row, guest, host, spent, mishap>>

Commits(r) ==
    /\ op[r].pc \in {"commit", "failing"}
    /\ Writes(r, IF op[r].pc = "commit" THEN "ready" ELSE "failed")
    /\ Goes(r, Idle)
    /\ UNCHANGED <<session, guest, host, spent, mishap>>

EnsureInstance(r) ==
    \/ Expires(r) \/ Asks(r) \/ Attaches(r) \/ Claims(r) \/ Wakes(r)
    \/ FindsGuest(r) \/ Provisions(r) \/ Meters(r) \/ Commits(r)

-----------------------------------------------------------------------------
\* stopGen2Instance: the owner's request, or the cron on behalf of one.

Stoppable == Shown /\ row.status = "ready"

\* The row is reserved before the orchestrator is asked.  (That the caller is
\* the owner is read just before; the reservation itself checks the status.)
Reserves(a) == row' = Leased(row, a) /\ Goes(a, At("destroy"))

Stops(r) ==
    /\ Free(r) /\ Stoppable
    /\ Reserves(r)
    /\ UNCHANGED <<session, guest, host, spent, mishap>>

\* variant: every failure is taken for a host that is deallocated
DestroysAnyhow(a) ==
    /\ op[a].pc = "destroy"
    /\ \/ guest' = FALSE /\ Goes(a, At("end")) /\ UNCHANGED mishap
       \/ Mishap("refused") /\ Goes(a, At("end")) /\ UNCHANGED guest
    /\ UNCHANGED <<row, session, host, spent>>

\* A host that cannot be reached is taken for one that is deallocated.
Destroys(a) ==
    /\ op[a].pc = "destroy"
    /\ \/ guest' = FALSE /\ row' = row /\ Goes(a, At("end")) /\ UNCHANGED mishap
       \/ /\ Mishap("lost") /\ Goes(a, At("end")) /\ UNCHANGED <<row, guest>>
       \/ /\ Mishap("refused") /\ Writes(a, "ready") /\ Goes(a, Idle)
          /\ UNCHANGED guest
    /\ UNCHANGED <<session, host, spent>>

EndsSession(a) ==
    /\ op[a].pc = "end"
    /\ session' = None
    /\ Goes(a, At("stopped"))
    /\ UNCHANGED <<row, guest, host, spent, mishap>>

CommitsStop(a) ==
    /\ op[a].pc = "stopped"
    /\ Writes(a, "stopped")
    /\ Goes(a, Idle)
    /\ UNCHANGED <<session, guest, host, spent, mishap>>

StopInstance(a) == Destroys(a) \/ EndsSession(a) \/ CommitsStop(a)

-----------------------------------------------------------------------------
\* deleteGen2Workspace; a deletion that failed may be asked for again.
Deletes(r) ==
    /\ Free(r) /\ row # None /\ row.status # "provisioning"
    /\ row' = Becomes("deleting")
    /\ Goes(r, At(IF row.status = "pending" THEN "erase" ELSE "reach"))
    /\ UNCHANGED <<session, guest, host, spent, mishap>>

\* removeWorkspaceRuntime wakes the host, and goes on without it.
Reaches(r) ==
    /\ op[r].pc = "reach"
    /\ \/ HostReady /\ Goes(r, At("remove"))
       \/ HostBooting /\ Goes(r, At("tryRemove"))
    /\ UNCHANGED <<row, session, guest, spent, mishap>>

Removes(r) ==
    /\ op[r].pc \in {"remove", "tryRemove"}
    /\ \/ /\ host = "up" /\ guest' = FALSE
          /\ Goes(r, At("unmeter")) /\ UNCHANGED mishap
       \/ /\ \/ host = "stopped" /\ UNCHANGED mishap
             \/ host = "up" /\ Mishap("refused")
          /\ Goes(r, IF op[r].pc = "remove" THEN Idle ELSE At("unmeter"))
          /\ UNCHANGED guest
    /\ UNCHANGED <<row, session, host, spent>>

Unmeters(r) ==
    /\ op[r].pc = "unmeter"
    /\ session' = None
    /\ Goes(r, At("erase"))
    /\ UNCHANGED <<row, guest, host, spent, mishap>>

Erases(r) ==
    /\ op[r].pc = "erase"
    /\ row' = IF row # None /\ row.status = "deleting" THEN None ELSE row
    /\ Goes(r, Idle)
    /\ UNCHANGED <<session, guest, host, spent, mishap>>

DeleteWorkspace(r) == Reaches(r) \/ Removes(r) \/ Unmeters(r) \/ Erases(r)

\* An ownership transfer, one transaction: the open session changes hands with
\* the row (prepareWorkspaceOwnerTransfer, transferActiveComputeSession).
Transfers(owner) ==
    /\ Shown /\ row.status # "provisioning" /\ row.owner # owner
    /\ Mishap("transferred")
    /\ row' = [row EXCEPT !.owner = owner]
    /\ session' = IF session = None THEN None ELSE owner
    /\ UNCHANGED <<guest, host, spent, op>>

\* A new invitation, or a member removed, refreshes the row's `updatedAt`.
Touches ==
    /\ row # None /\ row.status = "provisioning"
    /\ Mishap("touched")
    /\ row' = [row EXCEPT !.holder = None, !.stale = FALSE]
    /\ UNCHANGED <<session, guest, host, spent, op>>
=============================================================================
