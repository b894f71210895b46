---------------------------- MODULE ComputeClaims ----------------------------
(***************************************************************************)
(* How CoDev keeps an owner within the number of workspaces the plan lets  *)
(* run at a time: a claim per workspace, inserted under a lock on the      *)
(* owner's user row, checked again under that lock before a workspace      *)
(* becomes ready, moved by a transfer of ownership, and deleted by whoever *)
(* ends an operation, in general without the lock.                         *)
(* Source: apps/web/lib/gen2/free-compute-claim.ts and its neighbours,     *)
(* workspace-owner-transfer.ts, and runtime-operations.ts where it touches *)
(* claims.                                                                 *)
(*                                                                         *)
(* ArmLifecycle has the details of one workspace's operations; here a run  *)
(* keeps the steps that read or write claims, and may fail before any of   *)
(* them.  A run that lost the row to a newer operation changes nothing, so *)
(* a workspace has the run of its current operation only, and a count of   *)
(* the decisions to release its claim that have yet to act.  Refusals for  *)
(* other reasons than the claim (plan, hours, budget, an open session) may *)
(* happen at any time.  An owner's limit is the plan's and does not change.*)
(***************************************************************************)
EXTENDS Naturals, FiniteSets

CONSTANTS
    Workspaces,
    Owners,     \* users, by the order of their ids
    Requests,   \* API requests that may be in progress at once
    Limit,      \* activeWorkspaceLimit of each owner's plan
    MaxLate,    \* bound: decisions to release a workspace that are still to act
    MaxOps,     \* bound: operations
    None

Kinds == {"start", "stop", "delete"}

ASSUME ClaimsConstants ==
    /\ Owners \subseteq Nat
    /\ Limit \in [Owners -> Nat]
    /\ IsFiniteSet(Workspaces)
    /\ Requests \cap Workspaces = {}
    /\ None \notin Requests \cup Workspaces
    /\ None \notin Owners /\ None \notin Kinds
    /\ MaxLate \in Nat /\ MaxOps \in Nat

VARIABLES
    owner,     \* gen2_workspaces.owner_id
    phase,     \* its status and runtime_status
    op,        \* its operation's kind
    recorded,  \* whether runtime_vm_resource_id is set
    claims,    \* gen2_free_compute_claims
    lock,      \* who holds the lock on a user's row (lockComputeOwners)
    req,       \* the local state of every API request
    run,       \* the step of the workflow of the current operation
    late,      \* how many have decided to delete the workspace's claims
    ops        \* operations queued so far

vars == <<owner, phase, op, recorded, claims, lock, req, run, late, ops>>
row == <<owner, phase, op, recorded>>
runs == <<run, late>>

-----------------------------------------------------------------------------
\* status and runtime_status: "starting" and "stopping" are provisioning with
\* an active runtime status, "revived" is a start that goes on although its
\* row was marked failed, "retained" is a delete that failed.
Phases ==
    {"pending", "starting", "revived", "ready", "stopping", "stopped", "failed",
     "deleting", "retained", "gone"}
Occupying == {"starting", "revived", "ready", "stopping", "deleting"}

TypeOK ==
    /\ owner \in [Workspaces -> Owners]
    /\ phase \in [Workspaces -> Phases]
    /\ op \in [Workspaces -> Kinds \cup {None}]
    /\ recorded \in [Workspaces -> BOOLEAN]
    /\ claims \subseteq Owners \X Workspaces
    /\ lock \in [Owners -> Requests \cup Workspaces \cup {None}]
    /\ req \in [Requests ->
         [pc : {"idle", "lock", "insert", "queue"},
          kind : {"start", "cancel", "transfer"}, ws : Workspaces \cup {None},
          from : Owners \cup {None}, to : Owners \cup {None}]]
    /\ \A r \in Requests : req[r].pc # "idle" =>
         req[r].ws \in Workspaces /\ {req[r].from, req[r].to} \subseteq Owners
    /\ run \in [Workspaces ->
         {"none", "input", "boot", "booted", "commit", "undo", "teardown"}]
    /\ late \in [Workspaces -> Nat]
    /\ ops \in Nat

NoCall == [pc |-> "idle", kind |-> "start", ws |-> None, from |-> None, to |-> None]

Init ==
    /\ owner \in [Workspaces -> Owners]
    /\ phase = [w \in Workspaces |-> "pending"]
    /\ op = [w \in Workspaces |-> None]
    /\ recorded = [w \in Workspaces |-> FALSE]
    /\ claims = {}
    /\ lock = [o \in Owners |-> None]
    /\ req = [r \in Requests |-> NoCall]
    /\ run = [w \in Workspaces |-> "none"]
    /\ late = [w \in Workspaces |-> 0]
    /\ ops = 0

-----------------------------------------------------------------------------
(* Locks and claims.                                                       *)

Wanted(r) ==
    IF req[r].kind = "transfer" THEN {req[r].from, req[r].to} ELSE {req[r].from}
Missing(r) == {o \in Wanted(r) : lock[o] # r}
HasLocks(r) == Missing(r) = {}
Unlocked(h) == [o \in Owners |-> IF lock[o] = h THEN None ELSE lock[o]]

\* The owner, read again once its lock is held.
OwnerNotRead(r) == TRUE                 \* variant: the first read decides
SameOwner(r) == owner[req[r].ws] = req[r].from

\* The row that an inserting reservation read FOR UPDATE.
RowFree(w) == \A r \in Requests : req[r].pc = "insert" => req[r].ws # w

Of(w) == {c \in claims : c[2] = w}

\* findOtherOwnerCompute
Others(o, w) ==
    {v \in Workspaces \ {w} :
        owner[v] = o /\ (phase[v] \in Occupying \/ <<o, v>> \in claims)}

WithinLimit(o, w) == Cardinality(Others(o, w)) < Limit[o]

InAnyOrder(r) == Missing(r)             \* variant: no ORDER BY
LockNext(r) == {o \in Missing(r) : \A p \in Missing(r) : o <= p}

-----------------------------------------------------------------------------
(* Requests.                                                               *)

Goto(r, pc) == req' = [req EXCEPT ![r].pc = pc]
Ends(r) == req' = [req EXCEPT ![r] = NoCall] /\ lock' = Unlocked(r)

\* Anyone may start; the owner cancels and transfers.  The owner is read
\* before any lock is taken.
Ask(r) ==
    /\ req[r].pc = "idle"
    /\ \E kind \in {"start", "cancel", "transfer"}, w \in Workspaces, to \in Owners :
         /\ phase[w] # "gone"
         /\ kind = "transfer" <=> to # owner[w]
         /\ req' = [req EXCEPT ![r] =
              [pc |-> "lock", kind |-> kind, ws |-> w, from |-> owner[w], to |-> to]]
    /\ UNCHANGED <<row, claims, lock, runs, ops>>

\* lockComputeOwners locks the user rows in the order of their ids.
Acquire(r) ==
    /\ req[r].pc = "lock"
    /\ \E o \in LockNext(r) : lock[o] = None /\ lock' = [lock EXCEPT ![o] = r]
    /\ UNCHANGED <<row, claims, req, runs, ops>>

\* reserveFreeWorkspaceCompute up to its insert.
Reserve(r) ==
    LET w == req[r].ws  o == req[r].from IN
    /\ req[r].pc = "lock" /\ req[r].kind = "start" /\ HasLocks(r) /\ RowFree(w)
    /\ SameOwner(r) /\ phase[w] # "gone" /\ WithinLimit(o, w)
    /\ Goto(r, "insert")
    /\ UNCHANGED <<row, claims, lock, runs, ops>>

Insert(r) ==
    /\ req[r].pc = "insert"
    /\ claims' = claims \cup {<<req[r].from, req[r].ws>>}
    /\ Goto(r, "queue") /\ lock' = Unlocked(r)
    /\ UNCHANGED <<row, runs, ops>>

\* cancelFreeComputeReservation: a start that has not been queued.
Cancel(r) ==
    LET w == req[r].ws IN
    /\ req[r].pc = "lock" /\ req[r].kind = "cancel" /\ HasLocks(r) /\ RowFree(w)
    /\ SameOwner(r) /\ phase[w] \in {"pending", "stopped"}
    /\ ~recorded[w] /\ op[w] = None
    /\ claims' = claims \ Of(w)
    /\ Ends(r)
    /\ UNCHANGED <<row, runs, ops>>

\* prepareWorkspaceOwnerTransfer and the update of owner_id that follows it in
\* the same transaction.
Transferable(w) ==
    /\ phase[w] \notin {"starting", "stopping", "deleting", "retained", "gone"}
    /\ phase[w] = "pending" => Of(w) = {}
NeverUsing(w) == FALSE                  \* variant: the running VM moves unchecked
Using(w) == phase[w] = "ready" \/ recorded[w]

Transfer(r) ==
    LET w == req[r].ws  from == req[r].from  to == req[r].to
        moved == IF Using(w) THEN {<<to, w>>} ELSE {} IN
    /\ req[r].pc = "lock" /\ req[r].kind = "transfer" /\ HasLocks(r) /\ RowFree(w)
    /\ SameOwner(r) /\ Transferable(w)
    /\ Using(w) => WithinLimit(to, w)
    /\ owner' = [owner EXCEPT ![w] = to]
    /\ claims' = (claims \ {<<from, w>>}) \cup moved
    /\ Ends(r)
    /\ UNCHANGED <<phase, op, recorded, runs, ops>>

\* A check that refuses, a platform that ends the request, a lost connection:
\* the transaction rolls back.
GiveUp(r) ==
    /\ req[r].pc # "idle"
    /\ Ends(r)
    /\ UNCHANGED <<row, claims, runs, ops>>

-----------------------------------------------------------------------------
(* Operations: what runtime-operations.ts does to a row that has claims.   *)

Update(w, p, kind, step) ==
    /\ phase' = [phase EXCEPT ![w] = p]
    /\ op' = [op EXCEPT ![w] = kind]
    /\ run' = [run EXCEPT ![w] = step]
Step(w, s) == run' = [run EXCEPT ![w] = s]

\* claimOperation.  The row is read again after the reservation, whose owner is
\* not looked at; a workflow of an older operation loses the row.
Queue(w, from, p, kind) ==
    /\ phase[w] \in from /\ RowFree(w)
    /\ ops < MaxOps /\ ops' = ops + 1
    /\ Update(w, p, kind, "input")
    /\ lock' = Unlocked(w)
    /\ UNCHANGED <<owner, recorded, claims, late>>

QueueStart(r) ==
    /\ req[r].pc = "queue"
    /\ Queue(req[r].ws, {"pending", "ready", "stopped", "failed"}, "starting", "start")
    /\ req' = [req EXCEPT ![r] = NoCall]

QueueStop(w) ==
    /\ Queue(w, {"ready", "failed", "revived"}, "stopping", "stop")
    /\ UNCHANGED req
QueueDelete(w) ==
    /\ Queue(w, {"pending", "ready", "stopped", "failed", "revived", "retained"},
             "deleting", "delete")
    /\ UNCHANGED req

\* markQueueFailure: the workflow was not created, or so it seems.
QueueFails(w) ==
    /\ run[w] # "none" /\ phase[w] \in {"starting", "stopping", "deleting"}
    /\ RowFree(w)
    /\ \E step \in {run[w], "none"} :
         (step = "none" => run[w] = "input") /\ Update(w, "failed", op[w], step)
    /\ UNCHANGED <<owner, recorded, claims, lock, req, late, ops>>

\* reconcileArmWorkspaceOperations: an operation without a workflow gets one,
\* and failed stops and deletes are tried again.
Recreate(w) ==
    /\ run[w] = "none"
    /\ \/ phase[w] \in {"starting", "revived", "stopping", "deleting", "retained"}
       \/ phase[w] = "failed" /\ op[w] \in {"stop", "delete"}
    /\ Step(w, "input")
    /\ UNCHANGED <<row, claims, lock, req, late, ops>>

-----------------------------------------------------------------------------
(* Workflows.                                                              *)

NotChecked(w) == TRUE                   \* variant: no check under the lock
Reserved(w) == <<owner[w], w>> \in claims

\* executeOperation's first step; enforceArmComputeEntitlement for a start.
Input(w) ==
    /\ run[w] = "input"
    /\ Step(w, IF op[w] # "start" THEN "teardown"
               ELSE IF Reserved(w) THEN "boot" ELSE "undo")
    /\ UNCHANGED <<row, claims, lock, req, late, ops>>

\* updateProgress, which sets runtime_status and leaves status alone, before and
\* after it knows the VM.
Progress(w) ==
    /\ run[w] \in {"boot", "booted"} /\ RowFree(w)
    /\ phase' = [phase EXCEPT ![w] = IF @ = "failed" THEN "revived" ELSE @]
    /\ \/ recorded' = [recorded EXCEPT ![w] = TRUE] /\ Step(w, "booted")
       \/ UNCHANGED <<recorded, run>>
    /\ UNCHANGED <<owner, op, claims, lock, req, late, ops>>

\* The transaction of 'complete': the lock and the check, then the update.
Check(w) ==
    /\ run[w] = "booted" /\ lock[owner[w]] = None
    /\ Reserved(w)
    /\ lock' = [lock EXCEPT ![owner[w]] = w]
    /\ Step(w, "commit")
    /\ UNCHANGED <<row, claims, req, late, ops>>

Complete(w) ==
    /\ run[w] = "commit" /\ RowFree(w)
    /\ Update(w, "ready", None, "none")
    /\ recorded' = [recorded EXCEPT ![w] = TRUE]
    /\ lock' = Unlocked(w)
    /\ UNCHANGED <<owner, claims, req, late, ops>>

\* Any step of a start may fail, the checks included.
StartFails(w) ==
    /\ run[w] \in {"input", "boot", "booted", "commit"} /\ op[w] = "start"
    /\ Step(w, "undo")
    /\ lock' = Unlocked(w)
    /\ UNCHANGED <<row, claims, req, late, ops>>

\* markOperationFailed: with the VM gone, the claim goes, but in a statement of
\* its own; without, it stays.
Undo(w) ==
    /\ run[w] = "undo" /\ RowFree(w)
    /\ Update(w, "failed", "start", "none")
    /\ \/ /\ late[w] < MaxLate
          /\ late' = [late EXCEPT ![w] = @ + 1]
          /\ recorded' = [recorded EXCEPT ![w] = FALSE]
       \/ UNCHANGED <<late, recorded>>
    /\ UNCHANGED <<owner, claims, lock, req, ops>>

\* observeSession in the compute cron read the workspace as stopped, and Azure
\* has no VM of it; what happens to the row from here on it does not see.
Observe(w) ==
    /\ phase[w] \in {"pending", "stopped"} /\ late[w] < MaxLate
    /\ late' = [late EXCEPT ![w] = @ + 1]
    /\ UNCHANGED <<row, claims, lock, req, run, ops>>

\* releaseFreeWorkspaceCompute, outside any lock: once for each decision.
Decided(w) == late[w] > 0
Release(w) ==
    /\ Decided(w)
    /\ late' = [late EXCEPT ![w] = @ - 1]
    /\ claims' = claims \ Of(w)
    /\ UNCHANGED <<row, lock, req, run, ops>>

TeardownFails(w) ==
    /\ run[w] = "teardown" /\ RowFree(w)
    /\ Update(w, IF op[w] = "delete" THEN "retained" ELSE "failed", op[w], "none")
    /\ UNCHANGED <<owner, recorded, claims, lock, req, late, ops>>

\* The instance ends without having written the row.
Dies(w) ==
    /\ run[w] \in {"undo", "teardown"}
    /\ Step(w, "none")
    /\ UNCHANGED <<row, claims, lock, req, late, ops>>

Finish(w) ==
    /\ run[w] = "teardown" /\ op[w] = "stop" /\ RowFree(w)
    /\ Update(w, "stopped", None, "none")
    /\ recorded' = [recorded EXCEPT ![w] = FALSE]
    /\ claims' = claims \ Of(w)
    /\ UNCHANGED <<owner, lock, req, late, ops>>

\* The row goes, and its claims with it (onDelete: cascade).  The lock is on the
\* owner that the run read when it began, who may be a former one.
Erase(w) ==
    /\ run[w] = "teardown" /\ op[w] = "delete" /\ RowFree(w)
    /\ \E o \in Owners : lock[o] = None
    /\ Update(w, "gone", None, "none")
    /\ recorded' = [recorded EXCEPT ![w] = FALSE]
    /\ claims' = claims \ Of(w)
    /\ UNCHANGED <<owner, lock, req, late, ops>>

RequestStep(r) ==
    \/ Acquire(r) \/ Reserve(r) \/ Insert(r) \/ Cancel(r) \/ Transfer(r)
    \/ QueueStart(r)
RunStep(w) ==
    \/ Input(w) \/ Progress(w) \/ Check(w) \/ Complete(w) \/ StartFails(w) \/ Undo(w)
    \/ Release(w) \/ TeardownFails(w) \/ Dies(w) \/ Finish(w) \/ Erase(w)
RowStep(w) ==
    \/ QueueStop(w) \/ QueueDelete(w) \/ QueueFails(w) \/ Recreate(w)
    \/ Observe(w)

Next ==
    \/ \E r \in Requests : Ask(r) \/ RequestStep(r) \/ GiveUp(r)
    \/ \E w \in Workspaces : RunStep(w) \/ RowStep(w)

Spec == Init /\ [][Next]_vars
=============================================================================
