---------------------------- MODULE ArmLifecycle ----------------------------
(***************************************************************************)
(* The lifecycle of one ARM workspace: the Postgres row that fences every  *)
(* operation, the requests and the cron that queue operations, the durable *)
(* Cloudflare Workflows that carry them out, and the Azure resources they  *)
(* act on.  Source: apps/web/lib/gen2/runtime-operations.ts with its       *)
(* continuation, policy and claim helpers, and the provider in             *)
(* apps/web/lib/runtime/arm-workspace-provider.ts.                         *)
(*                                                                         *)
(* An action is what happens between two awaits that another actor can     *)
(* observe: one statement or transaction on the row, one provider call.    *)
(* Abstracted:                                                             *)
(*  - booting, attaching_disk, starting_tunnel and checking_readiness, all *)
(*    of which follow the creation of the VM, are the one state "booting"; *)
(*  - the tunnel, its route and the VM's network come and go with the VM;  *)
(*  - a lease is "none", "held" or "expired": it may expire at any time    *)
(*    while held, and the retry delay of a failed operation may be over at *)
(*    any time;                                                            *)
(*  - an entitlement check passes only with a claim, and may refuse for    *)
(*    its other reasons (budget, plan, hours) as a fault;                  *)
(*  - the VM of an accepted deployment exists when the deploy step returns *)
(*    or fails.                                                            *)
(* Accounting that the compute cron does on its own is ComputeClaims'.     *)
(***************************************************************************)
EXTENDS Naturals, FiniteSets

CONSTANTS
    Requests,       \* API requests that may be in progress at once
    MaxGeneration,  \* bound: VM generations
    MaxOps,         \* bound: fresh operation ids
    Spare,          \* bound: operation ids that requests leave to the cron
    MaxParts,       \* bound: continuations of one operation
    MaxFaults,      \* bound: failing calls, refused or lost creations, deaths
    RefusedKinds,   \* kinds whose workflow creation may be refused
    LostKinds,      \* kinds whose workflow creation may succeed unnoticed
    None            \* SQL null

Kinds == {"start", "stop", "delete"}

ASSUME ArmConstants ==
    /\ MaxGeneration \in Nat /\ MaxOps \in Nat /\ MaxParts \in Nat
    /\ Spare \in Nat /\ MaxFaults \in Nat
    /\ RefusedKinds \subseteq Kinds /\ LostKinds \subseteq Kinds
    /\ None \notin Nat /\ None \notin Kinds
    /\ None \notin (Nat \X Nat)

VARIABLES
    row,      \* the gen2_workspaces row; status "gone" once it is deleted
    wf,       \* the workflow instance of every operation id
    req,      \* the local state of every API request
    cron,     \* the local state of reconcileArmWorkspaceOperations
    vm,       \* Azure: the VM of each generation
    disk,     \* Azure: whether the workspace's disk exists
    claim,    \* whether the owner's compute claim for the workspace exists
    session,  \* whether an open compute session exists
    nextOp,   \* the next fresh operation id
    faults    \* faults so far

vars == <<row, wf, req, cron, vm, disk, claim, session, nextOp, faults>>
azure == <<vm, disk>>
accounts == <<claim, session>>

-----------------------------------------------------------------------------
Generations == 0..MaxGeneration
\* An operation id and, for a continuation, its distance from the claimed id:
\* continuationId is a deterministic function of the parent's id.
OpIds == (1..MaxOps) \X (0..MaxParts)
NextId(o) == <<o[1], o[2] + 1>>

Active == {"queued", "provisioning", "booting", "stopping"}
RuntimeStatuses == Active \cup {"stopped", "ready", "failed"}
Statuses ==
    {"pending", "provisioning", "ready", "stopped", "failed", "deleting", "gone"}
Terminal == {"done", "errored"}
HandoffPoints ==
    {"cleanup", "disk", "provision", "deploy", "boot", "health", "init",
     "teardown", "deleteDisk", "undo"}
Steps ==
    HandoffPoints \cup Terminal \cup
    {"none", "waiting", "input", "record", "session", "policy", "complete",
     "finish", "erase", "failed", "mark", "release", "activate", "signal"}

Rows ==
    [status : Statuses, rs : RuntimeStatuses, gen : Generations,
     vm : Generations \cup {None}, disk : BOOLEAN,
     cleanup : Generations \cup {None}, op : OpIds \cup {None},
     kind : Kinds \cup {None}, lease : {"none", "held", "expired"}]
Inputs == [rs : RuntimeStatuses, vm : Generations \cup {None}, disk : BOOLEAN]
Runs ==
    [pc : Steps, kind : Kinds, gen : Generations,
     cleanup : Generations \cup {None}, in : Inputs, resume : Steps,
     undone : BOOLEAN]
Calls ==
    [pc : {"idle", "load", "loaded", "claimed", "unqueued", "reopen"}, kind : Kinds,
     seen : Rows]

TypeOK ==
    /\ row \in Rows
    /\ (row.op = None <=> row.kind = None)
    /\ wf \in [OpIds -> Runs]
    /\ req \in [Requests -> Calls]
    /\ cron \in [pc : {"idle", "scanned", "recreate"}, seen : Rows]
    /\ vm \in [Generations -> {"absent", "on", "off"}]
    /\ disk \in BOOLEAN /\ claim \in BOOLEAN /\ session \in BOOLEAN
    /\ nextOp \in Nat \ {0} /\ faults \in Nat

FreshRow ==
    [status |-> "pending", rs |-> "stopped", gen |-> 0, vm |-> None,
     disk |-> FALSE, cleanup |-> None, op |-> None, kind |-> None,
     lease |-> "none"]
NoInput == [rs |-> "stopped", vm |-> None, disk |-> FALSE]
NoRun ==
    [pc |-> "none", kind |-> "start", gen |-> 0, cleanup |-> None,
     in |-> NoInput, resume |-> "input", undone |-> FALSE]
NoScan == [pc |-> "idle", seen |-> FreshRow]
NoCall == [pc |-> "idle", kind |-> "start", seen |-> FreshRow]

Init ==
    /\ row = FreshRow
    /\ wf = [o \in OpIds |-> NoRun]
    /\ req = [r \in Requests |-> NoCall]
    /\ cron = NoScan
    /\ vm = [g \in Generations |-> "absent"]
    /\ disk = FALSE /\ claim = FALSE /\ session = FALSE
    /\ nextOp = 1 /\ faults = 0

-----------------------------------------------------------------------------
Exists == row.status # "gone"
Live(o) == wf[o].pc \notin Terminal \cup {"none"}
\* operationWhere and currentOperation: the row still belongs to this run.
Current(o) == Exists /\ row.gen = wf[o].gen /\ row.op = o
\* managedBy: a VM that exists holds the disk, deallocated or not.
Attached == {g \in Generations : vm[g] # "absent"}

Fault == faults < MaxFaults /\ faults' = faults + 1
NoFault == UNCHANGED faults

-----------------------------------------------------------------------------
(* Creating a workflow instance.                                           *)

\* What a job keeps of the row it was made from.
Job(s) ==
    [FreshRow EXCEPT !.op = s.op, !.gen = s.gen, !.cleanup = s.cleanup,
                     !.kind = s.kind]

\* The instance for the parameters read from row s, before its first step.
NewRun(s) ==
    [NoRun EXCEPT !.pc = "input", !.kind = s.kind, !.gen = s.gen,
                  !.cleanup = s.cleanup]

\* createOrJoinWorkflow returns: the instance was created, or one is live.
Queued(s) ==
    /\ \/ /\ wf[s.op].pc = "none"
          /\ wf' = [wf EXCEPT ![s.op] = NewRun(s)]
       \/ Live(s.op) /\ UNCHANGED wf
    /\ NoFault

\* createOrJoinWorkflow throws: the instance has ended, its creation was
\* refused, or it was created but neither answer came back.
NotQueued(s) ==
    \/ wf[s.op].pc \in Terminal /\ UNCHANGED wf /\ NoFault
    \/ wf[s.op].pc = "none" /\ s.kind \in RefusedKinds /\ UNCHANGED wf /\ Fault
    \/ /\ wf[s.op].pc = "none" /\ s.kind \in LostKinds /\ Fault
       /\ wf' = [wf EXCEPT ![s.op] = NewRun(s)]

-----------------------------------------------------------------------------
(* Requests: start, stop and delete.                                       *)

AcceptedStatuses(kind) ==
    CASE kind = "start" -> {"pending", "ready", "stopped", "failed"}
      [] kind = "stop" -> {"ready", "failed"}
      [] kind = "delete" -> {"pending", "ready", "stopped", "failed", "deleting"}

\* requireWorkspaceOwnerPlan reserves the owner's compute for a start, ending
\* first a session whose VM is no longer allocated.
Reserve(r) ==
    /\ req[r].pc = "idle" /\ Exists /\ row.status # "deleting"
    /\ claim' = TRUE
    /\ session' = (session /\ row.vm # None /\ vm[row.gen] = "on")
    /\ req' = [req EXCEPT ![r] = [NoCall EXCEPT !.pc = "load"]]
    /\ UNCHANGED <<row, wf, cron, azure, nextOp, faults>>

\* A stop or a delete reads the row at once.
Ask(r) ==
    /\ req[r].pc = "idle" /\ Exists
    /\ \E kind \in {"stop", "delete"} :
         req' = [req EXCEPT ![r] = [pc |-> "loaded", kind |-> kind, seen |-> row]]
    /\ UNCHANGED <<row, wf, cron, azure, accounts, nextOp, faults>>

LoadRow(r) ==
    /\ req[r].pc = "load"
    /\ req' = [req EXCEPT ![r] =
                 IF Exists THEN [@ EXCEPT !.pc = "loaded", !.seen = row]
                           ELSE NoCall]
    /\ UNCHANGED <<row, wf, cron, azure, accounts, nextOp, faults>>

Unstarted(s) == s.status \in {"pending", "stopped"}

\* cancelFreeComputeReservation: stopping what was never started releases the
\* claim, if the locked row still says so.
Cancel(r) ==
    /\ req[r].pc = "loaded" /\ req[r].kind = "stop" /\ Unstarted(req[r].seen)
    /\ claim' = (claim /\ ~(Unstarted(row) /\ row.vm = None /\ row.op = None))
    /\ req' = [req EXCEPT ![r] = NoCall]
    /\ UNCHANGED <<row, wf, cron, azure, session, nextOp, faults>>

Joins(kind, s) == s.kind = kind /\ s.op # None /\ s.rs # "failed"

\* The VM recorded for the ready generation is running: nothing to start.
AlreadyRunning(kind, s) ==
    kind = "start" /\ s.rs = "ready" /\ s.vm # None /\ vm[s.gen] = "on"

\* joinExistingOperation, with the guarded lease renewal.
Join(r) ==
    LET s == req[r].seen IN
    /\ req[r].pc = "loaded" /\ Joins(req[r].kind, s)
    /\ \/ /\ Queued(s)
          /\ row' = IF Exists /\ row.gen = s.gen /\ row.op = s.op
                    THEN [row EXCEPT !.lease = "held"] ELSE row
       \/ NotQueued(s) /\ UNCHANGED row
    /\ req' = [req EXCEPT ![r] = NoCall]
    /\ UNCHANGED <<cron, azure, accounts, nextOp>>

\* The request ends without an operation.
Decline(r) ==
    LET s == req[r].seen
        kind == req[r].kind
    IN
    /\ req[r].pc = "loaded" /\ ~Joins(kind, s)
    /\ \/ /\ AlreadyRunning(kind, s)
          /\ req' = [req EXCEPT ![r] = [NoCall EXCEPT !.pc = "reopen"]]
       \/ /\ ~AlreadyRunning(kind, s) /\ s.status \notin AcceptedStatuses(kind)
          /\ req' = [req EXCEPT ![r] = NoCall]
    /\ UNCHANGED <<row, wf, cron, azure, accounts, nextOp, faults>>

\* ensureGen2Instance meters a VM that was found running.
Reopen(r) ==
    /\ req[r].pc = "reopen"
    /\ session' = TRUE
    /\ req' = [req EXCEPT ![r] = NoCall]
    /\ UNCHANGED <<row, wf, cron, azure, claim, nextOp, faults>>

\* Whether the row's generation may have a VM, recorded or not.
MayHaveVmRecorded(s) ==                 \* variant: a failed start left no VM
    s.status = "ready" \/ s.vm # None \/ (s.rs \in Active /\ s.lease = "expired")
MayHaveVm(s) ==
    \/ s.status = "ready" \/ s.vm # None
    \/ s.rs \in Active /\ s.lease = "expired"
    \/ s.rs = "failed" /\ s.kind = "start"

\* The generation a start must tear down before it creates its own VM.
CleanupFor(s) ==
    IF s.cleanup # None THEN s.cleanup
    ELSE IF MayHaveVm(s) THEN s.gen ELSE None

SameGeneration(kind, s) == s.gen        \* variant: a start reuses the generation
ClaimedGeneration(kind, s) == IF kind = "start" THEN s.gen + 1 ELSE s.gen

ClaimedRow(kind, s) ==
    [row EXCEPT
       !.status = IF kind = "delete" THEN "deleting" ELSE "provisioning",
       !.rs = IF kind = "start" THEN "queued" ELSE "stopping",
       !.gen = ClaimedGeneration(kind, s),
       !.cleanup = IF kind = "start" THEN CleanupFor(s) ELSE s.cleanup,
       !.op = <<nextOp, 0>>, !.kind = kind, !.lease = "held"]

MatchesAny(s) == Exists                 \* variant: an update by id alone
\* What claimOperation's update compares; the operation id is not among it.
ClaimMatches(s) ==
    Exists /\ row.gen = s.gen /\ row.rs = s.rs /\ row.status = s.status

WithinBounds(kind, s) ==
    nextOp + Spare <= MaxOps /\ (kind = "start" => s.gen < MaxGeneration)

\* claimOperation: the compare-and-set won, or lost and the request loads again
\* or gives up.
ClaimOperation(r) ==
    LET s == req[r].seen
        kind == req[r].kind
    IN
    /\ req[r].pc = "loaded" /\ ~Joins(kind, s) /\ ~AlreadyRunning(kind, s)
    /\ s.status \in AcceptedStatuses(kind)
    /\ \/ /\ ClaimMatches(s) /\ WithinBounds(kind, s)
          /\ row' = ClaimedRow(kind, s)
          /\ nextOp' = nextOp + 1
          /\ req' = [req EXCEPT ![r].pc = "claimed", ![r].seen = Job(row')]
       \/ /\ ~(ClaimMatches(s) /\ WithinBounds(kind, s))
          /\ \/ req' = [req EXCEPT ![r].pc = "load"]
             \/ req' = [req EXCEPT ![r] = NoCall]
          /\ UNCHANGED <<row, nextOp>>
    /\ UNCHANGED <<wf, cron, azure, accounts, faults>>

Dispatch(r) ==
    LET s == req[r].seen IN
    /\ req[r].pc = "claimed"
    /\ \/ Queued(s) /\ req' = [req EXCEPT ![r] = NoCall]
       \/ NotQueued(s) /\ req' = [req EXCEPT ![r].pc = "unqueued"]
    /\ UNCHANGED <<row, cron, azure, accounts, nextOp>>

MarkQueueFailure(r) ==
    LET s == req[r].seen IN
    /\ req[r].pc = "unqueued"
    /\ row' = IF Exists /\ row.op = s.op /\ row.gen = s.gen
              THEN [row EXCEPT !.status = "failed", !.rs = "failed",
                               !.lease = "none"]
              ELSE row
    /\ req' = [req EXCEPT ![r] = NoCall]
    /\ UNCHANGED <<wf, cron, azure, accounts, nextOp, faults>>

\* The platform ends the request after its claim.
RequestDies(r) ==
    /\ req[r].pc \in {"claimed", "unqueued"} /\ Fault
    /\ req' = [req EXCEPT ![r] = NoCall]
    /\ UNCHANGED <<row, wf, cron, azure, accounts, nextOp>>

-----------------------------------------------------------------------------
(* The cron: reconcileArmWorkspaceOperations.                              *)

\* A request is over within minutes of its claim, and a handoff within the
\* retries of its step: both well before the twenty minutes of a lease.
Dispatching(o) ==
    \/ \E r \in Requests : req[r].pc \in {"claimed", "unqueued"} /\ req[r].seen.op = o
    \/ \E p \in OpIds : NextId(p) = o /\ wf[p].pc \in {"activate", "signal"}

LeaseExpires ==
    /\ row.lease = "held" /\ ~Dispatching(row.op)
    /\ row' = [row EXCEPT !.lease = "expired"]
    /\ UNCHANGED <<wf, req, cron, azure, accounts, nextOp, faults>>

DueInProgress == row.rs \in Active      \* variant: failed ones are left alone
DueFailed ==                            \* variant: only failed ones
    row.rs = "failed" /\ row.kind \in {"stop", "delete"}
\* The rows the cron selects, once their lease or their retry delay is over.
Due == row.rs \in Active \/ DueFailed

Scan ==
    /\ cron.pc = "idle" /\ Exists /\ row.op # None /\ row.lease # "held" /\ Due
    /\ cron' = [pc |-> "scanned", seen |-> Job(row)]
    /\ UNCHANGED <<row, wf, req, azure, accounts, nextOp, faults>>

StillOwned(s) == Exists /\ row.op = s.op /\ row.gen = s.gen

ReplaceableNow(o) == wf[o].pc # "none"  \* variant: an expired lease is enough
Replaceable(o) == wf[o].pc \in Terminal

\* A live instance keeps its operation; an ended one is replaced under a new
\* id; a missing one is created again under the same id.
Inspect ==
    LET s == cron.seen IN
    /\ cron.pc = "scanned"
    /\ \/ /\ wf[s.op].pc # "none" /\ ~Replaceable(s.op)
          /\ row' = IF StillOwned(s) THEN [row EXCEPT !.lease = "held"] ELSE row
          /\ cron' = NoScan
          /\ UNCHANGED nextOp
       \/ /\ Replaceable(s.op) /\ StillOwned(s) /\ nextOp <= MaxOps
          /\ row' = [row EXCEPT !.op = <<nextOp, 0>>, !.lease = "held"]
          /\ cron' = [pc |-> "recreate", seen |-> [s EXCEPT !.op = <<nextOp, 0>>]]
          /\ nextOp' = nextOp + 1
       \/ /\ Replaceable(s.op) /\ ~StillOwned(s)
          /\ cron' = NoScan
          /\ UNCHANGED <<row, nextOp>>
       \/ /\ wf[s.op].pc = "none"
          /\ cron' = [cron EXCEPT !.pc = "recreate"]
          /\ UNCHANGED <<row, nextOp>>
    /\ UNCHANGED <<wf, req, azure, accounts, faults>>

Recreate ==
    /\ cron.pc = "recreate"
    /\ Queued(cron.seen) \/ NotQueued(cron.seen)
    /\ cron' = NoScan
    /\ UNCHANGED <<row, req, azure, accounts, nextOp>>

-----------------------------------------------------------------------------
(* Workflows: executeOperation and markOperationFailed.                    *)

Goto(o, pc) ==
    wf' = [wf EXCEPT ![o] = IF pc \in Terminal THEN [NoRun EXCEPT !.pc = pc]
                                               ELSE [@ EXCEPT !.pc = pc]]
Fails(o) == Goto(o, "failed")
\* A step that the platform runs again although it took effect.
Again(o) == Fault /\ UNCHANGED wf

Renewed == [row EXCEPT !.lease = "held"]

\* What provider.stop leaves of the generations gs: the VMs of `gone` are
\* deleted, and some of the others deallocated.  It may fail late, after the VM.
TearDown(gs, gone) ==
    \E off \in SUBSET (gs \ gone) :
        vm' = [g \in Generations |->
                 IF g \in gone THEN "absent"
                 ELSE IF g \in off /\ vm[g] = "on" THEN "off" ELSE vm[g]]

Targets(o) == {wf[o].gen, wf[o].cleanup} \ {None}

FirstStep(run) ==
    IF run.kind # "start" THEN "teardown"
    ELSE IF run.cleanup # None THEN "cleanup" ELSE "disk"

\* The checkpoint "input": the fence, the entitlement of a start, the snapshot.
Input(o) ==
    LET run == wf[o] IN
    /\ run.pc = "input"
    /\ \/ /\ Current(o) /\ (run.kind = "start" => claim) /\ NoFault
          /\ wf' = [wf EXCEPT
                      ![o].pc = FirstStep(run),
                      ![o].in = [rs |-> row.rs, vm |-> row.vm,
                                 disk |-> row.disk]]
       \/ ~(Current(o) /\ (run.kind = "start" => claim)) /\ Fails(o) /\ NoFault
       \/ Fails(o) /\ Fault
    /\ UNCHANGED <<row, req, cron, azure, accounts, nextOp>>

\* A start first tears down the generation it replaces.
Cleanup(o) ==
    /\ wf[o].pc = "cleanup"
    /\ \/ TearDown({wf[o].cleanup}, {wf[o].cleanup}) /\ Goto(o, "record") /\ NoFault
       \/ /\ \E gone \in SUBSET {wf[o].cleanup} : TearDown({wf[o].cleanup}, gone)
          /\ Fails(o) /\ Fault
    /\ UNCHANGED <<row, req, cron, disk, accounts, nextOp>>

\* The checkpoint "cleanup-record".
Record(o) ==
    /\ wf[o].pc = "record" /\ NoFault
    /\ IF Current(o)
       THEN /\ row' = [row EXCEPT !.cleanup = None]
            /\ session' = FALSE /\ Goto(o, "disk")
       ELSE Fails(o) /\ UNCHANGED <<row, session>>
    /\ UNCHANGED <<req, cron, azure, claim, nextOp>>

\* A run that resumes after its VM was recorded does not prepare it again.
Resumes(o) == wf[o].in.rs = "booting" /\ wf[o].in.vm # None

\* createDisk on a first start; requireDisk on every later one.
PrepareDisk(o) ==
    LET run == wf[o] IN
    /\ run.pc = "disk"
    /\ \/ Resumes(o) /\ Goto(o, "boot") /\ NoFault /\ UNCHANGED disk
       \/ /\ ~Resumes(o) /\ ~run.in.disk
          /\ disk' = TRUE /\ Goto(o, "provision") /\ NoFault
       \/ /\ ~Resumes(o) /\ run.in.disk
          /\ IF disk /\ Attached \subseteq {run.gen}
             THEN Goto(o, "provision") ELSE Fails(o)
          /\ NoFault /\ UNCHANGED disk
       \/ Fails(o) /\ Fault /\ disk' \in {disk, disk \/ ~run.in.disk}
    /\ UNCHANGED <<row, req, cron, vm, accounts, nextOp>>

\* updateProgress("provisioning") records the disk.
Provision(o) ==
    /\ wf[o].pc = "provision"
    /\ IF Current(o)
       THEN /\ row' = [Renewed EXCEPT !.rs = "provisioning", !.disk = TRUE]
            /\ Goto(o, "deploy")
       ELSE Fails(o) /\ UNCHANGED row
    /\ UNCHANGED <<req, cron, azure, accounts, nextOp, faults>>

\* deployVm reuses the generation's own VM or creates it on the free disk; a
\* deployment that fails may leave the VM behind.
Deploy(o) ==
    LET g == wf[o].gen
        possible == vm[g] # "absent" \/ (disk /\ Attached = {})
        created == [vm EXCEPT ![g] = IF @ = "absent" THEN "on" ELSE @]
    IN
    /\ wf[o].pc = "deploy"
    /\ \/ possible /\ vm' = created /\ Goto(o, "boot") /\ NoFault
       \/ ~possible /\ Fails(o) /\ NoFault /\ UNCHANGED vm
       \/ /\ Fails(o) /\ Fault
          /\ UNCHANGED vm \/ (possible /\ vm' = created)
    /\ UNCHANGED <<row, req, cron, disk, accounts, nextOp>>

\* updateProgress with the VM's id, at "booting" and in every later phase.
Boot(o) ==
    /\ wf[o].pc = "boot"
    /\ \/ /\ Current(o) /\ NoFault
          /\ row' = [Renewed EXCEPT !.rs = "booting", !.vm = wf[o].gen]
          /\ Goto(o, "session")
       \/ ~Current(o) /\ Fails(o) /\ NoFault /\ UNCHANGED row
       \/ Fails(o) /\ Fault /\ UNCHANGED row
    /\ UNCHANGED <<req, cron, azure, accounts, nextOp>>

\* After the update, the VM's power state decides whether it is metered.
Session(o) ==
    /\ wf[o].pc = "session"
    /\ session' = (session \/ vm[wf[o].gen] = "on")
    /\ Goto(o, "health")
    /\ UNCHANGED <<row, req, cron, azure, claim, nextOp, faults>>

\* waitForHealth: every failed attempt reports progress, so a superseded run
\* finds out; it gives up at its deadline.
Health(o) ==
    /\ wf[o].pc = "health"
    /\ \/ vm[wf[o].gen] = "on" /\ Goto(o, "policy") /\ NoFault
       \/ ~Current(o) /\ Fails(o) /\ NoFault
       \/ vm[wf[o].gen] # "on" /\ Fails(o) /\ NoFault
       \/ Fails(o) /\ Fault
    /\ UNCHANGED <<row, req, cron, azure, accounts, nextOp>>

Heartbeat(o) ==
    /\ wf[o].pc = "health" /\ Current(o) /\ row' = Renewed
    /\ UNCHANGED <<wf, req, cron, azure, accounts, nextOp, faults>>

\* The checkpoint "initialize-policy".
Policy(o) ==
    /\ wf[o].pc = "policy"
    /\ \/ Current(o) /\ claim /\ Goto(o, "init") /\ NoFault
       \/ ~(Current(o) /\ claim) /\ Fails(o) /\ NoFault
    /\ UNCHANGED <<row, req, cron, azure, accounts, nextOp>>

\* initializeGen2ArmWorkspace talks to the guest of this generation.
Initialize(o) ==
    /\ wf[o].pc = "init"
    /\ \/ vm[wf[o].gen] = "on" /\ Goto(o, "complete") /\ NoFault
       \/ vm[wf[o].gen] # "on" /\ Fails(o) /\ NoFault
       \/ Fails(o) /\ Fault
    /\ UNCHANGED <<row, req, cron, azure, accounts, nextOp>>

ReleasedKeepsKind ==                    \* variant: the row keeps its last kind
    [row EXCEPT !.op = None, !.lease = "none", !.cleanup = None]
Released == [row EXCEPT !.op = None, !.kind = None, !.lease = "none",
                        !.cleanup = None]

\* The transaction "complete".
Complete(o) ==
    /\ wf[o].pc = "complete"
    /\ IF Current(o) /\ claim
       THEN /\ row' = [Released EXCEPT !.status = "ready", !.rs = "ready",
                                       !.vm = wf[o].gen, !.disk = TRUE]
            /\ session' = TRUE
            /\ (Goto(o, "done") /\ NoFault) \/ Again(o)
       ELSE Fails(o) /\ NoFault /\ UNCHANGED <<row, session>>
    /\ UNCHANGED <<req, cron, azure, claim, nextOp>>

\* stopResourceGenerations of a stop or a delete tries every generation.
Teardown(o) ==
    /\ wf[o].pc = "teardown"
    /\ \/ /\ TearDown(Targets(o), Targets(o)) /\ NoFault
          /\ Goto(o, IF wf[o].kind = "stop" THEN "finish" ELSE "deleteDisk")
       \/ /\ \E gone \in SUBSET Targets(o) : TearDown(Targets(o), gone)
          /\ Fails(o) /\ Fault
    /\ UNCHANGED <<row, req, cron, disk, accounts, nextOp>>

\* The last transaction of a stop.
Finish(o) ==
    /\ wf[o].pc = "finish"
    /\ IF Current(o)
       THEN /\ row' = [Released EXCEPT !.status = "stopped", !.rs = "stopped",
                                       !.vm = None]
            /\ session' = FALSE /\ claim' = FALSE
            /\ (Goto(o, "done") /\ NoFault) \/ Again(o)
       ELSE Fails(o) /\ NoFault /\ UNCHANGED <<row, accounts>>
    /\ UNCHANGED <<req, cron, azure, nextOp>>

\* deleteDisk spares an attached disk, and does nothing when no disk was
\* recorded when the run began.
DeleteDisk(o) ==
    /\ wf[o].pc = "deleteDisk"
    /\ \/ ~wf[o].in.disk /\ Goto(o, "erase") /\ NoFault /\ UNCHANGED disk
       \/ /\ wf[o].in.disk /\ Attached = {}
          /\ disk' = FALSE /\ Goto(o, "erase") /\ NoFault
       \/ /\ wf[o].in.disk /\ disk /\ Attached # {}
          /\ Fails(o) /\ NoFault /\ UNCHANGED disk
       \/ Fails(o) /\ Fault /\ UNCHANGED disk
    /\ UNCHANGED <<row, req, cron, vm, accounts, nextOp>>

\* The last transaction of a delete: a lost fence rolls all of it back.
Erase(o) ==
    /\ wf[o].pc = "erase"
    /\ IF Current(o)
       THEN /\ row' = [FreshRow EXCEPT !.status = "gone", !.gen = row.gen]
            /\ session' = FALSE /\ claim' = FALSE
            /\ (Goto(o, "done") /\ NoFault) \/ Again(o)
       ELSE Fails(o) /\ NoFault /\ UNCHANGED <<row, accounts>>
    /\ UNCHANGED <<req, cron, azure, nextOp>>

NeverLeft(o) == FALSE                   \* variant: no early return
\* The generation belongs to another operation by now, or to none.
LeftToOthers(o) == Exists /\ row.gen = wf[o].gen /\ row.op # o

\* markOperationFailed leaves the row to another operation of its generation,
\* but cleans up after a start whose generation was replaced.
Failed(o) ==
    /\ wf[o].pc = "failed"
    /\ Goto(o, IF LeftToOthers(o) THEN "done"
               ELSE IF wf[o].kind = "start" THEN "undo" ELSE "mark")
    /\ UNCHANGED <<row, req, cron, azure, accounts, nextOp, faults>>

Undo(o) ==
    /\ wf[o].pc = "undo"
    /\ \/ /\ TearDown(Targets(o), Targets(o)) /\ NoFault
          /\ wf' = [wf EXCEPT ![o].pc = "mark", ![o].undone = TRUE]
       \/ /\ \E gone \in SUBSET Targets(o) : TearDown(Targets(o), gone)
          /\ Goto(o, "mark") /\ Fault
    /\ UNCHANGED <<row, req, cron, disk, accounts, nextOp>>

FailedForAll(kind) == "failed"          \* variant: a failed delete reopens the row
FailedStatus(kind) == IF kind = "delete" THEN "deleting" ELSE "failed"

\* The guarded update of markOperationFailed; without it the workflow errors.
Mark(o) ==
    /\ wf[o].pc = "mark"
    /\ \/ /\ Current(o) /\ NoFault
          /\ row' = [row EXCEPT
               !.status = FailedStatus(wf[o].kind), !.rs = "failed", !.lease = "none",
               !.vm = IF wf[o].undone THEN None ELSE @,
               !.cleanup = IF wf[o].undone THEN None ELSE @]
          /\ Goto(o, IF wf[o].undone THEN "release" ELSE "done")
       \/ ~Current(o) /\ Goto(o, "done") /\ NoFault /\ UNCHANGED row
       \/ Goto(o, "errored") /\ Fault /\ UNCHANGED row
    /\ UNCHANGED <<req, cron, azure, accounts, nextOp>>

\* endComputeSession and releaseFreeWorkspaceCompute follow the update.
Release(o) ==
    /\ wf[o].pc = "release" /\ Goto(o, "done")
    /\ session' = FALSE /\ claim' = FALSE
    /\ UNCHANGED <<row, req, cron, azure, nextOp, faults>>

-----------------------------------------------------------------------------
(* Continuations: arm-workflow-continuation.ts.                            *)

\* A run that advanced past its own start re-reads its state as a fresh run;
\* "booting" stands for four phases, so a run that began in one of them may
\* or may not have left it.
Compacts(o) ==
    IF wf[o].pc = "undo" \/ row.rs # "booting" THEN {FALSE}
    ELSE IF wf[o].in.rs # "booting" THEN {TRUE} ELSE BOOLEAN

NoneHanded(o, compact) == None          \* variant: the generation to clean is lost
HandedCleanup(o, compact) == IF compact THEN row.cleanup ELSE wf[o].cleanup

\* claim of the next id, when a run's request budget is spent.  A run that
\* lost the row errors.  From here on the parent only carries its child's
\* parameters.
Handoff(o) ==
    LET run == wf[o] IN
    /\ run.pc \in HandoffPoints /\ o[2] < MaxParts
    /\ \/ /\ Current(o)
          /\ row' = [Renewed EXCEPT !.op = NextId(o)]
          /\ \E compact \in Compacts(o) :
               wf' = [wf EXCEPT
                 ![o].pc = "activate",
                 ![o].cleanup = HandedCleanup(o, compact),
                 ![o].resume = IF compact THEN "input"
                               ELSE IF run.pc = "undo" THEN "failed" ELSE run.pc]
       \/ ~Current(o) /\ Goto(o, "errored") /\ UNCHANGED row
    /\ UNCHANGED <<req, cron, azure, accounts, nextOp, faults>>

\* The child waits for its parent; a cron may have created it already.
Activate(o) ==
    /\ wf[o].pc = "activate"
    /\ \/ /\ wf[NextId(o)].pc = "none" /\ NoFault
          /\ wf' = [wf EXCEPT ![o].pc = "signal",
                              ![NextId(o)] = [wf[o] EXCEPT !.pc = "waiting",
                                                           !.undone = FALSE]]
       \/ wf[NextId(o)].pc # "none" /\ Goto(o, "signal") /\ NoFault
       \/ Goto(o, "errored") /\ Fault
    /\ UNCHANGED <<row, req, cron, azure, accounts, nextOp>>

Signal(o) ==
    /\ wf[o].pc = "signal"
    /\ \/ /\ wf' = [wf EXCEPT
                      ![o] = [NoRun EXCEPT !.pc = "done"],
                      ![NextId(o)].pc = IF @ = "waiting"
                                        THEN wf[NextId(o)].resume ELSE @]
          /\ NoFault
       \/ Goto(o, "errored") /\ Fault
    /\ UNCHANGED <<row, req, cron, azure, accounts, nextOp>>

\* The child gives up after five minutes without the event: its parent ended
\* in error, or was too slow.
WaitTimesOut(o) ==
    /\ wf[o].pc = "waiting" /\ Fails(o)
    /\ \/ wf[<<o[1], o[2] - 1>>].pc = "errored" /\ NoFault
       \/ Fault
    /\ UNCHANGED <<row, req, cron, azure, accounts, nextOp>>

-----------------------------------------------------------------------------
\* Azure stops a VM that CoDev did not ask to stop.
PowerOff ==
    /\ \E g \in Generations : vm[g] = "on" /\ vm' = [vm EXCEPT ![g] = "off"]
    /\ Fault
    /\ UNCHANGED <<row, wf, req, cron, disk, accounts, nextOp>>

RequestStep(r) ==
    \/ LoadRow(r) \/ Join(r) \/ Decline(r) \/ Reopen(r) \/ ClaimOperation(r)
    \/ Dispatch(r) \/ MarkQueueFailure(r)

StartStep(o) ==
    \/ Cleanup(o) \/ Record(o) \/ PrepareDisk(o) \/ Provision(o) \/ Deploy(o)
    \/ Boot(o) \/ Session(o) \/ Health(o) \/ Policy(o) \/ Initialize(o)
    \/ Complete(o)
StopStep(o) == Teardown(o) \/ Finish(o) \/ DeleteDisk(o) \/ Erase(o)
FailureStep(o) == Failed(o) \/ Undo(o) \/ Mark(o) \/ Release(o)
ContinuationStep(o) == Activate(o) \/ Signal(o) \/ WaitTimesOut(o)
RunStep(o) ==
    Input(o) \/ StartStep(o) \/ StopStep(o) \/ FailureStep(o)
    \/ ContinuationStep(o)
CronStep == Scan \/ Inspect \/ Recreate

Next ==
    \/ \E r \in Requests :
         Reserve(r) \/ Ask(r) \/ Cancel(r) \/ RequestStep(r) \/ RequestDies(r)
    \/ LeaseExpires \/ CronStep \/ PowerOff
    \/ \E o \in OpIds : RunStep(o) \/ Heartbeat(o) \/ Handoff(o)

Spec == Init /\ [][Next]_vars

\* Requests that were accepted run on, the platform runs every workflow to its
\* end, leases run out and the cron comes round.
Fairness ==
    /\ \A r \in Requests : WF_vars(RequestStep(r))
    /\ \A o \in OpIds : WF_vars(RunStep(o))
    /\ WF_vars(LeaseExpires) /\ WF_vars(CronStep)

FairSpec == Spec /\ Fairness

=============================================================================
