# CoDev in TLA+

CoDev gives a team shared cloud workspaces: a Next.js web application
(`apps/web`) with a Postgres database, a Cloudflare worker for durable
workflows, two runtime backends (Azure VMs, one per workspace, driven over ARM;
and Firecracker micro-VMs behind a Rust orchestrator) and a guest daemon in each
VM. This directory models the parts whose correctness depends on the order in
which independent actors take their steps, checks them with TLC on small
instances and proves with TLAPS what matters most for every instance.

Paths below are relative to the repository; `gen2/x.ts` is
`apps/web/lib/gen2/x.ts`.

## 1. Inventory

| | part | state | operations | hard behaviour | what makes it correct |
|---|---|---|---|---|---|
| A | ARM runtime operations: `gen2/runtime-operations.ts`, `arm-workflow-*.ts` | the `gen2_workspaces` row (status, runtime status, generation, operation id and kind, lease, VM, disk, generation to clean); workflow instances | queue start/stop/delete, run them step by step, hand over to a continuation, the minute cron that resumes them | requests, several workflow runs, retried steps and the cron race on one row; calls that fail half-way; a request that dies | the VM of a ready row is not taken down; one start per generation; no VM or disk forgotten; the disk lives as long as the workspace; every operation ends |
| B | ARM provider: `runtime/arm-workspace-provider.ts` | Azure VM, NIC, disk; tunnels and routes | create disk, deploy, boot, health, stop, delete disk | partial failure, late answers | as A |
| C | Compute claims: `gen2/free-compute-*.ts`, `billing/gate.ts`, `free-active-workspace.ts` | a claim row per workspace with a reservation, owner locks | reserve, cancel, check before completing, release | several workspaces of one owner, check then act over transactions | at most the plan's number of workspaces active; a claim is neither leaked nor lost |
| D | Compute sessions and quota: `gen2/compute-quota.ts`, `compute-reconcile.ts` | open and closed metering intervals | start, observe, end, bootstrap; five-minute cron; stop of an exhausted owner | the cron acts on rows read earlier, asks the host in between | a running VM is metered, a stopped one is not for long; whoever has used up the pool is stopped |
| E | Gen 2 rows on Firecracker: `gen2/instance.ts`, `workspaces.ts` | the same row, without operations; `updatedAt` as version and as lease | open, stop, delete, transfer; take over a stale start | a start that dies or outlives its lease; calls to the orchestrator between read and commit | one actor per lease; a stopped row has no guest; no row is stuck |
| F | Membership: `gen2/workspaces.ts`, `workspace-owner-transfer.ts`, `workspace-share-invite.ts`, `workspace-invite-access.ts`, `auth/account-deletion*.ts` | members and roles, the share link, owner, accounts | create, join, add, change role, remove, transfer, delete | role changes race ownership transfer and removal; a link presented before a removal | nobody else has the owner's role; only the owner of the moment decides; a removed member stays out |
| G | Firecracker orchestrator: `services/orchestrator/src/backend/firecracker.rs` | machines, the provision lock, live disks, checkpoints, recovery files, taps, the shutdown reservation | create, connect, hibernate, destroy, discard, reap, recover, host and service shutdown | a job fails, is hung up or dies at any await; requests take no lock | acknowledged work survives; a served machine owns its jail and tap; the reaper waits for requests |
| H | Guest daemon: `services/orchestrator/src/guest.rs` | terminals, agent processes, chunk buffers | start, read, acknowledge, cancel | lost and repeated acknowledgements, full buffers | output in order, once |
| I | Agent turns: `gen2/agent.ts`, `turns.ts`, `turn-chunks.ts`, `arm-workspace-turn-poll.ts`, `superset-agent-runtime.ts`, `superset-runs.ts`, `providers/credential-seat.ts` | turn rows, cursor, transcript, runs, seats of credentials | start, poll by tab and cron, append, finish, cancel, monitor | two pollers, a poll racing the exit, a host or VM lost under a turn, a seat that goes stale | transcript and reply once and in order; every run settles; a seat is its holder's |
| J | Collaboration: `gen2/collaboration-*.ts`, `gen2/superset.ts`, `collaboration/text-merge.ts`, `yjs-document.ts` | Yjs documents and the file's last revision in Postgres, the Redis lock, rooms, replicas of the tabs, the file | edit, persist, autosave, subscribe, reconcile, choose | the host is asked between load and save; agents write the file meanwhile; sockets close | no edit lost or doubled; nothing overwritten; editors agree; edits reach the file |
| K | Sign-in, billing webhooks, shared chat, infrastructure scripts, UI | various | various | token refresh and webhook order; otherwise mostly single statements | see `PROJECT.json` and section 7 |

How they interact: the routes of A reserve a claim in C, then move the row with
a compare-and-set and create a workflow; the workflow calls B, opens a session
in D, checks C again before it may complete, and releases C and D when it ends.
The cron of A reads the row and the workflow platform and creates or replaces
instances; the cron of D reads the row and the host and opens, ends and stops.
F changes the owner on which C and D account, and deleting a workspace is an
operation of A or E. E and G are the other backend behind the same row: E asks G
for a machine and commits what it was told. I and J need a ready workspace; I
talks to H through B's tunnel or G's proxy, and the poll of a turn is also what
brings the agent's changes of files into the documents of J.

`PROJECT.json` lists every component with its files, and under `hazards` the
places where this code can go wrong in ways a test would hardly reach, each with
the properties that watch it or the reason why none does.

## 2. Modules

| module | what it is |
|---|---|
| `ArmLifecycle` | A with B: one workspace, its row, requests, workflows, cron, Azure |
| `ArmProperties`, `ArmInvariant`, `ArmLifecycleProofs` | what it promises; the inductive invariant; theorems and lemmas |
| `ComputeClaims` | C with the transfer of F: several workspaces and owners, their claims and locks |
| `ClaimsProperties`, `ClaimsProofs` | what it promises with the inductive invariant; theorems and lemmas |
| `FirecrackerHost` | G: machines and files of all workspaces of one host |
| `DurableWork` | what G promises to the owner of a durable workspace: one piece of work, no machines or files |
| `FirecrackerProperties` | what G promises, with the mapping of its state to `DurableWork` |
| `HostInvariant`, `HostProofs` | the inductive invariant of G; theorems and lemmas |
| `WorkspaceRows` | E: the row, its lease, the open session and the guest; members' requests |
| `ComputeCron` | EXTENDS it with D's cron, the host and time, and composes them |
| `RowProperties`, `RowProofs` | what they promise and the fairness; theorems and lemmas |
| `TurnRecords` | the records every turn has: its row, replies and the seat of the credential |
| `NativeTurns` | EXTENDS it: turns of the guest's `codex exec`, with H's sessions and I's cursor |
| `AgentRuns` | EXTENDS `TurnRecords` as well: turns of a Superset terminal agent, with cancel and monitor |
| `AgentTurns` | composes the two: both kinds of turn at once, one seat, one pool of pollers |
| `Transcript` | what a turn on the ARM runtime promises: output kept in order, told once, whole |
| `TurnProperties` | what turns promise, the mapping to `Transcript`, the fairness |
| `TurnProofs`, `TurnSteps` | theorems and lemmas: the invariant; then what every step does, with the refinement |
| `Membership` | F: accounts, members, the owner, the share link, requests under way |
| `MemberProperties`, `MemberProofs` | what it promises; the inductive invariant, theorems and lemmas |
| `SharedText` | texts and Yjs documents as sets of edits: join, type, merge, replace |
| `SharedFile` | J: one file, its row, lock, jobs and tabs |
| `DocProperties`, `DocInvariant`, `DocProofs` | what it promises; the inductive invariants; theorems and lemmas |
| `MC*` | the instances TLC checks (symmetry and bounds; the `.cfg` files give the constants) |

### ArmLifecycle and the code

An action is what happens between two awaits another actor can observe: one SQL
statement or transaction, or one provider call. Its variables:

| variable | in the code |
|---|---|
| `row` | the columns of `gen2_workspaces` the operations read and write; `gone` after the row is deleted. A lease is `none`, `held` or `expired`; a failed operation's retry delay may be over at any time |
| `wf` | one workflow instance per operation id: the step it is at, its parameters, and the row it read first (`in`), which a retried step replays from the platform's step cache |
| `req` | an API request: the row it read (`seen`) and how far it got |
| `cron` | `reconcileArmWorkspaceOperations`: the row it selected, and whether it is asking for or re-creating an instance |
| `vm`, `disk` | Azure: a VM per generation, one disk |
| `claim`, `session` | the claim and the open session of this workspace |
| `nextOp`, `faults` | fresh operation ids, and how many faults happened |

| actions | in the code |
|---|---|
| `Reserve`, `Ask`, `LoadRow`, `Cancel` | the start and stop routes up to `loadRuntimeRow`: the claim, the membership read, the cancellation of an unstarted reservation |
| `Join`, `Decline`, `Reopen`, `ClaimOperation` | `joinExistingOperation`, the early returns of `queueAzureWorkspace*`, reopening a ready one, and `claimOperation`'s compare-and-set |
| `Dispatch`, `MarkQueueFailure`, `RequestDies` | `createOrJoinWorkflow`, its failure path, and an invocation cut off |
| `Scan`, `Inspect`, `Recreate`, `LeaseExpires` | the cron: its selection, `binding.get` and status with the replacement id, and creating the instance |
| `Input` ... `Complete` | a start: `executeOperation`'s steps in order, each may fail, and each whose result is lost runs again |
| `Teardown` ... `Erase` | a stop, and a delete after it |
| `Failed`, `Undo`, `Mark`, `Release` | `markOperationFailed` with its cleanup and the two releases after its update |
| `Handoff`, `Activate`, `Signal`, `WaitTimesOut` | `arm-workflow-continuation.ts`: claiming the next id, creating the child, waking it, the child giving up |
| `PowerOff` | Azure stops a VM on its own |

Not in the model, and why: the phases between the VM's creation and readiness
are one (`booting`), since the code treats them alike apart from where a restart
resumes; tunnels and network come and go with the VM; health and idle endpoints
change only an activity time; a baked deployment that fails or finishes after
its step returned is out (the VM exists when the step returns or fails), and so
is the extra `provisioning` progress of baked mode; a transient failure of
`binding.get` in the cron only delays it. `Cancel` may follow a re-read of the
row that the code does once, an over-approximation. The membership read of a
route is part of `Ask`.

### ComputeClaims and the code

`ArmLifecycle` looks at one workspace in detail; `ComputeClaims` looks at several
of several owners and keeps, of their operations, what reads or writes a claim.
The plan's `activeWorkspaceLimit` is enforced by counting an owner's other
workspaces and claims under a lock on the owner's row in `users`
(`lockComputeOwners`), while claims are deleted without it.

| variable | in the code |
|---|---|
| `owner`, `phase`, `op`, `recorded` | of each workspace: `owner_id`, the two statuses as one value, the operation's kind, whether a VM id is recorded |
| `claims` | `gen2_free_compute_claims`, (owner, workspace) pairs |
| `lock` | who holds the lock on a user's row: a request, or a run that is about to complete |
| `req` | a start, cancellation or transfer: where it is, its workspace, the owner it read first, the owner to come |
| `run` | where the workflow of the workspace's current operation is |
| `late` | how many have decided to delete the workspace's claims and have not done so: a failed start after its cleanup, the compute cron after it saw a stopped workspace |
| `ops` | operations so far, for the bound |

| actions | in the code |
|---|---|
| `Ask`, `Acquire` | reading the owner, then taking the lock of each owner in the order of their ids |
| `Reserve`, `Insert` | `reserveFreeWorkspaceCompute`: the second read and the count, then the claim; other transactions run in between |
| `Cancel`, `Transfer` | `cancelFreeComputeReservation`; `prepareWorkspaceOwnerTransfer` with the new `owner_id` |
| `GiveUp` | any refusal, a lost connection, a dead request |
| `QueueStart`, `QueueStop`, `QueueDelete`, `QueueFails`, `Recreate` | `claimOperation`, `markQueueFailure`, the lifecycle cron |
| `Input`, `Progress`, `Check`, `Complete` | a start: the check of the claim, `updateProgress`, and the transaction of 'complete' as its two halves |
| `StartFails`, `Undo`, `Release` | `markOperationFailed`; the claim goes in a later statement |
| `Observe` | `observeSession` of the compute cron |
| `TeardownFails`, `Dies`, `Finish`, `Erase` | a stop or a delete |

`phase` "revived" is a row that `markQueueFailure` marked failed although its
workflow exists, and whose runtime status `updateProgress` then moved on: it
counts as active, may be transferred, and completes if the claim is still there.
A row's lock is held from `Reserve` to `Insert` (`RowFree`); every other holder
of a row's lock needs one step. Not in the model: a change of plan, several
stops and starts in one call (the switch endpoint is a `QueueStop` and a start),
and sessions, which only add refusals here.

### FirecrackerHost and the code

Everything that makes or takes down a machine holds the mutex `provision`, so
there is one such job at a time, with a step for every await between two
changes. Requests take no lock: they hold an `Arc` to the machine.

| variable | in the code |
|---|---|
| `running`, `vm`, `tap` | the map of machines, `RunningMachine` (its process, paused, hibernating, parked, and `due`: what the reaper finds when it compares times), the tap of a slot |
| `jail`, `snap`, `prev`, `marker` | the files: the jail with live disks and `recovery.json`, the checkpoint, the one before it, the marker of an initialized workspace |
| `job` | who holds `provision`: create, destroy, reap, shutdown, and the await it is at |
| `req` | a request to a guest, up to its checks of the flag and of the process |
| `pending` | `host_shutdown_pending` |
| `cache` | what the guest of a machine has acknowledged and not yet written to its disk |
| `synced`, `kept` | history: the work of members that was last written, and that of the last checkpoint |

| actions | in the code |
|---|---|
| `CreateExisting`, `BeginCreate`, `Recover` ... `Insert` | `create` and `provision`: an existing machine, recovery of interrupted disks, the choice of checkpoint or fresh disk, slot and tap, boot, readiness, `recovery.json`, the marker, the map |
| `DropPrevious`, `Demote`, `Promote` | the swap of checkpoints in `recover_interrupted_workspace` and `hibernate_machine` |
| `BeginDestroy`, `BeginReap`, `LoadPolls`, `CountReferences` | `destroy`, and `reap_expired` with its two loads of the counters |
| `Flush` ... `Unmap` | `hibernate_machine` and `stop_machine`: `flush_workspace` in the guest, pause, copy to staging, swap, kill, remove, forget |
| `Park`, `DiscardSnapshot`, `BeginHostShutdown` ... `Restart` | the remaining endpoints, the power-off of an idle host and the shutdown of the service |
| `Fail*`, `HangUp`, `Crash` | a failing call at each await, a caller that hangs up (its future is dropped), the death of the service |
| `Arrive` ... `Clean`, `Done` | `machine_with_activity`, with the eviction of a machine that looks dead; the end of the request |
| `Work`, `Resume` | a request that changes the guest's disk, answered once the change is in the guest's memory; `resume` |
| `WriteBack` | the guest's kernel writes a change to the disk in its own time |
| `TimePasses`, `GuestExits` | what the reaper waits for; a guest's process that ends |

A disk is how much of the members' work it holds, counted from a fresh checkout.
`exec`, terminal input and the Superset file requests of `guest.rs` are answered
without a sync, `write_file` syncs the file and not the directory that names it:
so an answer says only that the change is in the guest's memory (`cache`). It gets to
the disk by `WriteBack`, or by `Flush` (`sync` in `flush_workspace`), which comes
before every pause of a durable machine. Between `Flush` and `Pause` a guest still
answers: requests that hold a reference from before, and, under a destroy, new ones
too, because only the reaper raises a flag and only a shutdown of the service has
closed the server. `resume` is modelled for the sandbox of a provider's sign-in, its
one caller, which is ephemeral and is never paused. The guest's disks are files of
the host: a host that loses power may lose what its own kernel has not written
(nothing in the code syncs the images), and is left out; `Crash` is the end of the
service, which takes its guests along and leaves the files.
`TornCount` and `LateRequests` are constants for two windows of the code that
break it (section 5); the run sets both to FALSE, so its results hold for a host
on which a request does not end between two adjacent loads of the reaper, and on
which a request's first checks do not outlast the boot of a machine.

### WorkspaceRows, ComputeCron and the code

| variable | in the code |
|---|---|
| `row` | status and owner of the `gen2_workspaces` row; `holder` and `stale` stand for `updatedAt`: whose commit would still match it, and whether it is old enough to be taken over |
| `session` | the owner of the open row of `gen2_compute_sessions` |
| `guest`, `host` | whether the orchestrator has the guest; whether Azure runs the host |
| `spent` | owners whose pool is used up |
| `op` | what each request and the cron are at, with what they have read |

| actions | in the code |
|---|---|
| `Opens`, `Expires`, `Asks`, `Attaches`, `Claims` | `ensureGen2Instance` up to `claimProvisioning`, with the takeover of a stale start |
| `Wakes` ... `Commits` | the start: waking the host, looking for a current machine, creating one, the session, the commit on `updatedAt` |
| `Stops`, `Destroys`, `EndsSession`, `CommitsStop` | `stopGen2Instance` |
| `Deletes`, `Reaches`, `Removes`, `Unmeters`, `Erases` | the deletion of a workspace |
| `Transfers`, `Touches` | a change of owner; what else refreshes `updatedAt` |
| `Begins` ... `Exhausts` | a round of `reconcileComputeQuota`: bootstrap, select, observe, stop of exhausted owners |
| `Hibernates`, `Deallocates`, `Spends`, `Renews`, `Ages`, `Dies` | the reaper and the host (in `FirecrackerHost` in detail), minutes, leases that grow old, a process that ends |

### AgentTurns and the code

Every handler (the request that starts a turn, a poll by the tab or the cron,
a cancel, a check of the monitor) is a program counter with one step per await.

| variable | in the code |
|---|---|
| `path`, `runtime` | native or Superset, ARM or Firecracker: decided before the turn begins |
| `row`, `replies`, `cursor`, `output` | the row of `gen2_agent_turns`, the assistant messages, `next_sequence`, the committed chunks |
| `lock` | the advisory lock of `arm-workspace-turn-poll.ts` |
| `seat` | the row of the credential's seat: holder, and whether its heartbeat is fresh |
| `guest` | the session of `codex_execs`: chunks buffered, end of output, exit code |
| `after` | how far a tab has read on the Firecracker path |
| `run`, `agent` | the row of `gen2_superset_runs`, the terminal on the host |
| `ahead` | how many open turns, of all members and workspaces, the cron takes before this one |
| `start`, `poll`, `cancel`, `monitor` | the handlers |

| actions | in the code |
|---|---|
| `NativeBegins` ... `NativeUnseats`, `NativeCancel` | `startGen2AgentTurn` in `agent.ts` with the seat it waits for, claims, retags or gives back |
| `ArmPollBegins` ... `PollReturnsSeat` | the durable poll, `pollPersistedArmTurn`: lock, ask with the acknowledgement, one transaction of chunks, cursor and exit, release of the seat |
| `DirectPoll*` | the poll on Firecracker: ask, save (`recordGen2TurnChunks`, `savePoll`), reply, answer |
| `GuestStarts` ... `GuestLost` | `guest.rs`: start of a session, reading the PTY, reaping; a VM that is replaced |
| `RunRegisters` ... `RunRetried` | `startSession` and the row of the turn |
| `HostLaunches`, `AgentEnds`, `HostLost` | the bridge of the host |
| `RunPoll*`, `Cancel*`, `Monitor*` | poll, cancel and monitor of `superset-agent-runtime.ts` |
| `SeatGoesStale`, `RoomReply` | time; a chat room's reply that takes or returns the seat |
| `Reached`, `Served`, `CronMeetsLock` | the batch of `reconcileArmWorkspaceTurns`: whose turn it is, a turn ahead that is polled, a poll that meets another's lock |
| `StartDies`, `PollDies`, `HandlerDies`, `VmStops` | mishaps |

The chunks of a turn are their sequence numbers: a transcript that is `1..n` has
no gap and no repetition. A text longer than `GEN2_TURN_OUTPUT_LIMIT` loses its
middle on purpose: `capTurnOutput` keeps the head and the tail, half of the limit
each, with a mark between them. The model cuts at whole chunks (`Half` of them on
either side, `Gap` for the mark), where the code cuts at a character, and
`Transcript` promises the text as far as the cap leaves it (`Upto`).

What a reply says (the parser of the CLI's events), the continuation on another
CLI, reconciling by a member's visit and input to a running agent are left out:
a finished turn always writes one reply, where the code writes none if the body
is empty or the CLI is too old for the model, and starts the turn again on a
fallback model in the second case. The seat is that of the member who polls. The
cron takes turns that nobody has updated for 60 seconds; the model has no clock
and lets it come at any time.

### SharedFile and the code

| variable | in the code |
|---|---|
| `row` | the row of `gen2_yjs_documents`: the document, the file's text and revision at the last save (`base`, `rev`), the conflict |
| `file` | text and revision on the host |
| `lock` | the Redis lock of the document, `Left` when its holder is no more |
| `tabs` | a tab's replica and what its socket has on the server: batches to persist, the autosave timer, messages on their way |
| `jobs` | per tab a persist, an autosave and a request, and the poll of a turn: where each is and what it has read |
| `turn`, `made`, `rare`, `taken` | the agent's writes; bounds; edits that a save's read-back took for its own |

| actions | in the code |
|---|---|
| `Opens`, `Types`, `Closes`, `Delivers` | the tab: welcome and subscription, an edit (fanned out, then queued), a closing socket, a message |
| `BeginsPersist`, `SavesBatch` | a batch joined into the row under the lock |
| `BeginsAutosave`, `WritesFile`, `IsRefused`, `Records`, `IsUnrecorded` | the autosave: the row's text to the file with the expected revision, then the revision to the row; a 409 becomes a conflict |
| `BeginsReconcile`, `Creates`, `Reconciles`, `TakesFile` | `reconcileGen2Document` from a subscription or a turn: nothing new, take the file, merge, or conflict |
| `Chooses` | a member keeps the editors' text or the file's |
| `Tells` | what a job publishes after the lock is released |
| `Fails`, `IsCut`, `LockExpires`, `AgentWrites` | failures, a Redis client that goes with its socket, the agent |

An edit is a line of its own or a version of one common line; a Yjs document is
the set of its inserted and deleted items, and joining is union, which is what
makes the order of delivery irrelevant. Characters, positions and the diff are
abstracted to that.

### Membership and the code

A request first reads its caller's membership (`requireGen2Member`), and what it
does then is a statement or a transaction of its own. Transfer, removal, joining
and sharing lock the workspace's row and look again; the insert and the update of
a member do not.

| variable | in the code |
|---|---|
| `accounts`, `role` | the rows of `users`; `gen2_workspace_members`, with None for who is not a member |
| `owner`, `deleting`, `link` | `owner_id`, whether the status is `deleting`, and the `active_invite_*` columns: the token 0 is a cleared or expired link, whose role stays |
| `req` | a request under way: who asks for what, the role it read (`was`), the link it was shown |
| `minted`, `barred` | the links so far, and (history) how many there were when somebody was removed |

| actions | in the code |
|---|---|
| `AsksLink` ... `AsksJoin` | the routes up to the first check of the caller |
| `Reuses`, `Mints`, `Expires` | `getOrCreateWorkspaceShareInvite`; seven days |
| `Joins` | `joinGen2Workspace`'s transaction with `requireActiveWorkspaceInvite` |
| `Looks`, `Checks`, `Inserts`, `Updates` | `addGen2WorkspaceMember` and `updateGen2WorkspaceMemberRole`: the read of the target, then the write |
| `Transfers` | the transaction of both with the role `owner` |
| `Removes`, `Deletes`, `DeletesAccount` | removal, deletion, `deleteAccount` with its cascade |
| `Dies` | a refusal by a plan, a claim or the database, or a dead invocation |

## 3. Runs

A run whose specification is `Spec` is about safety. Every fault is counted
against a bound: a failing call at any step (before or after its effect), a lost
answer, a handler that dies, a VM or host that stops. One fault shows every
single point of failure in every interleaving; where a hazard needs two, the run
allows two.

| run | instance | shows | states |
|---|---|---|---|
| `ArmFaults` | 2 requests, 3 operations, 2 generations, 1 fault | `TypeOK`, `ReadyHasVm`, `OneStartPerGeneration`, `OnlyOwnerTearsDown` | 978k |
| `ArmHandoff` | 1 request, 3 operations of up to 2 parts, 2 faults, prompt cron | `DiskKept`, `OneStartPerGeneration`, `NoForgottenVm` | 392k |
| `ArmSettles` | 1 request, 4 operations (one left to the cron), 1 fault, refused creations | liveness: `OperationSettles`, `FailedStopRetried`, `DeletionCompletes` | 50k |
| `ComputeClaims` | 2 workspaces, 2 owners with limit 1, 2 requests, 2 operations, a pending release per workspace | `HeldWithinLimit`, `ClaimsFollowOwner`, `LocksDrain` | 552k |
| `FirecrackerHost` | a durable and an ephemeral workspace, 1 slot, 2 machines, 1 request, 1 failure, hang-up or crash, or an exit | `WorkKept`, `ServedIntact`, `HeldOpen`, `HostIdle`; implements `DurableWork` (`KeepsWork`) | 1.1M |
| `AgentTurns` | 1 turn of either kind on either runtime, tab and cron as pollers, 2 handlers at a time, 3 chunks of which 2 are kept beside the gap, 1 mishap; 2 other turns before it in the cron's queue, one of them stuck, and batches of 2 | `ReplyOnce`, `OwnSeatOnly`; implements `Transcript` (`KeepsTranscript`); liveness: `RunSettles`, `SeatComesFree`, `RepliesArrive` | 208k |
| `ComputeCron` | 2 requests and the cron, 2 at a time, 2 owners, 1 mishap of six | `LeaseHeld`, `StoppedIsStopped`; liveness: `SessionsEnd`, `GuestsAreMetered`, `ExhaustedStops`, `StartsRecover` | 211k |
| `SharedFile` | 2 tabs with an edit each, 1 write of an agent, 2 jobs at a time, 1 rare event (and a cut Redis client) | `NothingTwice`, `EditorsAgree`, `EditsStay`, `NothingOverwritten`, `AutosaveComes` | 1.4M |
| `Membership` | 3 accounts, 2 requests, 2 links, 1 account or the workspace deleted | `OwnerAlone`, `OwnerDecides`, `KeptOut` | 1.9M |
| `ArmRefusedDelete`, `DocConflicts`, `OwnerLost` | as above | the findings of section 5: TLC finds the violation | |

The bounds of the ARM runs. A hazard of this code needs an operation that went
wrong and one or two that follow, hence three operations and the two generations
they can reach: start, stop, start; start, failed start, start. A third
generation repeats what the second does, because a run compares its own
generation with the row's and the row keeps one generation to clean. In
`ArmFaults` two requests race for one compare-and-set before anything has gone
wrong (`RaceEarly`); after a fault or the second operation one request at a time
races with the cron and the workflows. Requests are symmetric. `ArmHandoff` needs
a second fault, for a cleanup that fails after a failure, and one continuation
(`MaxParts = 1`): a grandchild is related to the child as the child to its
parent. Once a run has handed over, two operations and one fault follow at most
(`FewHandoffs`); request and cron may overlap. `DiskKept` is checked with one
request only: with two it fails the way finding 1 does (a second delete request
joins the first, its run fails at once, the first request finds the instance
ended, and `markQueueFailure` marks a row as failed whose deletion goes on).

`ComputeClaims` has a limit of one, so that a second workspace is one too many;
two owners, for transfers in both directions; two requests, for every pair that
may race, and two operations, so that one workspace can be ready while the other
starts. Of requests and pending releases at most two are under way at once, one
after the last operation has been queued (`FewPending`).

`FirecrackerHost` has one slot, so that two workspaces want the same tap and a
slot's number returns to another machine, and two machines, so that a workspace
is started again from what the first one left. `OneMishap` allows one failure or
one exit of a guest, not both: the theorems allow one failure, or any number of
exits.

`AgentTurns` has one turn because turns meet only at the seat, whose other
holder, a chat room, is in the model. Three chunks and batches of one make a
cursor that lags by one poll; a buffer of two makes the guest wait for an
acknowledgement. With `Half = 1` the third chunk is beyond the cap. Two turns of
others come first in the cron's queue and it takes two at a time, so this turn is
reached only after another has been updated, beside one that never is.
`MaxOverlap = 2` lets every pair of handlers race.

In `ComputeCron` and `SharedFile` `MaxOverlap` is two as well: every pair of
requests, or a request and the cron, or two jobs. The document's lock makes a
third job wait in any case. Both count kinds of rare events rather than faults.
`AutosaveComes` is the safety form of a liveness property: when nothing is under
way or scheduled any more, every edit is in the file or in a conflict.

`Membership` has three accounts, so that an owner, a new owner and a third member
meet in two requests; two links, so that one who holds the first may come back
when there is a second. `OneGoes` allows one deletion, of an account or of the
workspace; `SecondLink` looks, once there is a second link, at the requests that
concern links and removals. Accounts and requests are symmetric.

`CHECK_DEADLOCK FALSE`: a workspace may be deleted, a turn ends, members stop
typing, and the bounds stop the models.

The prompt cron. `PromptCron` says that the cron asks for the instance right
after it selected the row. The code selects up to twenty rows and then works
through them, and its compare-and-set compares the operation id and the
generation but not the status it selected. Without the assumption one fault
breaks `NoForgottenVm`: the operation fails between the two calls and the cron
starts a replacement for a row that has just been marked failed. `ArmHandoff` and
`ArmSettles` assume it, the other runs do not. The theorem `NoVmForgotten` needs
less, `FreshReplacement`: the cron may come late, as long as it does not replace
an operation on a row that is no longer as it was selected.

Fairness.

- `ArmSettles`: weak fairness of a request's steps (an accepted request runs on
  unless it dies, a fault), of every step of a workflow (the platform runs
  instances to their end), of leases running out (time passes) and of the cron
  (triggered every minute). Nothing is assumed of users, faults, re-executed
  steps or handoffs. Weak fairness suffices because the enabled step of an actor
  stays enabled until it is taken.
- `AgentTurns`: weak fairness of every step of a handler that has begun and of
  heartbeats that go stale; no answer of the host is presumed, as a request
  without one times out. The monitor's checks run under strong fairness
  (`MonitorRuns`): they are triggered by the clock whatever else runs, and only
  the bound `RoomForOne` disables them in between. The cron's poll of a turn
  (`CronRuns`) begins under strong fairness only while the turn is `Reached`, among the
  `CronBatch` that were updated longest ago (eight in the code). It gets there
  because those ahead of it that can be polled are polled, updated and put last,
  or end (`Served`). A turn whose poll throws is not updated and keeps its place;
  it must be assumed that fewer of these are stuck than the cron takes at once
  (`Stuck < CronBatch`). With as many, `RepliesArrive` fails in TLC, and in the
  code: eight turns of members who were removed, say, keep the cron from all
  others (section 5). The query asks for `ready` workspaces: those of the model
  are, while their machine runs. Tabs, members and rooms are not obliged to
  anything, nor is the guest's agent.
- `ComputeCron`: weak fairness of a round's and a request's steps, of leases that
  age and of the reaper for a guest nobody can reach; strong fairness of the
  beginning of a round, for the same reason as above. `StartsRecover` and the
  others also assume that members keep opening the workspace (`Reopened`: the
  page polls until it is ready) and that the host is not deallocated infinitely
  often (`HostSettles`). Without them a row whose start died stays as it is
  because nobody asks for it.

Every property has a mutant in `PROJECT.json`: a plausible bug in a named
definition (written as a `variant` operator beside it) under which TLC finds the
property violated.

The two refinements. `KeepsWork` maps the files of the host to one piece of work
per workspace, what the next boot would find (`Bootable`): the temporary states
in which it is in the jail, in staging, in the old or the new checkpoint
disappear. What `DurableWork` promises of it: what was written (`saved`) is in the
next boot, and what was only acknowledged (`unsaved`) is forgotten when a guest
exits, when something fails, and while a member has the workspace stopped
(`Forget`), but not when the reaper or a shutdown of the service stops it. A failure
costs nothing that was written, an exit costs what came after the last checkpoint
(`Lose`),
the owner's deletion takes everything but the disks of a machine that is in use
(`Discard`), and a fresh checkout (`FirstBoot`) is for a workspace that has nothing
and was never started. After a failure it promises nothing of work that was never
written, or that was deleted (`Drift`). `KeepsTranscript` maps the guest's buffer, the cursor and the rows of
a durable turn to what was said, kept (up to the cap) and told: polls, acknowledgements, locks
and retries disappear.

## 4. Proofs

TLAPS proves the following for every value of the constants, from the assumptions
of the modules (`ArmConstants`, `ClaimsConstants`, `RowConstants`,
`HostConstants`, `FileConstants`, `TextConstants`, `TurnsAssumption`,
`NativeAssumption`, `MembersAssumption`: the bounds are naturals, the sentinels
are none of the values). TLC evaluates the assumptions in the runs.

| theorem | says |
|---|---|
| `ArmLifecycleProofs!TypeCorrect`, `InvariantHolds` | `Spec => []TypeOK`, `Spec => []IInv` |
| `ArmLifecycleProofs!ReadyKeepsVm` | `Spec => []ReadyHasVm` |
| `ArmLifecycleProofs!OwnerAloneTearsDown` | `Spec => OnlyOwnerTearsDown` |
| `ArmLifecycleProofs!OneStartHolds` | `Spec => []OneStartPerGeneration` |
| `ArmLifecycleProofs!DiskKeptHolds` | `Spec /\ []DeletesQueued => []DiskKept` |
| `ArmLifecycleProofs!NoVmForgotten` | `Spec /\ [][FreshReplacement]_vars /\ []StartsQueued /\ [][StopsRetriedFirst]_vars => []NoForgottenVm` |
| `ClaimsProofs!TypeCorrect`, `InvariantHolds` | `Spec => []TypeOK`, `Spec => []ClaimsInv` |
| `ClaimsProofs!OwnersWithinLimit` | `Spec => []HeldWithinLimit` |
| `ClaimsProofs!ClaimsAreOwners` | `Spec => []ClaimsFollowOwner` |
| `ClaimsProofs!LocksAlwaysDrain` | `Spec => []LocksDrain` |
| `HostProofs!TypeCorrect`, `HostInvariantHolds` | `Spec => []TypeOK`, `Spec => []HostInv` |
| `HostProofs!ServedIntactHolds` | `Spec => [](~LateRequests => ServedIntact)` |
| `HostProofs!HeldOpenHolds` | `Spec => [](~TornCount => HeldOpen)` |
| `HostProofs!HostIdleHolds` | `Spec => [](~LateRequests => HostIdle)` |
| `HostProofs!WorkInvariantHolds` | `Spec => []WorkInv` |
| `HostProofs!WorkKeptHolds` | `Spec => [](~LateRequests /\ faults <= 1 => WorkKept)` |
| `HostProofs!KeepsWorkHolds` | `Spec /\ []OneCause => KeepsWork` |
| `RowProofs!RowsTyped` | `Spec => []TypeOK` |
| `RowProofs!LeaseExclusive` | `Spec => []LeaseHeld` |
| `RowProofs!StopsAreReal` | `Spec => []StoppedIsStopped` |
| `DocProofs!TypeCorrect` | `Spec => []TypeOK` |
| `DocProofs!EditsAreKept` | `Spec => EditsStay` |
| `DocProofs!NothingIsOverwritten` | `Spec => NothingOverwritten` |
| `DocProofs!AutosaveIsSure` | `Spec => []AutosaveComes` |
| `DocProofs!EditorsAgreeHolds` | `Spec => []EditorsAgree` |
| `DocProofs!NothingIsTwice` | `Spec => []NothingTwice` |
| `TurnProofs!TypeCorrect`, `InvariantHolds` | `Spec => []TypeOK`, `Spec => []IInv` |
| `TurnProofs!RepliesOnce` | `Spec => []ReplyOnce` |
| `TurnSteps!TranscriptKept` | `Spec => KeepsTranscript`: AgentTurns implements Transcript |
| `TurnSteps!SeatIsOwn` | `Spec => OwnSeatOnly` |
| `MemberProofs!TypeCorrect`, `InvariantHolds` | `Spec => []TypeOK`, `Spec => []Inv` |
| `MemberProofs!OwnerIsAlone` | `Spec => []OwnerAlone` |
| `MemberProofs!OwnerOnlyDecides`, `RemovedKeptOut` | `Spec => OwnerDecides`, `Spec => KeptOut` |

Each invariant is split into named parts with a lemma per part and group of
actions; the theorems combine them with PTL.

ArmLifecycle. `ReadyHasVm` is not inductive: a run that failed long ago may hold
a decision to tear a VM down. What saves the row is who can still hold such a
decision, and that takes relating every copy of the row in the system:

- `OneMeaning`, `FreshIds`: two parties that mention an operation id agree on
  its kind and generation, and ids are not reused. So whoever the compare-and-set
  of `operationWhere` lets through is acting on the operation it was created for.
- `GenerationOrder`: nobody is ahead of the row's generation, and a generation to
  clean is older than the one it is cleaned for. So a cleanup never meets the
  row's own VM.
- `StopIsFinal`: once a stop or a delete exists for the row's generation, that
  generation is not started again; `claimOperation` gives a start after a stop a
  new one. So a stop that runs late takes down a VM of the past.
- `NobodyAhead`, `RowShape`, `KindsOfSteps`: the chain of continuations, and
  which steps belong to which kind.
- `UndoOwns`: a failing start of the row's generation owns the row, or the row
  moved on. `markOperationFailed` reads the row before it undoes; this is what
  that check achieves, although the undo happens minutes later.
- `CompleteHasVm`: a run that is about to complete and still owns the row has its
  VM.

`OneStartPerGeneration` rests on the same copies of the row. A run of a start
either is past its input or will read a row that names it (`Starting`, `Named`).
`OneStarter`: of the runs of one generation at most one does. `OwnerStarts`: for
the generation of a row that is still to be started it is the row's operation. The
steps to look at are the ones that make a second instance of something that is
under way, a replacement by the cron and a child of a handoff; both move the
row's operation id by compare-and-set and leave the former run nothing to do.

`DiskKept` is about every run that may reach `deleteDisk`, also after the workflow
has handed its work over. `DiskInv` says that only a delete gets there
(`DeleteSteps`), that a delete which anybody still knows of, in a run, a request
or the cron's hands, has the row in `deleting` for good (`DeleteIsFinal`), and that
the disk of which the row, a run's input or a run past the step `disk` knows is
there or its workspace is being deleted. One step of the code breaks the second part:
`markQueueFailure` puts a row of a delete back to `failed` (finding 1). Hence the
hypothesis `DeletesQueued`: no request gives up on a delete. The theorem says that
this is the only way to lose the disk, with any number of requests, faults and
continuations.

`NoForgottenVm` says that for every VM somebody is left. Who that is changes while a
start fails, is undone, replaced by the cron, followed by a stop or by a start of the
next generation, so `VmInv` speaks of the row and not of the runs:

- `RowPhases` relates the row's status, runtime status and operation; `StarterOwns`:
  whoever may still make a VM for a generation is the row's own operation and the
  row is in the middle of that start. So nobody makes a VM behind the row's back.
- `VmKnown`: the row names every VM there is, as its generation or as the one to
  clean, and if there is one to clean its own generation has none yet. A row that
  is `pending` or `stopped` has no VM at all.
- `CleanupAgrees`, `CleanupOver`, `TornDown`: everybody who acts for the row's
  operation knows what is to be cleaned; a start is past the cleanup before it
  makes anything; a run that records a teardown, or has undone its start, has no
  VM left, and none can appear until it has written so.
- `LoadedSound`: what a request may still conclude from the row it loaded.

The code does forget VMs, and the theorem is the list of the ways it can: it holds
without any bound on requests, faults, refused or lost creations, and of a
behaviour in which a VM is forgotten it says that one of three events is in it.
Each of them alone makes `NoForgottenVm` fail in TLC (section 5).

- A replacement that is not fresh (`FreshReplacement`): the cron selected a row
  whose start then failed, and gives the failed row a new operation.
- A request gives up on a start that is not over (`StartsQueued`): the handler that
  gets no answer, or whose refused operation another request has joined, marks the
  row `failed` while a run makes a VM, and a stop may be over before that VM is
  there. A creation that is refused and joined by nobody does no harm; the
  hypothesis excludes it as well, since who may still join is not to be seen from
  the row.
- A start over a failed stop (`StopsRetriedFirst`): `claimOperation` suspects an
  unrecorded VM of the current generation behind a failed start, but not behind a
  failed stop, and gives the new start a new generation.

ComputeClaims. The count a reservation makes is used one step later, and the
claim a completion checked may be deleted before it writes `ready`. The invariant
adds that from the check to the effect the owner's lock is held, the workspace
keeps its owner, and the workspaces held together with this one fit the limit
(`InsertsFit`, `CommitsFit`). Only three steps make anyone hold more (an insert,
a completion, a transfer to a new owner), each under that owner's lock, so no two
of them are under way for one owner (lemma `Grows`). Every other step changes
nobody's room (lemma `Quiet`), the unlocked deletions included.

`LocksDrain` says that whoever waits, waits for somebody who can go on.
`LocksInv` adds that a request that holds a lock and still wants one wants only
owners after all it has, and that the owners that are locked are bounded. So of
the locked owners take the greatest: its holder has what it needs, or waits for an
owner that nobody holds, and can go on. This is the whole effect of the order in
`lockComputeOwners`, for any number of owners and requests.

FirecrackerHost. `provision` keeps jobs apart, but requests act without it, and a
job is at an await between any two changes, where it may fail or be hung up.

- `Apart`: of the machines that are in the map or about to be, no two share a
  slot or a workspace, nor does anyone who may remove files by a machine's paths
  share them with such a machine. For that a create keeps its slot free until it
  has inserted its machine (`SlotKept`), nobody has that machine before (`Unused`),
  and files are removed only of machines whose process is gone (`Dead`).
- `BootIntact`: what a create has made so far is still there when it inserts the
  machine. With it `ServedIntact` is inductive.
- `InUse`: a request to a guest that is up keeps it in the map. This is where the
  late check breaks in: it looks at the process when another machine may already
  have the paths, hence the hypothesis `~LateRequests`.
- `Reaper`: what the reaper has decided still holds when it acts. After it set the
  flag no request enters (`Flagged`), its count of polls is at most what is there
  (`Counts`), so all others are polls (`OnlyPolls`). A request that ends between
  the two loads makes the count too high, hence `~TornCount`.
- `Reserved`: once the host is reserved and the shutdown is over, no machine
  comes.

`WorkKeptHolds` has a hypothesis that the code needs: one failure, hang-up or crash
at most (section 5 has a loss with two), no guest that exits, and `~LateRequests`.
Its invariant `WorkInv` says of every durable workspace, at every step of whoever
has the lock, where the written work is (`Saves`): in the jail if
`recovery.json` is there, else in the checkpoint; in the hands of a create while it
copies it, and of a take-down or a recovery while it renames directories. Three
things go with it. A jail is complete exactly while its machine is served or its
removal is under way (`Jailed`), and a take-down keeps the guest up and paused until
the new checkpoint is in place (`StaysUp`, `KeepsUp`), so no guest writes to
disks that have been linked already (lemma `WritesAlone`). A machine in the map that is dead, or a
request that found it so, may remove the jail at any time without the lock
(`Doomed`): then the checkpoint has to be in its place (`InPlace`), which is the case
when `stop_machine` is reached. And a recovery that meets such a machine, or goes on
without the disks it began with, shows that the one failure has been (`Blamed`); so
nothing can fail between its renames, the only steps where nothing but the staging
directory has the work (lemma `InPlaceStays`).

`KeepsWorkHolds` is the refinement, under the hypothesis `OneCause`: no
`LateRequests`, and at most one failure, or any number of guests that exit, but not
both. `WorkInv` has what it needs of exits in `Lasts`, which holds as long as no job
has failed: the checkpoint that a boot finds is the last one that was put in place
(`Checkpointed`); disks that a job is about to remove are the ones it has in its
hands or has put in place (`Copied`); a boot begins with the last checkpoint, and
with a fresh checkout only if the workspace does not count as initialized (`Begun`).
So what a boot would have is the work in the jail if it can be recovered, and the
last checkpoint otherwise (lemma `LastsBoots`). The steps of the host are then
mapped one workspace at a time (`OneAtATime`). While nothing has failed
(`FinePromised`): `WriteMeta` is `FirstBoot`, or a stutter if there is a checkpoint;
`WriteMarker` is `Started`, `Work` is `Acknowledge`, `WriteBack` and `Flush` are
`Save`, `Promote` is `Checkpoint`, `DiscardSnapshot` is `Discard`, and a request that removes the files of a machine it found dead is
`Lose` if a guest has exited and changes nothing else (`Blamed`); every other step
rests, because the jail that `Choose` or `Erase` removes has been copied. The failure
itself is `Fail` at whatever step it comes (`FailingRests`): a half removed jail has
been copied, a half made one has no `recovery.json`, and the disks stay until a
checkpoint is in place. After it, `Saves` says of written work that the boot has
it (`AfterPromised`).

What is only acknowledged needs `Flushed`: once the reaper or a shutdown has made a
guest write, until it has ended the guest's process, nothing more is acknowledged
there, because nobody but polls is left (`OnlyPolls`) or the requests are over
(`Drained`). So `Kill` forgets something only under a member's stop (`KillForgets`).
And a service that dies because its shutdown met a machine that does not answer
(`Crash` without a fault) does so only after a guest has exited: `OnlyInHand` says
that nobody but the holder of the lock has paused a machine (`ShutdownAnswers`).

The switches are constants and the hypotheses are in the theorems: with
`LateRequests` or `TornCount` the rest of the invariant is proved as well.

WorkspaceRows. `StoppedIsStopped` needs to know where a guest can come from while
a stop is under way: `GuestNeedsHost` (no guest on a host that is off),
`LeaseHeld` (whoever provisions or destroys is the one that the row waits for)
and `Destroyed` (between a stop's destroy and its commit there is no guest). The
lease is a version number that the holder compares when it commits, not a lock:
exclusivity follows from the takeover asking for a stale row, and is lost in the
one case the statement excludes, a start that outlives its 210 seconds (`slow`).

SharedFile. Every writer of the row computes the new document from the one it
loaded, possibly minutes before. The invariant (`Fits`) says that whoever holds
the lock still knows the row as it is: nobody else has written it, because every
writer loads and saves under that lock; and what it will save extends what it
loaded. `RowKnown` covers the time before the row exists. That much shows
`EditsStay`. The other theorems need what a job knows of the file, too, while
agents write it without any lock, and what has become of every edit that the row
does not have:

- `Core`: what a job has read of the file was true at some time, and still is if
  the revision is the same (`Seen`); a job that is about to save a batch will
  write the row with the batch, no more (`At`); before there is a row nobody has
  anything to save (`Blank`).
- `Based`: the row's revision stands for a text, and the document has taken in all
  of its base but what a save took for its own (`taken`). So a write that the host
  accepts replaces a text that the document knows: `NothingOverwritten`.
- `Due`: a change that the file lacks has a timer, a job that is going to write
  it, or a conflict. The case to look at is a save that loads, then an edit that
  arrives, then the save's record: the edit's timer was set when it was persisted.
- `Sourced` and `Reached`: what is sent to a tab comes from the row, waits to be
  persisted, or could not be; a tab that takes part has heard or will hear
  everything the row has; one that is subscribing is about to be sent what it has
  not heard. Both speak of every place an edit can be (queues, batches, feeds,
  messages not yet published, a document loaded for a subscription). The lemma
  `FlowKeeps` says what a step may do to these places, and each action is shown to
  do only that. When all is quiet, the places are empty: `EditorsAgree`.
- `Once`: `NothingTwice` fails if an edit is in the file and the document brings
  it a second time, or the reverse. `Level` and `Reads` say that an edit that the
  document has beyond its base is neither in the file nor in what a job has read
  of it, and `Counts` that an edit not yet in the row is nowhere. Between a write
  and its record the file is ahead of the base, which is why these three are
  limited to behaviours in which every write is recorded, as the property is.

AgentTurns. A poll commits what the guest returned some steps ago, and the guest
drops what the poll before it acknowledged. `Cursors` says that the guest has
dropped nothing that is not committed and that the output is the text up to the
cursor; `Answers` says that a poll about to commit starts where the cursor is,
whatever the guest has written since, and holds the end of the output only if
there is no more to come. Both survive because a durable poll keeps the turn's
lock from its question to its commit (`Polls`). From them every commit is a step
`Keeps` or `Tells` of `Transcript`, the guest's reads are `Says`, an end of output
or a stop of the machine is `End`, and every other step changes nothing that
`Transcript` shows (lemma `StepKept`). `Replied` follows the poll that has claimed
the exit until it writes the message. For the seat only one fact is needed beside
the types, that nobody's seat has no heartbeat (`Held`).

Membership. A request acts on what it read, so the invariant says what a request
can still carry (`Asked`): only a transfer carries the role of the owner, so no
insert or update gives it away. `LinkFresh` orders links and removals in time: a
link that is active was minted after everybody's last removal, because every
removal clears the link under the lock that minting and joining take. The two
action properties then follow from the step alone, and the checks that are
repeated under the lock are what they rest on.

The type invariants of `ComputeClaims`, `ComputeCron`, `AgentTurns` and
`Membership` are proved and are not among the runs' properties.

Model-checked and not proved: the liveness properties (`OperationSettles`,
`FailedStopRetried`, `DeletionCompletes`, `SessionsEnd`, `GuestsAreMetered`,
`ExhaustedStops`, `StartsRecover`, `RunSettles`, `SeatComesFree`, `RepliesArrive`),
which are out of the prover's reach. Every other property of the passing runs is
stated by a theorem, where it needs one with the hypothesis under which the code
keeps it.

## 5. Findings

With a run that shows them:

1. `ArmRefusedDelete`: a delete whose workflow cannot be created leaves
   `deleting` and becomes `failed`, so members may use the workspace again, while
   the cron carries the delete out and removes its disk.
2. `DocConflicts`: an autosave that comes between an agent's write and the poll
   that would merge it is refused, and the refusal puts the document into
   conflict without trying to merge, although the changes do not touch the same
   lines.
3. `OwnerLost`: a role change (or an addition) whose target becomes the owner
   between its check and its unlocked update takes the owner's role away again.
   Nobody is left who may change roles, transfer or delete.

Each is quoted against the repository's documents in `PROJECT.json`. Met while
modelling, without a run of their own; where a model has them, the switch or the
condition that excludes them from the checked properties is named:

- ARM: a start that dies between creating the disk and recording it leaves a disk
  of which a later delete does not know (`deleteDisk` returns without an id). A
  start, its cleanup and a stop that all fail leave a VM that the next start does
  not record for cleaning (`NoForgottenVm` fails with a third fault). A start whose
  creation is lost, or refused and then joined by another request, is marked failed
  by `markQueueFailure` and runs on; a stop that is queued then finishes before the
  start has deployed, and the row says `stopped` of a VM that comes up.
- Membership: a request to add oneself or to mint a link that was accepted before
  its caller's removal takes effect after it. A transfer to a member who is removed
  between the read and the transaction leaves an owner who is no member.
- Firecracker: a boot that fails or is hung up between its first disk and
  `recovery.json` leaves a jail from which no later create can recover, and every
  create is refused (`LeftRecoverable` fails). With `LateRequests` a request's
  check that looks at a dead process evicts the machine made since, and removes
  its files (`ServedIntact` fails). With `TornCount` a second request is missed
  between the two loads of `reap_expired` (`HeldOpen` fails). A destroy that is
  hung up after its pause leaves the machine paused. A guest that exits in its
  first session leaves the marker and no checkpoint: every create refuses. The
  service's shutdown stops at the first machine that fails. Two faults
  can lose work: a destroy that cannot remove the jail leaves a dead machine in the
  map, and the recovery by the next create fails between its renames and leaves the
  only checkpoint as `.previous`. If a request that found the machine dead removes
  the jail, which it does without the lock, after a second recovery has removed
  `.previous`, the work is in the staging directory only (`WorkKept` fails with two
  mishaps).
- Turns: a turn on the ARM runtime that writes nothing never ends (its cursor is
  0, the guest counts from 1; excluded by `Answerable`). The poll of a Claude
  room reply returns before its heartbeat. The direct path on Firecracker loses
  what follows the last batch when the exit comes with it. A native poll never
  renews the seat. The monitor releases the seat of a live run whose host does
  not answer. The cron polls the eight open turns that were updated longest ago,
  and one whose poll throws is not updated: eight such turns keep it from all the
  others (`RepliesArrive` fails with `Stuck = CronBatch`). Marks of a run set the status whatever it was, so a late one brings
  a finished run back. A restarted host counts its sequences anew.
- Rows and sessions: the owner is read early, so a session after a transfer is
  billed to the former owner, and the stop of that exhausted owner is refused
  with 403. A session inserted after a deletion never ends. An owner without
  minutes can neither restart, stop nor delete a row stuck in `provisioning`
  (`Stuck` excludes it). A timeout of the orchestrator counts as a deallocated
  host. A start that outlives its lease leaves a guest behind a stopped row
  (excluded as `slow`). Inviting a member refreshes `updatedAt` and breaks the
  commit of a running start (`touched`).
- Collaboration: an edit that is fanned out before a tab is subscribed and saved
  after its document was loaded never reaches that tab (`dropped`); a conflict
  can be missed the same way. A write whose answer or record is lost leads to a
  false conflict or to doubled lines (excluded in `NothingTwice`). The host
  answers a write with a later read: an agent's write in between is recorded as
  the save's own, and the next autosave overwrites it (`taken`). A reconcile whose
  own write fails after it has saved the row throws before it publishes. A failed
  autosave is logged and not retried. An unrecorded "keep editor" leaves a
  conflict that the editors do not see. The lock's 75 s are less than the sum of
  the time limits of the calls made under it (not modelled).

Hazards met but not on the list of `PROJECT.json`: a disk that the row does not
name; a claim whose request died, which stays until the owner cancels or starts;
the cleanup of a failed start
is not retried by the cron; a baked deployment is not awaited; transfer of a
workspace with an unrecorded VM; the lock order of joining by invite; a failed
row is committed before session and claim are released; a continuation that gives
up waiting for its parent.

## 6. Plan

Done: A with B, C, E with D's cron, F, G, I with the agent half of H, J. Next, in
order:

1. `ComputeSessions`: the intervals of D per owner, with transfers.
2. Terminals and previews of H; input to a running agent.
3. `Workspace`: an abstract workspace (off, starting, on, stopping, deleted, with
   an intent) that `ArmLifecycle` and `WorkspaceRows` both implement.
4. Webhook order of billing and the rotation of sign-in sessions.

## 7. Not modelled

Most of the repository's lines are outside what a model of state and order can
say, and the map stays a small share of them: the pages and components of
`apps/web` (layout and client state; the poll loop of a turn is the exception),
the routes that validate and pass on, schema and contracts beyond the columns
read or written by modelled code, parsers of the agents' output, encodings, the
clients of Azure, Stripe, GitHub and the model providers, encryption, and the
scripts that build images and deploy. Vendored code is left aside.

Not modelled although it has state: authentication and sign-in sessions (single
statements for the most part), billing webhooks (a claim and a possible refusal
stand for the entitlement), token refresh and catalogues of providers, messages
and streams of the shared chat (a reply is the other holder of a seat), the
earlier controller under the infrastructure scripts (superseded by A). Within modelled parts, each module's header and the notes
of `PROJECT.json` name what is left out.
