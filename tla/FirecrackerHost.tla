--------------------------- MODULE FirecrackerHost ---------------------------
(***************************************************************************)
(* The Firecracker backend of the orchestrator: which workspaces run in    *)
(* which microVM, and the files from which a workspace is started again.   *)
(* Source: services/orchestrator/src/backend/firecracker.rs, with the      *)
(* callers in backend/mod.rs, http_api.rs and bin/orchestrator.rs.         *)
(*                                                                         *)
(* Everything that makes or takes down a machine runs under the lock       *)
(* `provision`: `job` is its holder, with a step for every await between   *)
(* two changes.  Requests to a running guest take no lock; they hold a     *)
(* reference to the machine (an Arc) and find out by themselves that its   *)
(* process is gone.  A job may fail at any step, its caller may hang up    *)
(* (the handler's future is dropped at an await), and the service may die. *)
(*                                                                         *)
(* A disk is how much of the members' work it holds, counted from a fresh  *)
(* checkout (0). A guest answers when a change is in its memory; it is on  *)
(* the disk when its kernel writes it back, or with the `sync` before the  *)
(* guest is paused. The guest's disks are files of the host, which writes  *)
(* them through its own page cache: a host that loses power is left out,   *)
(* and Crash is the end of the service with its guests.                    *)
(*                                                                         *)
(* Times are one flag per machine, `due`: what the reaper compares with    *)
(* the clock. The attached Azure disk (persistent_disk_lun) has no caller  *)
(* and is left out. A FullMachine checkpoint is only found, never made:    *)
(* nothing in the code writes one any more.                                *)
(***************************************************************************)
EXTENDS Integers, FiniteSets

CONSTANTS
    Durable,       \* workspaces created with hibernateOnIdle and resumeFromSnapshot
    Ephemeral,     \* workspaces created with ephemeral
    Requests,      \* requests to guests that may be in progress at once
    MaxSandboxes,  \* max_sandboxes
    TornCount,     \* whether a request may end between the two loads of the reaper
    LateRequests,  \* whether a request's checks may outlast the making of a machine
    MaxMachines,   \* bound: machines made
    MaxWork,       \* bound: work in a guest
    MaxFaults,     \* bound: failures, hang-ups and crashes of the service
    MaxExits,      \* bound: guests that exit on their own
    None

Workspaces == Durable \cup Ephemeral
Machines == 1 .. MaxMachines
Slots == 0 .. (MaxSandboxes - 1)

ASSUME HostConstants ==
    /\ Durable \cap Ephemeral = {}
    /\ IsFiniteSet(Requests) /\ IsFiniteSet(Workspaces)
    /\ MaxSandboxes \in Nat \ {0} /\ MaxMachines \in Nat /\ MaxWork \in Nat
    /\ MaxFaults \in Nat /\ MaxExits \in Nat
    /\ TornCount \in BOOLEAN /\ LateRequests \in BOOLEAN
    /\ None \notin Int /\ None \notin Workspaces

VARIABLES
    running,   \* machines: the map from workspaces to machines
    vm,        \* RunningMachine, for every machine made
    jail,      \* the jail directory of a workspace: whose disks, the work on
               \* them, recovery.json
    snap,      \* snapshots/<workspace>
    prev,      \* snapshots/.<workspace>.previous
    marker,    \* workspace-state/<workspace>.json exists
    tap,       \* the machine for which a slot's tap was made
    job,       \* the holder of the lock provision
    req,       \* requests to guests
    pending,   \* host_shutdown_pending
    made,      \* machines made so far
    faults,    \* faults so far
    exits,     \* guests that exited on their own so far
    cache,     \* the changes that only the memory of a machine's guest has
    synced,    \* history: the last of the members' work to reach the disks
    kept       \* history: the work of the last checkpoint put in place

vars == <<running, vm, jail, snap, prev, marker, tap, job, req, pending,
          made, faults, exits, cache, synced, kept>>
files == <<jail, snap, prev, marker>>
progress == <<cache, synced, kept>>

-----------------------------------------------------------------------------
\* MicroVmSnapshotMetadata with its directory.
NoCheckpoint == [kind |-> "none", work |-> 0, slot |-> 0]
Checkpoints ==
    [kind : {"none", "full", "disks"}, work : Nat, slot : Slots]

NoJail == [of |-> None, work |-> 0, meta |-> FALSE]

Boot == {"recover", "choose", "prepare", "launch", "restore", "await", "meta",
         "marker", "insert"}
Rotate == {"dropPrev", "demote", "promote"}
Down == {"flush", "pause", "stage", "sweep", "kill", "erase", "unmap"}

NoJob == [op |-> "none", ws |-> None, m |-> None, at |-> "none",
          cp |-> NoCheckpoint, slot |-> 0, plain |-> FALSE, polls |-> 0]
Jobs ==
    [op : {"none", "create", "destroy", "reap", "shutdown"},
     ws : Workspaces \cup {None}, m : Machines \cup {None},
     at : Boot \cup Rotate \cup Down \cup {"none", "reclaim", "count", "next"},
     cp : Checkpoints, slot : Slots, plain : BOOLEAN, polls : Nat]

NoRequest == [at |-> "free", m |-> None, poll |-> FALSE]

TypeOK ==
    /\ running \in [Workspaces -> Machines \cup {None}]
    /\ vm \in [Machines ->
         [ws : Workspaces \cup {None}, slot : Slots, alive : BOOLEAN, paused : BOOLEAN,
          hibernating : BOOLEAN, parked : BOOLEAN, due : BOOLEAN]]
    /\ jail \in [Workspaces -> [of : Machines \cup {None}, work : Nat, meta : BOOLEAN]]
    /\ snap \in [Workspaces -> Checkpoints]
    /\ prev \in [Workspaces -> Checkpoints]
    /\ marker \in [Workspaces -> BOOLEAN]
    /\ tap \in [Slots -> Machines \cup {None}]
    /\ job \in Jobs
    /\ req \in [Requests ->
         [at : {"free", "flag", "child", "evict", "clean", "using"},
          m : Machines \cup {None}, poll : BOOLEAN]]
    /\ pending \in BOOLEAN
    /\ \A m \in Machines : vm[m].ws = None <=> m > made
    /\ made \in 0 .. MaxMachines /\ faults \in Nat /\ exits \in Nat
    /\ cache \in [Machines -> Nat]
    /\ synced \in [Workspaces -> Nat \cup {None}]
    /\ kept \in [Workspaces -> Nat \cup {None}]

\* A host on which earlier releases may have left a full checkpoint.
Unmade == [ws |-> None, slot |-> 0, alive |-> FALSE, paused |-> FALSE,
           hibernating |-> FALSE, parked |-> FALSE, due |-> FALSE]
Legacy == [kind |-> "full", work |-> 1, slot |-> 0]

Init ==
    /\ running = [w \in Workspaces |-> None]
    /\ vm = [m \in Machines |-> Unmade]
    /\ jail = [w \in Workspaces |-> NoJail]
    /\ \E cp \in {NoCheckpoint, Legacy} : snap = [w \in Workspaces |-> cp]
    /\ prev = [w \in Workspaces |-> NoCheckpoint]
    /\ marker = [w \in Workspaces |-> FALSE]
    /\ tap = [s \in Slots |-> None]
    /\ job = NoJob
    /\ req = [r \in Requests |-> NoRequest]
    /\ pending = FALSE
    /\ made = 0 /\ faults = 0 /\ exits = 0
    /\ cache = [m \in Machines |-> 0]
    /\ synced = [w \in Workspaces |-> IF snap[w] = Legacy THEN 1 ELSE None]
    /\ kept = synced

-----------------------------------------------------------------------------
(* References, processes and slots.                                        *)

Mapped == {running[w] : w \in Workspaces} \ {None}
Users(m) == {r \in Requests : req[r].m = m}
Held(m) == m \in Mapped \/ job.m = m \/ Users(m) # {}

\* kill_on_drop: a process does not outlive the last reference to its machine.
Live(m) == vm[m].alive /\ Held(m)

Taken == {vm[m].slot : m \in Mapped}
FirstFree == CHOOSE s \in Slots \ Taken : \A t \in Slots \ Taken : s <= t

Exists(cp) == cp.kind # "none"

\* snapshot_metadata: the previous checkpoint stands in for a missing one.
SavedOnly(w) == snap[w]                \* variant: the previous one is forgotten
Saved(w) == IF Exists(snap[w]) THEN snap[w] ELSE prev[w]

\* Released between two changes, or at the end.
Step(at) == job' = [job EXCEPT !.at = at]
Idle == job.op = "none"

\* mark_activity moves last_activity_at, which only durable machines go by.
Active(m) == [vm EXCEPT ![m].due = @ /\ vm[m].ws \notin Durable]

\* A machine out of the map: what is left of it are its paths, and the flag that
\* late requests read.
ForgottenWholly(m) == Unmade           \* variant: the paths are forgotten, too
Forgotten(m) ==
    [Unmade EXCEPT !.ws = vm[m].ws, !.slot = vm[m].slot, !.hibernating = vm[m].hibernating]

\* What the take-down of a machine leaves in its workspace's jail when the
\* removal of the directory fails half way.
Leftovers(w) == {NoJail, jail[w], [jail[w] EXCEPT !.meta = FALSE]}

-----------------------------------------------------------------------------
(* create                                                                  *)

\* A host that is reserved for shutdown takes no creates.
MayCreateAlways == Idle                \* variant: the reservation is not looked at
MayCreate == Idle /\ ~pending

\* A machine is there: an ephemeral one gets a new expiry.
CreateExisting(w) ==
    /\ MayCreate /\ running[w] # None
    /\ vm' = IF w \in Ephemeral
             THEN [vm EXCEPT ![running[w]].due = FALSE, ![running[w]].parked = FALSE]
             ELSE vm
    /\ UNCHANGED <<running, files, tap, job, req, pending, made, faults, exits, progress>>

Parked(m) == m \in Mapped /\ vm[m].parked /\ Users(m) = {}

BeginCreate(w) ==
    /\ MayCreate /\ running[w] = None
    /\ \/ /\ Cardinality(Mapped) < MaxSandboxes
          /\ job' = [NoJob EXCEPT !.op = "create", !.ws = w, !.at = "recover"]
       \/ /\ Cardinality(Mapped) >= MaxSandboxes
          /\ \E m \in Machines :
               /\ Parked(m)
               /\ job' = [NoJob EXCEPT !.op = "create", !.ws = w, !.m = m, !.at = "kill"]
    /\ UNCHANGED <<running, vm, files, tap, req, pending, made, faults, exits, progress>>

\* recover_interrupted_workspace: the copy of an interrupted guest's disks.
\* Disks without recovery.json are left alone, and the create is refused.
Recover ==
    /\ job.op = "create" /\ job.at = "recover"
    /\ LET j == jail[job.ws] IN
         \/ /\ job.ws \in Ephemeral \/ j.of = None
            /\ Step("choose")
         \/ /\ job.ws \in Durable /\ j.of # None /\ j.meta
            /\ job' = [job EXCEPT !.at = "dropPrev",
                         !.cp = [kind |-> "disks", work |-> j.work,
                                 slot |-> vm[j.of].slot]]
         \/ /\ job.ws \in Durable /\ j.of # None /\ ~j.meta
            /\ job' = NoJob
    /\ UNCHANGED <<running, vm, files, tap, req, pending, made, faults, exits, progress>>

\* Which slot, and from which checkpoint; the old jail goes.  `require` is
\* require_saved_state, of which the caller knows whether to set it.
Refused(require, cp) == (require \/ marker[job.ws]) /\ ~Exists(cp)

Choose ==
    /\ job.op = "create" /\ job.at = "choose"
    /\ \E require \in BOOLEAN :
         LET cp == IF job.ws \in Durable THEN Saved(job.ws) ELSE NoCheckpoint
             restore == ~job.plain /\ cp.kind = "full"
             free == IF restore THEN cp.slot \notin Taken ELSE Slots \ Taken # {}
         IN  /\ require => job.ws \in Durable
             /\ \/ /\ Refused(require, cp) \/ (job.plain /\ ~Exists(cp)) \/ ~free
                   /\ job' = NoJob
                   /\ UNCHANGED jail
                \/ /\ ~Refused(require, cp) /\ (job.plain => Exists(cp)) /\ free
                   /\ job' = [job EXCEPT !.at = "prepare", !.cp = cp,
                                !.slot = IF restore THEN cp.slot ELSE FirstFree]
                   /\ jail' = [jail EXCEPT ![job.ws] = NoJail]
    /\ UNCHANGED <<running, vm, snap, prev, marker, tap, req, pending, made,
                   faults, exits, progress>>

\* prepare_resources, prepare_snapshot_resources: disks cloned from the
\* checkpoint, or a fresh checkout.
Source(cp) == IF Exists(cp) THEN cp.work ELSE 0

Checking(r) == req[r].at \in {"flag", "child", "evict", "clean"}
Prompt == \A r \in Requests : ~Checking(r)

Prepare ==
    /\ job.at = "prepare" /\ made < MaxMachines
    /\ LateRequests \/ Prompt
    /\ made' = made + 1
    /\ vm' = [vm EXCEPT ![made'] = [Unmade EXCEPT !.ws = job.ws, !.slot = job.slot]]
    /\ jail' = [jail EXCEPT ![job.ws] = [of |-> made', work |-> Source(job.cp), meta |-> FALSE]]
    /\ job' = [job EXCEPT !.at = "launch", !.m = made']
    /\ UNCHANGED <<running, snap, prev, marker, tap, req, pending, faults, exits, progress>>

\* ensure_tap and the jailer.
Launch ==
    /\ job.at = "launch"
    /\ vm' = [vm EXCEPT ![job.m].alive = TRUE]
    /\ tap' = [tap EXCEPT ![job.slot] = job.m]
    /\ Step(IF ~job.plain /\ job.cp.kind = "full" THEN "restore" ELSE "await")
    /\ UNCHANGED <<running, files, req, pending, made, faults, exits, progress>>

Restored ==
    /\ job.at = "restore" /\ Live(job.m)
    /\ Step("await")
    /\ UNCHANGED <<running, vm, files, tap, req, pending, made, faults, exits, progress>>

\* The guest answers; recovery.json and the marker are written before it is
\* exposed, for a durable workspace.
Ready ==
    /\ job.at = "await" /\ Live(job.m)
    /\ Step(IF job.ws \in Durable THEN "meta" ELSE "insert")
    /\ UNCHANGED <<running, vm, files, tap, req, pending, made, faults, exits, progress>>

WriteMeta ==
    /\ job.at = "meta"
    /\ jail' = [jail EXCEPT ![job.ws].meta = TRUE]
    /\ Step("marker")
    /\ UNCHANGED <<running, vm, snap, prev, marker, tap, req, pending, made,
                   faults, exits, progress>>

WriteMarker ==
    /\ job.at = "marker"
    /\ marker' = [marker EXCEPT ![job.ws] = TRUE]
    /\ Step("insert")
    /\ UNCHANGED <<running, vm, jail, snap, prev, tap, req, pending, made,
                   faults, exits, progress>>

Insert ==
    /\ job.at = "insert"
    /\ running' = [running EXCEPT ![job.ws] = job.m]
    /\ job' = NoJob
    /\ UNCHANGED <<vm, files, tap, req, pending, made, faults, exits, progress>>

-----------------------------------------------------------------------------
(* The checkpoint of a workspace is replaced by renaming directories, in   *)
(* recover_interrupted_workspace and in hibernate_machine.                 *)

DropPrevious ==
    /\ job.at = "dropPrev"
    /\ prev' = [prev EXCEPT ![job.ws] = NoCheckpoint]
    /\ Step("demote")
    /\ UNCHANGED <<running, vm, jail, snap, marker, tap, req, pending, made,
                   faults, exits, progress>>

Demote ==
    /\ job.at = "demote"
    /\ prev' = [prev EXCEPT ![job.ws] = snap[job.ws]]
    /\ snap' = [snap EXCEPT ![job.ws] = NoCheckpoint]
    /\ Step("promote")
    /\ UNCHANGED <<running, vm, jail, marker, tap, req, pending, made,
                   faults, exits, progress>>

Promote ==
    /\ job.at = "promote"
    /\ snap' = [snap EXCEPT ![job.ws] = job.cp]
    /\ kept' = [kept EXCEPT ![job.ws] = job.cp.work]
    /\ Step(IF job.op = "create" THEN "choose"
            ELSE IF Exists(prev[job.ws]) THEN "sweep" ELSE "kill")
    /\ UNCHANGED <<running, vm, jail, prev, marker, tap, req, pending, made,
                   faults, exits, cache, synced>>

-----------------------------------------------------------------------------
(* Taking a machine down: destroy, the reaper, a parked slot reclaimed,    *)
(* and the shutdown of the service.                                        *)

\* A durable machine is hibernated, another is stopped.
FirstStepErases(w) ==                  \* variant: files go before the process
    IF w \in Durable THEN "flush" ELSE "erase"
FirstStep(w) == IF w \in Durable THEN "flush" ELSE "kill"

BeginDestroy(w) ==
    /\ Idle /\ running[w] # None
    /\ job' = [NoJob EXCEPT !.op = "destroy", !.ws = w, !.m = running[w],
                 !.at = FirstStep(w)]
    /\ UNCHANGED <<running, vm, files, tap, req, pending, made, faults, exits, progress>>

\* reap_expired: the flag is raised, then the requests that only poll are
\* loaded, then the references are counted.
Polls(m) == Cardinality({r \in Users(m) : req[r].poll /\ req[r].at = "using"})

BeginReap(w) ==
    /\ Idle /\ running[w] # None /\ vm[running[w]].due
    /\ ~vm[running[w]].hibernating
    /\ vm' = [vm EXCEPT ![running[w]].hibernating = TRUE]
    /\ job' = [NoJob EXCEPT !.op = "reap", !.ws = w, !.m = running[w], !.at = "next"]
    /\ UNCHANGED <<running, files, tap, req, pending, made, faults, exits, progress>>

LoadPolls ==
    /\ job.op = "reap" /\ job.at = "next"
    /\ job' = [job EXCEPT !.at = "count", !.polls = Polls(job.m)]
    /\ UNCHANGED <<running, vm, files, tap, req, pending, made, faults, exits, progress>>

\* has_reaper_blocking_requests: the map and the reaper hold two references,
\* and a poll is not in the way.
BlockedByTwo(m, polls) ==              \* variant: one reference too many allowed
    Cardinality(Users(m)) > polls + 1
Blocked(m, polls) == Cardinality(Users(m)) > polls

CountReferences ==
    /\ job.op = "reap" /\ job.at = "count"
    /\ IF ~vm[job.m].due \/ Blocked(job.m, job.polls)
       THEN /\ vm' = [vm EXCEPT ![job.m].hibernating = FALSE]
            /\ job' = NoJob
       ELSE /\ job' = [job EXCEPT !.at = FirstStep(job.ws), !.polls = 0]
            /\ UNCHANGED vm
    /\ UNCHANGED <<running, files, tap, req, pending, made, faults, exits, progress>>

\* Only a guest that is up can flush: a paused one does not answer, and its
\* socket is in the jail.
AnswersPaused(m) ==                    \* variant: the guest is not really paused
    Live(m) /\ jail[vm[m].ws].of = m
Answers(m) == Live(m) /\ ~vm[m].paused /\ jail[vm[m].ws].of = m

\* Of what the guest of m has in memory, n changes are written to its disks.
Settles(m, n) ==
    /\ cache' = [cache EXCEPT ![m] = @ - n]
    /\ jail' = [jail EXCEPT ![vm[m].ws].work = @ + n]
    /\ synced' = [synced EXCEPT ![vm[m].ws] = jail[vm[m].ws].work + n]

\* flush_workspace, which writes everything.  A guest that is stopped by a member
\* still answers requests until it is paused.
SyncNothing(m) == 0                    \* variant: paused without the sync
SyncAll(m) == cache[m]

Flush ==
    /\ job.at = "flush" /\ Answers(job.m)
    /\ Settles(job.m, SyncAll(job.m))
    /\ Step("pause")
    /\ UNCHANGED <<running, vm, snap, prev, marker, tap, req, pending, made, faults,
                   exits, kept>>

Pause ==
    /\ job.at = "pause" /\ Live(job.m)
    /\ vm' = [vm EXCEPT ![job.m].paused = TRUE]
    /\ Step("stage")
    /\ UNCHANGED <<running, files, tap, req, pending, made, faults, exits, progress>>

\* The disks are linked into .idle.next with their metadata.
Stage ==
    /\ job.at = "stage" /\ jail[job.ws].of = job.m
    /\ job' = [job EXCEPT !.at = "dropPrev",
                 !.cp = [kind |-> "disks", work |-> jail[job.ws].work, slot |-> vm[job.m].slot]]
    /\ UNCHANGED <<running, vm, files, tap, req, pending, made, faults, exits, progress>>

Sweep ==
    /\ job.at = "sweep"
    /\ prev' \in {prev, [prev EXCEPT ![job.ws] = NoCheckpoint]}
    /\ Step("kill")
    /\ UNCHANGED <<running, vm, jail, snap, marker, tap, req, pending, made,
                   faults, exits, progress>>

\* stop_machine
Kill ==
    /\ job.at = "kill"
    /\ vm' = [vm EXCEPT ![job.m].alive = FALSE]
    /\ tap' = [tap EXCEPT ![vm[job.m].slot] = None]
    /\ Step("erase")
    /\ UNCHANGED <<running, files, req, pending, made, faults, exits, progress>>

Erase ==
    /\ job.at = "erase"
    /\ jail' = [jail EXCEPT ![vm[job.m].ws] = NoJail]
    /\ Step("unmap")
    /\ UNCHANGED <<running, vm, snap, prev, marker, tap, req, pending, made,
                   faults, exits, progress>>

\* A create goes on in the slot it reclaimed.
Unmap ==
    /\ job.at = "unmap"
    /\ running' = [running EXCEPT ![vm[job.m].ws] = None]
    /\ vm' = [vm EXCEPT ![job.m] = Forgotten(job.m)]
    /\ job' = CASE job.op = "create" -> [job EXCEPT !.at = "recover", !.m = None]
                [] job.op = "shutdown" -> [job EXCEPT !.at = "next", !.m = None, !.ws = None]
                [] OTHER -> NoJob
    /\ UNCHANGED <<files, tap, req, pending, made, faults, exits, progress>>

-----------------------------------------------------------------------------
(* park, discard_snapshot and the shutdown of the host.                    *)

Park(w) ==
    /\ Idle /\ w \in Ephemeral /\ running[w] # None /\ Saved(w).kind = "full"
    /\ vm' = [vm EXCEPT ![running[w]].due = FALSE, ![running[w]].parked = TRUE]
    /\ UNCHANGED <<running, files, tap, job, req, pending, made, faults, exits, progress>>

\* Four removals one after the other, of which the last ones may not happen.
\* The jail stays while a machine uses it.
DiscardSnapshot(w) ==
    /\ Idle
    /\ \E done \in 1 .. 4 :
         /\ done < 4 => faults < MaxFaults
         /\ faults' = IF done < 4 THEN faults + 1 ELSE faults
         /\ snap' = [snap EXCEPT ![w] = NoCheckpoint]
         /\ prev' = IF done >= 2 THEN [prev EXCEPT ![w] = NoCheckpoint] ELSE prev
         /\ marker' = IF done >= 3 THEN [marker EXCEPT ![w] = FALSE] ELSE marker
         /\ jail' = IF done = 4 /\ running[w] = None
                    THEN [jail EXCEPT ![w] = NoJail] ELSE jail
    /\ synced' = [synced EXCEPT ![w] = None]
    /\ kept' = [kept EXCEPT ![w] = None]
    /\ UNCHANGED <<running, vm, tap, job, req, pending, made, exits, cache>>

\* begin_host_shutdown_if_idle, and cancel_host_shutdown when the helper fails.
BeginHostShutdown ==
    /\ Idle /\ Mapped = {} /\ ~pending
    /\ pending' = TRUE
    /\ UNCHANGED <<running, vm, files, tap, job, req, made, faults, exits, progress>>

CancelHostShutdown ==
    /\ Idle /\ pending
    /\ pending' = FALSE
    /\ UNCHANGED <<running, vm, files, tap, job, req, made, faults, exits, progress>>

\* Nothing but the files outlives the process.
Gone ==
    /\ running' = [w \in Workspaces |-> None]
    /\ vm' = [m \in Machines |-> [Unmade EXCEPT !.ws = vm[m].ws, !.slot = vm[m].slot]]
    /\ tap' = [s \in Slots |-> None]
    /\ job' = NoJob
    /\ req' = [r \in Requests |-> NoRequest]
    /\ pending' = FALSE
    /\ UNCHANGED <<files, made, exits, progress>>

PowerOff == Idle /\ pending /\ Gone /\ UNCHANGED faults

\* SIGTERM: requests are drained, then every machine is taken down.
BeginShutdown ==
    /\ Idle /\ \A r \in Requests : req[r].at = "free"
    /\ pending' = TRUE
    /\ job' = [NoJob EXCEPT !.op = "shutdown", !.at = "next"]
    /\ UNCHANGED <<running, vm, files, tap, req, made, faults, exits, progress>>

ShutdownNext(w) ==
    /\ job.op = "shutdown" /\ job.at = "next" /\ running[w] # None
    /\ job' = [job EXCEPT !.ws = w, !.m = running[w], !.at = FirstStep(w)]
    /\ UNCHANGED <<running, vm, files, tap, req, pending, made, faults, exits, progress>>

Restart == job.op = "shutdown" /\ job.at = "next" /\ Mapped = {} /\ Gone /\ UNCHANGED faults

-----------------------------------------------------------------------------
(* Failures of a job.                                                      *)

Counted == faults < MaxFaults /\ faults' = faults + 1

\* The job ends; the reaper takes its flag back.
GiveUp(vms) ==
    /\ vm' = IF job.op = "reap" THEN [vms EXCEPT ![job.m].hibernating = FALSE] ELSE vms
    /\ job' = NoJob

\* cleanup_failed_machine, as far as it gets.
Cleaned == [vm EXCEPT ![job.m].alive = FALSE]
CleanFiles ==
    /\ tap' = [tap EXCEPT ![job.slot] = None]
    /\ \E left \in Leftovers(job.ws) : jail' = [jail EXCEPT ![job.ws] = left]

\* Nothing is undone: in particular the disks of a jail that has no
\* recovery.json yet stay where they are.
FailPlainly ==
    /\ job.op # "shutdown"
    /\ job.at \in {"recover", "prepare", "launch", "meta", "marker", "pause"}
    /\ Counted
    /\ GiveUp(vm)
    /\ UNCHANGED <<running, files, tap, req, pending, made, exits, progress>>

FailFlush ==
    /\ job.op # "shutdown"
    /\ job.at = "flush"
    /\ Counted \/ (~Answers(job.m) /\ UNCHANGED faults)
    /\ GiveUp(vm)
    /\ UNCHANGED <<running, files, tap, req, pending, made, exits, progress>>

\* prepare_and_start: once more, from the disks of the full checkpoint.
FailRestore ==
    /\ job.at = "restore"
    /\ Counted
    /\ vm' = Cleaned /\ CleanFiles
    /\ job' = [job EXCEPT !.at = "recover", !.m = None, !.plain = TRUE]
    /\ UNCHANGED <<running, snap, prev, marker, req, pending, made, exits, progress>>

FailReady ==
    /\ job.at = "await"
    /\ Counted
    /\ vm' = Cleaned /\ CleanFiles
    /\ job' = NoJob
    /\ UNCHANGED <<running, snap, prev, marker, req, pending, made, exits, progress>>

\* The guest is resumed if that works; a checkpoint set aside is put back.
FailPersist ==
    /\ job.op # "shutdown"
    /\ job.at \in Rotate \cup {"stage"}
    /\ Counted
    /\ \E resumed \in BOOLEAN :
         GiveUp(IF job.op = "create" \/ ~resumed THEN vm
                ELSE [vm EXCEPT ![job.m].paused = FALSE])
    /\ \/ UNCHANGED <<snap, prev>>
       \/ /\ job.at = "promote" /\ Exists(prev[job.ws])
          /\ snap' = [snap EXCEPT ![job.ws] = prev[job.ws]]
          /\ prev' = [prev EXCEPT ![job.ws] = NoCheckpoint]
    /\ UNCHANGED <<running, jail, marker, tap, req, pending, made, exits, progress>>

FailErase ==
    /\ job.op # "shutdown"
    /\ job.at = "erase"
    /\ Counted
    /\ \E left \in Leftovers(vm[job.m].ws) : jail' = [jail EXCEPT ![vm[job.m].ws] = left]
    /\ GiveUp(vm)
    /\ UNCHANGED <<running, snap, prev, marker, tap, req, pending, made, exits, progress>>

\* The caller hangs up: its handler's future is dropped where it waits.
HangUp ==
    /\ job.op \in {"create", "destroy"}
    /\ Counted
    /\ job' = NoJob
    /\ UNCHANGED <<running, vm, files, tap, req, pending, made, exits, progress>>

\* The service or its host dies, at any moment; so does a service whose
\* shutdown met a machine that it could not take down.
Crash ==
    /\ \/ Counted
       \/ job.op = "shutdown" /\ job.at = "flush" /\ ~Answers(job.m) /\ UNCHANGED faults
    /\ Gone

-----------------------------------------------------------------------------
(* Requests to a guest.                                                    *)

\* machine_with_activity, up to the clone of the Arc.  `poll` are the calls
\* that take a ReaperExemptRequest.
Arrive(r, w, poll) ==
    /\ req[r].at = "free" /\ running[w] # None /\ job.op # "shutdown"
    /\ req' = [req EXCEPT ![r] = [at |-> "flag", m |-> running[w], poll |-> poll]]
    /\ UNCHANGED <<running, vm, files, tap, job, pending, made, faults, exits, progress>>

CheckFlag(r) ==
    /\ req[r].at = "flag"
    /\ IF vm[req[r].m].hibernating
       THEN req' = [req EXCEPT ![r] = NoRequest] /\ UNCHANGED vm
       ELSE /\ req' = [req EXCEPT ![r].at = "child"]
            /\ vm' = IF req[r].poll THEN vm ELSE Active(req[r].m)
    /\ UNCHANGED <<running, files, tap, job, pending, made, faults, exits, progress>>

\* The entry of the workspace goes, whichever machine it holds by now.
Evicted(m) == [running EXCEPT ![vm[m].ws] = None]

\* cleanup_failed_machine, by paths that are the workspace's and the slot's.
Remains(m) ==
    /\ tap' = [tap EXCEPT ![vm[m].slot] = None]
    /\ jail' = [jail EXCEPT ![vm[m].ws] = NoJail]

\* try_wait, under the lock of the child: a machine whose process is gone is
\* evicted, without the lock provision.
FindsItUp(r) ==
    /\ req[r].at = "child" /\ Live(req[r].m)
    /\ req' = [req EXCEPT ![r].at = "using"]
    /\ UNCHANGED <<running, vm, files, tap, job, pending, made, faults, exits, progress>>

FindsItDead(r) ==
    /\ req[r].at = "child" /\ ~Live(req[r].m)
    /\ req' = [req EXCEPT ![r].at = "evict"]
    /\ UNCHANGED <<running, vm, files, tap, job, pending, made, faults, exits, progress>>

Evict(r) ==
    /\ req[r].at = "evict"
    /\ running' = Evicted(req[r].m)
    /\ req' = [req EXCEPT ![r].at = "clean"]
    /\ UNCHANGED <<vm, files, tap, job, pending, made, faults, exits, progress>>

Clean(r) ==
    /\ req[r].at = "clean"
    /\ Remains(req[r].m)
    /\ req' = [req EXCEPT ![r] = NoRequest]
    /\ UNCHANGED <<running, vm, snap, prev, marker, job, pending, made, faults,
                   exits, progress>>

\* A guest answers when a member's change is in its memory: exec, terminals and
\* the Superset files sync nothing, and write_file not the directory that names
\* its file.  Only the work in durable workspaces is followed.
Work(r) ==
    /\ req[r].at = "using" /\ ~req[r].poll
    /\ LET m == req[r].m
           w == vm[m].ws IN
         /\ w \in Durable /\ Answers(m) /\ jail[w].work + cache[m] < MaxWork
         /\ cache' = [cache EXCEPT ![m] = @ + 1]
    /\ UNCHANGED <<running, vm, files, tap, job, req, pending, made, faults, exits,
                   synced, kept>>

\* The guest's kernel writes a change back.
WriteBack(m) ==
    /\ Answers(m) /\ cache[m] > 0
    /\ Settles(m, 1)
    /\ UNCHANGED <<running, vm, snap, prev, marker, tap, job, req, pending, made,
                   faults, exits, kept>>

\* `resume`: its one caller, the sign-in to a provider, uses an ephemeral sandbox,
\* and those are never paused.
Resume(r) ==
    /\ req[r].at = "using" /\ ~req[r].poll /\ vm[req[r].m].ws \in Ephemeral
    /\ Live(req[r].m)
    /\ vm' = [vm EXCEPT ![req[r].m].paused = FALSE]
    /\ UNCHANGED <<running, files, tap, job, req, pending, made, faults, exits, progress>>

\* The request ends; one that was answered counts as activity, and `touch`
\* moves an ephemeral machine's expiry.
Done(r, touch) ==
    /\ req[r].at = "using"
    /\ TornCount \/ job.at # "count"
    /\ touch => ~req[r].poll
    /\ vm' = CASE touch -> [vm EXCEPT ![req[r].m].due = FALSE]
               [] ~req[r].poll /\ ~touch -> Active(req[r].m)
               [] OTHER -> vm
    /\ req' = [req EXCEPT ![r] = NoRequest]
    /\ UNCHANGED <<running, files, tap, job, pending, made, faults, exits, progress>>

-----------------------------------------------------------------------------
\* Nothing happened for idle_timeout, or expires_at is past.  Only the reaper
\* looks, so it is enough that it happens between two jobs.
TimePasses(m) ==
    /\ Idle /\ m \in Mapped /\ vm[m].alive /\ ~vm[m].due
    /\ vm' = [vm EXCEPT ![m].due = TRUE]
    /\ UNCHANGED <<running, files, tap, job, req, pending, made, faults, exits, progress>>

GuestExits(m) ==
    /\ m \in Mapped /\ vm[m].alive /\ exits < MaxExits
    /\ vm' = [vm EXCEPT ![m].alive = FALSE]
    /\ exits' = exits + 1
    /\ UNCHANGED <<running, files, tap, job, req, pending, made, faults, progress>>

Boots ==
    \/ Recover \/ Choose \/ Prepare \/ Launch \/ Restored \/ Ready
    \/ WriteMeta \/ WriteMarker \/ Insert
Rotates == DropPrevious \/ Demote \/ Promote
TakesDown ==
    \/ LoadPolls \/ CountReferences \/ Flush \/ Pause \/ Stage \/ Sweep
    \/ Kill \/ Erase \/ Unmap
Fails ==
    \/ FailPlainly \/ FailFlush \/ FailRestore \/ FailReady \/ FailPersist
    \/ FailErase \/ HangUp \/ Crash
Begins(w) ==
    \/ CreateExisting(w) \/ BeginCreate(w) \/ BeginDestroy(w) \/ BeginReap(w)
    \/ Park(w) \/ DiscardSnapshot(w) \/ ShutdownNext(w)
Asks(r) ==
    \/ \E w \in Workspaces, poll \in BOOLEAN : Arrive(r, w, poll)
    \/ CheckFlag(r) \/ FindsItUp(r) \/ FindsItDead(r) \/ Evict(r) \/ Clean(r) \/ Work(r)
    \/ Resume(r)
    \/ \E touch \in BOOLEAN : Done(r, touch)

Next ==
    \/ \E w \in Workspaces : Begins(w)
    \/ Boots \/ Rotates \/ TakesDown \/ Fails
    \/ BeginHostShutdown \/ CancelHostShutdown \/ PowerOff \/ BeginShutdown \/ Restart
    \/ \E r \in Requests : Asks(r)
    \/ \E m \in Machines : TimePasses(m) \/ GuestExits(m) \/ WriteBack(m)

Spec == Init /\ [][Next]_vars
=============================================================================
