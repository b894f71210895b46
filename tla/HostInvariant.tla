---------------------------- MODULE HostInvariant ----------------------------
(* Why the safety properties of FirecrackerHost hold: what is true between *)
(* any two of its steps.                                                   *)
EXTENDS FirecrackerProperties

\* A create with a machine of its own, that is not in the map yet.
WithMachine == {"launch", "restore", "await", "meta", "marker", "insert"}
Launched == WithMachine \ {"launch"}
Booting == job.op = "create" /\ job.at \in WithMachine

\* A create that takes down a parked machine to have its slot.
Reclaims == {"kill", "erase", "unmap"}

\* What the holder of the lock has in its hands at every one of its steps.
OfNobody == job.op = "none" => job = NoJob
OfCreate ==
    job.op = "create" =>
        /\ job.ws \in Workspaces /\ running[job.ws] = None
        /\ job.at \in Boot \cup Rotate \cup Reclaims
        /\ job.m = None <=> job.at \notin WithMachine \cup Reclaims
        /\ job.at \in WithMachine => vm[job.m].ws = job.ws /\ vm[job.m].slot = job.slot
OfTaker ==
    job.op \in {"destroy", "reap", "shutdown"} =>
        \/ /\ job.at \in Down \cup Rotate
           /\ job.ws \in Workspaces /\ job.m \in Machines /\ vm[job.m].ws = job.ws
        \/ /\ job.op = "reap" /\ job.at \in {"next", "count"}
           /\ job.ws \in Workspaces /\ job.m \in Machines /\ vm[job.m].ws = job.ws
        \/ job.op = "shutdown" /\ job.at = "next" /\ job.m = None /\ job.ws = None
JobShape == OfNobody /\ OfCreate /\ OfTaker

\* What a request has in its hands.
ReqShape ==
    \A r \in Requests :
        /\ req[r].at = "free" <=> req[r] = NoRequest
        /\ req[r].at # "free" => req[r].m \in Machines /\ vm[req[r].m].ws # None

\* A machine is in the map under its own workspace.
MapOwn == \A w \in Workspaces : running[w] # None => vm[running[w]].ws = w

Shape == JobShape /\ ReqShape /\ MapOwn

\* The slot of a create stays free until its machine is in the map.
SlotKept ==
    job.op = "create" /\ job.at \in WithMachine \cup {"prepare"} => job.slot \notin Taken

\* Whoever may remove files by the paths of a machine shares none of them with
\* another machine that is in the map or about to be.
Boots1 == IF Booting THEN {job.m} ELSE {}
Standing == Mapped \cup Boots1
Parties ==
    Standing \cup ({job.m} \ {None}) \cup {req[r].m : r \in {q \in Requests : Checking(q)}}
Disjoint(m, k) == vm[m].slot # vm[k].slot /\ vm[m].ws # vm[k].ws
Apart == \A m \in Parties, k \in Standing : m = k \/ Disjoint(m, k)

\* No request has the machine of a create.
Unused == Booting => Users(job.m) = {}

\* Files are removed only of machines whose process is gone.
Dead ==
    /\ job.at \in {"erase", "unmap"} => ~vm[job.m].alive
    /\ \A r \in Requests : req[r].at \in {"evict", "clean"} => ~vm[req[r].m].alive

\* A request to a guest that is up keeps it in the map.
InUse ==
    \A r \in Requests :
        req[r].at # "free" /\ vm[req[r].m].alive => running[vm[req[r].m].ws] = req[r].m

\* A create has its jail and its tap until its machine is in the map.
BootIntact ==
    Booting => /\ jail[job.ws].of = job.m
               /\ job.at \in Launched => tap[job.slot] = job.m

\* A host that is reserved for shutdown has no job and no machine.
Reserved == pending /\ job.op # "shutdown" => Idle /\ Mapped = {}

\* From the count on, the machine in the hands of the reaper has only polls.
Flagged == job.op = "reap" => vm[job.m].hibernating
Counts == job.op = "reap" /\ job.at = "count" => job.polls <= Polls(job.m)
OnlyPolls ==
    job.op = "reap" /\ job.at \in Down \cup Rotate =>
        \A r \in Requests :
            req[r].m = job.m /\ req[r].at \in {"child", "using"} => req[r].poll
Reaper == Flagged /\ Counts /\ OnlyPolls

\* A shutdown of the service meets no request, so the machine in its hands stays
\* in the map.
Drained ==
    job.op = "shutdown" =>
        /\ \A r \in Requests : req[r].at = "free"
        /\ job.m # None => job.m \in Mapped

\* A guest that nobody has reached yet has nothing in its memory.
Blank ==
    /\ Booting => cache[job.m] = 0
    /\ \A m \in Machines : m > made => cache[m] = 0

\* What is in the memory of a durable guest has been written before the reaper or
\* a shutdown pauses it, and nothing is added: no request but polls can reach it.
StillUp == {"pause", "stage", "sweep", "kill"} \cup Rotate
Flushed ==
    job.op \in {"reap", "shutdown"} /\ job.ws \in Durable /\ job.at \in StillUp =>
        cache[job.m] = 0

Alone == Apart /\ InUse /\ BootIntact /\ ServedIntact

HostInv ==
    /\ TypeOK /\ Shape /\ SlotKept /\ Unused /\ Dead /\ Reserved
    /\ Drained /\ Blank
    /\ ~LateRequests => Alone
    /\ ~TornCount => Reaper /\ Flushed

-----------------------------------------------------------------------------
(* Where the written work of a durable workspace is.                       *)

\* At most one failure, no guest that exits, and no request whose checks outlast
\* the making of a machine.
Calm == ~LateRequests /\ faults <= 1 /\ exits = 0

\* Only machines of ephemeral workspaces are parked, and taken down for a slot.
ParkedOnly == \A m \in Machines : vm[m].parked => vm[m].ws \notin Durable
ReclaimedOnly == job.op = "create" /\ job.at \in Reclaims => vm[job.m].ws \notin Durable

\* A create of w, or a job that takes a machine of w down, is at one of the steps.
Creates(w, steps) == job.op = "create" /\ job.ws = w /\ job.at \in steps
Taker == job.op \in {"destroy", "reap", "shutdown"}
Takes(w, steps) == Taker /\ job.ws = w /\ job.at \in steps

\* The disks of an interrupted guest, which the next boot would take.
Recoverable(w) == jail[w].of # None /\ jail[w].meta

\* The machine in the map is up; or a request may remove the jail at any time; or
\* one is bound to come.
Up(w) == running[w] # None /\ vm[running[w]].alive
Late(w) == \E r \in Requests : Checking(r) /\ vm[req[r].m].ws = w /\ ~vm[req[r].m].alive
Doomed(w) == Late(w) \/ (running[w] # None /\ ~vm[running[w]].alive)

\* The checkpoint is in its place, or a recovery has set it aside.
Is(cp, work) == Exists(cp) /\ cp.work = work
InPlace(w) ==
    \/ Is(snap[w], synced[w])
    \/ Creates(w, {"promote"}) /\ ~Exists(snap[w]) /\ Is(prev[w], synced[w])

\* A machine that is taken down is in the map while it is up, and a durable one
\* is paused until its checkpoint is in place.
StillPaused == {"stage", "sweep", "kill"} \cup Rotate
KeepsUp ==
    Taker /\ job.m # None =>
        /\ vm[job.m].alive => running[job.ws] = job.m
        /\ job.ws \in Durable /\ job.at \in StillPaused => vm[job.m].paused

\* If no guest exits on its own, it is up until then, too.
StaysUp ==
    Taker /\ job.m # None /\ job.ws \in Durable /\ job.at \in StillUp => vm[job.m].alive

\* While no job has failed, only the machine in the hands of the job is paused or
\* has had its process ended.
InHand(m, steps) == job.m = m /\ job.at \in steps
OnlyInHand ==
    /\ \A m \in Mapped :
         /\ vm[m].paused => InHand(m, StillPaused \cup {"erase", "unmap"})
         /\ exits = 0 /\ ~vm[m].alive => InHand(m, {"erase", "unmap"})
    /\ Booting => ~vm[job.m].paused

\* A machine that is being made is up once it is launched.
BootUp == Booting /\ job.at \in Launched => vm[job.m].alive

\* What the jail is like while a job is at work on it.
Jailed(w) ==
    /\ Up(w) => Recoverable(w)
    /\ Creates(w, {"launch", "restore", "await", "meta"}) => ~jail[w].meta
    /\ Creates(w, {"marker", "insert"}) => jail[w].meta
    /\ Takes(w, {"unmap"}) => jail[w].of = None

\* If disks that could be recovered may be removed, or a recovery goes on without
\* them, the one failure has been.
Blamed(w) ==
    /\ Doomed(w) /\ Recoverable(w) => faults >= 1 \/ Takes(w, {"erase"})
    /\ Creates(w, Rotate) /\ (Doomed(w) \/ ~Recoverable(w)) => faults >= 1

\* The work is in the jail, or in a checkpoint that nobody is about to remove.
Saves(w) ==
    synced[w] # None =>
        /\ Recoverable(w) => jail[w].work = synced[w]
        /\ ~Recoverable(w) => Is(Saved(w), synced[w])
        /\ Creates(w, {"choose", "prepare"}) => Is(Saved(w), synced[w])
        /\ Creates(w, {"prepare"}) => Is(job.cp, synced[w])
        /\ Creates(w, {"launch", "restore", "await", "meta"}) => jail[w].work = synced[w]
        /\ job.ws = w /\ job.at \in Rotate => Is(job.cp, synced[w])
        /\ Creates(w, Rotate) => Recoverable(w) \/ InPlace(w)
        /\ Takes(w, {"sweep", "kill", "erase", "unmap"}) => Is(snap[w], synced[w])
        /\ Doomed(w) => InPlace(w)

-----------------------------------------------------------------------------
(* What the next boot has while no job has failed, whatever guests exit.   *)

Flawless == ~LateRequests /\ faults = 0

\* What went wrong, if anything did, is one failure, or the exits of guests: no
\* request's checks outlast the making of a machine, and none ends between the two
\* loads of the reaper.
OneCause == ~LateRequests /\ ~TornCount /\ faults <= 1 /\ (faults = 0 \/ exits = 0)

\* The work a boot of w begins with, by its last checkpoint.
Basis(w) == IF kept[w] = None THEN 0 ELSE kept[w]

\* The last checkpoint put in place is the one that a boot finds: the one before
\* it stands in only between the two halves of a replacement.
Checkpointed(w) ==
    /\ kept[w] = IF Exists(Saved(w)) THEN Saved(w).work ELSE None
    /\ ~Exists(snap[w]) /\ Exists(prev[w]) => job.ws = w /\ job.at = "promote"
    /\ job.ws = w /\ job.at \in Rotate => Exists(job.cp)

\* Disks that could be recovered are what a job has in its hands, or what it has
\* put in place, when it goes on to remove them.
Copied(w) ==
    Recoverable(w) =>
        /\ job.ws = w /\ job.at \in Rotate => jail[w].work = job.cp.work
        /\ Creates(w, {"choose"}) \/ Takes(w, {"sweep", "kill", "erase"}) =>
             jail[w].work = kept[w]
        /\ ~Creates(w, {"prepare"})

\* A boot begins with that work, and with a fresh checkout only of a workspace
\* that does not count as initialized.
Begun(w) ==
    /\ Creates(w, {"prepare"}) => Source(job.cp) = Basis(w)
    /\ Creates(w, {"launch", "restore", "await", "meta"}) => jail[w].work = Basis(w)
    /\ Creates(w, {"prepare", "launch", "restore", "await", "meta"}) /\ marker[w] =>
         kept[w] # None

Lasts(w) == Checkpointed(w) /\ Copied(w) /\ Begun(w)

WorkInv ==
    /\ HostInv /\ ParkedOnly /\ ReclaimedOnly
    /\ ~LateRequests => KeepsUp /\ BootUp /\ \A w \in Durable : Jailed(w)
    /\ Calm => StaysUp /\ \A w \in Durable : Blamed(w) /\ Saves(w)
    /\ Flawless => OnlyInHand /\ \A w \in Durable : Lasts(w)
=============================================================================
