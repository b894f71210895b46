------------------------ MODULE FirecrackerProperties ------------------------
(* What FirecrackerHost promises.                                          *)
EXTENDS FirecrackerHost

\* What a create of w boots: the disks an interrupted guest left behind, or the
\* last checkpoint.
Bootable(w) ==
    IF jail[w].of # None /\ jail[w].meta THEN jail[w].work
    ELSE IF Exists(Saved(w)) THEN Saved(w).work
    ELSE None

\* Work that has reached the disks of a guest survives failures, hang-ups and
\* restarts of the service at any step: as long as no guest exited on its own, the
\* next boot has the last of it (recover_interrupted_workspace, hibernate_machine).
WorkKept ==
    exits = 0 =>
        \A w \in Durable : synced[w] # None => Bootable(w) = synced[w]

\* A machine that is offered to requests has its own jail and its own tap, and
\* shares its slot with none
\* (first_available_slot, ensure_tap, the paths of a jail).
Intact(m) == tap[vm[m].slot] = m /\ jail[vm[m].ws].of = m
ServedIntact ==
    \A w \in Workspaces :
        running[w] # None /\ vm[running[w]].alive => Intact(running[w])

\* The reaper does not take a machine down under a request that is more than a
\* poll (the order of the flag and the count in reap_expired).
TakenDown(m) == job.op = "reap" /\ job.m = m /\ job.at \in Down \cup Rotate
HeldOpen ==
    \A r \in Requests :
        req[r].at \in {"child", "using"} /\ ~req[r].poll => ~TakenDown(req[r].m)

\* Once the host is reserved for shutdown no guest is alive on it
\* (begin_host_shutdown_if_idle).
HostIdle ==
    pending /\ job.op # "shutdown" => \A m \in Machines : ~Live(m)

\* Disks left by an interrupted boot can be recovered by the next create.
LeftRecoverable ==
    Idle => \A w \in Durable : jail[w].of # None => jail[w].meta

\* What members were told of and only the guest of w has in memory.
Unsaved(w) ==
    IF running[w] # None /\ vm[running[w]].alive THEN cache[running[w]] ELSE 0
Stopping == {w \in Durable : job.op = "destroy" /\ job.ws = w}

\* The host implements the promise of DurableWork to every durable workspace,
\* whatever fails: the work of the next boot is what Bootable finds in the files,
\* and what a guest was only told reaches them before the reaper or a shutdown of
\* the service takes the guest down (flush_workspace in hibernate_machine).
Owners == INSTANCE DurableWork WITH
    content <- [w \in Durable |-> Bootable(w)],
    checked <- [w \in Durable |-> kept[w]],
    saved <- [w \in Durable |-> synced[w]],
    unsaved <- [w \in Durable |-> Unsaved(w)],
    started <- [w \in Durable |-> marker[w]],
    stopping <- Stopping,
    exited <- exits > 0, failed <- faults > 0
KeepsWork == Owners!Spec
=============================================================================
