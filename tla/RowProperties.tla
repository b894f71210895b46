---------------------------- MODULE RowProperties ----------------------------
(***************************************************************************)
(* What the rows and sessions of Firecracker workspaces must keep to.      *)
(***************************************************************************)
EXTENDS ComputeCron

Pcs == {"idle", "expire", "ask", "attach", "claim", "reclaim",
        "wake", "current", "provision", "meter", "commit", "failing", "destroy",
        "end", "stopped", "reach", "remove", "tryRemove", "unmeter", "erase",
        "bootstrap", "probe", "insert", "select", "observe", "exhaust"}

\* The state is well formed; a lease belongs to a row being started or stopped.
TypeOK ==
    /\ \/ row = None
       \/ /\ row \in Rows
          /\ row.status # "provisioning" => row.holder = None /\ ~row.stale
    /\ session \in Owners \cup {None}
    /\ guest \in BOOLEAN
    /\ host \in {"up", "stopped"}
    /\ spent \subseteq Owners
    /\ op \in [Actors -> [pc : Pcs, owner : Owners \cup {None},
                          was : Statuses \cup {"up", None}]]
    /\ mishap \in Mishaps \cup {None}

\* Unless a start outlives its lease, at most one actor works under a lease,
\* and the row waits for it: nobody can claim it, delete it or hand it over
\* (claimProvisioning, and the refusals of stop, deletion and transfer).
LeaseHeld ==
    mishap # "slow" =>
      \A a \in Actors : op[a].pc \in Leasing =>
        /\ row # None /\ row.status = "provisioning" /\ ~row.stale
        /\ row.holder = a \/ mishap = "touched"
        /\ \A b \in Actors : op[b].pc \in Leasing => b = a

\* A stopped workspace runs nothing: whoever commits the stop has destroyed the
\* guest under a lease that no start shared, whatever starts, deletions, deaths
\* and rounds overlap (stopGen2Instance, claimProvisioning).  Only an answer
\* that is lost, or a start that outlives its lease, leaves a guest behind.
StoppedIsStopped ==
    row # None /\ row.status = "stopped" /\ mishap \notin {"lost", "slow"} => ~guest

\* Requests and rounds that have begun go on, and the cron begins again; a
\* guest that nobody can reach through a ready row becomes idle.
Fairness ==
    /\ SF_vars(Begins) /\ WF_vars(Round)
    /\ \A r \in Requests :
         WF_vars(EnsureInstance(r) \/ StopInstance(r) \/ DeleteWorkspace(r))
    /\ WF_vars(Ages)
    /\ WF_vars(~(row # None /\ row.status = "ready") /\ Hibernates)

\* Members keep opening the workspace (the page polls until it is ready).
Reopened == SF_vars(\E r \in Requests : Opens(r))

\* The host is not switched off over and over in the middle of every round.
HostSettles == <>[][~Deallocates]_vars

FairSpec == Spec /\ Fairness /\ Reopened /\ HostSettles

\* A session does not outlive its guest for good, whoever let the guest go:
\* the orchestrator, the host, a stop that lost its answer (observeSession).
Outlived == row # None /\ session # None /\ ~guest
SessionsEnd == Outlived ~> ~Outlived

\* No guest runs without a session for good: the cron meters the guest of a
\* ready row (bootstrapActiveSessions), and a guest that is left by a start
\* that failed or was overtaken, or by a deletion, is hibernated.
Unmetered == guest /\ session = None
GuestsAreMetered == Unmetered ~> ~Unmetered

\* An owner whose pool is used up does not go on using it (stopExhaustedOwner).
Overspent == row # None /\ session = row.owner /\ session \in spent
ExhaustedStops == Overspent ~> ~Overspent

\* A row does not stay `provisioning` after the process that started or stopped
\* it has died, as long as its owner has minutes (claimProvisioning).
Stuck == row # None /\ row.status = "provisioning" /\ row.owner \notin spent
StartsRecover == Stuck ~> ~Stuck
=============================================================================
