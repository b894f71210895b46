------------------------------ MODULE AgentTurns ------------------------------
(***************************************************************************)
(* Agent turns of both kinds side by side: the turns of one member in one  *)
(* workspace, polled by the tab and by the cron (arm-workspace-turns-      *)
(* reconcile.ts), over one guest, one host and one seat.                   *)
(*                                                                         *)
(* The cron takes the CronBatch open turns that were updated longest ago,  *)
(* of all members and workspaces.  The Others are the open turns of other  *)
(* workspaces; those whose poll always fails (the member was removed, the  *)
(* session is lost) are the Stuck: nothing updates them, so that they stay *)
(* where they are.  CronBatch is 8 in the code.                            *)
(***************************************************************************)
EXTENDS NativeTurns, AgentRuns, FiniteSets

CONSTANTS
    MaxOverlap,     \* handlers under way at one time
    CronBatch, Others, Stuck

ASSUME OverlapAssumption == MaxOverlap \in Nat \ {0}
ASSUME QueueAssumption ==
    CronBatch \in Nat \ {0} /\ Others \in Nat /\ Stuck \in 0..Others

VARIABLE ahead  \* per turn: how many others the cron takes before it

vars == <<records, native, runs, ahead>>

TypeOK ==
    /\ RecordsType /\ NativeType /\ RunsType
    /\ ahead \in [Turns -> 0..Others]

Init ==
    /\ RecordsInit /\ NativeInit /\ RunsInit
    /\ ahead = [t \in Turns |-> Others]

-----------------------------------------------------------------------------
\* The cron's queue of open turns.

Reached(p, t) == p = "cron" => ahead[t] < CronBatch

\* variant: a poll that succeeds does not update the turn it was for
Unrotated(n) == n

Rotated(n) == n - 1

\* One that was ahead of an open turn is polled, and is updated or ends. One of
\* a batch is not stuck, as long as not all of it can be.
Served(t) ==
    /\ runtime = "azure_arm" /\ row[t] = "open"
    /\ Stuck < CronBatch /\ ahead[t] > Stuck
    /\ ahead' = [ahead EXCEPT ![t] = Rotated(@)]
    /\ UNCHANGED <<records, native, runs>>

Last(t) == ahead' = [ahead EXCEPT ![t] = Others]

\* A poll that succeeds updates the turn, as does the exit it claims: after that
\* the turn is not in the queue.
Requeues(p) ==
    LET t == poll[p].turn IN
    IF \/ poll[p].pc \in {"commit", "beat", "dispose"} /\ poll'[p].pc = "idle"
       \/ row'[t] # row[t]
    THEN Last(t) ELSE UNCHANGED ahead

\* A poll that meets another's lock gets what is saved; the cron takes that for
\* a poll.
CronMeetsLock(t) ==
    /\ path[t] = "native" /\ runtime = "azure_arm"
    /\ poll["cron"].pc = "idle" /\ row[t] = "open"
    /\ lock[t] # None /\ Reached("cron", t) /\ Last(t)
    /\ UNCHANGED <<records, native, runs>>

-----------------------------------------------------------------------------

\* A poll dies; the lock goes with its connection.
PollDies(p) ==
    /\ poll[p].pc # "idle" /\ Mishap /\ PollEnds(p)
    /\ lock' = [t \in Turns |-> IF lock[t] = p THEN None ELSE lock[t]]
    /\ UNCHANGED <<path, runtime, start, row, replies, seat,
                   guest, cursor, output, after, runs, ahead>>

\* Guest daemon and host run in the same virtual machine.
VmStops ==
    /\ Mishap /\ GuestLost /\ HostLost
    /\ UNCHANGED <<path, runtime, start, poll, row, replies, seat,
                   cursor, output, lock, after, run, cancel, monitor, ahead>>

Guest(t) == GuestStarts(t) \/ GuestReads(t) \/ GuestReadsEnd(t) \/ GuestReaps(t)

NativeStart(t) ==
    \/ NativeClaims(t) \/ NativeAsks(t) \/ NativeAnswered(t)
    \/ NativeRecords(t) \/ NativeRetags(t) \/ NativeUnseats(t)

NativePoll(p) ==
    /\ \/ ArmPollAsks(p) \/ ArmPollCommits(p) \/ PollReturnsSeat(p)
       \/ DirectPollSaves(p) \/ DirectPollReplies(p) \/ DirectPollAnswers(p)
    /\ Requeues(p)

RunStart(t) ==
    \/ RunClaims(t) \/ RunLeases(t) \/ RunAsks(t)
    \/ RunAnswered(t) \/ RunStarted(t) \/ RunRecords(t) \/ RunStartFails(t)

RunPoll(p) ==
    /\ \/ RunPollAsks(p) \/ RunPollRecords(p) \/ RunPollReplies(p)
       \/ RunPollBeats(p) \/ RunPollFinishes(p)
    /\ Requeues(p)

RoomForOne ==
    Cardinality({t \in Turns : start[t] \notin {"idle", "done", "failed", "dead"}})
         + Cardinality({p \in Pollers : poll[p].pc # "idle"})
         + Cardinality({t \in Turns : cancel[t].pc # "idle"})
         + Cardinality({t \in Turns : monitor[t].pc # "idle"}) < MaxOverlap

NativeBegin(p, t) ==
    \/ NativeBegins(t)
    \/ Reached(p, t) /\ (ArmPollBegins(p, t) \/ ArmPollSaved(p, t))
    \/ DirectPollAsks(p, t) \/ DirectPollMisses(p, t)

RunBegin(p, t) ==
    \/ RunRegisters(t) \/ RunRetried(t)
    \/ Reached(p, t) /\ RunPollBegins(p, t)
    \/ CancelBegins(t) \/ MonitorLists(t)

NativeNext ==
    /\ UNCHANGED runs
    /\ \/ /\ RoomForOne /\ UNCHANGED ahead
          /\ \E p \in Pollers, t \in Turns : NativeBegin(p, t)
       \/ /\ UNCHANGED ahead
          /\ \E t \in Turns : Guest(t) \/ NativeStart(t) \/ NativeCancel(t)
       \/ \E p \in Pollers : NativePoll(p)

RunNext ==
    /\ UNCHANGED native
    /\ \/ /\ RoomForOne /\ UNCHANGED ahead
          /\ \E p \in Pollers, t \in Turns : RunBegin(p, t)
       \/ UNCHANGED ahead /\ \E t \in Turns :
            \/ RunStart(t) \/ HostLaunches(t) \/ AgentEnds(t)
            \/ CancelStops(t) \/ CancelEnds(t)
            \/ MonitorChecks(t) \/ MonitorRecovers(t) \/ HandlerDies(t)
       \/ \E p \in Pollers : RunPoll(p)

RecordsNext ==
    /\ UNCHANGED <<native, runs, ahead>>
    /\ SeatGoesStale \/ RoomReply \/ \E t \in Turns : StartDies(t)

QueueNext == \E t \in Turns : Served(t) \/ CronMeetsLock(t)

Next ==
    \/ NativeNext \/ RunNext \/ RecordsNext \/ QueueNext
    \/ VmStops \/ \E p \in Pollers : PollDies(p)

Spec == Init /\ [][Next]_vars
=============================================================================
