---------------------------- MODULE TurnProperties ----------------------------
(***************************************************************************)
(* What agent turns must keep to (AgentTurns).                             *)
(***************************************************************************)
EXTENDS AgentTurns

\* A turn ends with one message: the tab and the cron poll the same turn, and
\* either may be the one that sees the exit (recordGen2TurnChunks claims it in
\* the row through savePoll, as does recordGen2SupersetRunOutput for a run).
ReplyOnce == \A t \in Turns : Len(replies[t]) <= 1

\* A turn of the ARM runtime keeps its transcript: the guest drops nothing that
\* is not committed, the cursor passes nothing that was not returned, and the
\* reply is the whole of it, whatever polls overlap, fail or die; capTurnOutput
\* cuts the middle of a long one, at the same place whatever the polls were.
Durable(t) == path[t] = "native" /\ runtime = "azure_arm"
OfDurable(f, initial) == [t \in Turns |-> IF Durable(t) THEN f[t] ELSE initial]

Kept == INSTANCE Transcript WITH
    said <- OfDurable([t \in Turns |-> guest[t].next - 1], 0),
    ended <- OfDurable([t \in Turns |-> guest[t].eof], FALSE),
    kept <- OfDurable(output, <<>>),
    told <- OfDurable(replies, <<>>)

KeepsTranscript == Kept!Spec

\* A seat that is held with a fresh heartbeat is given up by a handler of its
\* holder and by nobody else: the finalizer of a turn that has lost the seat
\* meanwhile leaves it to the one that took it (credential-seat.ts).
GivenUpBy(ref) ==
    \/ ref = Room /\ RoomReply /\ UNCHANGED <<native, runs>>
    \/ \E t \in Turns :
         \/ ref = Key(t) /\ (NativeUnseats(t) \/ NativeRetags(t))
         \/ /\ ref = t
            /\ \/ NativeCancel(t) \/ start'[t] # start[t]
               \/ cancel'[t] # cancel[t] \/ monitor'[t] # monitor[t]
               \/ \E p \in Pollers : poll[p].turn = t /\ poll'[p] # poll[p]

OwnSeatOnly ==
    [][seat.fresh /\ seat'.ref # seat.ref => GivenUpBy(seat.ref)]_vars

-----------------------------------------------------------------------------
\* What the agent monitor and the cron bring about.

\* The steps of a poll, of the cron's polls of a turn and of the monitor's checks
\* of a run.  The cron polls a turn that is among those it takes; the monitor lists
\* every run that may be alive (superset-runs.ts).
PollRuns(p) ==
    \/ NativePoll(p) /\ UNCHANGED runs
    \/ RunPoll(p) /\ UNCHANGED native
CronRuns(t) ==
    \/ poll["cron"].turn = t /\ PollRuns("cron")
    \/ /\ Reached("cron", t) /\ RoomForOne /\ UNCHANGED ahead
       /\ \/ ArmPollBegins("cron", t) /\ UNCHANGED runs
          \/ RunPollBegins("cron", t) /\ UNCHANGED native
MonitorRuns(t) ==
    /\ \/ MonitorChecks(t) \/ MonitorRecovers(t)
       \/ MonitorLists(t) /\ RoomForOne
    /\ UNCHANGED <<native, ahead>>

\* A turn's own place is not promised while somebody polls it, as each poll puts
\* it last again.
Unpolled(t) == \A p \in Pollers : poll[p].turn # t

\* The clock triggers the monitor and the cron, whatever requests are under way.
\* A handler that has begun goes on, other turns that are not stuck are served,
\* and heartbeats stop.
Fairness ==
    /\ \A t \in Turns :
         /\ SF_vars(MonitorRuns(t))
         /\ SF_vars(CronRuns(t))
         /\ WF_vars(Unpolled(t) /\ Served(t))
         /\ WF_vars((CancelStops(t) \/ CancelEnds(t)) /\ UNCHANGED <<native, ahead>>)
         /\ WF_vars(RunStart(t) /\ UNCHANGED <<native, ahead>>)
    /\ \A p \in Pollers \ {"cron"} : WF_vars(PollRuns(p))
    /\ WF_vars(SeatGoesStale /\ UNCHANGED <<native, runs, ahead>>)

FairSpec == Spec /\ Fairness

\* A run does not stay creating, running or stopping when there is no agent
\* for it: its handlers may die at any step, and the monitor finds it.
RunSettles ==
    \A t \in Turns : []<>(run[t].status \notin Monitorable \/ agent[t] = "live")

\* No heartbeat keeps the seat of a run that is over: whoever waits for the
\* member's login gets it, at the latest when the seat has gone stale.
SeatComesFree ==
    \A t \in Turns :
        <>[](agent[t] \in {"ended", "disposed", "lost"}
                => ~(seat.ref = t /\ seat.fresh))

\* On the ARM runtime the reply does not depend on a tab: a turn whose agent
\* has ended is closed by the cron, unless what it wrote is gone: as many turns
\* as there may be, each comes to the front, provided that fewer are stuck than
\* the cron takes at a time (Served).  A native turn that wrote nothing is left
\* out: the cursor of its row starts at 0 and the guest's sequences at 1, so that
\* no poll finds the end of its output.
Answerable(t) ==
    /\ runtime = "azure_arm" /\ row[t] = "open"
    /\ \/ path[t] = "native" /\ guest[t].at = "open"
          /\ Exited(guest[t]) /\ guest[t].next > 1
       \/ path[t] = "superset" /\ agent[t] = "ended" /\ run[t].agent

RepliesArrive == \A t \in Turns : []<>~Answerable(t)
=============================================================================
