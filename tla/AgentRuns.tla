------------------------------ MODULE AgentRuns ------------------------------
(***************************************************************************)
(* Turns that run as a Superset terminal agent: start, poll, cancel and    *)
(* the monitor of lib/gen2/superset-agent-runtime.ts, the rows of          *)
(* superset-runs.ts, and the host's bridge (host-service codev/agents.ts). *)
(*                                                                         *)
(* Every mark is a transaction of its own that sets the status whatever it *)
(* was.  A poll, a cancel and a check of the monitor use the row as they   *)
(* read it at their beginning.  Not here: the text of the snapshots, input *)
(* to a running agent, the status of the logical session and its restart.  *)
(***************************************************************************)
EXTENDS TurnRecords

VARIABLES
    run,      \* gen2_superset_runs: status, lease_claimed, agent id recorded
    agent,    \* the terminal of a run on the host
    cancel,   \* the request that cancels a run
    monitor   \* the monitor's check of a run

runs == <<run, agent, cancel, monitor>>

Statuses == {"absent", "creating", "running", "stopping",
             "finished", "failed", "recovery_required"}
Monitorable == {"creating", "running", "stopping"}

\* asked: the call is under way; lost: the host is gone with the VM.
Terminals == {"none", "asked", "live", "ended", "disposed", "lost"}

NoHandler == [pc |-> "idle", lease |-> FALSE, agent |-> FALSE]
Handlers(pcs) == [pc : pcs, lease : BOOLEAN, agent : BOOLEAN]

RunsType ==
    /\ run \in [Turns -> [status : Statuses, lease : BOOLEAN, agent : BOOLEAN]]
    /\ agent \in [Turns -> Terminals]
    /\ cancel \in [Turns -> Handlers(
         {"idle", "stop", "unseat", "unlease", "finish", "recover"})]
    /\ monitor \in [Turns -> Handlers({"idle", "check", "recover", "unseat", "unlease"})]

RunsInit ==
    /\ run = [t \in Turns |-> [status |-> "absent", lease |-> FALSE, agent |-> FALSE]]
    /\ agent = [t \in Turns |-> "none"]
    /\ cancel = [t \in Turns |-> NoHandler]
    /\ monitor = [t \in Turns |-> NoHandler]

\* transitionGen2SupersetRun, markGen2SupersetRunRecoveryRequired
Mark(t, status) == run' = [run EXCEPT ![t].status = status]
ReleaseLease(t) == run' = [run EXCEPT ![t].lease = FALSE]
SetAgent(t, state) == agent' = [agent EXCEPT ![t] = state]
Terminal(t) == agent[t] \in {"live", "ended"}

ReleaseIfLeased(h, t) ==
    IF h.lease THEN ReleaseCredentialSeat(t) ELSE UNCHANGED seat

-----------------------------------------------------------------------------
\* startSession, and the row of the turn after it.

RunRegisters(t) ==
    /\ path[t] = "superset" /\ start[t] = "idle"
    /\ Mark(t, "creating") /\ StartGoes(t, "seat")
    /\ UNCHANGED <<path, runtime, poll, row, replies, seat, mishaps,
                   agent, cancel, monitor>>

RunClaims(t) ==
    /\ path[t] = "superset" /\ start[t] = "seat"
    /\ \/ /\ ClaimCredentialSeat(t) /\ StartGoes(t, "lease")
          /\ UNCHANGED run
       \/ /\ SeatWaitEnds(t) /\ StartGoes(t, "failed")
          /\ Mark(t, "failed") /\ UNCHANGED seat
    /\ UNCHANGED <<path, runtime, poll, row, replies, mishaps,
                   agent, cancel, monitor>>

RunLeases(t) ==
    /\ start[t] = "lease"
    /\ run' = [run EXCEPT ![t].lease = TRUE] /\ StartGoes(t, "ask")
    /\ UNCHANGED <<path, runtime, poll, row, replies, seat, mishaps,
                   agent, cancel, monitor>>

RunAsks(t) ==
    /\ path[t] = "superset" /\ start[t] = "ask"
    /\ SetAgent(t, IF agent[t] = "none" THEN "asked" ELSE agent[t])
    /\ StartGoes(t, "answer")
    /\ UNCHANGED <<path, runtime, poll, row, replies, seat, mishaps,
                   run, cancel, monitor>>

\* The terminal's id, or an error: a refusal, or no answer in twenty seconds.
RunAnswered(t) ==
    /\ path[t] = "superset" /\ start[t] = "answer"
    /\ \/ /\ Terminal(t) /\ StartGoes(t, "mark")
          /\ UNCHANGED <<agent, mishaps>>
       \/ /\ StartGoes(t, "unseat") /\ Mishap
          /\ \/ UNCHANGED agent
             \/ agent[t] = "asked" /\ SetAgent(t, "none")
    /\ UNCHANGED <<path, runtime, poll, row, replies, seat,
                   run, cancel, monitor>>

\* markGen2SupersetRunStarted
RunStarted(t) ==
    /\ start[t] = "mark"
    /\ \/ /\ run' = [run EXCEPT ![t].status = "running", ![t].agent = TRUE]
          /\ StartGoes(t, "record") /\ UNCHANGED mishaps
       \/ Mishap /\ StartGoes(t, "unseat") /\ UNCHANGED run
    /\ UNCHANGED <<path, runtime, poll, row, replies, seat,
                   agent, cancel, monitor>>

RunRecords(t) ==
    /\ path[t] = "superset" /\ start[t] = "record"
    /\ CreateGen2Turn(t) /\ StartGoes(t, "done")
    /\ UNCHANGED <<path, runtime, poll, replies, seat, mishaps, runs>>

\* The start failed: the seat, the lease, then the status.
RunStartFails(t) ==
    /\ path[t] = "superset"
    /\ \/ /\ start[t] = "unseat" /\ StartGoes(t, "unlease")
          /\ ReleaseCredentialSeat(t) /\ UNCHANGED run
       \/ /\ start[t] = "unlease" /\ StartGoes(t, "fail")
          /\ ReleaseLease(t) /\ UNCHANGED seat
       \/ /\ start[t] = "fail" /\ StartGoes(t, "failed")
          /\ Mark(t, "failed") /\ UNCHANGED seat
    /\ UNCHANGED <<path, runtime, poll, row, replies, mishaps,
                   agent, cancel, monitor>>

\* The same request again, after the first has died: the run exists already, so
\* the row is all that it adds.
RunRetried(t) ==
    /\ path[t] = "superset" /\ start[t] = "dead" /\ run[t].status # "absent"
    /\ StartGoes(t, "record")
    /\ UNCHANGED <<path, runtime, poll, row, replies, seat, mishaps, runs>>

-----------------------------------------------------------------------------
\* The host.

HostLaunches(t) ==
    /\ agent[t] = "asked" /\ SetAgent(t, "live")
    /\ UNCHANGED <<records, run, cancel, monitor>>

AgentEnds(t) ==
    /\ agent[t] = "live" /\ SetAgent(t, "ended")
    /\ UNCHANGED <<records, run, cancel, monitor>>

\* The virtual machine stops, and the terminals with it.
HostLost ==
    agent' = [t \in Turns |-> IF agent[t] = "none" THEN "none" ELSE "lost"]

-----------------------------------------------------------------------------
\* pollSession in the mode "turn".

RunPollBegins(p, t) ==
    /\ path[t] = "superset" /\ poll[p].pc = "idle"
    /\ run[t].agent /\ row[t] # "absent"
    /\ p = "cron" => row[t] = "open" /\ runtime = "azure_arm"
    /\ poll' = [poll EXCEPT ![p] =
         [NoPoll EXCEPT !.pc = "host", !.turn = t, !.lease = run[t].lease]]
    /\ UNCHANGED <<path, runtime, start, row, replies, seat, mishaps, runs>>

RunPollAsks(p) ==
    /\ poll[p].pc = "host"
    /\ \/ /\ Terminal(poll[p].turn) /\ UNCHANGED mishaps
          /\ poll' = [poll EXCEPT ![p].pc = "record",
                        ![p].exited = agent[poll[p].turn] = "ended"]
       \/ /\ PollEnds(p)
          /\ IF Terminal(poll[p].turn) THEN Mishap ELSE UNCHANGED mishaps
    /\ UNCHANGED <<path, runtime, start, row, replies, seat, runs>>

\* recordGen2SupersetRunOutput: one poll claims the exit. A failure is logged.
RunPollRecords(p) ==
    LET t == poll[p].turn IN
    /\ poll[p].pc = "record"
    /\ IF ~poll[p].exited
       THEN PollGoes(p, "beat") /\ UNCHANGED <<row, mishaps>>
       ELSE \/ ClaimExit(t) /\ PollGoes(p, "message") /\ UNCHANGED mishaps
            \/ /\ PollGoes(p, "capture") /\ UNCHANGED row
               /\ IF row[t] = "open" THEN Mishap ELSE UNCHANGED mishaps
    /\ UNCHANGED <<path, runtime, start, replies, seat, runs>>

RunPollReplies(p) ==
    /\ poll[p].pc = "message"
    /\ AppendReply(poll[p].turn, <<>>) /\ PollGoes(p, "capture")
    /\ UNCHANGED <<path, runtime, start, row, seat, mishaps, runs>>

BeatIfLeased(h, t) ==
    IF h.lease THEN HeartbeatCredentialSeat(t) ELSE UNCHANGED seat

RunPollBeats(p) ==
    /\ poll[p].pc = "beat"
    /\ BeatIfLeased(poll[p], poll[p].turn) /\ PollEnds(p)
    /\ UNCHANGED <<path, runtime, start, row, replies, mishaps, runs>>

\* The refreshed login, the status, the seat, the lease, then the host's
\* terminal. A login that cannot be saved leaves the seat where it is.
RunPollFinishes(p) ==
    LET t == poll[p].turn IN
    /\ \/ /\ poll[p].pc = "capture"
          /\ \/ /\ PollGoes(p, "finish") /\ UNCHANGED <<run, mishaps>>
             \/ /\ Mishap /\ Mark(t, "recovery_required") /\ PollEnds(p)
          /\ UNCHANGED <<seat, agent>>
       \/ /\ poll[p].pc = "finish" /\ PollGoes(p, "unseat")
          /\ Mark(t, "finished") /\ UNCHANGED <<seat, mishaps, agent>>
       \/ /\ poll[p].pc = "unseat" /\ PollGoes(p, "unlease")
          /\ ReleaseIfLeased(poll[p], t) /\ UNCHANGED <<run, mishaps, agent>>
       \/ /\ poll[p].pc = "unlease" /\ PollGoes(p, "dispose")
          /\ ReleaseLease(t) /\ UNCHANGED <<seat, mishaps, agent>>
       \/ /\ poll[p].pc = "dispose" /\ PollEnds(p)
          /\ IF Terminal(t) THEN SetAgent(t, "disposed") ELSE UNCHANGED agent
          /\ UNCHANGED <<run, seat, mishaps>>
    /\ UNCHANGED <<path, runtime, start, row, replies, cancel, monitor>>

-----------------------------------------------------------------------------
\* cancelSession

CancelBegins(t) ==
    /\ run[t].status # "absent" /\ cancel[t].pc = "idle"
    /\ cancel' = [cancel EXCEPT ![t] =
         [pc |-> "stop", lease |-> run[t].lease, agent |-> run[t].agent]]
    /\ Mark(t, "stopping")
    /\ UNCHANGED <<records, agent, monitor>>

CancelGoes(t, pc) == cancel' = [cancel EXCEPT ![t].pc = pc]

\* The login is captured and the terminal closed, or else the run is marked.
CancelStops(t) ==
    /\ cancel[t].pc = "stop"
    /\ \/ /\ ~cancel[t].agent \/ Terminal(t)
          /\ IF cancel[t].agent THEN SetAgent(t, "disposed") ELSE UNCHANGED agent
          /\ CancelGoes(t, "unseat") /\ UNCHANGED mishaps
       \/ /\ cancel[t].agent /\ CancelGoes(t, "recover")
          /\ IF Terminal(t) THEN Mishap ELSE UNCHANGED mishaps
          /\ UNCHANGED agent
    /\ UNCHANGED <<path, runtime, start, poll, row, replies, seat, run, monitor>>

CancelEnds(t) ==
    /\ \/ /\ cancel[t].pc = "unseat" /\ CancelGoes(t, "unlease")
          /\ ReleaseIfLeased(cancel[t], t) /\ UNCHANGED run
       \/ /\ cancel[t].pc = "unlease" /\ CancelGoes(t, "finish")
          /\ ReleaseLease(t) /\ UNCHANGED seat
       \/ /\ cancel[t].pc = "finish" /\ cancel' = [cancel EXCEPT ![t] = NoHandler]
          /\ Mark(t, "finished") /\ UNCHANGED seat
       \/ /\ cancel[t].pc = "recover" /\ cancel' = [cancel EXCEPT ![t] = NoHandler]
          /\ Mark(t, "recovery_required") /\ UNCHANGED seat
    /\ UNCHANGED <<path, runtime, start, poll, row, replies, mishaps, agent, monitor>>

-----------------------------------------------------------------------------
\* monitorGen2SupersetAgentSessions, run by run.

\* variant: the monitor looks only at runs that have started
MonitorableStarted(t) == run[t].status \in {"running", "stopping"}

IsMonitorable(t) == run[t].status \in Monitorable

MonitorLists(t) ==
    /\ IsMonitorable(t) /\ monitor[t].pc = "idle"
    /\ monitor' = [monitor EXCEPT ![t] =
         [pc |-> IF run[t].agent THEN "check" ELSE "recover",
          lease |-> run[t].lease, agent |-> run[t].agent]]
    /\ UNCHANGED <<records, run, agent, cancel>>

MonitorGoes(t, pc) == monitor' = [monitor EXCEPT ![t].pc = pc]
MonitorEnds(t) == monitor' = [monitor EXCEPT ![t] = NoHandler]

\* variant: any terminal that the host remembers counts
Remembered(t) == agent[t] \notin {"none", "asked"}

Adoptable(t) == agent[t] = "live"

\* Not adoptable, or no answer: not verified to be alive.
MonitorChecks(t) ==
    /\ monitor[t].pc = "check"
    /\ \/ /\ Adoptable(t) /\ BeatIfLeased(monitor[t], t) /\ MonitorEnds(t)
          /\ UNCHANGED mishaps
       \/ /\ MonitorGoes(t, "recover") /\ UNCHANGED seat
          /\ IF Adoptable(t) THEN Mishap ELSE UNCHANGED mishaps
    /\ UNCHANGED <<path, runtime, start, poll, row, replies, run, agent, cancel>>

MonitorRecovers(t) ==
    /\ \/ /\ monitor[t].pc = "recover" /\ MonitorGoes(t, "unseat")
          /\ Mark(t, "recovery_required") /\ UNCHANGED seat
       \/ /\ monitor[t].pc = "unseat" /\ MonitorGoes(t, "unlease")
          /\ ReleaseIfLeased(monitor[t], t) /\ UNCHANGED run
       \/ /\ monitor[t].pc = "unlease" /\ MonitorEnds(t)
          /\ ReleaseLease(t) /\ UNCHANGED seat
    /\ UNCHANGED <<path, runtime, start, poll, row, replies, mishaps, agent, cancel>>

\* A cancel or a check is cut short between two of its steps.
HandlerDies(t) ==
    /\ Mishap
    /\ \/ /\ cancel[t].pc # "idle" /\ UNCHANGED monitor
          /\ cancel' = [cancel EXCEPT ![t] = NoHandler]
       \/ monitor[t].pc # "idle" /\ MonitorEnds(t) /\ UNCHANGED cancel
    /\ UNCHANGED <<path, runtime, start, poll, row, replies, seat, run, agent>>
=============================================================================
