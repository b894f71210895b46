----------------------------- MODULE TurnRecords -----------------------------
(***************************************************************************)
(* What an agent turn keeps in the database, whichever way it is run:      *)
(* - its row of gen2_agent_turns and the assistant messages written for it *)
(*   (lib/gen2/turns.ts, turn-chunks.ts);                                  *)
(* - the seat of the member's Codex subscription, one row per credential   *)
(*   (lib/providers/credential-seat.ts).                                   *)
(* NativeTurns and AgentRuns are the two ways; AgentTurns composes them.   *)
(*                                                                         *)
(* All turns are of one member, so that they share one seat; chat room     *)
(* replies are the other holder of it.  Every request handler is a local   *)
(* state with a pc and takes one step per await.  A mishap is a call that  *)
(* fails, times out or is cut short, and MaxMishaps bounds their number.   *)
(***************************************************************************)
EXTENDS Naturals, Sequences

CONSTANTS Turns, Pollers, Room, None, MaxMishaps

VARIABLES
    path,       \* "superset" or "native": decided when a turn starts
    runtime,    \* the provider of the workspace: "azure_arm" or "firecracker"
    start,      \* pc of the request that starts a turn
    poll,       \* the poll each poller has under way
    row,        \* the turn's row: absent, open or exited
    replies,    \* the assistant messages of a turn, each with its output
    seat,       \* the seat's row: its holder and whether its heartbeat is fresh
    mishaps

records == <<path, runtime, start, poll, row, replies, seat, mishaps>>

NoSeat == [ref |-> None, fresh |-> FALSE]
NoPoll == [pc |-> "idle", turn |-> None, exited |-> FALSE, lease |-> FALSE,
           from |-> 0, to |-> 0, next |-> 0]

\* A native turn holds the seat under its idempotency key until it has the
\* session id of the guest; a run has its id from the beginning.
Key(t) == <<t, "key">>
Refs == Turns \cup {Key(t) : t \in Turns} \cup {Room}

ASSUME TurnsAssumption ==
    /\ None \notin Refs /\ None \notin Pollers /\ Room \notin Turns
    /\ MaxMishaps \in Nat

RecordsType ==
    /\ path \in [Turns -> {"superset", "native"}]
    /\ runtime \in {"azure_arm", "firecracker"}
    /\ row \in [Turns -> {"absent", "open", "exited"}]
    /\ seat \in [ref : Refs \cup {None}, fresh : BOOLEAN]
    /\ \A p \in Pollers : poll[p].turn \in Turns \cup {None}
    /\ mishaps \in 0..MaxMishaps

RecordsInit ==
    /\ path \in [Turns -> {"superset", "native"}]
    /\ runtime \in {"azure_arm", "firecracker"}
    /\ start = [t \in Turns |-> "idle"]
    /\ poll = [p \in Pollers |-> NoPoll]
    /\ row = [t \in Turns |-> "absent"]
    /\ replies = [t \in Turns |-> <<>>]
    /\ seat = NoSeat
    /\ mishaps = 0

Mishap == mishaps < MaxMishaps /\ mishaps' = mishaps + 1

StartGoes(t, pc) == start' = [start EXCEPT ![t] = pc]
PollGoes(p, pc) == poll' = [poll EXCEPT ![p].pc = pc]
PollEnds(p) == poll' = [poll EXCEPT ![p] = NoPoll]

-----------------------------------------------------------------------------
\* The seat.

\* variant: the seat goes whoever holds it
ReleaseAnyone(ref) == seat' = NoSeat

\* Scoped by ref, so that a late finalizer frees no seat but its own.
ReleaseCredentialSeat(ref) ==
    seat' = IF seat.ref = ref THEN NoSeat ELSE seat

HeartbeatCredentialSeat(ref) ==
    seat' = IF seat.ref = ref THEN [seat EXCEPT !.fresh = TRUE] ELSE seat

RetagCredentialSeat(from, to) ==
    seat' = IF seat.ref = from THEN [ref |-> to, fresh |-> TRUE] ELSE seat

\* Taken from nobody, from the same run, or from one without a heartbeat.
ClaimCredentialSeat(ref) ==
    /\ seat.ref \in {None, ref} \/ ~seat.fresh
    /\ seat' = [ref |-> ref, fresh |-> TRUE]

\* Two minutes without a heartbeat.
SeatGoesStale ==
    /\ seat.fresh
    /\ seat' = [seat EXCEPT !.fresh = FALSE]
    /\ UNCHANGED <<path, runtime, start, poll, row, replies, mishaps>>

\* A reply in a chat room waits for the same seat, keeps it while it is
\* polled, and gives it back.
RoomReply ==
    /\ \/ ClaimCredentialSeat(Room) \/ ReleaseCredentialSeat(Room)
       \/ HeartbeatCredentialSeat(Room)
    /\ UNCHANGED <<path, runtime, start, poll, row, replies, mishaps>>

-----------------------------------------------------------------------------
\* The turn's row and its reply.

\* createGen2Turn: an insert that leaves an existing row alone.
CreateGen2Turn(t) ==
    row' = [row EXCEPT ![t] = IF @ = "absent" THEN "open" ELSE @]

\* variant: the poll that ends the turn does not look whether it has ended
ClaimExitAlways(t) == row[t] # "absent" /\ row' = [row EXCEPT ![t] = "exited"]

\* Only one of concurrent polls may end the turn.
ClaimExit(t) == row[t] = "open" /\ row' = [row EXCEPT ![t] = "exited"]

AppendReply(t, output) ==
    replies' = [replies EXCEPT ![t] = Append(@, output)]

\* waitForCredentialSeat gives up after twenty seconds.
SeatWaitEnds(t) == start[t] = "seat" /\ seat.ref # None

\* The request or the function instance dies between two of its steps.
StartDies(t) ==
    /\ start[t] \notin {"idle", "done", "failed", "dead"}
    /\ Mishap /\ StartGoes(t, "dead")
    /\ UNCHANGED <<path, runtime, poll, row, replies, seat>>

=============================================================================
