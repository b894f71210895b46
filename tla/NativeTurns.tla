----------------------------- MODULE NativeTurns -----------------------------
(***************************************************************************)
(* Turns that run as a `codex exec` of the guest daemon: start, poll and   *)
(* cancel of lib/gen2/agent.ts, the durable cursor of                      *)
(* arm-workspace-turn-poll.ts, and codex_execs of the guest (guest.rs).    *)
(*                                                                         *)
(* A chunk of output is its sequence number.  A session of the guest holds *)
(* the chunks lo..next-1; a poll drops those before `after` and returns at *)
(* most Batch of the rest.  MaxChunks and MaxBuffered bound a turn's       *)
(* output and the guest's buffer; Half is half of GEN2_TURN_OUTPUT_LIMIT,  *)
(* in chunks.  Decoding is left out.  What orchestrator and proxy do is:   *)
(* they pass calls on, or fail.                                            *)
(***************************************************************************)
EXTENDS TurnRecords

CONSTANTS Batch, MaxChunks, MaxBuffered, Half
ASSUME NativeAssumption ==
    /\ Batch \in Nat \ {0} /\ MaxChunks \in Nat /\ MaxBuffered \in Nat \ {0}
    /\ Half \in Nat \ {0}

VARIABLES
    guest,    \* per turn: the session in the guest
    cursor,   \* next_sequence: first sequence that is not committed
    output,   \* the output that is committed
    lock,     \* the advisory lock of a turn
    after     \* how far the tab has read

native == <<guest, cursor, output, lock, after>>

\* at: none, asked (the start waits in the guest), open (in codex_execs) or
\* gone; eof and code: the PTY has been read out, the process has been reaped.
NoSession == [at |-> "none", lo |-> 1, next |-> 1, eof |-> FALSE, code |-> FALSE]

NativeType ==
    /\ guest \in [Turns -> [at : {"none", "asked", "open", "gone"},
                            lo : 1..MaxChunks + 1, next : 1..MaxChunks + 1,
                            eof : BOOLEAN, code : BOOLEAN]]
    /\ cursor \in [Turns -> 0..MaxChunks + 1]
    /\ \A t \in Turns : \A i \in DOMAIN output[t] : output[t][i] \in 0..MaxChunks
    /\ lock \in [Turns -> Pollers \cup {None}]
    /\ after \in [Turns -> 0..MaxChunks + 1]

NativeInit ==
    /\ guest = [t \in Turns |-> NoSession]
    /\ cursor = [t \in Turns |-> 0]
    /\ output = [t \in Turns |-> <<>>]
    /\ lock = [t \in Turns |-> None]
    /\ after = [t \in Turns |-> 0]

Exited(s) == s.eof /\ s.code

\* The undispatched tail is never acknowledged, nor is the turn over before it.
EndOfOutput(exited, to, next) == exited /\ to >= next

Range(a, b) == [i \in 1..(b + 1 - a) |-> a + i - 1]
Least(a, b) == IF a < b THEN a ELSE b
Most(a, b) == IF a > b THEN a ELSE b

Gap == 0

\* Past the limit the head and the tail of an output are kept, and a mark for
\* what was between them.
capTurnOutput(text) ==
    IF Len(text) <= 2 * Half THEN text
    ELSE [i \in 1..(2 * Half + 1) |->
            IF i <= Half THEN text[i]
            ELSE IF i = Half + 1 THEN Gap
            ELSE text[Len(text) - (2 * Half + 1) + i]]

-----------------------------------------------------------------------------
\* The guest.

Busy == \E t \in Turns : guest[t].at \in {"open", "gone"} /\ ~guest[t].code

\* start_codex_exec, once no other run is going: sessions of earlier runs that
\* have ended are dropped with what is left of their output.
GuestStarts(t) ==
    /\ guest[t].at = "asked" /\ ~Busy
    /\ guest' = [u \in Turns |->
                   IF u = t THEN [NoSession EXCEPT !.at = "open"]
                   ELSE IF guest[u].at = "open" /\ Exited(guest[u])
                        THEN [guest[u] EXCEPT !.at = "gone"]
                   ELSE guest[u]]
    /\ UNCHANGED <<records, cursor, output, lock, after>>

\* The reader thread takes a chunk, unless the buffer is full.
GuestReads(t) ==
    /\ guest[t].at \in {"open", "gone"} /\ ~guest[t].eof
    /\ guest[t].next <= MaxChunks
    /\ guest[t].next - guest[t].lo < MaxBuffered
    /\ guest' = [guest EXCEPT ![t].next = @ + 1]
    /\ UNCHANGED <<records, cursor, output, lock, after>>

GuestReadsEnd(t) ==
    /\ guest[t].at \in {"open", "gone"} /\ ~guest[t].eof
    /\ guest' = [guest EXCEPT ![t].eof = TRUE]
    /\ UNCHANGED <<records, cursor, output, lock, after>>

\* The waiter thread reaps the process: it ended, was cancelled or timed out.
GuestReaps(t) ==
    /\ guest[t].at \in {"open", "gone"} /\ ~guest[t].code
    /\ guest' = [guest EXCEPT ![t].code = TRUE]
    /\ UNCHANGED <<records, cursor, output, lock, after>>

\* The virtual machine stops, and the daemon's memory with it.
GuestLost ==
    guest' = [t \in Turns |->
                IF guest[t].at = "none" THEN NoSession
                ELSE [guest[t] EXCEPT !.at = "gone", !.eof = TRUE, !.code = TRUE]]

\* poll_codex_exec: what it drops, and what it returns.
Acknowledge(t, upTo) ==
    guest' = [guest EXCEPT ![t].lo = Most(@, Least(upTo, guest[t].next))]

Returned(t, upTo) ==
    LET lo == Most(guest[t].lo, upTo)
    IN [from |-> lo, to |-> Least(guest[t].next - 1, lo + Batch - 1)]

-----------------------------------------------------------------------------
\* startGen2AgentTurn, from the claim of the seat on.

NativeBegins(t) ==
    /\ path[t] = "native" /\ start[t] = "idle"
    /\ StartGoes(t, "seat")
    /\ UNCHANGED <<path, runtime, poll, row, replies, seat, mishaps, native>>

NativeClaims(t) ==
    /\ path[t] = "native" /\ start[t] = "seat"
    /\ \/ ClaimCredentialSeat(Key(t)) /\ StartGoes(t, "ask")
       \/ SeatWaitEnds(t) /\ StartGoes(t, "failed") /\ UNCHANGED seat
    /\ UNCHANGED <<path, runtime, poll, row, replies, mishaps, native>>

NativeAsks(t) ==
    /\ path[t] = "native" /\ start[t] = "ask"
    /\ guest' = [guest EXCEPT ![t].at = IF @ = "none" THEN "asked" ELSE @]
    /\ StartGoes(t, "answer")
    /\ UNCHANGED <<path, runtime, poll, row, replies, seat, mishaps,
                   cursor, output, lock, after>>

\* The session's id, or an error: the guest refuses, cannot be reached, or is
\* busy for longer than the call may last. Then the guest starts it later.
NativeAnswered(t) ==
    /\ path[t] = "native" /\ start[t] = "answer"
    /\ \/ /\ guest[t].at \in {"open", "gone"} /\ StartGoes(t, "record")
          /\ UNCHANGED <<guest, mishaps>>
       \/ /\ StartGoes(t, "unseat") /\ Mishap
          /\ \/ UNCHANGED guest
             \/ /\ guest[t].at = "asked"
                /\ guest' = [guest EXCEPT ![t].at = "none"]
    /\ UNCHANGED <<path, runtime, poll, row, replies, seat,
                   cursor, output, lock, after>>

NativeRecords(t) ==
    /\ path[t] = "native" /\ start[t] = "record"
    /\ \/ CreateGen2Turn(t) /\ StartGoes(t, "retag") /\ UNCHANGED mishaps
       \/ Mishap /\ StartGoes(t, "unseat") /\ UNCHANGED row
    /\ UNCHANGED <<path, runtime, poll, replies, seat, native>>

NativeRetags(t) ==
    /\ path[t] = "native" /\ start[t] = "retag"
    /\ RetagCredentialSeat(Key(t), t) /\ StartGoes(t, "done")
    /\ UNCHANGED <<path, runtime, poll, row, replies, mishaps, native>>

NativeUnseats(t) ==
    /\ path[t] = "native" /\ start[t] = "unseat"
    /\ ReleaseCredentialSeat(Key(t)) /\ StartGoes(t, "failed")
    /\ UNCHANGED <<path, runtime, poll, row, replies, mishaps, native>>

\* cancelGen2AgentTurn: the guest forgets the session and kills the process;
\* the seat is released even if the call fails.
NativeCancel(t) ==
    /\ path[t] = "native" /\ start[t] = "done"
    /\ \/ guest' = [guest EXCEPT ![t].at = "gone"] /\ UNCHANGED mishaps
       \/ Mishap /\ UNCHANGED guest
    /\ ReleaseCredentialSeat(t)
    /\ UNCHANGED <<path, runtime, start, poll, row, replies,
                   cursor, output, lock, after>>

-----------------------------------------------------------------------------
\* pollPersistedArmTurn: one transaction under the advisory lock of the turn.

ArmPollBegins(p, t) ==
    /\ path[t] = "native" /\ runtime = "azure_arm"
    /\ poll[p].pc = "idle" /\ row[t] = "open"
    /\ lock[t] = None /\ lock' = [lock EXCEPT ![t] = p]
    /\ poll' = [poll EXCEPT ![p] = [NoPoll EXCEPT !.pc = "ask", !.turn = t]]
    /\ UNCHANGED <<path, runtime, start, row, replies, seat, mishaps,
                   guest, cursor, output, after>>

Unlock(t) == lock' = [lock EXCEPT ![t] = None]

\* An error rolls back; a session that the guest does not have gives back the
\* seat as well.
ArmPollAsks(p) ==
    LET t == poll[p].turn IN
    /\ poll[p].pc = "ask"
    /\ IF guest[t].at = "open"
       THEN /\ Acknowledge(t, cursor[t])
            /\ poll' = [poll EXCEPT ![p] = [@ EXCEPT
                 !.pc = "commit", !.exited = Exited(guest[t]),
                 !.from = Returned(t, cursor[t]).from,
                 !.to = Returned(t, cursor[t]).to, !.next = guest[t].next]]
            /\ UNCHANGED lock
       ELSE /\ PollGoes(p, "seatBack") \/ PollEnds(p)
            /\ Unlock(t) /\ UNCHANGED guest
    /\ UNCHANGED <<path, runtime, start, row, replies, seat, mishaps,
                   cursor, output, after>>

\* variant: the cursor passes all that the guest has, returned or not
SkipTail(p, t) == Most(cursor[t], poll[p].next)

NextSequence(p, t) ==
    IF poll[p].from > poll[p].to THEN cursor[t] ELSE poll[p].to + 1

\* Chunks, cursor, exit and reply are committed together.
ArmPollCommits(p) ==
    LET t == poll[p].turn
        text == capTurnOutput(output[t] \o Range(poll[p].from, poll[p].to))
        over == EndOfOutput(poll[p].exited, NextSequence(p, t), poll[p].next) IN
    /\ poll[p].pc = "commit"
    /\ Unlock(t)
    /\ cursor' = [cursor EXCEPT ![t] = NextSequence(p, t)]
    /\ output' = [output EXCEPT ![t] = text]
    /\ IF over
       THEN /\ ClaimExit(t) /\ AppendReply(t, text)
            /\ PollGoes(p, "seatBack")
       ELSE PollEnds(p) /\ UNCHANGED <<row, replies>>
    /\ UNCHANGED <<path, runtime, start, seat, mishaps, guest, after>>

\* A poll that finds the turn ended gets what is saved, and ends as well.
ArmPollSaved(p, t) ==
    /\ path[t] = "native" /\ runtime = "azure_arm"
    /\ poll[p].pc = "idle" /\ row[t] = "exited"
    /\ poll' = [poll EXCEPT ![p] = [NoPoll EXCEPT !.pc = "seatBack", !.turn = t]]
    /\ UNCHANGED <<path, runtime, start, row, replies, seat, mishaps, native>>

PollReturnsSeat(p) ==
    /\ poll[p].pc = "seatBack"
    /\ ReleaseCredentialSeat(poll[p].turn) /\ PollEnds(p)
    /\ UNCHANGED <<path, runtime, start, row, replies, mishaps, native>>

-----------------------------------------------------------------------------
\* The same poll on Firecracker: the tab keeps the cursor, and the handler
\* records what the guest returned in statements of their own.

DirectPollAsks(p, t) ==
    /\ path[t] = "native" /\ runtime = "firecracker" /\ p = "tab"
    /\ start[t] = "done" /\ poll[p].pc = "idle" /\ guest[t].at = "open"
    /\ Acknowledge(t, after[t])
    /\ poll' = [poll EXCEPT ![p] =
         [pc |-> "save", turn |-> t, exited |-> Exited(guest[t]), lease |-> FALSE,
          from |-> Returned(t, after[t]).from, to |-> Returned(t, after[t]).to,
          next |-> guest[t].next]]
    /\ UNCHANGED <<path, runtime, start, row, replies, seat, mishaps,
                   cursor, output, lock, after>>

DirectPollMisses(p, t) ==
    /\ path[t] = "native" /\ runtime = "firecracker" /\ p = "tab"
    /\ start[t] = "done" /\ poll[p].pc = "idle" /\ guest[t].at = "gone"
    /\ poll' = [poll EXCEPT ![p] = [NoPoll EXCEPT !.pc = "seatBack", !.turn = t]]
    /\ UNCHANGED <<path, runtime, start, row, replies, seat, mishaps, native>>

\* A failure to save is logged, and the poll goes on.
DirectPollSaves(p) ==
    LET t == poll[p].turn
        last == poll[p].exited IN
    /\ poll[p].pc = "save"
    /\ \/ /\ row[t] = "open"
          /\ output' = [output EXCEPT
               ![t] = capTurnOutput(@ \o Range(poll[p].from, poll[p].to))]
          /\ IF last THEN ClaimExit(t) ELSE UNCHANGED row
          /\ PollGoes(p, IF last THEN "reply" ELSE "respond")
          /\ UNCHANGED mishaps
       \/ /\ PollGoes(p, IF last THEN "seatBack" ELSE "respond")
          /\ IF row[t] = "exited" THEN UNCHANGED mishaps ELSE Mishap
          /\ UNCHANGED <<row, output>>
    /\ UNCHANGED <<path, runtime, start, replies, seat, guest, cursor, lock, after>>

DirectPollReplies(p) ==
    LET t == poll[p].turn IN
    /\ poll[p].pc = "reply"
    /\ AppendReply(t, output[t])
    /\ PollGoes(p, "seatBack")
    /\ UNCHANGED <<path, runtime, start, row, seat, mishaps, native>>

\* The tab takes the guest's next sequence for its own.
DirectPollAnswers(p) ==
    /\ poll[p].pc = "respond"
    /\ after' = [after EXCEPT ![poll[p].turn] = poll[p].next]
    /\ PollEnds(p)
    /\ UNCHANGED <<path, runtime, start, row, replies, seat, mishaps,
                   guest, cursor, output, lock>>
=============================================================================
