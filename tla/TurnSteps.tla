------------------------------ MODULE TurnSteps ------------------------------
(***************************************************************************)
(* What the steps of AgentTurns may do, for any number of turns, pollers,  *)
(* chunks and mishaps: a durable turn keeps its transcript, and a fresh    *)
(* seat is given up by nobody but a handler of its holder.                 *)
(***************************************************************************)
EXTENDS TurnProofs

-----------------------------------------------------------------------------
(* AgentTurns implements Transcript: the state that the mapping shows        *)

Said == OfDurable([t \in Turns |-> guest[t].next - 1], 0)
Ended == OfDurable([t \in Turns |-> guest[t].eof], FALSE)
Texts == OfDurable(output, <<>>)
Told == OfDurable(replies, <<>>)

LEMMA DurableStays ==
    ASSUME UNCHANGED <<path, runtime>>
    PROVE  \A t \in Turns : Durable(t)' = Durable(t)
BY DEF Durable

LEMMA SaidSame ==
    ASSUME UNCHANGED <<path, runtime>>,
           \A t \in Turns : Durable(t) => guest'[t].next = guest[t].next
    PROVE  UNCHANGED Said
BY DurableStays DEF Said, OfDurable

LEMMA EndedSame ==
    ASSUME UNCHANGED <<path, runtime>>,
           \A t \in Turns : Durable(t) => guest'[t].eof = guest[t].eof
    PROVE  UNCHANGED Ended
BY DurableStays DEF Ended, OfDurable

LEMMA TextsSame ==
    ASSUME UNCHANGED <<path, runtime>>,
           \A t \in Turns : Durable(t) => output'[t] = output[t]
    PROVE  UNCHANGED Texts
BY DurableStays DEF Texts, OfDurable

LEMMA ToldSame ==
    ASSUME UNCHANGED <<path, runtime>>,
           \A t \in Turns : Durable(t) => replies'[t] = replies[t]
    PROVE  UNCHANGED Told
BY DurableStays DEF Told, OfDurable

\* A step that the transcript does not show.
Quiet ==
    /\ UNCHANGED <<path, runtime>>
    /\ \A t \in Turns : Durable(t) =>
         /\ guest'[t].next = guest[t].next /\ guest'[t].eof = guest[t].eof
         /\ output'[t] = output[t] /\ replies'[t] = replies[t]

LEMMA QuietStutters ==
    ASSUME Quiet
    PROVE  UNCHANGED Kept!transcript
<1>1. UNCHANGED Said /\ UNCHANGED Ended
  BY SaidSame, EndedSame DEF Quiet
<1>2. UNCHANGED Texts /\ UNCHANGED Told
  BY TextsSame, ToldSame DEF Quiet
<1> QED
  BY <1>1, <1>2 DEF Kept!transcript, Said, Ended, Texts, Told

-----------------------------------------------------------------------------
(* AgentTurns implements Transcript: the steps of the guest                  *)

LEMMA GuestFunction == IInv => DOMAIN guest = Turns
BY DEF IInv, Typed, NativeTyped, GuestTyped

LEMMA SaysOn ==
    ASSUME IInv, NEW t \in Turns, GuestReads(t), Durable(t)
    PROVE  Kept!Says(t)
<1>1. UNCHANGED <<path, runtime, output, replies>>
  BY DEF GuestReads, records
<1>2. /\ ~guest[t].eof /\ guest'[t].next = guest[t].next + 1
      /\ \A u \in Turns : guest'[u].eof = guest[u].eof
      /\ \A u \in Turns \ {t} : guest'[u].next = guest[u].next
  BY DEF GuestReads, IInv, Typed, NativeTyped, GuestTyped
<1>3. UNCHANGED <<Ended, Texts, Told>>
  BY <1>1, <1>2, EndedSame, TextsSame, ToldSame
<1>4. Said' = [Said EXCEPT ![t] = @ + 1]
  <2>1. guest[t].next \in Nat
    BY Constants DEF IInv, Typed, NativeTyped, GuestTyped
  <2> DEFINE g == guest[t].next
  <2>2. guest'[t].next - 1 = (g - 1) + 1
    BY <1>2, <2>1
  <2> HIDE DEF g
  <2>3. \A u \in Turns : Durable(u)' = Durable(u)
    BY <1>1, DurableStays
  <2> QED
    BY <1>2, <2>2, <2>3 DEF Said, OfDurable, g
<1>5. ~Ended[t]
  BY <1>2 DEF Ended, OfDurable
<1> QED
  BY <1>3, <1>4, <1>5 DEF Kept!Says, Said, Ended, Texts, Told

\* The sessions that end, whatever ends them.
LEMMA EndsSome ==
    ASSUME UNCHANGED <<path, runtime, output, replies>>, NEW some \in SUBSET Turns,
           \A t \in Turns : Durable(t) => guest'[t].next = guest[t].next,
           \A t \in Turns : Durable(t) => guest'[t].eof = (guest[t].eof \/ t \in some),
           \A t \in some : Durable(t)
    PROVE  Kept!End(some)
<1>1. UNCHANGED <<Said, Texts, Told>>
  BY SaidSame, TextsSame, ToldSame
<1>2. Ended' = [t \in Turns |-> Ended[t] \/ t \in some]
  BY DurableStays DEF Ended, OfDurable
<1> QED
  BY <1>1, <1>2 DEF Kept!End, Said, Ended, Texts, Told

LEMMA EndsOne ==
    ASSUME IInv, NEW t \in Turns, GuestReadsEnd(t), Durable(t)
    PROVE  Kept!End({t})
<1>1. UNCHANGED <<path, runtime, output, replies>>
  BY DEF GuestReadsEnd, records
<1>2. /\ guest'[t].eof = TRUE /\ \A u \in Turns : guest'[u].next = guest[u].next
      /\ \A u \in Turns \ {t} : guest'[u].eof = guest[u].eof
  BY DEF GuestReadsEnd, IInv, Typed, NativeTyped, GuestTyped
<1>3. \A u \in Turns : guest'[u].eof = (guest[u].eof \/ u \in {t})
  BY <1>2 DEF IInv, Typed, NativeTyped, GuestTyped
<1> QED
  BY <1>1, <1>2, <1>3, EndsSome

LEMMA EndsAll ==
    ASSUME IInv, VmStops
    PROVE  \E some \in SUBSET Turns : Kept!End(some)
<1> DEFINE some == {t \in Turns : Durable(t) /\ guest[t].at # "none"}
<1>1. UNCHANGED <<path, runtime, output, replies>>
  BY DEF VmStops
<1>2. ASSUME NEW t \in Turns
      PROVE  /\ guest'[t].next = guest[t].next
             /\ Durable(t) => guest'[t].eof = (guest[t].eof \/ t \in some)
  <2>1. CASE guest[t].at = "none"
    <3>1. guest'[t] = NoSession /\ guest[t].next = 1 /\ ~guest[t].eof
      BY <2>1 DEF VmStops, GuestLost, IInv, Unbegun
    <3>2. guest'[t].next = 1 /\ guest'[t].eof = FALSE
      BY <3>1 DEF NoSession
    <3>3. t \notin some
      BY <2>1
    <3> HIDE DEF some
    <3> QED
      BY <3>1, <3>2, <3>3
  <2>2. CASE guest[t].at # "none"
    <3>1. guest'[t].next = guest[t].next /\ guest'[t].eof = TRUE
      BY <2>2 DEF VmStops, GuestLost, IInv, Typed, NativeTyped, GuestTyped
    <3> QED
      BY <2>2, <3>1
  <2> QED
    BY <2>1, <2>2
<1>3. some \in SUBSET Turns /\ \A t \in some : Durable(t)
  OBVIOUS
<1> HIDE DEF some
<1>4. Kept!End(some)
  BY <1>1, <1>2, <1>3, EndsSome
<1> QED
  BY <1>3, <1>4

\* What else happens to a session changes neither its output nor its end.
LEMMA QuietSession ==
    ASSUME IInv, NEW t \in Turns,
           \/ GuestStarts(t) \/ GuestReaps(t)
           \/ NativeAsks(t) \/ NativeAnswered(t) \/ NativeCancel(t)
    PROVE  Quiet
<1> USE DEF IInv, Typed, NativeTyped, GuestTyped
<1>1. UNCHANGED <<path, runtime, output, replies>>
  BY DEF GuestStarts, GuestReaps, NativeAsks, NativeAnswered, NativeCancel, records
<1>2. CASE GuestStarts(t)
  <2>1. guest[t].next = 1 /\ ~guest[t].eof
    BY <1>2 DEF GuestStarts, Unbegun
  <2>2. \A u \in Turns : guest'[u].next = guest[u].next /\ guest'[u].eof = guest[u].eof
    BY <1>2, <2>1 DEF GuestStarts, NoSession
  <2> QED
    BY <1>1, <2>2 DEF Quiet
<1>3. CASE GuestReaps(t) \/ NativeAsks(t) \/ NativeAnswered(t) \/ NativeCancel(t)
  <2>1. \A u \in Turns : guest'[u].next = guest[u].next /\ guest'[u].eof = guest[u].eof
    BY <1>3 DEF GuestReaps, NativeAsks, NativeAnswered, NativeCancel
  <2> QED
    BY <1>1, <2>1 DEF Quiet
<1> QED
  BY <1>2, <1>3

LEMMA SessionKept ==
    ASSUME IInv, NEW t \in Turns, SessionStep(t)
    PROVE  Kept!Next \/ UNCHANGED Kept!transcript
<1>1. CASE GuestReads(t)
  <2>1. CASE Durable(t)
    BY <1>1, <2>1, SaysOn DEF Kept!Next
  <2>2. CASE ~Durable(t)
    <3>1. \A u \in Turns \ {t} : guest'[u] = guest[u]
      BY <1>1 DEF GuestReads
    <3> QED
      BY <1>1, <2>2, <3>1, QuietStutters DEF Quiet, GuestReads, records
  <2> QED
    BY <2>1, <2>2
<1>2. CASE GuestReadsEnd(t)
  <2>1. CASE Durable(t)
    BY <1>2, <2>1, EndsOne DEF Kept!Next
  <2>2. CASE ~Durable(t)
    <3>1. \A u \in Turns \ {t} : guest'[u] = guest[u]
      BY <1>2 DEF GuestReadsEnd
    <3> QED
      BY <1>2, <2>2, <3>1, QuietStutters DEF Quiet, GuestReadsEnd, records
  <2> QED
    BY <2>1, <2>2
<1>3. CASE \/ GuestStarts(t) \/ GuestReaps(t)
           \/ NativeAsks(t) \/ NativeAnswered(t) \/ NativeCancel(t)
  BY <1>3, QuietSession, QuietStutters
<1> QED
  BY <1>1, <1>2, <1>3 DEF SessionStep, Guest

-----------------------------------------------------------------------------
(* AgentTurns implements Transcript: the polls                               *)

\* The chunks of a commit follow what is kept; with the end of the output come
\* all of it and the reply.
LEMMA CommitKeeps ==
    ASSUME IInv, NEW p \in Pollers, CommitStep(p)
    PROVE  Kept!Next
<1> DEFINE t == poll[p].turn
           n == NextSequence(p, t)
           m == Most(n, 1) - 1
           text == CommitText(p)
<1>1. t \in Turns /\ Durable(t) /\ row[t] = "open" /\ poll[p].pc = "commit"
  BY DEF CommitStep, ArmPollCommits, IInv, Polls, PollOf, ArmPcs
<1>2. /\ n \in Nat /\ cursor[t] \in Nat /\ guest[t].next \in 1..MaxChunks + 1
      /\ cursor[t] <= n /\ n <= guest[t].next
      /\ output[t] = Kept!Text(Most(cursor[t], 1) - 1)
      /\ text = Kept!Text(m)
      /\ CommitEnds(p) => guest[t].eof /\ n = guest[t].next
  <2>1. t = poll[p].turn /\ n = NextSequence(p, t) /\ text = CommitText(p) /\ m = Most(n, 1) - 1
    OBVIOUS
  <2> HIDE DEF t, n, text, m
  <2> QED
    BY <1>1, <2>1, CommitFacts
<1>3. /\ output' = [output EXCEPT ![t] = text]
      /\ \/ CommitEnds(p) /\ AppendReply(t, text)
         \/ UNCHANGED replies
      /\ UNCHANGED <<path, runtime, guest>>
  BY DEF CommitStep, ArmPollCommits, CommitText, CommitEnds
<1> HIDE DEF t, n, text
<1>4. UNCHANGED <<Said, Ended>>
  BY <1>3, SaidSame, EndedSame
<1>5. Texts' = [Texts EXCEPT ![t] = text]
  BY <1>1, <1>3, DurableStays DEF Texts, OfDurable, IInv, Typed, NativeTyped, OutputTyped
<1>6. replies[t] = <<>> /\ Told[t] = <<>>
  BY <1>1 DEF IInv, Replied, Told, OfDurable
<1>7. Said[t] = guest[t].next - 1 /\ Ended[t] = guest[t].eof /\ Texts[t] = output[t]
  BY <1>1 DEF Said, Ended, Texts, OfDurable
<1>8. text = Kept!Text(m)
  BY <1>2
<1>9. CASE CommitEnds(p) /\ AppendReply(t, text)
  <2>1. m = guest[t].next - 1
    BY <1>2, <1>9, Constants DEF Most
  <2>2. text = Kept!Text(Said[t])
    BY <1>7, <1>8, <2>1
  <2>3. Append(replies[t], text) = <<text>>
    BY <1>6
  <2>4. Told' = [Told EXCEPT ![t] = <<text>>]
    BY <1>1, <1>3, <1>9, <2>3, DurableStays
       DEF AppendReply, Told, OfDurable, IInv, Typed, RecordsTyped, RepliesTyped
  <2>5. Kept!Tells(t)
    BY <1>2, <1>4, <1>5, <1>6, <1>7, <1>9, <2>2, <2>4
       DEF Kept!Tells, Said, Ended, Texts, Told
  <2> QED
    BY <1>1, <2>5 DEF Kept!Next
<1>10. CASE UNCHANGED replies
  <2>1. UNCHANGED Told
    BY <1>3, <1>10, ToldSame
  <2>2. m \in Kept!Upto(Texts[t])..Said[t]
    <3> DEFINE c == cursor[t]
               g == guest[t].next
               k == Most(c, 1) - 1
    <3>1. k \in Nat /\ m \in Nat /\ k <= m /\ m <= g - 1 /\ g - 1 \in Nat
      BY <1>2, Constants DEF Most
    <3>2. Texts[t] = Kept!Text(k) /\ Said[t] = g - 1 /\ g - 1 <= MaxChunks
      BY <1>2, <1>7, Constants
    <3> HIDE DEF m, k, g
    <3>3. k <= MaxChunks
      BY <3>1, <3>2, Constants
    <3>4. Kept!Upto(Kept!Text(k)) = k
      BY <3>1, <3>3, TextSeq
    <3> QED
      BY <3>1, <3>2, <3>4
  <2> HIDE DEF m
  <2>3. Kept!Keeps(t)
    BY <1>4, <1>5, <1>6, <1>8, <2>1, <2>2 DEF Kept!Keeps, Said, Ended, Texts, Told
  <2> QED
    BY <1>1, <2>3 DEF Kept!Next
<1> QED
  BY <1>3, <1>9, <1>10

\* The guest drops what it is told to, and that is all.
LEMMA AcknowledgeQuiet ==
    ASSUME IInv, NEW t \in Turns, NEW n, Acknowledge(t, n),
           UNCHANGED <<path, runtime, output, replies>>
    PROVE  Quiet
BY DEF Acknowledge, Quiet, IInv, Typed, NativeTyped, GuestTyped

LEMMA BeginQuiet ==
    ASSUME IInv, NEW p \in Pollers, NEW t \in Turns, BeginStep(p, t)
    PROVE  Quiet
<1>1. CASE DirectPollAsks(p, t)
  BY <1>1, AcknowledgeQuiet DEF DirectPollAsks
<1>2. CASE ~DirectPollAsks(p, t)
  BY <1>2 DEF BeginStep, ArmPollBegins, ArmPollSaved, DirectPollMisses, RunPollBegins,
              native, Quiet
<1> QED
  BY <1>1, <1>2

\* A poll of another kind of turn leaves the durable ones alone.
LEMMA DirectQuiet ==
    ASSUME IInv, NEW p \in Pollers, DirectPollSaves(p) \/ DirectPollReplies(p)
    PROVE  Quiet
<1> DEFINE t == poll[p].turn
<1>1. t \in Turns /\ ~Durable(t)
  BY DEF DirectPollSaves, DirectPollReplies, IInv, Polls, PollOf, DirectPcs, Durable
<1>2. UNCHANGED <<path, runtime, guest>>
  BY DEF DirectPollSaves, DirectPollReplies, native
<1>3. \A u \in Turns \ {t} : output'[u] = output[u] /\ replies'[u] = replies[u]
  BY DEF DirectPollSaves, DirectPollReplies, AppendReply, native, IInv, Typed, NativeTyped,
         OutputTyped, RecordsTyped, RepliesTyped
<1> QED
  BY <1>1, <1>2, <1>3 DEF Quiet

LEMMA RunPollQuiet ==
    ASSUME IInv, NEW p \in Pollers, RunPoll(p), UNCHANGED native
    PROVE  Quiet
<1>1. UNCHANGED <<path, runtime, guest, output>>
  BY DEF RunPoll, RunPollAsks, RunPollRecords, RunPollReplies, RunPollBeats, RunPollFinishes,
         native
<1>2. CASE RunPollReplies(p)
  <2>1. poll[p].turn \in Turns /\ ~Durable(poll[p].turn)
    BY <1>2 DEF RunPollReplies, IInv, Polls, PollOf, RunPcs, Durable
  <2>2. \A u \in Turns \ {poll[p].turn} : replies'[u] = replies[u]
    BY <1>2 DEF RunPollReplies, AppendReply
  <2> QED
    BY <1>1, <2>1, <2>2 DEF Quiet
<1>3. CASE ~RunPollReplies(p)
  <2>1. UNCHANGED replies
    BY <1>3 DEF RunPoll, RunPollAsks, RunPollRecords, RunPollBeats, RunPollFinishes
  <2> QED
    BY <1>1, <2>1 DEF Quiet
<1> QED
  BY <1>2, <1>3

LEMMA PollQuiet ==
    ASSUME IInv, NEW p \in Pollers, PollStep(p)
    PROVE  Quiet
<1>1. CASE ArmPollAsks(p)
  <2>1. poll[p].turn \in Turns
    BY <1>1 DEF ArmPollAsks, IInv, Polls, PollOf
  <2>2. UNCHANGED <<path, runtime, output, replies>>
    BY <1>1 DEF ArmPollAsks
  <2>3. CASE guest[poll[p].turn].at = "open"
    BY <1>1, <2>1, <2>2, <2>3, AcknowledgeQuiet DEF ArmPollAsks
  <2>4. CASE guest[poll[p].turn].at # "open"
    BY <1>1, <2>2, <2>4 DEF ArmPollAsks, Quiet
  <2> QED
    BY <2>3, <2>4
<1>2. CASE DirectPollSaves(p) \/ DirectPollReplies(p)
  BY <1>2, DirectQuiet
<1>3. CASE PollReturnsSeat(p) \/ DirectPollAnswers(p) \/ PollDies(p)
  BY <1>3 DEF PollReturnsSeat, DirectPollAnswers, PollDies, native, Quiet
<1>4. CASE RunPoll(p) /\ UNCHANGED native
  BY <1>4, RunPollQuiet
<1> QED
  BY <1>1, <1>2, <1>3, <1>4 DEF PollStep

-----------------------------------------------------------------------------
(* AgentTurns implements Transcript                                          *)

LEMMA FramedQuiet ==
    ASSUME Framed
    PROVE  Quiet
BY DEF Framed, native, Quiet

LEMMA StepKept == IInv /\ Next => Kept!Next \/ UNCHANGED Kept!transcript
<1> SUFFICES ASSUME IInv, Next PROVE Kept!Next \/ UNCHANGED Kept!transcript
  OBVIOUS
<1>1. CASE SeatStep
  BY <1>1, SeatStepInv, FramedQuiet, QuietStutters
<1>2. CASE VmStops
  BY <1>2, EndsAll DEF Kept!Next
<1>9. CASE QueueStep
  BY <1>9, FramedQuiet, QuietStutters DEF QueueStep, records, Framed
<1>3. ASSUME NEW t \in Turns, HandlerStep(t) PROVE UNCHANGED Kept!transcript
  BY <1>3, HandlerInv, FramedQuiet, QuietStutters
<1>4. ASSUME NEW t \in Turns, RecordStep(t) PROVE UNCHANGED Kept!transcript
  BY <1>4, QuietStutters DEF RecordStep, NativeRecords, RunRecords, native, Quiet
<1>5. ASSUME NEW t \in Turns, SessionStep(t) PROVE Kept!Next \/ UNCHANGED Kept!transcript
  BY <1>5, SessionKept
<1>6. ASSUME NEW p \in Pollers, CommitStep(p) PROVE Kept!Next
  BY <1>6, CommitKeeps
<1>7. ASSUME NEW p \in Pollers, PollStep(p) PROVE UNCHANGED Kept!transcript
  BY <1>7, PollQuiet, QuietStutters
<1>8. ASSUME NEW p \in Pollers, NEW t \in Turns, BeginStep(p, t)
      PROVE  UNCHANGED Kept!transcript
  BY <1>8, BeginQuiet, QuietStutters
<1> QED
  BY <1>1, <1>2, <1>3, <1>4, <1>5, <1>6, <1>7, <1>8, <1>9, Steps

LEMMA InitKept == Init => Kept!Init
<1> SUFFICES ASSUME Init PROVE Kept!Init
  OBVIOUS
<1>1. \A t \in Turns : /\ guest[t].next = 1 /\ guest[t].eof = FALSE
                       /\ output[t] = <<>> /\ replies[t] = <<>>
  BY DEF Init, RecordsInit, NativeInit, NoSession
<1>2. Said = [t \in Turns |-> 0]
  BY <1>1 DEF Said, OfDurable
<1>3. Ended = [t \in Turns |-> FALSE]
  BY <1>1 DEF Ended, OfDurable
<1>4. Texts = [t \in Turns |-> <<>>] /\ Told = [t \in Turns |-> <<>>]
  BY <1>1 DEF Texts, Told, OfDurable
<1> QED
  BY <1>2, <1>3, <1>4 DEF Kept!Init, Said, Ended, Texts, Told

LEMMA StutterKept == UNCHANGED vars => UNCHANGED Kept!transcript
<1> SUFFICES ASSUME UNCHANGED vars PROVE UNCHANGED Kept!transcript
  OBVIOUS
<1>1. Framed
  BY DEF vars, records, Framed
<1> QED
  BY <1>1, FramedQuiet, QuietStutters

\* AgentTurns implements Transcript: on the ARM runtime nothing that an agent has
\* written is lost or repeated but the middle of a text past the limit, and the reply
\* is what is kept, whichever polls overlap, fail or die (arm-workspace-turn-poll.ts,
\* turns.ts, guest.rs).
THEOREM TranscriptKept == Spec => KeepsTranscript
<1>1. IInv /\ [Next]_vars => [Kept!Next]_(Kept!transcript)
  BY StepKept, StutterKept
<1> QED
  BY InitKept, InvariantHolds, <1>1, PTL DEF Spec, KeepsTranscript, Kept!Spec
-----------------------------------------------------------------------------
(* The seat: what is done to it                                              *)

\* Nobody's seat has no heartbeat.
Held == seat.ref = None => ~seat.fresh

Loses == seat.fresh /\ seat'.ref # seat.ref
Fine == Held' /\ (Loses => GivenUpBy(seat.ref))

LEMMA RefsNone == \A ref \in Refs : ref # None
BY TurnsAssumption

LEMMA Stays ==
    ASSUME Held, UNCHANGED seat
    PROVE  Fine
BY DEF Held, Loses, Fine

LEMMA Takes ==
    ASSUME Held, NEW ref \in Refs, ClaimCredentialSeat(ref)
    PROVE  Fine
BY RefsNone DEF Held, Loses, Fine, ClaimCredentialSeat

LEMMA Beats ==
    ASSUME Held, SeatTyped, NEW ref \in Refs, HeartbeatCredentialSeat(ref)
    PROVE  Fine
BY RefsNone DEF Held, Loses, Fine, HeartbeatCredentialSeat, SeatTyped

LEMMA Gives ==
    ASSUME Held, NEW ref \in Refs, NEW to \in Refs,
           ReleaseCredentialSeat(ref) \/ RetagCredentialSeat(ref, to)
    PROVE  Held' /\ (Loses => seat.ref = ref)
BY RefsNone DEF Held, Loses, ReleaseCredentialSeat, RetagCredentialSeat, NoSeat

-----------------------------------------------------------------------------
(* The seat: who does it                                                     *)

LEMMA SeatStepFine ==
    ASSUME IInv, Held, SeatStep
    PROVE  Fine
<1>1. CASE SeatGoesStale
  BY <1>1 DEF SeatGoesStale, IInv, Typed, RecordsTyped, SeatTyped, Held, Loses, Fine
<1>2. CASE RoomReply /\ ClaimCredentialSeat(Room)
  BY <1>2, AllRefs, Takes
<1>3. CASE RoomReply /\ HeartbeatCredentialSeat(Room)
  BY <1>3, AllRefs, Beats DEF IInv, Typed, RecordsTyped
<1>4. CASE RoomReply /\ ReleaseCredentialSeat(Room)
  <2>1. Held' /\ (Loses => seat.ref = Room)
    BY <1>4, AllRefs, Gives
  <2> QED
    BY <1>4, <2>1 DEF SeatStep, Fine, GivenUpBy
<1> QED
  BY <1>1, <1>2, <1>3, <1>4 DEF SeatStep, RoomReply

\* Requests of a native turn.
LEMMA NativeFine ==
    ASSUME IInv, Held, NEW t \in Turns,
           NativeClaims(t) \/ NativeRetags(t) \/ NativeUnseats(t) \/ NativeCancel(t)
    PROVE  Fine
<1>1. t \in Refs /\ Key(t) \in Refs
  BY AllRefs
<1>2. CASE NativeClaims(t)
  BY <1>1, <1>2, Takes, Stays DEF NativeClaims
<1>3. CASE NativeRetags(t) \/ NativeUnseats(t)
  <2>1. Held' /\ (Loses => seat.ref = Key(t))
    BY <1>1, <1>3, Gives DEF NativeRetags, NativeUnseats
  <2> QED
    BY <1>3, <2>1 DEF Fine, GivenUpBy
<1>4. CASE NativeCancel(t)
  <2>1. Held' /\ (Loses => seat.ref = t)
    BY <1>1, <1>4, Gives DEF NativeCancel
  <2> QED
    BY <1>4, <2>1 DEF Fine, GivenUpBy
<1> QED
  BY <1>2, <1>3, <1>4

\* Requests of a run: the start, the cancel and the monitor's check.
LEMMA RunFine ==
    ASSUME IInv, Held, NEW t \in Turns,
           RunClaims(t) \/ RunStartFails(t) \/ CancelEnds(t) \/ MonitorChecks(t) \/ MonitorRecovers(t)
    PROVE  Fine
<1> USE DEF IInv, Typed, RecordsTyped, RunsTyped
<1>1. t \in Refs
  BY AllRefs
<1>2. CASE RunClaims(t)
  BY <1>1, <1>2, Takes, Stays DEF RunClaims
<1>3. CASE MonitorChecks(t)
  BY <1>1, <1>3, Beats, Stays DEF MonitorChecks, BeatIfLeased
<1>4. CASE RunStartFails(t)
  <2>1. CASE ReleaseCredentialSeat(t)
    <3>1. Held' /\ (Loses => seat.ref = t)
      BY <1>1, <2>1, Gives
    <3>2. start'[t] # start[t]
      BY <1>4 DEF RunStartFails, StartGoes, StartTyped
    <3> QED
      BY <3>1, <3>2 DEF Fine, GivenUpBy
  <2>2. CASE UNCHANGED seat
    BY <2>2, Stays
  <2> QED
    BY <1>4, <2>1, <2>2 DEF RunStartFails
<1>5. CASE CancelEnds(t)
  <2>1. CASE ReleaseIfLeased(cancel[t], t) /\ cancel[t].lease
    <3>1. Held' /\ (Loses => seat.ref = t)
      BY <1>1, <2>1, Gives DEF ReleaseIfLeased
    <3>2. cancel'[t].pc # cancel[t].pc
      BY <1>5 DEF CancelEnds, CancelGoes, CancelTyped, Handlers, NoHandler
    <3> QED
      BY <3>1, <3>2 DEF Fine, GivenUpBy
  <2>2. CASE UNCHANGED seat
    BY <2>2, Stays
  <2> QED
    BY <1>5, <2>1, <2>2 DEF CancelEnds, ReleaseIfLeased
<1>6. CASE MonitorRecovers(t)
  <2>1. CASE ReleaseIfLeased(monitor[t], t) /\ monitor[t].lease
    <3>1. Held' /\ (Loses => seat.ref = t)
      BY <1>1, <2>1, Gives DEF ReleaseIfLeased
    <3>2. monitor'[t].pc # monitor[t].pc
      BY <1>6 DEF MonitorRecovers, MonitorGoes, MonitorEnds, MonitorTyped, Handlers, NoHandler
    <3> QED
      BY <3>1, <3>2 DEF Fine, GivenUpBy
  <2>2. CASE UNCHANGED seat
    BY <2>2, Stays
  <2> QED
    BY <1>6, <2>1, <2>2 DEF MonitorRecovers, ReleaseIfLeased
<1> QED
  BY <1>2, <1>3, <1>4, <1>5, <1>6

LEMMA HandlerFine ==
    ASSUME IInv, Held, NEW t \in Turns, HandlerStep(t)
    PROVE  Fine
<1>1. CASE NativeClaims(t) \/ NativeRetags(t) \/ NativeUnseats(t)
  BY <1>1, NativeFine
<1>2. CASE \/ RunClaims(t) \/ RunStartFails(t) \/ CancelEnds(t)
           \/ MonitorChecks(t) \/ MonitorRecovers(t)
  BY <1>2, RunFine
<1>3. CASE StartDies(t) \/ NativeBegins(t)
  BY <1>3, Stays DEF StartDies, NativeBegins
<1>4. CASE \/ RunRegisters(t) \/ RunLeases(t) \/ RunAsks(t) \/ RunAnswered(t)
           \/ RunStarted(t) \/ RunRetried(t)
  BY <1>4, Stays DEF RunRegisters, RunLeases, RunAsks, RunAnswered, RunStarted, RunRetried
<1>5. CASE \/ HostLaunches(t) \/ AgentEnds(t) \/ CancelBegins(t) \/ CancelStops(t)
           \/ MonitorLists(t) \/ HandlerDies(t)
  BY <1>5, Stays DEF HostLaunches, AgentEnds, CancelBegins, CancelStops, MonitorLists,
                     HandlerDies, records
<1> QED
  BY <1>1, <1>2, <1>3, <1>4, <1>5 DEF HandlerStep, NativeHandler, RunHandler

\* The end of a poll gives the seat of its turn back.
LEMMA PollGives ==
    ASSUME IInv, Held, NEW p \in Pollers, poll[p].turn \in Turns,
           ReleaseCredentialSeat(poll[p].turn), poll'[p] # poll[p]
    PROVE  Fine
<1>1. poll[p].turn \in Refs
  BY AllRefs
<1>2. Held' /\ (Loses => seat.ref = poll[p].turn)
  BY <1>1, Gives
<1> QED
  BY <1>2 DEF Fine, GivenUpBy

LEMMA PollFine ==
    ASSUME IInv, Held, NEW p \in Pollers, PollStep(p)
    PROVE  Fine
<1> USE DEF IInv, Typed, RecordsTyped
<1>1. CASE PollReturnsSeat(p)
  <2>1. poll[p].turn \in Turns
    BY <1>1 DEF PollReturnsSeat, Polls, PollOf
  <2>2. poll'[p] # poll[p]
    BY <1>1, Ends DEF PollReturnsSeat, NoPoll
  <2> QED
    BY <1>1, <2>1, <2>2, PollGives DEF PollReturnsSeat
<1>2. CASE RunPollFinishes(p)
  <2>1. CASE UNCHANGED seat
    BY <2>1, Stays
  <2>2. CASE ReleaseIfLeased(poll[p], poll[p].turn) /\ poll[p].pc = "unseat"
               /\ PollGoes(p, "unlease") /\ poll[p].lease
    <3>1. poll[p].turn \in Turns
      BY <2>2 DEF Polls, PollOf
    <3>2. poll'[p] # poll[p]
      BY <2>2, Goes DEF PollPcs, RunPcs
    <3> QED
      BY <2>2, <3>1, <3>2, PollGives DEF ReleaseIfLeased
  <2> QED
    BY <1>2, <2>1, <2>2 DEF RunPollFinishes, ReleaseIfLeased
<1>3. CASE RunPollBeats(p)
  <2>1. poll[p].turn \in Refs
    BY <1>3, AllRefs DEF RunPollBeats, Polls, PollOf
  <2> QED
    BY <1>3, <2>1, Beats, Stays DEF RunPollBeats, BeatIfLeased
<1>4. CASE \/ ArmPollAsks(p) \/ DirectPollSaves(p) \/ DirectPollReplies(p)
           \/ DirectPollAnswers(p) \/ PollDies(p)
  BY <1>4, Stays DEF ArmPollAsks, DirectPollSaves, DirectPollReplies, DirectPollAnswers, PollDies
<1>5. CASE RunPollAsks(p) \/ RunPollRecords(p) \/ RunPollReplies(p)
  BY <1>5, Stays DEF RunPollAsks, RunPollRecords, RunPollReplies
<1> QED
  BY <1>1, <1>2, <1>3, <1>4, <1>5 DEF PollStep, RunPoll

LEMMA StepFine == IInv /\ Held /\ Next => Fine
<1> SUFFICES ASSUME IInv, Held, Next PROVE Fine
  OBVIOUS
<1>1. CASE SeatStep
  BY <1>1, SeatStepFine
<1>2. CASE VmStops \/ QueueStep
  BY <1>2, Stays DEF VmStops, QueueStep, records
<1>3. ASSUME NEW t \in Turns, HandlerStep(t) PROVE Fine
  BY <1>3, HandlerFine
<1>4. ASSUME NEW t \in Turns, RecordStep(t) PROVE Fine
  BY <1>4, Stays DEF RecordStep, NativeRecords, RunRecords
<1>5. ASSUME NEW t \in Turns, SessionStep(t) PROVE Fine
  <2>1. CASE NativeCancel(t)
    BY <2>1, NativeFine
  <2>2. CASE Guest(t) \/ NativeAsks(t) \/ NativeAnswered(t)
    BY <2>2, Stays DEF Guest, GuestStarts, GuestReads, GuestReadsEnd, GuestReaps,
                       NativeAsks, NativeAnswered, records
  <2> QED
    BY <1>5, <2>1, <2>2 DEF SessionStep
<1>6. ASSUME NEW p \in Pollers, CommitStep(p) PROVE Fine
  BY <1>6, Stays DEF CommitStep, ArmPollCommits
<1>7. ASSUME NEW p \in Pollers, PollStep(p) PROVE Fine
  BY <1>7, PollFine
<1>8. ASSUME NEW p \in Pollers, NEW t \in Turns, BeginStep(p, t) PROVE Fine
  BY <1>8, Stays DEF BeginStep, ArmPollBegins, ArmPollSaved, DirectPollAsks, DirectPollMisses,
                     RunPollBegins
<1> QED
  BY <1>1, <1>2, <1>3, <1>4, <1>5, <1>6, <1>7, <1>8, Steps

\* A fresh seat is given up by a handler of its holder only: a finalizer that comes
\* late leaves it to whoever has it by then (credential-seat.ts).
THEOREM SeatIsOwn == Spec => OwnSeatOnly
<1> DEFINE Given == seat.fresh /\ seat'.ref # seat.ref => GivenUpBy(seat.ref)
<1>1. Init => Held
  BY DEF Init, RecordsInit, NoSeat, Held
<1>2. IInv /\ Held /\ [Next]_vars => Held' /\ [Given]_vars
  <2> SUFFICES ASSUME IInv, Held, [Next]_vars PROVE Held' /\ [Given]_vars
    OBVIOUS
  <2>1. CASE Next
    BY <2>1, StepFine DEF Fine, Loses
  <2>2. CASE UNCHANGED vars
    BY <2>2 DEF vars, records, Held
  <2> QED
    BY <2>1, <2>2
<1> QED
  BY <1>1, <1>2, InvariantHolds, PTL DEF Spec, OwnSeatOnly
=============================================================================
