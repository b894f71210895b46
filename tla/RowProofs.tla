------------------------------ MODULE RowProofs ------------------------------
(***************************************************************************)
(* Proofs about ComputeCron for every set of requests and owners and every *)
(* bound on how many of them overlap.                                      *)
(***************************************************************************)
EXTENDS RowProperties, TLAPS

\* A request that may write back a status has read one that is not a lease.
ReadStatus ==
    \A r \in Requests : op[r].pc \in {"expire", "claim", "wake"} =>
        op[r].was \in Statuses \ {"provisioning"}

GuestNeedsHost == guest => host = "up"

\* What has been destroyed under a lease stays so until the stop is committed.
Destroyed ==
    mishap \notin {"lost", "slow"} =>
      \A a \in Actors : op[a].pc \in {"end", "stopped"} => ~guest

Typed == TypeOK /\ ReadStatus

Inv == Typed /\ GuestNeedsHost /\ LeaseHeld /\ Destroyed /\ StoppedIsStopped

-----------------------------------------------------------------------------
(* Type correctness.                                                       *)

OpType == [pc : Pcs, owner : Owners \cup {None}, was : Statuses \cup {"up", None}]

RowType == {None} \cup
    {x \in Rows : x.status # "provisioning" => x.holder = None /\ ~x.stale}

LEMMA RowTypeEquiv ==
    TypeOK <=> /\ row \in RowType /\ session \in Owners \cup {None}
               /\ guest \in BOOLEAN /\ host \in {"up", "stopped"}
               /\ spent \subseteq Owners /\ op \in [Actors -> OpType]
               /\ mishap \in Mishaps \cup {None}
BY DEF TypeOK, RowType, OpType

LEMMA RowShapes ==
    ASSUME row \in RowType, row # None
    PROVE  /\ \A s \in Statuses : Becomes(s) \in RowType
           /\ \A a \in Actors : Leased(row, a) \in RowType
           /\ \A o \in Owners : [row EXCEPT !.owner = o] \in RowType
           /\ row.owner \in Owners /\ row.status \in Statuses
BY DEF RowType, Rows, Becomes, Leased, Statuses

LEMMA WritesType ==
    ASSUME row \in RowType, NEW a \in Actors, NEW s \in Statuses, Writes(a, s)
    PROVE  row' \in RowType
BY RowShapes DEF Writes

LEMMA GoesType ==
    ASSUME op \in [Actors -> OpType], ReadStatus,
           NEW a \in Actors, NEW next \in OpType, Goes(a, next),
           a \in Requests /\ next.pc \in {"expire", "claim", "wake"} =>
             next.was \in Statuses \ {"provisioning"}
    PROVE  op' \in [Actors -> OpType] /\ ReadStatus'
BY DEF Goes, ReadStatus, Actors

LEMMA OpShapes ==
    /\ Idle \in OpType /\ Idle.pc = "idle"
    /\ \A pc \in Pcs : At(pc) \in OpType /\ At(pc).pc = pc
    /\ \A pc \in Pcs, o \in Owners \cup {None} :
         For(pc, o) \in OpType /\ For(pc, o).pc = pc
<1>1. Idle \in OpType /\ Idle.pc = "idle"
  BY RowConstants DEF Idle, OpType, Pcs, Statuses
<1>2. ASSUME NEW pc \in Pcs
      PROVE  At(pc) \in OpType /\ At(pc).pc = pc
  BY <1>1 DEF At, OpType, Idle
<1>3. ASSUME NEW pc \in Pcs, NEW o \in Owners \cup {None}
      PROVE  For(pc, o) \in OpType /\ For(pc, o).pc = pc
  <2>1. At(pc) \in OpType /\ At(pc).pc = pc
    BY <1>2
  <2> QED
    BY <2>1 DEF For, OpType
<1> QED
  BY <1>1, <1>2, <1>3

LEMMA OpEdits ==
    ASSUME NEW x \in OpType, NEW pc \in Pcs, NEW o \in Owners \cup {None},
           NEW w \in Statuses \cup {"up", None}
    PROVE  /\ [x EXCEPT !.pc = pc] \in OpType
           /\ [x EXCEPT !.pc = pc, !.owner = o] \in OpType
           /\ [x EXCEPT !.was = w] \in OpType
BY DEF OpType

LEMMA InitInv == Init => Inv
<1> SUFFICES ASSUME Init PROVE Inv
  OBVIOUS
<1>1. (CHOOSE o \in Owners : TRUE) \in Owners
  BY RowConstants
<1>2. TypeOK
  BY <1>1 DEF Init, TypeOK, Row, Rows, Idle, Statuses, Pcs
<1>3. \A a \in Actors : op[a].pc = "idle"
  BY DEF Init, Idle
<1>4. ReadStatus /\ LeaseHeld /\ Destroyed
  BY <1>3 DEF ReadStatus, LeaseHeld, Destroyed, Leasing, Actors
<1>5. GuestNeedsHost /\ StoppedIsStopped
  BY DEF Init, Row, GuestNeedsHost, StoppedIsStopped
<1> QED
  BY <1>2, <1>4, <1>5 DEF Inv, Typed

-----------------------------------------------------------------------------
(* What a step does to the types.  RowState is TypeOK with its sets named. *)

LEMMA UnreadPcs ==
    ASSUME op \in [Actors -> OpType], ReadStatus, NEW a \in Actors, NEW next \in OpType,
           Goes(a, next), next.pc \notin {"expire", "claim", "wake"}
    PROVE  op' \in [Actors -> OpType] /\ ReadStatus'
BY GoesType

LEMMA CronOps ==
    ASSUME op \in [Actors -> OpType], ReadStatus, NEW next \in OpType, Goes(Cron, next)
    PROVE  op' \in [Actors -> OpType] /\ ReadStatus'
BY GoesType, RowConstants DEF Actors

LEMMA MeteredType ==
    ASSUME session \in Owners \cup {None}, NEW o \in Owners \cup {None}
    PROVE  Metered(o) \in Owners \cup {None}
BY DEF Metered

LEMMA MishapType ==
    ASSUME NEW k \in Mishaps, Mishap(k)
    PROVE  mishap' \in Mishaps \cup {None}
BY DEF Mishap

RowState ==
    /\ row \in RowType /\ session \in Owners \cup {None}
    /\ guest \in BOOLEAN /\ host \in {"up", "stopped"}
    /\ spent \subseteq Owners /\ op \in [Actors -> OpType]
    /\ mishap \in Mishaps \cup {None}
    /\ ReadStatus

LEMMA TypedState == Typed <=> RowState
BY RowTypeEquiv DEF Typed, RowState

LEMMA RequestPcs == \A r \in Requests : r \in Actors
BY DEF Actors

WithPc(q, pc) == [q EXCEPT !.pc = pc]

LEMMA PcMoves ==
    ASSUME NEW q \in OpType, NEW pc \in Pcs
    PROVE  WithPc(q, pc) \in OpType /\ WithPc(q, pc).was = q.was
BY DEF OpType, WithPc

LEMMA StartTypes ==
    ASSUME RowState, NEW r \in Requests, Opens(r) \/ EnsureInstance(r)
    PROVE  RowState'
<1> USE RequestPcs, OpShapes DEF RowState, Pcs
<1>1. CASE Opens(r)
  <2>1. row # None
    BY <1>1 DEF Opens, Shown
  <2>2. \A pc \in {"ask", "claim", "expire"} :
          /\ Reading(pc) \in OpType
          /\ Reading(pc).was \in Statuses \ {"provisioning"}
    BY <2>1, RowShapes DEF Reading, OpType, Pcs, Statuses
  <2>3. \E pc \in {"ask", "claim", "expire"} : Goes(r, Reading(pc))
    BY <1>1 DEF Opens, FirstCall
  <2> QED
    BY <1>1, <2>2, <2>3, GoesType DEF Opens, Reading
<1>2. CASE Expires(r)
  <2>1. op[r].was \in Statuses \ {"provisioning"} /\ op[r] \in OpType
    BY <1>2 DEF Expires, ReadStatus
  <2>3. \/ Goes(r, Idle)
        \/ \E pc \in {"ask", "claim"} : Goes(r, [op[r] EXCEPT !.pc = pc])
    BY <1>2 DEF Expires, FirstCall
  <2>4. CASE Goes(r, Idle)
    BY <1>2, <2>4, UnreadPcs DEF Expires, Trims
  <2>5. ASSUME NEW pc \in {"ask", "claim"}, Goes(r, [op[r] EXCEPT !.pc = pc])
        PROVE  RowState'
    <3> DEFINE next == WithPc(op[r], pc)
    <3>1. next \in OpType /\ next.was \in Statuses \ {"provisioning"}
      <4>1. pc \in Pcs
        OBVIOUS
      <4>2. next \in OpType /\ next.was = op[r].was
        BY <2>1, <4>1, PcMoves
      <4> QED
        BY <2>1, <4>2
    <3>2. Goes(r, next)
      BY <2>5 DEF WithPc
    <3> HIDE DEF next
    <3>3. op' \in [Actors -> OpType] /\ ReadStatus'
      BY <3>1, <3>2, GoesType, r \in Actors
    <3> QED
      BY <1>2, <3>3 DEF Expires, Trims
  <2> QED
    BY <1>2, <2>3, <2>4, <2>5 DEF Expires, Trims
<1>3. CASE Asks(r)
  <2>1. op[r].owner \in Owners \cup {None}
    BY DEF OpType
  <2>2. \/ Goes(r, For("attach", op[r].owner)) \/ Goes(r, For("reclaim", op[r].owner))
        \/ Goes(r, Idle)
    BY <1>3 DEF Asks
  <2>3. op' \in [Actors -> OpType] /\ ReadStatus'
    BY <2>1, <2>2, UnreadPcs
  <2> QED
    BY <1>3, <2>3 DEF Asks, HostReady, HostBooting
<1>4. CASE Attaches(r)
  <2>1. op' \in [Actors -> OpType] /\ ReadStatus'
    BY <1>4, UnreadPcs DEF Attaches
  <2>2. session' \in Owners \cup {None}
    BY <1>4, MeteredType DEF Attaches, OpType
  <2> QED
    BY <1>4, <2>1, <2>2 DEF Attaches
<1>5. CASE Claims(r)
  <2>1. row' \in RowType
    BY <1>5, RowShapes DEF Claims, Claimable
  <2>2. [op[r] EXCEPT !.pc = "wake"] \in OpType
    BY DEF OpType
  <2>3. op' \in [Actors -> OpType] /\ ReadStatus'
    <3>1. CASE Goes(r, [op[r] EXCEPT !.pc = "wake"]) /\ op[r].pc = "claim"
      BY <3>1, <2>2, GoesType DEF ReadStatus, OpType
    <3>2. CASE Goes(r, For("current", op[r].owner)) \/ Goes(r, Idle)
      BY <3>2, UnreadPcs DEF OpType
    <3> QED
      BY <1>5, <3>1, <3>2 DEF Claims
  <2> QED
    BY <1>5, <2>1, <2>3 DEF Claims
<1>6. CASE Wakes(r)
  <2>1. op[r].was \in Statuses
    BY <1>6 DEF Wakes, ReadStatus
  <2>2. row' \in RowType
    BY <1>6, <2>1, WritesType DEF Wakes
  <2>3. op' \in [Actors -> OpType] /\ ReadStatus'
    <3>1. op[r].owner \in Owners \cup {None}
      BY DEF OpType
    <3>2. \/ Goes(r, For("meter", op[r].owner)) \/ Goes(r, For("provision", op[r].owner))
          \/ Goes(r, Idle)
      BY <1>6 DEF Wakes
    <3> QED
      BY <3>1, <3>2, UnreadPcs
  <2> QED
    BY <1>6, <2>2, <2>3 DEF Wakes, HostReady, HostBooting
<1>7. CASE FindsGuest(r)
  <2>1. op[r].owner \in Owners \cup {None}
    BY DEF OpType
  <2>2. \/ Goes(r, For("meter", op[r].owner)) \/ Goes(r, For("provision", op[r].owner))
        \/ Goes(r, At("failing"))
    BY <1>7 DEF FindsGuest
  <2>3. op' \in [Actors -> OpType] /\ ReadStatus'
    BY <2>1, <2>2, UnreadPcs
  <2> QED
    BY <1>7, <2>3 DEF FindsGuest
<1>8. CASE Provisions(r)
  <2>1. op' \in [Actors -> OpType] /\ ReadStatus'
    BY <1>8, UnreadPcs DEF Provisions, OpType
  <2>2. mishap' \in Mishaps \cup {None}
    BY <1>8 DEF Provisions, Mishap, Mishaps
  <2>3. guest' \in BOOLEAN
    BY <1>8 DEF Provisions
  <2> QED
    BY <1>8, <2>1, <2>2, <2>3 DEF Provisions
<1>9. CASE Meters(r)
  BY <1>9, UnreadPcs, MeteredType DEF Meters, OpType
<1>10. CASE Commits(r)
  <2>1. row' \in RowType
    BY <1>10, WritesType DEF Commits, Statuses
  <2> QED
    BY <1>10, <2>1, UnreadPcs DEF Commits
<1> QED
  BY <1>1, <1>2, <1>3, <1>4, <1>5, <1>6, <1>7, <1>8, <1>9, <1>10 DEF EnsureInstance

LEMMA StopTypes ==
    ASSUME RowState, NEW a \in Actors, StopInstance(a)
    PROVE  RowState'
<1> USE OpShapes DEF RowState, Pcs
<1>1. CASE Destroys(a)
  <2>1. row' \in RowType
    BY <1>1, WritesType DEF Destroys, Statuses
  <2>2. op' \in [Actors -> OpType] /\ ReadStatus'
    BY <1>1, UnreadPcs DEF Destroys
  <2>3. mishap' \in Mishaps \cup {None}
    BY <1>1 DEF Destroys, Mishap, Mishaps
  <2>4. guest' \in BOOLEAN
    BY <1>1 DEF Destroys
  <2> QED
    BY <1>1, <2>1, <2>2, <2>3, <2>4 DEF Destroys
<1>2. CASE EndsSession(a)
  BY <1>2, UnreadPcs DEF EndsSession
<1>3. CASE CommitsStop(a)
  BY <1>3, UnreadPcs, WritesType DEF CommitsStop, Statuses
<1> QED
  BY <1>1, <1>2, <1>3 DEF StopInstance

LEMMA ReservesType ==
    ASSUME RowState, NEW a \in Actors, Stoppable, Reserves(a)
    PROVE  row' \in RowType /\ op' \in [Actors -> OpType] /\ ReadStatus'
BY RowShapes, OpShapes, UnreadPcs DEF RowState, Stoppable, Shown, Reserves, Pcs

LEMMA OtherRequestTypes ==
    ASSUME RowState, NEW r \in Requests, Stops(r) \/ Deletes(r) \/ DeleteWorkspace(r)
    PROVE  RowState'
<1> USE RequestPcs, OpShapes DEF RowState, Pcs
<1>1. CASE Stops(r)
  BY <1>1, ReservesType DEF Stops
<1>2. CASE Deletes(r)
  <2>1. op' \in [Actors -> OpType] /\ ReadStatus'
    BY <1>2, UnreadPcs DEF Deletes
  <2> QED
    BY <1>2, <2>1, RowShapes DEF Deletes, Statuses
<1>3. CASE Reaches(r)
  BY <1>3, UnreadPcs DEF Reaches, HostReady, HostBooting
<1>4. CASE Removes(r)
  <2>1. op' \in [Actors -> OpType] /\ ReadStatus'
    BY <1>4, UnreadPcs DEF Removes
  <2>2. mishap' \in Mishaps \cup {None}
    BY <1>4 DEF Removes, Mishap, Mishaps
  <2>3. guest' \in BOOLEAN
    BY <1>4 DEF Removes
  <2> QED
    BY <1>4, <2>1, <2>2, <2>3 DEF Removes
<1>5. CASE Unmeters(r)
  BY <1>5, UnreadPcs DEF Unmeters
<1>6. CASE Erases(r)
  BY <1>6, UnreadPcs DEF Erases, RowType
<1> QED
  BY <1>1, <1>2, <1>3, <1>4, <1>5, <1>6 DEF DeleteWorkspace

LEMMA RoundTypes ==
    ASSUME RowState, Begins \/ Round
    PROVE  RowState'
<1> USE OpShapes, CronOps DEF RowState, Pcs
<1>1. Cron \in Actors /\ op[Cron] \in OpType
  BY DEF Actors
<1>2. ASSUME NEW pc \in Pcs
      PROVE  /\ [op[Cron] EXCEPT !.pc = pc] \in OpType
             /\ \A o \in Owners \cup {None} :
                  [op[Cron] EXCEPT !.pc = pc, !.owner = o] \in OpType
  <2> HIDE DEF Pcs
  <2> QED
    BY <1>1, OpEdits
<1>3. op[Cron].owner \in Owners \cup {None} /\ op[Cron].was \in Statuses \cup {"up", None}
  BY <1>1 DEF OpType
<1>4. CASE Begins
  <2>1. [At("bootstrap") EXCEPT !.was = host] \in OpType
    <3>1. At("bootstrap") \in OpType /\ host \in Statuses \cup {"up", None}
      BY DEF Statuses
    <3> QED
      BY <3>1 DEF OpType
  <2> QED
    BY <1>4, <2>1 DEF Begins
<1>5. CASE Bootstraps
  <2>1. ASSUME row # None
        PROVE  [For("probe", row.owner) EXCEPT !.was = op[Cron].was] \in OpType
    <3>1. For("probe", row.owner) \in OpType
      BY <2>1, RowShapes
    <3> QED
      BY <1>3, <3>1 DEF OpType
  <2>2. [op[Cron] EXCEPT !.pc = "select"] \in OpType
    BY <1>2
  <2>3. op' \in [Actors -> OpType] /\ ReadStatus'
    BY <1>5, <2>1, <2>2 DEF Bootstraps
  <2> QED
    BY <1>5, <2>3 DEF Bootstraps
<1>6. CASE Probes
  BY <1>2, <1>6 DEF Probes
<1>7. CASE Inserts
  BY <1>2, <1>3, <1>7, MeteredType DEF Inserts
<1>8. CASE Selects
  <2>1. session # None => [op[Cron] EXCEPT !.pc = "observe", !.owner = session] \in OpType
    BY <1>2
  <2> QED
    BY <1>8, <2>1 DEF Selects
<1>9. CASE Observes
  BY <1>3, <1>9 DEF Observes
<1>10. CASE ExpiresObserved
  BY <1>3, <1>10 DEF ExpiresObserved, Trims
<1>11. CASE Exhausts
  BY <1>1, <1>11, ReservesType DEF Exhausts
<1>12. CASE StopInstance(Cron)
  BY <1>1, <1>12, StopTypes
<1> QED
  BY <1>4, <1>5, <1>6, <1>7, <1>8, <1>9, <1>10, <1>11, <1>12 DEF Round

LEMMA WorldTypes ==
    ASSUME RowState,
           \/ \E o \in Owners : Transfers(o) \/ Renews(o)
           \/ \E a \in Actors : Dies(a)
           \/ Touches \/ Ages \/ Hibernates \/ Deallocates \/ Spends
    PROVE  RowState'
<1> USE OpShapes DEF RowState, Mishap, Mishaps, ReadStatus
<1>1. ASSUME NEW o \in Owners, Transfers(o)
      PROVE  RowState'
  BY <1>1, RowShapes DEF Transfers, Shown
<1>2. ASSUME NEW o \in Owners, Renews(o)
      PROVE  RowState'
  BY <1>2 DEF Renews
<1>3. ASSUME NEW a \in Actors, Dies(a)
      PROVE  RowState'
  BY <1>3, UnreadPcs DEF Dies, Pcs
<1>4. CASE Touches \/ Ages
  <2>1. row \in Rows /\ row.status = "provisioning"
    BY <1>4 DEF Touches, Ages, RowType
  <2>2. /\ [row EXCEPT !.holder = None, !.stale = FALSE] \in RowType
        /\ [row EXCEPT !.stale = TRUE] \in RowType
    BY <2>1 DEF RowType, Rows
  <2>3. row' \in RowType
    BY <1>4, <2>2 DEF Touches, Ages
  <2>4. mishap' \in Mishaps \cup {None}
    BY <1>4 DEF Touches, Ages
  <2> QED
    BY <1>4, <2>3, <2>4 DEF Touches, Ages
<1>5. CASE Hibernates \/ Deallocates \/ Spends
  BY <1>5 DEF Hibernates, Deallocates, Spends
<1> QED
  BY <1>1, <1>2, <1>3, <1>4, <1>5

LEMMA StepTypes == Typed /\ [Next]_vars => Typed'
<1> SUFFICES ASSUME RowState, [Next]_vars
             PROVE  RowState'
  BY TypedState, PTL
<1>1. CASE UNCHANGED vars
  BY <1>1 DEF vars, RowState, ReadStatus
<1>2. ASSUME NEW r \in Requests,
             \/ Opens(r) \/ EnsureInstance(r) \/ Stops(r) \/ StopInstance(r)
             \/ Deletes(r) \/ DeleteWorkspace(r)
      PROVE  RowState'
  BY <1>2, StartTypes, StopTypes, OtherRequestTypes, RequestPcs
<1>3. CASE Begins \/ Round
  BY <1>3, RoundTypes
<1> QED
  BY <1>1, <1>2, <1>3, WorldTypes DEF Next

-----------------------------------------------------------------------------
(* The lease: what a step does to it, by what becomes of its actor.        *)

LeasePart == GuestNeedsHost /\ LeaseHeld /\ Destroyed /\ StoppedIsStopped

\* A mishap, once it has happened, is the only one.
OneMishap == mishap' = mishap \/ (mishap = None /\ mishap' \in Mishaps)

\* The world may lose the guest and wake the host, not the other way round.
Quiet == (guest' => guest) /\ host' \in {host, "up"}

LEMMA OthersStay ==
    ASSUME Typed, NEW a \in Actors, NEW next, Goes(a, next)
    PROVE  /\ op'[a] = next
           /\ \A b \in Actors : b # a => op'[b] = op[b]
BY DEF Typed, TypeOK, Goes

\* An actor that has no lease after its step has harmed nobody's.
LEMMA StaysOut ==
    ASSUME Typed, LeasePart, NEW a \in Actors, NEW next, Goes(a, next),
           next.pc \notin Leasing, row' = row, Quiet, OneMishap
    PROVE  LeasePart'
<1>1. \A b \in Actors : op'[b].pc \in Leasing => b # a /\ op'[b] = op[b]
  BY OthersStay
<1>2. LeaseHeld'
  BY <1>1, RowConstants DEF LeasePart, LeaseHeld, Mishaps, OneMishap
<1>3. Destroyed'
  BY <1>1, RowConstants DEF LeasePart, Destroyed, Leasing, Mishaps, OneMishap, Quiet
<1> QED
  BY <1>2, <1>3, RowConstants
  DEF LeasePart, GuestNeedsHost, StoppedIsStopped, Mishaps, OneMishap, Quiet

\* A row that can be claimed is nobody's.
LEMMA TakesLease ==
    ASSUME Typed, LeasePart, NEW a \in Actors, NEW next, Goes(a, next),
           next.pc \in Leasing \ {"end", "stopped"}, row' = Leased(row, a),
           row # None, row.status # "provisioning" \/ row.stale,
           UNCHANGED <<guest, host, mishap>>
    PROVE  LeasePart'
<1>1. mishap # "slow" => \A b \in Actors : op[b].pc \notin Leasing
  BY DEF LeasePart, LeaseHeld
<1>2. row'.status = "provisioning" /\ row'.holder = a /\ ~row'.stale /\ row' # None
  <2>1. Leased(row, a) \in Rows
    BY DEF Leased, Typed, TypeOK, Rows, Statuses
  <2> QED
    BY <2>1, RowConstants DEF Leased, Typed, TypeOK, Rows
<1>3. LeaseHeld'
  BY <1>1, <1>2, OthersStay DEF LeaseHeld
<1>4. Destroyed'
  BY <1>1, OthersStay DEF Destroyed, Leasing
<1> QED
  BY <1>2, <1>3, <1>4 DEF LeasePart, GuestNeedsHost, StoppedIsStopped

\* Its holder goes on under it.
LEMMA KeepsLease ==
    ASSUME Typed, LeasePart, NEW a \in Actors, NEW next, Goes(a, next),
           op[a].pc \in Leasing, next.pc \in Leasing, row' = row, OneMishap,
           guest' => host' = "up",
           next.pc \in {"end", "stopped"} /\ mishap' \notin {"lost", "slow"} => ~guest'
    PROVE  LeasePart'
<1>1. mishap' # "slow" =>
        /\ mishap # "slow" /\ row # None /\ row.status = "provisioning"
        /\ \A b \in Actors : op[b].pc \in Leasing => b = a
  BY RowConstants DEF LeasePart, LeaseHeld, OneMishap, Mishaps
<1>2. LeaseHeld'
  BY <1>1, OthersStay, RowConstants DEF LeasePart, LeaseHeld, OneMishap, Mishaps
<1>3. Destroyed'
  BY <1>1, OthersStay DEF Destroyed, Leasing
<1> QED
  BY <1>1, <1>2, <1>3 DEF LeasePart, GuestNeedsHost, StoppedIsStopped

\* It gives the lease up with what it writes, if it still has it.
LEMMA GivesUp ==
    ASSUME Typed, LeasePart, NEW a \in Actors, Goes(a, Idle),
           op[a].pc \in Leasing, NEW s \in Statuses \ {"provisioning"}, Writes(a, s),
           Quiet, OneMishap,
           s = "stopped" /\ mishap' \notin {"lost", "slow"} => ~guest'
    PROVE  LeasePart'
<1>1. mishap' # "slow" =>
        /\ mishap # "slow" /\ \A b \in Actors : op[b].pc \in Leasing => b = a
  BY RowConstants DEF LeasePart, LeaseHeld, OneMishap, Mishaps
<1>2. mishap' # "slow" => \A b \in Actors : op'[b].pc \notin Leasing
  BY <1>1, OthersStay DEF Idle, Leasing
<1>3. LeaseHeld' /\ Destroyed'
  BY <1>2 DEF LeaseHeld, Destroyed, Leasing
<1>4. row' = row \/ (row' # None => row'.status = s)
  BY DEF Writes, Becomes, Typed, TypeOK
<1> QED
  BY <1>3, <1>4, RowConstants
  DEF LeasePart, GuestNeedsHost, StoppedIsStopped, Quiet, OneMishap, Mishaps

LEMMA NextPcs ==
    /\ Idle.pc = "idle"
    /\ \A pc, o : At(pc).pc = pc /\ For(pc, o).pc = pc
BY DEF Idle, At, For

LEMMA QuietSteps ==
    /\ UNCHANGED <<guest, host>> => Quiet
    /\ UNCHANGED mishap => OneMishap
    /\ \A k \in Mishaps : Mishap(k) => OneMishap
BY DEF Quiet, OneMishap, Mishap

LEMMA StartLeases ==
    ASSUME Typed, LeasePart, NEW r \in Requests, Opens(r) \/ EnsureInstance(r)
    PROVE  LeasePart'
<1> USE RequestPcs, NextPcs, QuietSteps
<1>1. CASE Opens(r)
  <2>1. PICK pc \in {"ask", "claim", "expire"} : Goes(r, Reading(pc))
    BY <1>1 DEF Opens, FirstCall
  <2>2. Reading(pc).pc \notin Leasing
    BY DEF Reading, Leasing
  <2> QED
    BY <1>1, <2>1, <2>2, StaysOut DEF Opens
<1>2. CASE Expires(r)
  <2>1. PICK next : Goes(r, next) /\ next.pc \in {"idle", "ask", "claim"}
    <3>1. CASE Goes(r, Idle)
      BY <3>1
    <3>2. ASSUME NEW pc \in {"ask", "claim"}, Goes(r, [op[r] EXCEPT !.pc = pc])
          PROVE  \E next : Goes(r, next) /\ next.pc \in {"idle", "ask", "claim"}
      <4>1. op[r] \in OpType
        BY RowTypeEquiv DEF Typed
      <4>2. [op[r] EXCEPT !.pc = pc].pc = pc
        BY <4>1 DEF OpType
      <4> QED
        BY <3>2, <4>2
    <3> QED
      BY <1>2, <3>1, <3>2 DEF Expires, FirstCall
  <2>2. next.pc \notin Leasing
    BY <2>1 DEF Leasing
  <2> QED
    BY <1>2, <2>1, <2>2, StaysOut DEF Expires
<1>3. CASE Asks(r)
  <2>1. PICK next : Goes(r, next) /\ next.pc \in {"idle", "attach", "reclaim"}
    BY <1>3 DEF Asks
  <2>2. next.pc \notin Leasing
    BY <2>1 DEF Leasing
  <2>3. Quiet
    BY <1>3 DEF Asks, HostReady, HostBooting, Quiet
  <2> QED
    BY <1>3, <2>1, <2>2, <2>3, StaysOut DEF Asks
<1>4. CASE Attaches(r)
  <2>1. Idle.pc \notin Leasing
    BY DEF Leasing
  <2> QED
    BY <1>4, <2>1, StaysOut DEF Attaches
<1>5. CASE Claims(r)
  <2>1. CASE Claimable
    <3>1. PICK next : Goes(r, next) /\ next.pc \in {"wake", "current"}
      <4>1. [op[r] EXCEPT !.pc = "wake"].pc = "wake"
        BY RowTypeEquiv DEF Typed, OpType
      <4>2. \/ Goes(r, [op[r] EXCEPT !.pc = "wake"])
            \/ Goes(r, For("current", op[r].owner))
        BY <1>5, <2>1 DEF Claims
      <4> QED
        BY <4>1, <4>2
    <3>2. next.pc \in Leasing \ {"end", "stopped"}
      BY <3>1 DEF Leasing
    <3> QED
      BY <1>5, <2>1, <3>1, <3>2, TakesLease DEF Claims, Claimable
  <2>2. CASE ~Claimable
    <3>1. Idle.pc \notin Leasing
      BY DEF Leasing
    <3> QED
      BY <1>5, <2>2, <3>1, StaysOut DEF Claims
  <2> QED
    BY <2>1, <2>2
<1>6. CASE Wakes(r)
  <2>1. op[r].pc \in Leasing /\ op[r].was \in Statuses \ {"provisioning"}
    BY <1>6 DEF Wakes, Leasing, Typed, ReadStatus
  <2>2. CASE HostReady /\ row' = row
    <3>1. PICK next : Goes(r, next) /\ next.pc \in {"meter", "provision", "idle"}
      BY <1>6 DEF Wakes
    <3>2. CASE next.pc = "idle"
      BY <1>6, <2>2, <3>1, <3>2, StaysOut DEF Wakes, HostReady, Quiet, Leasing
    <3>3. CASE next.pc \in {"meter", "provision"}
      <4>1. next.pc \in Leasing /\ next.pc \notin {"end", "stopped"}
        BY <3>3 DEF Leasing
      <4> QED
        BY <1>6, <2>1, <2>2, <3>1, <4>1, KeepsLease DEF Wakes, HostReady
    <3> QED
      BY <3>1, <3>2, <3>3
  <2>3. CASE HostBooting /\ Writes(r, op[r].was) /\ Goes(r, Idle)
    <3>1. Quiet /\ ~guest'
      BY <1>6, <2>3 DEF Wakes, HostBooting, Quiet, LeasePart, GuestNeedsHost
    <3> QED
      BY <1>6, <2>1, <2>3, <3>1, GivesUp DEF Wakes
  <2> QED
    BY <1>6, <2>2, <2>3 DEF Wakes
<1>7. CASE FindsGuest(r)
  <2>1. PICK next : Goes(r, next) /\ next.pc \in {"failing", "meter", "provision"}
    BY <1>7 DEF FindsGuest
  <2>2. op[r].pc \in Leasing /\ next.pc \in Leasing /\ next.pc \notin {"end", "stopped"}
    BY <1>7, <2>1 DEF FindsGuest, Leasing
  <2> QED
    BY <1>7, <2>1, <2>2, KeepsLease DEF FindsGuest, LeasePart, GuestNeedsHost
<1>8. CASE Provisions(r)
  <2>1. PICK next : Goes(r, next) /\ next.pc \in {"failing", "meter"}
    BY <1>8 DEF Provisions
  <2>2. op[r].pc \in Leasing /\ next.pc \in Leasing /\ next.pc \notin {"end", "stopped"}
    BY <1>8, <2>1 DEF Provisions, Leasing
  <2>3. OneMishap
    BY <1>8 DEF Provisions, Mishaps
  <2>4. guest' => host' = "up"
    BY <1>8 DEF Provisions, LeasePart, GuestNeedsHost
  <2> QED
    BY <1>8, <2>1, <2>2, <2>3, <2>4, KeepsLease DEF Provisions
<1>9. CASE Meters(r)
  <2>1. PICK next : Goes(r, next) /\ next.pc \in {"failing", "commit"}
    BY <1>9 DEF Meters
  <2>2. op[r].pc \in Leasing /\ next.pc \in Leasing /\ next.pc \notin {"end", "stopped"}
    BY <1>9, <2>1 DEF Meters, Leasing
  <2> QED
    BY <1>9, <2>1, <2>2, KeepsLease DEF Meters, LeasePart, GuestNeedsHost
<1>10. CASE Commits(r)
  <2>1. PICK s \in {"ready", "failed"} : Writes(r, s)
    BY <1>10 DEF Commits
  <2>2. op[r].pc \in Leasing /\ s \in Statuses \ {"provisioning"} /\ s # "stopped"
    BY <1>10 DEF Commits, Leasing, Statuses
  <2> QED
    BY <1>10, <2>1, <2>2, GivesUp DEF Commits
<1> QED
  BY <1>1, <1>2, <1>3, <1>4, <1>5, <1>6, <1>7, <1>8, <1>9, <1>10 DEF EnsureInstance

LEMMA StopLeases ==
    ASSUME Typed, LeasePart, NEW a \in Actors, StopInstance(a)
    PROVE  LeasePart'
<1> USE NextPcs, QuietSteps
<1>1. CASE Destroys(a)
  <2>1. op[a].pc \in Leasing /\ At("end").pc \in Leasing
    BY <1>1 DEF Destroys, Leasing
  <2>2. OneMishap /\ (guest' => host' = "up") /\ Quiet
    BY <1>1 DEF Destroys, Mishaps, LeasePart, GuestNeedsHost, Quiet
  <2>3. CASE Goes(a, At("end")) /\ row' = row /\ (guest' = FALSE \/ mishap' = "lost")
    BY <2>1, <2>2, <2>3, KeepsLease
  <2>4. CASE Writes(a, "ready") /\ Goes(a, Idle)
    BY <2>1, <2>2, <2>4, GivesUp DEF Statuses
  <2> QED
    BY <1>1, <2>3, <2>4 DEF Destroys, Mishap
<1>2. CASE EndsSession(a)
  <2>1. op[a].pc \in Leasing /\ At("stopped").pc \in Leasing
    BY <1>2 DEF EndsSession, Leasing
  <2>2. (guest' => host' = "up") /\ (mishap' \notin {"lost", "slow"} => ~guest')
    BY <1>2 DEF EndsSession, LeasePart, GuestNeedsHost, Destroyed
  <2> QED
    BY <1>2, <2>1, <2>2, KeepsLease DEF EndsSession
<1>3. CASE CommitsStop(a)
  <2>1. op[a].pc \in Leasing /\ (mishap' \notin {"lost", "slow"} => ~guest')
    BY <1>3 DEF CommitsStop, Leasing, LeasePart, Destroyed
  <2> QED
    BY <1>3, <2>1, GivesUp DEF CommitsStop, Statuses
<1> QED
  BY <1>1, <1>2, <1>3 DEF StopInstance

LEMMA ReservesLease ==
    ASSUME Typed, LeasePart, NEW a \in Actors, Stoppable, Reserves(a),
           UNCHANGED <<guest, host, mishap>>
    PROVE  LeasePart'
<1>1. At("destroy").pc \in Leasing \ {"end", "stopped"}
  BY NextPcs DEF Leasing
<1> QED
  BY <1>1, TakesLease DEF Reserves, Stoppable, Shown

\* A row that is not being started or stopped may be rewritten by anybody.
LEMMA FreeRow ==
    ASSUME Typed, LeasePart, row # None => row.status # "provisioning",
           row' # None => row'.status \notin {"provisioning", "stopped"}
                          \/ (row # None /\ row'.status = row.status),
           UNCHANGED <<guest, host>>, OneMishap,
           \A a \in Actors : op'[a].pc \in Leasing => op[a].pc \in Leasing
    PROVE  LeasePart'
<1>1. mishap' # "slow" =>
        mishap # "slow" /\ \A a \in Actors : op'[a].pc \notin Leasing
  BY RowConstants DEF LeasePart, LeaseHeld, OneMishap, Mishaps
<1>2. LeaseHeld' /\ Destroyed'
  BY <1>1 DEF LeaseHeld, Destroyed, Leasing
<1> QED
  BY <1>2, RowConstants DEF LeasePart, GuestNeedsHost, StoppedIsStopped, OneMishap, Mishaps

LEMMA OtherRequestLeases ==
    ASSUME Typed, LeasePart, NEW r \in Requests,
           Stops(r) \/ Deletes(r) \/ DeleteWorkspace(r)
    PROVE  LeasePart'
<1> USE RequestPcs, NextPcs, QuietSteps
<1>1. CASE Stops(r)
  BY <1>1, ReservesLease DEF Stops
<1>2. CASE Deletes(r)
  <2>1. PICK next : Goes(r, next) /\ next.pc \in {"erase", "reach"}
    BY <1>2 DEF Deletes
  <2>2. \A a \in Actors : op'[a].pc \in Leasing => op[a].pc \in Leasing
    BY <2>1, OthersStay DEF Leasing
  <2>3. row' # None => row'.status = "deleting"
    BY <1>2 DEF Deletes, Becomes, Typed, TypeOK, Rows
  <2> QED
    BY <1>2, <2>2, <2>3, FreeRow DEF Deletes
<1>3. CASE Reaches(r)
  <2>1. PICK next : Goes(r, next) /\ next.pc \in {"remove", "tryRemove"}
    BY <1>3 DEF Reaches
  <2>2. next.pc \notin Leasing /\ Quiet
    BY <1>3, <2>1 DEF Reaches, Leasing, Quiet, HostReady, HostBooting
  <2> QED
    BY <1>3, <2>1, <2>2, StaysOut DEF Reaches
<1>4. CASE Removes(r)
  <2>1. PICK next : Goes(r, next) /\ next.pc \in {"idle", "unmeter"}
    BY <1>4 DEF Removes
  <2>2. next.pc \notin Leasing /\ Quiet /\ OneMishap
    BY <1>4, <2>1 DEF Removes, Leasing, Quiet, Mishaps
  <2> QED
    BY <1>4, <2>1, <2>2, StaysOut DEF Removes
<1>5. CASE Unmeters(r)
  <2>1. At("erase").pc \notin Leasing
    BY DEF Leasing
  <2> QED
    BY <1>5, <2>1, StaysOut DEF Unmeters
<1>6. CASE Erases(r)
  <2>1. CASE row # None /\ row.status = "deleting"
    <3>1. \A a \in Actors : op'[a].pc \in Leasing => op[a].pc \in Leasing
      BY <1>6, OthersStay DEF Erases, Leasing
    <3> QED
      BY <1>6, <2>1, <3>1, FreeRow DEF Erases
  <2>2. CASE ~(row # None /\ row.status = "deleting")
    <3>1. Idle.pc \notin Leasing
      BY DEF Leasing
    <3> QED
      BY <1>6, <2>2, <3>1, StaysOut DEF Erases
  <2> QED
    BY <2>1, <2>2
<1> QED
  BY <1>1, <1>2, <1>3, <1>4, <1>5, <1>6 DEF DeleteWorkspace

LEMMA RoundLeases ==
    ASSUME Typed, LeasePart, Begins \/ Round
    PROVE  LeasePart'
<1> USE NextPcs, QuietSteps
<1>1. Cron \in Actors /\ op[Cron] \in OpType
  BY RowTypeEquiv DEF Actors, Typed
<1>2. /\ [op[Cron] EXCEPT !.pc = "insert"].pc = "insert"
      /\ [op[Cron] EXCEPT !.pc = "select"].pc = "select"
      /\ [op[Cron] EXCEPT !.pc = "select", !.owner = None].pc = "select"
      /\ [op[Cron] EXCEPT !.pc = "observe", !.owner = session].pc = "observe"
  BY <1>1 DEF OpType
<1>3. ASSUME NEW next, Goes(Cron, next), UNCHANGED <<row, guest, host, mishap>>,
             next.pc \in {"bootstrap", "probe", "insert", "select", "observe", "expire",
                          "exhaust", "idle"}
      PROVE  LeasePart'
  <2>1. next.pc \notin Leasing
    BY <1>3 DEF Leasing
  <2> QED
    BY <1>1, <1>3, <2>1, StaysOut
<1>4. CASE Begins
  <2>1. [At("bootstrap") EXCEPT !.was = host].pc = "bootstrap"
    BY DEF At, Idle
  <2> QED
    BY <1>3, <1>4, <2>1 DEF Begins
<1>5. CASE Bootstraps
  <2>1. [For("probe", row.owner) EXCEPT !.was = op[Cron].was].pc = "probe"
    BY DEF For, At, Idle
  <2>2. PICK next : Goes(Cron, next) /\ next.pc \in {"probe", "select"}
    <3>1. \/ Goes(Cron, [For("probe", row.owner) EXCEPT !.was = op[Cron].was])
          \/ Goes(Cron, [op[Cron] EXCEPT !.pc = "select"])
      BY <1>5 DEF Bootstraps
    <3> QED
      BY <1>2, <2>1, <3>1
  <2> QED
    BY <1>3, <1>5, <2>2 DEF Bootstraps
<1>6. CASE Probes
  <2>1. \/ Goes(Cron, [op[Cron] EXCEPT !.pc = "insert"])
        \/ Goes(Cron, [op[Cron] EXCEPT !.pc = "select", !.owner = None])
    BY <1>6 DEF Probes
  <2> QED
    BY <1>2, <1>3, <1>6, <2>1 DEF Probes
<1>7. CASE Inserts
  BY <1>2, <1>3, <1>7 DEF Inserts
<1>8. CASE Selects
  <2>1. \/ Goes(Cron, Idle)
        \/ Goes(Cron, [op[Cron] EXCEPT !.pc = "observe", !.owner = session])
    BY <1>8 DEF Selects
  <2> QED
    BY <1>2, <1>3, <1>8, <2>1 DEF Selects
<1>9. CASE Observes
  <2>1. \/ Goes(Cron, For("expire", op[Cron].owner))
        \/ Goes(Cron, For("exhaust", op[Cron].owner))
    BY <1>9 DEF Observes
  <2> QED
    BY <1>3, <1>9, <2>1 DEF Observes
<1>10. CASE ExpiresObserved
  BY <1>3, <1>10 DEF ExpiresObserved
<1>11. CASE Exhausts
  <2>1. CASE Stoppable /\ Reserves(Cron)
    BY <1>1, <1>11, <2>1, ReservesLease DEF Exhausts
  <2>2. CASE row' = row /\ Goes(Cron, Idle)
    BY <1>3, <1>11, <2>2 DEF Exhausts
  <2> QED
    BY <1>11, <2>1, <2>2 DEF Exhausts
<1>12. CASE StopInstance(Cron)
  BY <1>1, <1>12, StopLeases
<1> QED
  BY <1>4, <1>5, <1>6, <1>7, <1>8, <1>9, <1>10, <1>11, <1>12 DEF Round

LEMMA WorldLeases ==
    ASSUME Typed, LeasePart,
           \/ \E o \in Owners : Transfers(o) \/ Renews(o)
           \/ \E a \in Actors : Dies(a)
           \/ Touches \/ Ages \/ Hibernates \/ Deallocates \/ Spends
    PROVE  LeasePart'
<1> USE NextPcs, QuietSteps, RowConstants
<1>1. ASSUME NEW o \in Owners, Transfers(o)
      PROVE  LeasePart'
  <2>1. row' # None => row'.status = row.status
    BY <1>1 DEF Transfers, Shown, Typed, TypeOK, Rows
  <2> QED
    BY <1>1, <2>1, FreeRow DEF Transfers, Shown, Mishaps
<1>2. ASSUME UNCHANGED <<row, op, mishap>>, guest' => guest /\ host' = "up"
      PROVE  LeasePart'
  BY <1>2 DEF LeasePart, GuestNeedsHost, LeaseHeld, Destroyed, StoppedIsStopped
<1>3. ASSUME NEW o \in Owners, Renews(o)
      PROVE  LeasePart'
  BY <1>2, <1>3 DEF Renews, LeasePart, GuestNeedsHost
<1>4. ASSUME NEW a \in Actors, Dies(a)
      PROVE  LeasePart'
  <2>1. Idle.pc \notin Leasing /\ OneMishap
    BY <1>4 DEF Dies, Leasing, Mishaps
  <2> QED
    BY <1>4, <2>1, StaysOut DEF Dies
<1>5. CASE Touches
  <2>1. /\ row' # None /\ row'.status = "provisioning" /\ ~row'.stale
        /\ mishap = None /\ mishap' = "touched"
    <3>1. row \in Rows /\ [row EXCEPT !.holder = None, !.stale = FALSE] \in Rows
      BY <1>5 DEF Touches, Typed, TypeOK, Rows
    <3> QED
      BY <1>5, <3>1 DEF Touches, Mishap, Rows
  <2>2. UNCHANGED <<guest, host, op>>
    BY <1>5 DEF Touches
  <2> QED
    BY <2>1, <2>2
    DEF LeasePart, GuestNeedsHost, LeaseHeld, Destroyed, StoppedIsStopped, Mishaps
<1>6. CASE Ages
  <2>1. row' # None /\ row'.status = "provisioning" /\ row'.holder = row.holder
    <3>1. row \in Rows /\ [row EXCEPT !.stale = TRUE] \in Rows
      BY <1>6 DEF Ages, Typed, TypeOK, Rows
    <3> QED
      BY <1>6, <3>1 DEF Ages, Rows
  <2>2. UNCHANGED <<guest, host, op>>
    BY <1>6 DEF Ages
  <2>3. CASE mishap' = "slow"
    BY <2>1, <2>2, <2>3 DEF LeasePart, GuestNeedsHost, LeaseHeld, Destroyed, StoppedIsStopped
  <2>4. CASE mishap' = mishap /\ \A a \in Actors : op[a].pc \notin Leasing
    BY <2>1, <2>2, <2>4
    DEF LeasePart, GuestNeedsHost, LeaseHeld, Destroyed, StoppedIsStopped, Leasing
  <2> QED
    BY <1>6, <2>3, <2>4 DEF Ages, Mishap
<1>7. CASE Hibernates \/ Deallocates \/ Spends
  BY <1>2, <1>7 DEF Hibernates, Deallocates, Spends, LeasePart, GuestNeedsHost
<1> QED
  BY <1>1, <1>3, <1>4, <1>5, <1>6, <1>7

-----------------------------------------------------------------------------
(* The theorems.                                                           *)

LEMMA StepInv == Inv /\ [Next]_vars => Inv'
<1> SUFFICES ASSUME Typed, LeasePart, [Next]_vars
             PROVE  LeasePart'
  BY StepTypes DEF Inv, LeasePart
<1>1. CASE UNCHANGED vars
  BY <1>1
  DEF vars, LeasePart, GuestNeedsHost, LeaseHeld, Destroyed, StoppedIsStopped
<1>2. ASSUME NEW r \in Requests,
             \/ Opens(r) \/ EnsureInstance(r) \/ Stops(r) \/ StopInstance(r)
             \/ Deletes(r) \/ DeleteWorkspace(r)
      PROVE  LeasePart'
  BY <1>2, StartLeases, StopLeases, OtherRequestLeases, RequestPcs
<1>3. CASE Begins \/ Round
  BY <1>3, RoundLeases
<1> QED
  BY <1>1, <1>2, <1>3, WorldLeases DEF Next

\* The rows, sessions and requests are well formed in every reachable state,
\* for any number of requests and owners (gen2Workspaces, gen2ComputeSessions).
THEOREM RowsTyped == Spec => []TypeOK
<1>1. Inv => TypeOK
  BY DEF Inv, Typed
<1> QED
  BY <1>1, InitInv, StepInv, PTL DEF Spec

\* Whatever overlaps or dies, a lease has one holder and the row waits for it,
\* unless the holder outlives it (claimProvisioning, stopGen2Instance).
THEOREM LeaseExclusive == Spec => []LeaseHeld
<1>1. Inv => LeaseHeld
  BY DEF Inv
<1> QED
  BY <1>1, InitInv, StepInv, PTL DEF Spec

\* A workspace that says it is stopped runs no guest (stopGen2Instance).
THEOREM StopsAreReal == Spec => []StoppedIsStopped
<1>1. Inv => StoppedIsStopped
  BY DEF Inv
<1> QED
  BY <1>1, InitInv, StepInv, PTL DEF Spec
=============================================================================
