----------------------------- MODULE HostProofs -----------------------------
(* Proofs about FirecrackerHost for every set of workspaces and requests,  *)
(* every number of slots and machines, and any number of failures.         *)
EXTENDS HostInvariant, FiniteSetTheorems, WellFoundedInduction, TLAPS

USE HostConstants

-----------------------------------------------------------------------------
(* The parts of the type.                                                  *)

VmRecords ==
    [ws : Workspaces \cup {None}, slot : Slots, alive : BOOLEAN, paused : BOOLEAN,
     hibernating : BOOLEAN, parked : BOOLEAN, due : BOOLEAN]
RunType == running \in [Workspaces -> Machines \cup {None}]
VmType == vm \in [Machines -> VmRecords]
JailType == jail \in [Workspaces -> [of : Machines \cup {None}, work : Nat, meta : BOOLEAN]]
SnapType == snap \in [Workspaces -> Checkpoints] /\ prev \in [Workspaces -> Checkpoints]
MarkType == marker \in [Workspaces -> BOOLEAN]
TapType == tap \in [Slots -> Machines \cup {None}]
JobType == job \in Jobs
ReqType ==
    req \in [Requests ->
         [at : {"free", "flag", "child", "evict", "clean", "using"},
          m : Machines \cup {None}, poll : BOOLEAN]]
MadeType == \A m \in Machines : vm[m].ws = None <=> m > made
PendingType == pending \in BOOLEAN
CountType == made \in 0 .. MaxMachines /\ faults \in Nat /\ exits \in Nat
PastType ==
    /\ cache \in [Machines -> Nat]
    /\ synced \in [Workspaces -> Nat \cup {None}] /\ kept \in [Workspaces -> Nat \cup {None}]

LEMMA TypeParts ==
    TypeOK <=> /\ RunType /\ VmType /\ JailType /\ SnapType /\ MarkType /\ TapType
               /\ JobType /\ ReqType /\ MadeType /\ PendingType /\ CountType /\ PastType
BY DEF TypeOK, RunType, VmType, JailType, SnapType, MarkType, TapType, JobType, ReqType,
       MadeType, PendingType, CountType, PastType, VmRecords

LEMMA Sets ==
    /\ None \notin Machines /\ None \notin Slots /\ None \notin Nat
    /\ Slots \subseteq Nat /\ Machines \subseteq Nat \ {0} /\ 0 \in Slots
    /\ Durable \subseteq Workspaces /\ Ephemeral \subseteq Workspaces
BY DEF Machines, Slots, Workspaces

\* first_available_slot
LEMMA FirstFreeSlot ==
    ASSUME Slots \ Taken # {}
    PROVE  FirstFree \in Slots \ Taken
<1> DEFINE Less == {ss \in Nat \X Nat : ss[1] < ss[2]}
<1>1. IsWellFoundedOn(Less, Nat)
  <2>1. Less = OpToRel(<, Nat)
    BY Zenon DEF OpToRel
  <2> QED
    BY <2>1, NatLessThanWellFounded, Zenon
<1>2. \E s \in Slots \ Taken : \A t \in Slots \ Taken : ~ (<<t, s>> \in Less)
  <2> HIDE DEF Less
  <2> QED BY <1>1, WFMin, Sets
<1>3. \E s \in Slots \ Taken : \A t \in Slots \ Taken : s <= t
  <2>1. \A s, t \in Nat : t < s => <<t, s>> \in Less
    OBVIOUS
  <2>2. PICK s \in Slots \ Taken : \A t \in Slots \ Taken : ~ (<<t, s>> \in Less)
    BY <1>2
  <2>3. ASSUME NEW t \in Slots \ Taken PROVE s <= t
    <3>1. s \in Nat /\ t \in Nat
      BY Sets
    <3>2. ~ (t < s)
      <4> HIDE DEF Less
      <4> QED BY <3>1, <2>1, <2>2
    <3> QED
      BY <3>1, <3>2
  <2> QED
    BY <2>3
<1> QED
  BY <1>3 DEF FirstFree

LEMMA PollsType == ASSUME NEW m PROVE Polls(m) \in Nat /\ Cardinality(Users(m)) \in Nat
<1>1. Users(m) \subseteq Requests /\ {r \in Users(m) : req[r].poll /\ req[r].at = "using"} \subseteq Requests
  BY DEF Users
<1> QED
  BY <1>1, FS_Subset, FS_CardinalityType DEF Polls

-----------------------------------------------------------------------------
(* Which action changes what.                                              *)

LEMMA RunningMoves ==
    Next => \/ UNCHANGED running
            \/ Insert \/ Unmap \/ Gone \/ \E r \in Requests : Evict(r)
BY DEF Next, Begins, Boots, Rotates, TakesDown, Fails, Asks, CreateExisting, BeginCreate,
       BeginDestroy, BeginReap, Park, DiscardSnapshot, ShutdownNext, Recover, Choose,
       Prepare, Launch, Restored, Ready, WriteMeta, WriteMarker, DropPrevious, Demote,
       Promote, LoadPolls, CountReferences, Flush, Pause, Stage, Sweep, Kill, Erase,
       FailPlainly, FailFlush, FailRestore, FailReady, FailPersist, FailErase, HangUp,
       Crash, BeginHostShutdown, CancelHostShutdown, PowerOff, BeginShutdown, Restart,
       Arrive, CheckFlag, FindsItUp, FindsItDead, Clean, Work, Resume, WriteBack, Done, TimePasses, GuestExits

LEMMA VmMoves ==
    Next => \/ UNCHANGED vm
            \/ \E w \in Workspaces : CreateExisting(w) \/ BeginReap(w) \/ Park(w)
            \/ Prepare \/ Launch \/ CountReferences \/ Pause \/ Kill \/ Unmap
            \/ FailPlainly \/ FailFlush \/ FailRestore \/ FailReady \/ FailPersist \/ FailErase
            \/ Gone
            \/ \E r \in Requests :
                 CheckFlag(r) \/ Resume(r) \/ \E touch \in BOOLEAN : Done(r, touch)
            \/ \E m \in Machines : TimePasses(m) \/ GuestExits(m)
BY DEF Next, Begins, Boots, Rotates, TakesDown, Fails, Asks, BeginCreate,
       BeginDestroy, DiscardSnapshot, ShutdownNext, Recover, Choose,
       Restored, Ready, WriteMeta, WriteMarker, Insert, DropPrevious, Demote,
       Promote, LoadPolls, Flush, Stage, Sweep, Erase, HangUp,
       Crash, BeginHostShutdown, CancelHostShutdown, PowerOff, BeginShutdown, Restart,
       Arrive, FindsItUp, FindsItDead, Evict, Clean, Work, WriteBack

LEMMA JailMoves ==
    Next => \/ UNCHANGED jail
            \/ Choose \/ Prepare \/ WriteMeta \/ Erase \/ FailRestore \/ FailReady \/ FailErase
            \/ \E w \in Workspaces : DiscardSnapshot(w)
            \/ Flush \/ \E r \in Requests : Clean(r)
            \/ \E m \in Machines : WriteBack(m)
BY DEF Next, Begins, Boots, Rotates, TakesDown, Fails, Asks, CreateExisting, BeginCreate,
       BeginDestroy, BeginReap, Park, ShutdownNext, Recover,
       Launch, Restored, Ready, WriteMarker, Insert, DropPrevious, Demote,
       Promote, LoadPolls, CountReferences, Pause, Stage, Sweep, Kill, Unmap,
       FailPlainly, FailFlush, FailPersist, HangUp, files, Gone,
       Crash, BeginHostShutdown, CancelHostShutdown, PowerOff, BeginShutdown, Restart,
       Arrive, CheckFlag, FindsItUp, FindsItDead, Evict, Work, Resume, Done, TimePasses, GuestExits

LEMMA TapMoves ==
    Next => \/ UNCHANGED tap
            \/ Launch \/ Kill \/ FailRestore \/ FailReady \/ Gone \/ \E r \in Requests : Clean(r)
BY DEF Next, Begins, Boots, Rotates, TakesDown, Fails, Asks, CreateExisting, BeginCreate,
       BeginDestroy, BeginReap, Park, DiscardSnapshot, ShutdownNext, Recover, Choose,
       Prepare, Restored, Ready, WriteMeta, WriteMarker, Insert, DropPrevious, Demote,
       Promote, LoadPolls, CountReferences, Flush, Pause, Stage, Sweep, Erase, Unmap,
       FailPlainly, FailFlush, FailPersist, FailErase, HangUp,
       Crash, BeginHostShutdown, CancelHostShutdown, PowerOff, BeginShutdown, Restart,
       Arrive, CheckFlag, FindsItUp, FindsItDead, Evict, Work, Resume, WriteBack, Done, TimePasses, GuestExits

LEMMA ReqMoves ==
    Next => \/ UNCHANGED req \/ Gone
            \/ \E r \in Requests :
                 \/ \E w \in Workspaces, poll \in BOOLEAN : Arrive(r, w, poll)
                 \/ CheckFlag(r) \/ FindsItUp(r) \/ FindsItDead(r) \/ Evict(r) \/ Clean(r)
                 \/ \E touch \in BOOLEAN : Done(r, touch)
BY DEF Next, Begins, Boots, Rotates, TakesDown, Fails, Asks, CreateExisting, BeginCreate,
       BeginDestroy, BeginReap, Park, DiscardSnapshot, ShutdownNext, Recover, Choose,
       Prepare, Launch, Restored, Ready, WriteMeta, WriteMarker, Insert, DropPrevious,
       Demote, Promote, LoadPolls, CountReferences, Flush, Pause, Stage, Sweep, Kill, Erase,
       Unmap, FailPlainly, FailFlush, FailRestore, FailReady, FailPersist, FailErase, HangUp,
       Crash, BeginHostShutdown, CancelHostShutdown, PowerOff, BeginShutdown, Restart,
       Work, Resume, WriteBack, TimePasses, GuestExits

LEMMA SnapMoves ==
    Next => \/ UNCHANGED <<snap, prev>>
            \/ DropPrevious \/ Demote \/ Promote \/ Sweep \/ FailPersist
            \/ \E w \in Workspaces : DiscardSnapshot(w)
BY DEF Next, Begins, Boots, Rotates, TakesDown, Fails, Asks, CreateExisting, BeginCreate,
       BeginDestroy, BeginReap, Park, ShutdownNext, Recover, Choose,
       Prepare, Launch, Restored, Ready, WriteMeta, WriteMarker, Insert,
       LoadPolls, CountReferences, Flush, Pause, Stage, Kill, Erase, Unmap, files, Gone,
       FailPlainly, FailFlush, FailRestore, FailReady, FailErase, HangUp,
       Crash, BeginHostShutdown, CancelHostShutdown, PowerOff, BeginShutdown, Restart,
       Arrive, CheckFlag, FindsItUp, FindsItDead, Evict, Clean, Work, Resume, WriteBack, Done, TimePasses,
       GuestExits

LEMMA JobMoves ==
    Next => \/ UNCHANGED job
            \/ \E w \in Workspaces :
                 BeginCreate(w) \/ BeginDestroy(w) \/ BeginReap(w) \/ ShutdownNext(w)
            \/ Boots \/ Rotates \/ TakesDown \/ Fails \/ BeginShutdown \/ Gone
BY DEF Next, Begins, Asks, CreateExisting, Park, DiscardSnapshot, BeginHostShutdown,
       CancelHostShutdown, PowerOff, Restart, Arrive, CheckFlag, FindsItUp, FindsItDead,
       Evict, Clean, Work, Resume, WriteBack, Done, TimePasses, GuestExits

LEMMA PendingMoves ==
    Next => \/ UNCHANGED pending
            \/ BeginHostShutdown \/ CancelHostShutdown \/ BeginShutdown \/ Gone
BY DEF Next, Begins, Boots, Rotates, TakesDown, Fails, Asks, CreateExisting, BeginCreate,
       BeginDestroy, BeginReap, Park, DiscardSnapshot, ShutdownNext, Recover, Choose,
       Prepare, Launch, Restored, Ready, WriteMeta, WriteMarker, Insert, DropPrevious, Demote,
       Promote, LoadPolls, CountReferences, Flush, Pause, Stage, Sweep, Kill, Erase, Unmap,
       FailPlainly, FailFlush, FailRestore, FailReady, FailPersist, FailErase, HangUp,
       Crash, PowerOff, Restart, Arrive, CheckFlag, FindsItUp, FindsItDead, Evict, Clean,
       Work, Resume, WriteBack, Done, TimePasses, GuestExits

-----------------------------------------------------------------------------
(* Type correctness: the type and what a job, a request and the map hold.  *)

LEMMA InitType == Init => TypeOK /\ Shape
<1> SUFFICES ASSUME Init PROVE TypeOK /\ Shape
  OBVIOUS
<1>1. snap \in [Workspaces -> Checkpoints]
  BY Sets DEF Init, Checkpoints, NoCheckpoint, Legacy
<1>2. synced \in [Workspaces -> Nat \cup {None}] /\ cache \in [Machines -> Nat]
  BY DEF Init
<1>3. VmType /\ MadeType
  BY Sets DEF Init, VmType, VmRecords, Unmade, MadeType, Machines
<1>4. job \in Jobs
  BY Sets DEF Init, Jobs, NoJob, Checkpoints, NoCheckpoint
<1>5. RunType /\ MarkType /\ TapType
  BY DEF Init, RunType, MarkType, TapType
<1>10. PendingType
  BY DEF Init, PendingType
<1>12. CountType
  BY DEF Init, CountType
<1>11. PastType
  BY <1>2 DEF Init, PastType
<1>8. JailType
  BY Sets DEF Init, JailType, NoJail
<1>9. ReqType
  BY Sets DEF Init, ReqType, NoRequest
<1>7. prev \in [Workspaces -> Checkpoints]
  BY Sets DEF Init, Checkpoints, NoCheckpoint
<1>6. Shape
  BY Sets DEF Init, Shape, JobShape, OfNobody, OfCreate, OfTaker, ReqShape, MapOwn, NoJob, NoRequest
<1> QED
  BY <1>1, <1>3, <1>4, <1>5, <1>6, <1>7, <1>8, <1>9, <1>10, <1>11, <1>12, TypeParts DEF SnapType, JobType

\* What a job has when it is about to change the files of its workspace.
LEMMA JobHas ==
    ASSUME JobType, JobShape
    PROVE  /\ job.op = "create" => job.ws \in Workspaces
           /\ job.at \in Rotate \cup Down \cup WithMachine => job.op # "none"
           /\ job.at \in WithMachine \cup Down \cup {"count"} => job.m \in Machines
           /\ job.at \in (Down \ {"kill", "erase", "unmap"}) \cup Rotate => job.ws \in Workspaces
           /\ job.at \in WithMachine \cup {"recover", "choose", "prepare"} => job.op = "create"
           /\ job.at \in Down \ Reclaims => job.op # "create"
BY DEF JobType, Jobs, JobShape, OfNobody, OfCreate, OfTaker, NoJob, Boot, Rotate, Down,
       WithMachine, Reclaims

LEMMA RunTypeKept ==
    ASSUME RunType, JobType, Next
    PROVE  RunType'
<1>1. CASE Insert
  BY <1>1 DEF Insert, RunType, JobType, Jobs
<1>2. CASE Unmap
  BY <1>2 DEF Unmap, RunType
<1>3. CASE Gone
  BY <1>3 DEF Gone, RunType
<1>4. ASSUME NEW r \in Requests, Evict(r) PROVE RunType'
  BY <1>4 DEF Evict, Evicted, RunType
<1> QED
  BY <1>1, <1>2, <1>3, <1>4, RunningMoves DEF RunType

\* Edits of a machine's record.
LEMMA RecordEdits ==
    ASSUME NEW v \in VmRecords, NEW b \in BOOLEAN
    PROVE  /\ [v EXCEPT !.alive = b] \in VmRecords
           /\ [v EXCEPT !.paused = b] \in VmRecords
           /\ [v EXCEPT !.hibernating = b] \in VmRecords
           /\ [v EXCEPT !.due = b] \in VmRecords
           /\ [v EXCEPT !.parked = b] \in VmRecords
BY DEF VmRecords

LEMMA VmEdits ==
    ASSUME NEW f \in [Machines -> VmRecords], NEW m
    PROVE  /\ [f EXCEPT ![m].alive = TRUE] \in [Machines -> VmRecords]
           /\ [f EXCEPT ![m].alive = FALSE] \in [Machines -> VmRecords]
           /\ [f EXCEPT ![m].paused = TRUE] \in [Machines -> VmRecords]
           /\ [f EXCEPT ![m].paused = FALSE] \in [Machines -> VmRecords]
           /\ [f EXCEPT ![m].hibernating = TRUE] \in [Machines -> VmRecords]
           /\ [f EXCEPT ![m].hibernating = FALSE] \in [Machines -> VmRecords]
           /\ [f EXCEPT ![m].due = TRUE] \in [Machines -> VmRecords]
           /\ [f EXCEPT ![m].due = FALSE] \in [Machines -> VmRecords]
           /\ [f EXCEPT ![m].due = FALSE, ![m].parked = TRUE] \in [Machines -> VmRecords]
           /\ [f EXCEPT ![m].due = FALSE, ![m].parked = FALSE] \in [Machines -> VmRecords]
<1>1. CASE m \in Machines
  <2>1. f[m] \in VmRecords
    BY <1>1
  <2> QED
    BY <1>1, <2>1, RecordEdits
<1>2. CASE m \notin Machines
  BY <1>2
<1> QED
  BY <1>1, <1>2

\* A record of the map of machines, all of it replaced.
LEMMA VmPuts ==
    ASSUME NEW f \in [Machines -> VmRecords], NEW m, NEW v \in VmRecords
    PROVE  [f EXCEPT ![m] = v] \in [Machines -> VmRecords]
OBVIOUS

LEMMA UnmadeType ==
    ASSUME NEW w \in Workspaces \cup {None}, NEW s \in Slots
    PROVE  /\ Unmade \in VmRecords
           /\ [Unmade EXCEPT !.ws = w, !.slot = s] \in VmRecords
           /\ \A h \in BOOLEAN :
                [Unmade EXCEPT !.ws = w, !.slot = s, !.hibernating = h] \in VmRecords
BY Sets DEF Unmade, VmRecords

LEMMA ActiveType ==
    ASSUME VmType, NEW m PROVE Active(m) \in [Machines -> VmRecords]
BY DEF Active, VmType, VmRecords

LEMMA GiveUpType ==
    ASSUME NEW vms \in [Machines -> VmRecords], GiveUp(vms)
    PROVE  vm' \in [Machines -> VmRecords]
BY VmEdits DEF GiveUp

LEMMA VmTypeKept ==
    ASSUME RunType, VmType, JobType, JobShape, Next
    PROVE  VmType'
<1> USE DEF VmType
<1>1. ASSUME NEW w \in Workspaces, CreateExisting(w) \/ BeginReap(w) \/ Park(w)
      PROVE  VmType'
  <2>1. CASE CreateExisting(w)
    BY <2>1, VmEdits DEF CreateExisting
  <2>2. CASE BeginReap(w)
    BY <2>2, VmEdits DEF BeginReap
  <2>3. CASE Park(w)
    BY <2>3, VmEdits DEF Park
  <2> QED
    BY <1>1, <2>1, <2>2, <2>3
<1>2. CASE Prepare
  <2>1. job.ws \in Workspaces /\ job.slot \in Slots
    BY <1>2, JobHas DEF Prepare, JobType, Jobs
  <2> QED
    BY <1>2, <2>1, UnmadeType DEF Prepare
<1>3. CASE Launch \/ CountReferences \/ Pause \/ Kill
  <2>1. CASE Launch
    BY <2>1, VmEdits DEF Launch
  <2>2. CASE CountReferences
    <3>1. vm' = vm \/ vm' = [vm EXCEPT ![job.m].hibernating = FALSE]
      BY <2>2 DEF CountReferences
    <3>2. [vm EXCEPT ![job.m].hibernating = FALSE] \in [Machines -> VmRecords]
      BY VmEdits
    <3> QED
      BY <3>1, <3>2
  <2>3. CASE Pause
    BY <2>3, VmEdits DEF Pause
  <2>4. CASE Kill
    BY <2>4, VmEdits DEF Kill
  <2> QED
    BY <1>3, <2>1, <2>2, <2>3, <2>4
<1>4. CASE Unmap
  <2>1. job.m \in Machines
    BY <1>4, JobHas DEF Unmap, Down
  <2>2. Forgotten(job.m) \in VmRecords
    <3>1. vm[job.m] \in VmRecords
      BY <2>1
    <3>2. vm[job.m].ws \in Workspaces \cup {None} /\ vm[job.m].slot \in Slots
          /\ vm[job.m].hibernating \in BOOLEAN
      BY <3>1 DEF VmRecords
    <3> QED
      BY <3>2, UnmadeType DEF Forgotten
  <2> QED
    BY <1>4, <2>2 DEF Unmap
<1>5. CASE FailPlainly \/ FailFlush \/ FailErase
  BY <1>5, GiveUpType DEF FailPlainly, FailFlush, FailErase
<1>6. CASE FailRestore \/ FailReady
  <2>1. Cleaned \in [Machines -> VmRecords]
    BY VmEdits DEF Cleaned
  <2> QED
    BY <1>6, <2>1 DEF FailRestore, FailReady
<1>7. CASE FailPersist
  <2>1. [vm EXCEPT ![job.m].paused = FALSE] \in [Machines -> VmRecords]
    BY VmEdits
  <2> QED
    BY <1>7, <2>1, GiveUpType DEF FailPersist
<1>8. CASE Gone
  <2>1. ASSUME NEW m \in Machines
        PROVE  [Unmade EXCEPT !.ws = vm[m].ws, !.slot = vm[m].slot] \in VmRecords
    <3>1. vm[m].ws \in Workspaces \cup {None} /\ vm[m].slot \in Slots
      BY DEF VmRecords
    <3> QED
      BY <3>1, UnmadeType
  <2> QED
    BY <1>8, <2>1 DEF Gone
<1>9. ASSUME NEW r \in Requests,
             CheckFlag(r) \/ Resume(r) \/ \E touch \in BOOLEAN : Done(r, touch)
      PROVE  VmType'
  <2>1. CASE CheckFlag(r)
    BY <2>1, ActiveType DEF CheckFlag
  <2>2. ASSUME NEW touch \in BOOLEAN, Done(r, touch) PROVE VmType'
    <3>1. Active(req[r].m) \in [Machines -> VmRecords]
      BY ActiveType
    <3>2. [vm EXCEPT ![req[r].m].due = FALSE] \in [Machines -> VmRecords]
      BY VmEdits
    <3> QED
      BY <2>2, <3>1, <3>2 DEF Done
  <2>3. CASE Resume(r)
    <3>1. [vm EXCEPT ![req[r].m].paused = FALSE] \in [Machines -> VmRecords]
      BY VmEdits
    <3> QED
      BY <2>3, <3>1 DEF Resume
  <2> QED
    BY <1>9, <2>1, <2>2, <2>3
<1>10. ASSUME NEW m \in Machines, TimePasses(m) \/ GuestExits(m)
       PROVE  VmType'
  <2>1. CASE TimePasses(m)
    BY <2>1, VmEdits DEF TimePasses
  <2>2. CASE GuestExits(m)
    BY <2>2, VmEdits DEF GuestExits
  <2> QED
    BY <1>10, <2>1, <2>2
<1> QED
  BY <1>1, <1>2, <1>3, <1>4, <1>5, <1>6, <1>7, <1>8, <1>9, <1>10, VmMoves

LEMMA JailTypeKept ==
    ASSUME RunType, VmType, JailType, SnapType, JobType, JobShape, CountType, PastType, Next
    PROVE  JailType'
<1> DEFINE Jails == [of : Machines \cup {None}, work : Nat, meta : BOOLEAN]
<1>1. NoJail \in Jails
  BY DEF NoJail
<1>2. ASSUME NEW w, NEW left \in Leftovers(w), w \in Workspaces
      PROVE  left \in Jails
  BY <1>1, <1>2 DEF JailType, Leftovers
<1>3. ASSUME NEW w, NEW j \in Jails PROVE [jail EXCEPT ![w] = j] \in [Workspaces -> Jails]
  BY DEF JailType
<1>4. CASE Choose
  <2> HIDE DEF Jails
  <2> QED BY <1>4, <1>1, <1>3 DEF Choose, JailType, Jails
<1>5. CASE Prepare
  <2>1. Source(job.cp) \in Nat
    BY DEF Source, JobType, Jobs, Checkpoints
  <2>2. made' \in Machines
    BY <1>5 DEF Prepare, CountType, Machines
  <2>3. [of |-> made', work |-> Source(job.cp), meta |-> FALSE] \in Jails
    BY <2>1, <2>2
  <2> QED
    BY <1>5, <1>3, <2>3 DEF Prepare, JailType
<1>6. CASE WriteMeta
  BY <1>6 DEF WriteMeta, JailType
<1>7. CASE Erase
  BY <1>7, <1>1, <1>3 DEF Erase, JailType
<1>8. CASE FailRestore \/ FailReady
  <2>1. job.ws \in Workspaces
    BY <1>8, JobHas DEF FailRestore, FailReady, WithMachine
  <2> QED
    BY <1>8, <2>1, <1>2, <1>3 DEF FailRestore, FailReady, CleanFiles, JailType
<1>9. CASE FailErase
  <2>1. PICK left \in Leftovers(vm[job.m].ws) : jail' = [jail EXCEPT ![vm[job.m].ws] = left]
    BY <1>9 DEF FailErase
  <2>2. CASE vm[job.m].ws \in Workspaces
    BY <2>1, <2>2, <1>2, <1>3 DEF JailType
  <2>3. CASE vm[job.m].ws \notin Workspaces
    BY <2>1, <2>3 DEF JailType
  <2> QED
    BY <2>2, <2>3
<1>10. ASSUME NEW w \in Workspaces, DiscardSnapshot(w) PROVE JailType'
  <2>1. jail' = jail \/ jail' = [jail EXCEPT ![w] = NoJail]
    BY <1>10 DEF DiscardSnapshot
  <2> QED
    BY <2>1, <1>1, <1>3 DEF JailType
<1>11. ASSUME NEW r \in Requests, Clean(r) PROVE JailType'
  BY <1>11, <1>1, <1>3 DEF Clean, Remains, JailType
<1>12. ASSUME NEW m \in Machines, NEW n \in Nat, Settles(m, n) PROVE JailType'
  <2>1. jail' = [jail EXCEPT ![vm[m].ws].work = @ + n]
    BY <1>12 DEF Settles
  <2>2. ASSUME NEW w \in Workspaces PROVE [jail EXCEPT ![w].work = @ + n] \in [Workspaces -> Jails]
    BY DEF JailType
  <2>3. CASE vm[m].ws \in Workspaces
    BY <2>1, <2>2, <2>3 DEF JailType
  <2>4. CASE vm[m].ws \notin Workspaces
    BY <2>1, <2>4 DEF JailType
  <2> QED
    BY <2>3, <2>4
<1>13. CASE Flush
  <2>1. job.m \in Machines /\ SyncAll(job.m) \in Nat
    BY <1>13, JobHas DEF Flush, Down, SyncAll, PastType
  <2> QED
    BY <1>13, <1>12, <2>1 DEF Flush
<1>14. ASSUME NEW m \in Machines, WriteBack(m) PROVE JailType'
  BY <1>14, <1>12 DEF WriteBack
<1> QED
  BY <1>4, <1>5, <1>6, <1>7, <1>8, <1>9, <1>10, <1>11, <1>13, <1>14, JailMoves DEF JailType

LEMMA SavedType ==
    ASSUME SnapType, NEW w \in Workspaces PROVE Saved(w) \in Checkpoints
BY DEF SnapType, Saved

LEMMA NoCheckpointType == NoCheckpoint \in Checkpoints
BY Sets DEF NoCheckpoint, Checkpoints

LEMMA SnapTypeKept ==
    ASSUME SnapType, JobType, Next
    PROVE  SnapType'
<1>1. job.cp \in Checkpoints
  BY DEF JobType, Jobs
<1>2. CASE DropPrevious \/ Promote \/ Sweep
  BY <1>1, <1>2, NoCheckpointType DEF DropPrevious, Promote, Sweep, SnapType
<1>3. CASE Demote
  <2>1. CASE job.ws \in Workspaces
    BY <1>3, <2>1, NoCheckpointType DEF Demote, SnapType
  <2>2. CASE job.ws \notin Workspaces
    BY <1>3, <2>2 DEF Demote, SnapType
  <2> QED
    BY <2>1, <2>2
<1>4. CASE FailPersist
  <2>1. CASE job.ws \in Workspaces
    BY <1>4, <2>1, NoCheckpointType DEF FailPersist, SnapType
  <2>2. CASE job.ws \notin Workspaces
    BY <1>4, <2>2 DEF FailPersist, SnapType
  <2> QED
    BY <2>1, <2>2
<1>5. ASSUME NEW w \in Workspaces, DiscardSnapshot(w) PROVE SnapType'
  BY <1>5, NoCheckpointType DEF DiscardSnapshot, SnapType
<1> QED
  BY <1>2, <1>3, <1>4, <1>5, SnapMoves DEF SnapType

LEMMA TapTypeKept ==
    ASSUME VmType, TapType, JobType, Next
    PROVE  TapType'
<1>1. CASE Launch
  BY <1>1 DEF Launch, TapType, JobType, Jobs
<1>2. CASE Kill
  BY <1>2 DEF Kill, TapType
<1>3. CASE FailRestore \/ FailReady
  BY <1>3 DEF FailRestore, FailReady, CleanFiles, TapType
<1>4. CASE Gone
  BY <1>4 DEF Gone, TapType
<1>5. ASSUME NEW r \in Requests, Clean(r) PROVE TapType'
  BY <1>5 DEF Clean, Remains, TapType
<1> QED
  BY <1>1, <1>2, <1>3, <1>4, <1>5, TapMoves DEF TapType

LEMMA ReqTypeKept ==
    ASSUME RunType, ReqType, Next
    PROVE  ReqType'
<1> USE DEF ReqType
<1>1. CASE Gone
  BY <1>1 DEF Gone, NoRequest
<1>2. ASSUME NEW r \in Requests, NEW w \in Workspaces, NEW poll \in BOOLEAN, Arrive(r, w, poll)
      PROVE  ReqType'
  BY <1>2 DEF Arrive, RunType
<1>3. ASSUME NEW r \in Requests, CheckFlag(r) PROVE ReqType'
  <2>1. req' = [req EXCEPT ![r] = NoRequest] \/ req' = [req EXCEPT ![r].at = "child"]
    BY <1>3 DEF CheckFlag
  <2>2. CASE req' = [req EXCEPT ![r] = NoRequest]
    BY <2>2 DEF NoRequest
  <2>3. CASE req' = [req EXCEPT ![r].at = "child"]
    BY <2>3
  <2> QED
    BY <2>1, <2>2, <2>3
<1>4. ASSUME NEW r \in Requests, FindsItUp(r) \/ FindsItDead(r) \/ Evict(r) PROVE ReqType'
  BY <1>4 DEF FindsItUp, FindsItDead, Evict
<1>5. ASSUME NEW r \in Requests, Clean(r) PROVE ReqType'
  BY <1>5 DEF Clean, NoRequest
<1>6. ASSUME NEW r \in Requests, NEW touch \in BOOLEAN, Done(r, touch) PROVE ReqType'
  BY <1>6 DEF Done, NoRequest
<1> QED
  BY <1>1, <1>2, <1>3, <1>4, <1>5, <1>6, ReqMoves

LEMMA JobTypeKept ==
    ASSUME RunType, VmType, JailType, SnapType, JobType, JobShape, CountType, Next
    PROVE  JobType'
<1>0. NoJob \in Jobs
  BY Sets, NoCheckpointType DEF NoJob, Jobs
<1>1. ASSUME NEW at \in Boot \cup Rotate \cup Down \cup {"none", "reclaim", "count", "next"}
      PROVE  [job EXCEPT !.at = at] \in Jobs
  BY DEF JobType, Jobs
<1> USE DEF JobType
<1>2. ASSUME NEW w \in Workspaces, BeginCreate(w) \/ BeginDestroy(w) \/ BeginReap(w) \/ ShutdownNext(w)
      PROVE  JobType'
  <2>1. \A m \in Machines :
            /\ [NoJob EXCEPT !.op = "create", !.ws = w, !.m = m, !.at = "kill"] \in Jobs
            /\ [NoJob EXCEPT !.op = "reap", !.ws = w, !.m = m, !.at = "next"] \in Jobs
    BY <1>0 DEF Jobs, Down
  <2>2. [NoJob EXCEPT !.op = "create", !.ws = w, !.at = "recover"] \in Jobs
    BY <1>0 DEF Jobs, Boot
  <2>3. FirstStep(w) \in Down
    BY DEF FirstStep, Down
  <2>4. \A m \in Machines, at \in Down :
            /\ [NoJob EXCEPT !.op = "destroy", !.ws = w, !.m = m, !.at = at] \in Jobs
            /\ [job EXCEPT !.ws = w, !.m = m, !.at = at] \in Jobs
    BY <1>0 DEF Jobs
  <2>5. running[w] # None => running[w] \in Machines
    BY DEF RunType
  <2>6. CASE BeginCreate(w)
    BY <2>6, <2>1, <2>2 DEF BeginCreate
  <2>7. CASE BeginDestroy(w)
    BY <2>7, <2>3, <2>4, <2>5 DEF BeginDestroy
  <2>8. CASE BeginReap(w)
    BY <2>8, <2>1, <2>5 DEF BeginReap
  <2>9. CASE ShutdownNext(w)
    BY <2>9, <2>3, <2>4, <2>5 DEF ShutdownNext
  <2> QED
    BY <1>2, <2>6, <2>7, <2>8, <2>9
<1>3. CASE Recover
  <2>1. job.op = "create" /\ job.ws \in Workspaces
    BY <1>3, JobHas DEF Recover
  <2>2. CASE Step("choose") \/ job' = NoJob
    BY <2>2, <1>0, <1>1 DEF Step, Boot
  <2>3. CASE jail[job.ws].of # None /\ job' = [job EXCEPT !.at = "dropPrev",
                 !.cp = [kind |-> "disks", work |-> jail[job.ws].work,
                         slot |-> vm[jail[job.ws].of].slot]]
    <3>1. jail[job.ws].of \in Machines /\ jail[job.ws].work \in Nat
      BY <2>1, <2>3 DEF JailType
    <3>2. vm[jail[job.ws].of].slot \in Slots
      BY <3>1 DEF VmType, VmRecords
    <3> QED
      BY <2>3, <3>1, <3>2 DEF Jobs, Checkpoints, Rotate
  <2> QED
    BY <1>3, <2>2, <2>3 DEF Recover
<1>4. CASE Choose
  <2>1. job.ws \in Workspaces
    BY <1>4, JobHas DEF Choose
  <2>2. PICK cp \in Checkpoints, slot \in Slots :
            job' = NoJob \/ job' = [job EXCEPT !.at = "prepare", !.cp = cp, !.slot = slot]
    <3>1. Saved(job.ws) \in Checkpoints /\ NoCheckpoint \in Checkpoints
      BY <2>1, SavedType, NoCheckpointType
    <3>2. \A cp \in Checkpoints : cp.slot \in Slots
      BY DEF Checkpoints
    <3>3. Slots \ Taken # {} => FirstFree \in Slots
      BY FirstFreeSlot
    <3> QED
      BY <1>4, <3>1, <3>2, <3>3 DEF Choose
  <2> QED
    BY <2>2, <1>0 DEF Jobs, Boot
<1>5. CASE Prepare
  <2>1. made' \in Machines
    BY <1>5 DEF Prepare, CountType, Machines
  <2> QED
    BY <1>5, <2>1 DEF Prepare, Jobs, Boot
<1>6. CASE Launch \/ Restored \/ Ready \/ WriteMeta \/ WriteMarker \/ Insert
  BY <1>6, <1>0, <1>1 DEF Launch, Restored, Ready, WriteMeta, WriteMarker, Insert, Step, Boot
<1>7. CASE Rotates
  <2>1. CASE DropPrevious
    BY <2>1, <1>1 DEF DropPrevious, Step, Rotate
  <2>2. CASE Demote
    BY <2>2, <1>1 DEF Demote, Step, Rotate
  <2>3. CASE Promote
    BY <2>3, <1>1 DEF Promote, Step, Boot, Down
  <2> QED
    BY <1>7, <2>1, <2>2, <2>3 DEF Rotates
<1>8. CASE LoadPolls
  BY <1>8, PollsType DEF LoadPolls, Jobs
<1>9. CASE CountReferences
  <2>1. FirstStep(job.ws) \in Down
    BY DEF FirstStep, Down
  <2>2. [job EXCEPT !.at = FirstStep(job.ws), !.polls = 0] \in Jobs
    BY <2>1 DEF Jobs
  <2> QED
    BY <1>9, <2>2, <1>0 DEF CountReferences
<1>10. CASE Flush \/ Pause \/ Sweep \/ Kill \/ Erase
  BY <1>10, <1>1 DEF Flush, Pause, Sweep, Kill, Erase, Step, Down
<1>11. CASE Stage
  <2>1. job.ws \in Workspaces /\ job.m \in Machines
    BY <1>11, JobHas DEF Stage, Down
  <2>2. jail[job.ws].work \in Nat /\ vm[job.m].slot \in Slots
    BY <2>1 DEF JailType, VmType, VmRecords
  <2> QED
    BY <1>11, <2>2 DEF Stage, Jobs, Checkpoints, Rotate
<1>12. CASE Unmap
  <2>1. /\ [job EXCEPT !.at = "recover", !.m = None] \in Jobs
        /\ [job EXCEPT !.at = "next", !.m = None, !.ws = None] \in Jobs
    BY DEF Jobs, Boot
  <2> QED
    BY <1>12, <2>1, <1>0 DEF Unmap
<1>13. CASE Fails
  <2>1. [job EXCEPT !.at = "recover", !.m = None, !.plain = TRUE] \in Jobs
    BY DEF Jobs, Boot
  <2>2. job' = NoJob \/ job' = [job EXCEPT !.at = "recover", !.m = None, !.plain = TRUE]
    BY <1>13 DEF Fails, FailPlainly, FailFlush, FailRestore, FailReady, FailPersist, FailErase,
       HangUp, Crash, Gone, GiveUp
  <2> QED
    BY <2>1, <2>2, <1>0
<1>14. CASE BeginShutdown
  BY <1>14, <1>0 DEF BeginShutdown, Jobs
<1>15. CASE Gone
  BY <1>15, <1>0 DEF Gone
<1> QED
  BY <1>2, <1>3, <1>4, <1>5, <1>6, <1>7, <1>8, <1>9, <1>10, <1>11, <1>12, <1>13, <1>14, <1>15,
     JobMoves DEF Boots, TakesDown

LEMMA MarkTypeKept == ASSUME MarkType, Next PROVE MarkType'
<1>1. \/ UNCHANGED marker
      \/ marker' = [marker EXCEPT ![job.ws] = TRUE]
      \/ \E w \in Workspaces : marker' = [marker EXCEPT ![w] = FALSE]
  BY DEF Next, Begins, Boots, Rotates, TakesDown, Fails, Asks, CreateExisting, BeginCreate,
     BeginDestroy, BeginReap, Park, DiscardSnapshot, ShutdownNext, Recover, Choose,
     Prepare, Launch, Restored, Ready, WriteMeta, WriteMarker, Insert, DropPrevious, Demote,
     Promote, LoadPolls, CountReferences, Flush, Pause, Stage, Sweep, Kill, Erase, Unmap,
     FailPlainly, FailFlush, FailRestore, FailReady, FailPersist, FailErase, HangUp,
     Crash, BeginHostShutdown, CancelHostShutdown, PowerOff, BeginShutdown, Restart, Gone, files,
     Arrive, CheckFlag, FindsItUp, FindsItDead, Evict, Clean, Work, Resume, WriteBack, Done, TimePasses, GuestExits
<1> QED
  BY <1>1 DEF MarkType

LEMMA PendingTypeKept == ASSUME PendingType, Next PROVE PendingType'
<1>1. CASE BeginHostShutdown \/ CancelHostShutdown \/ BeginShutdown \/ Gone
  BY <1>1 DEF BeginHostShutdown, CancelHostShutdown, BeginShutdown, Gone, PendingType
<1>2. CASE UNCHANGED pending
  BY <1>2 DEF PendingType
<1> QED
  BY <1>1, <1>2, PendingMoves

LEMMA CountTypeKept == ASSUME CountType, Next PROVE CountType'
<1>1. \/ UNCHANGED made
      \/ made < MaxMachines /\ made' = made + 1
  BY DEF Next, Begins, Boots, Rotates, TakesDown, Fails, Asks, CreateExisting, BeginCreate,
     BeginDestroy, BeginReap, Park, DiscardSnapshot, ShutdownNext, Recover, Choose,
     Prepare, Launch, Restored, Ready, WriteMeta, WriteMarker, Insert, DropPrevious, Demote,
     Promote, LoadPolls, CountReferences, Flush, Pause, Stage, Sweep, Kill, Erase, Unmap,
     FailPlainly, FailFlush, FailRestore, FailReady, FailPersist, FailErase, HangUp,
     Crash, BeginHostShutdown, CancelHostShutdown, PowerOff, BeginShutdown, Restart, Gone,
     Arrive, CheckFlag, FindsItUp, FindsItDead, Evict, Clean, Work, Resume, WriteBack, Done, TimePasses, GuestExits
<1>2. UNCHANGED faults \/ faults' = faults + 1
  BY DEF Next, Begins, Boots, Rotates, TakesDown, Fails, Asks, CreateExisting, BeginCreate,
     BeginDestroy, BeginReap, Park, DiscardSnapshot, ShutdownNext, Recover, Choose,
     Prepare, Launch, Restored, Ready, WriteMeta, WriteMarker, Insert, DropPrevious, Demote,
     Promote, LoadPolls, CountReferences, Flush, Pause, Stage, Sweep, Kill, Erase, Unmap,
     FailPlainly, FailFlush, FailRestore, FailReady, FailPersist, FailErase, HangUp, Counted,
     Crash, BeginHostShutdown, CancelHostShutdown, PowerOff, BeginShutdown, Restart,
     Arrive, CheckFlag, FindsItUp, FindsItDead, Evict, Clean, Work, Resume, WriteBack, Done, TimePasses, GuestExits
<1>3. UNCHANGED exits \/ exits' = exits + 1
  BY DEF Next, Begins, Boots, Rotates, TakesDown, Fails, Asks, CreateExisting, BeginCreate,
     BeginDestroy, BeginReap, Park, DiscardSnapshot, ShutdownNext, Recover, Choose,
     Prepare, Launch, Restored, Ready, WriteMeta, WriteMarker, Insert, DropPrevious, Demote,
     Promote, LoadPolls, CountReferences, Flush, Pause, Stage, Sweep, Kill, Erase, Unmap,
     FailPlainly, FailFlush, FailRestore, FailReady, FailPersist, FailErase, HangUp, Gone,
     Crash, BeginHostShutdown, CancelHostShutdown, PowerOff, BeginShutdown, Restart,
     Arrive, CheckFlag, FindsItUp, FindsItDead, Evict, Clean, Work, Resume, WriteBack, Done, TimePasses, GuestExits
<1> QED
  BY <1>1, <1>2, <1>3 DEF CountType

LEMMA PastTypeKept ==
    ASSUME JailType, JobType, JobShape, PastType, VmType, ReqType, Next
    PROVE  PastType'
<1>1. \/ UNCHANGED kept
      \/ kept' = [kept EXCEPT ![job.ws] = job.cp.work]
      \/ \E w \in Workspaces : kept' = [kept EXCEPT ![w] = None]
  BY DEF Next, Begins, Boots, Rotates, TakesDown, Fails, Asks, CreateExisting, BeginCreate,
     BeginDestroy, BeginReap, Park, DiscardSnapshot, ShutdownNext, Recover, Choose,
     Prepare, Launch, Restored, Ready, WriteMeta, WriteMarker, Insert, DropPrevious, Demote,
     Promote, LoadPolls, CountReferences, Flush, Pause, Stage, Sweep, Kill, Erase, Unmap,
     FailPlainly, FailFlush, FailRestore, FailReady, FailPersist, FailErase, HangUp, progress,
     Crash, BeginHostShutdown, CancelHostShutdown, PowerOff, BeginShutdown, Restart, Gone,
     Arrive, CheckFlag, FindsItUp, FindsItDead, Evict, Clean, Work, Resume, WriteBack, Done, TimePasses, GuestExits
<1>2. \/ UNCHANGED <<cache, synced>>
      \/ UNCHANGED cache /\ \E w \in Workspaces : synced' = [synced EXCEPT ![w] = None]
      \/ UNCHANGED synced /\ \E m : cache' = [cache EXCEPT ![m] = @ + 1]
      \/ Flush \/ \E m \in Machines : WriteBack(m)
  BY Sets
     DEF Next, Begins, Boots, Rotates, TakesDown, Fails, Asks, CreateExisting, BeginCreate,
     BeginDestroy, BeginReap, Park, DiscardSnapshot, ShutdownNext, Recover, Choose,
     Prepare, Launch, Restored, Ready, WriteMeta, WriteMarker, Insert, DropPrevious, Demote,
     Promote, LoadPolls, CountReferences, Pause, Stage, Sweep, Kill, Erase, Unmap,
     FailPlainly, FailFlush, FailRestore, FailReady, FailPersist, FailErase, HangUp, progress,
     Crash, BeginHostShutdown, CancelHostShutdown, PowerOff, BeginShutdown, Restart, Gone,
     Arrive, CheckFlag, FindsItUp, FindsItDead, Evict, Clean, Work, Resume, Done, TimePasses, GuestExits
<1>3. job.cp.work \in Nat
  BY DEF JobType, Jobs, Checkpoints
<1>4. ASSUME NEW m \in Machines, NEW n \in 0 .. cache[m], Settles(m, n)
      PROVE  cache' \in [Machines -> Nat] /\ synced' \in [Workspaces -> Nat \cup {None}]
  <2>1. cache[m] \in Nat
    BY DEF PastType
  <2>2. cache[m] - n \in Nat
    BY <2>1
  <2>3. ASSUME vm[m].ws \in Workspaces PROVE jail[vm[m].ws].work + n \in Nat
    BY <2>1, <2>3 DEF JailType
  <2> QED
    BY <1>4, <2>2, <2>3 DEF Settles, PastType
<1>5. CASE Flush
  <2>1. job.m \in Machines /\ SyncAll(job.m) \in 0 .. cache[job.m]
    BY <1>5, JobHas DEF Flush, Down, SyncAll, PastType
  <2> QED
    BY <1>1, <1>3, <1>4, <1>5, <2>1 DEF Flush, PastType
<1>6. ASSUME NEW m \in Machines, WriteBack(m) PROVE PastType'
  BY <1>1, <1>3, <1>4, <1>6 DEF WriteBack, PastType
<1> QED
  BY <1>1, <1>2, <1>3, <1>5, <1>6 DEF PastType

-----------------------------------------------------------------------------
(* A machine keeps its paths, and only a launch makes a process.           *)

PathsStay(k) == vm'[k].ws = vm[k].ws /\ vm'[k].slot = vm[k].slot
Stays(k) == PathsStay(k) /\ (vm'[k].alive => vm[k].alive)

LEMMA EditStays ==
    ASSUME VmType, NEW m,
           \/ UNCHANGED vm
           \/ vm' = [vm EXCEPT ![m].alive = FALSE]
           \/ vm' = [vm EXCEPT ![m].paused = TRUE]
           \/ vm' = [vm EXCEPT ![m].paused = FALSE]
           \/ vm' = [vm EXCEPT ![m].hibernating = TRUE]
           \/ vm' = [vm EXCEPT ![m].hibernating = FALSE]
           \/ vm' = [vm EXCEPT ![m].due = TRUE]
           \/ vm' = [vm EXCEPT ![m].due = FALSE]
           \/ vm' = [vm EXCEPT ![m].due = FALSE, ![m].parked = TRUE]
           \/ vm' = [vm EXCEPT ![m].due = FALSE, ![m].parked = FALSE]
           \/ vm' = Active(m)
           \/ vm' = [vm EXCEPT ![m] = Forgotten(m)]
    PROVE  \A k \in Machines : Stays(k)
<1> SUFFICES ASSUME NEW k \in Machines PROVE Stays(k)
  OBVIOUS
<1>1. CASE m = k
  <2>1. vm[k] \in VmRecords
    BY DEF VmType
  <2>2. CASE \/ vm' = vm
             \/ vm' = [vm EXCEPT ![m].alive = FALSE]
             \/ vm' = [vm EXCEPT ![m].paused = TRUE]
             \/ vm' = [vm EXCEPT ![m].paused = FALSE]
             \/ vm' = [vm EXCEPT ![m].hibernating = TRUE]
             \/ vm' = [vm EXCEPT ![m].hibernating = FALSE]
    BY <1>1, <2>1, <2>2 DEF Stays, PathsStay, VmType, VmRecords
  <2>3. CASE \/ vm' = [vm EXCEPT ![m].due = TRUE]
             \/ vm' = [vm EXCEPT ![m].due = FALSE]
             \/ vm' = [vm EXCEPT ![m].due = FALSE, ![m].parked = TRUE]
             \/ vm' = [vm EXCEPT ![m].due = FALSE, ![m].parked = FALSE]
    BY <1>1, <2>1, <2>3 DEF Stays, PathsStay, VmType, VmRecords
  <2>4. CASE vm' = Active(m)
    BY <1>1, <2>1, <2>4 DEF Stays, PathsStay, VmType, VmRecords, Active
  <2>5. CASE vm' = [vm EXCEPT ![m] = Forgotten(m)]
    BY <1>1, <2>1, <2>5 DEF Stays, PathsStay, VmType, VmRecords, Forgotten, Unmade
  <2> QED
    BY <2>2, <2>3, <2>4, <2>5
<1>2. CASE m # k
  BY <1>2 DEF Stays, PathsStay, VmType, Active
<1> QED
  BY <1>1, <1>2

LEMMA GiveUpStays ==
    ASSUME VmType,
           \/ GiveUp(vm)
           \/ GiveUp([vm EXCEPT ![job.m].paused = FALSE])
    PROVE  \A k \in Machines : Stays(k)
<1>1. CASE \/ UNCHANGED vm
           \/ vm' = [vm EXCEPT ![job.m].hibernating = FALSE]
           \/ vm' = [vm EXCEPT ![job.m].paused = FALSE]
  BY <1>1, EditStays
<1>2. CASE vm' = [[vm EXCEPT ![job.m].paused = FALSE] EXCEPT ![job.m].hibernating = FALSE]
  BY <1>2 DEF Stays, PathsStay, VmType, VmRecords
<1> QED
  BY <1>1, <1>2 DEF GiveUp

LEMMA GoneStays == ASSUME VmType, Gone PROVE \A k \in Machines : Stays(k) /\ ~vm'[k].alive
BY DEF Gone, Stays, PathsStay, VmType, VmRecords, Unmade

LEMMA VmStays ==
    ASSUME VmType, Next, ~Prepare, ~Launch
    PROVE  \A k \in Machines : Stays(k)
<1>1. ASSUME NEW w \in Workspaces, CreateExisting(w) \/ BeginReap(w) \/ Park(w)
      PROVE  \A k \in Machines : Stays(k)
  <2>1. \/ UNCHANGED vm
        \/ vm' = [vm EXCEPT ![running[w]].hibernating = TRUE]
        \/ vm' = [vm EXCEPT ![running[w]].due = FALSE, ![running[w]].parked = TRUE]
        \/ vm' = [vm EXCEPT ![running[w]].due = FALSE, ![running[w]].parked = FALSE]
    BY <1>1 DEF CreateExisting, BeginReap, Park
  <2> QED
    BY <2>1, EditStays
<1>2. CASE CountReferences \/ Pause \/ Kill \/ Unmap \/ FailRestore \/ FailReady
  <2>1. \/ UNCHANGED vm
        \/ vm' = [vm EXCEPT ![job.m].hibernating = FALSE]
        \/ vm' = [vm EXCEPT ![job.m].paused = TRUE]
        \/ vm' = [vm EXCEPT ![job.m].alive = FALSE]
        \/ vm' = [vm EXCEPT ![job.m] = Forgotten(job.m)]
    BY <1>2 DEF CountReferences, Pause, Kill, Unmap, FailRestore, FailReady, Cleaned
  <2> QED
    BY <2>1, EditStays
<1>3. CASE FailPlainly \/ FailFlush \/ FailErase \/ FailPersist
  <2>1. GiveUp(vm) \/ GiveUp([vm EXCEPT ![job.m].paused = FALSE])
    BY <1>3 DEF FailPlainly, FailFlush, FailErase, FailPersist
  <2> QED
    BY <2>1, GiveUpStays
<1>4. ASSUME NEW r \in Requests,
             CheckFlag(r) \/ Resume(r) \/ \E touch \in BOOLEAN : Done(r, touch)
      PROVE  \A k \in Machines : Stays(k)
  <2>1. \/ UNCHANGED vm
        \/ vm' = Active(req[r].m)
        \/ vm' = [vm EXCEPT ![req[r].m].due = FALSE]
        \/ vm' = [vm EXCEPT ![req[r].m].paused = FALSE]
    BY <1>4 DEF CheckFlag, Resume, Done
  <2> QED
    BY <2>1, EditStays
<1>5. ASSUME NEW m \in Machines, TimePasses(m) \/ GuestExits(m)
      PROVE  \A k \in Machines : Stays(k)
  BY <1>5, EditStays DEF TimePasses, GuestExits
<1>6. CASE UNCHANGED vm
  BY <1>6 DEF Stays, PathsStay
<1> QED
  BY <1>1, <1>2, <1>3, <1>4, <1>5, <1>6, GoneStays, VmMoves

LEMMA LaunchStays ==
    ASSUME VmType, Launch
    PROVE  \A k \in Machines : PathsStay(k) /\ (k # job.m => Stays(k))
BY DEF Launch, Stays, PathsStay, VmType, VmRecords

\* A machine that is being made: it has the paths of the create.
LEMMA PrepareStays ==
    ASSUME VmType, CountType, Prepare
    PROVE  /\ made' = made + 1 /\ made' \in Machines
           /\ \A k \in Machines : k # made' => PathsStay(k) /\ Stays(k)
           /\ vm'[made'].ws = job.ws /\ vm'[made'].slot = job.slot /\ ~vm'[made'].alive
<1>1. made' = made + 1 /\ made' \in Machines
  BY DEF Prepare, CountType, Machines
<1>2. \A k \in Machines : k # made' => PathsStay(k) /\ Stays(k)
  BY <1>1 DEF Prepare, VmType, Stays, PathsStay
<1>3. vm'[made'] = [Unmade EXCEPT !.ws = job.ws, !.slot = job.slot]
  BY <1>1 DEF Prepare, VmType
<1>4. vm'[made'].ws = job.ws /\ vm'[made'].slot = job.slot /\ ~vm'[made'].alive
  BY <1>3 DEF Unmade
<1> QED
  BY <1>1, <1>2, <1>4

LEMMA MadeTypeKept ==
    ASSUME VmType, JobType, JobShape, MadeType, CountType, Next
    PROVE  MadeType' /\ made <= made'
<1>1. CASE Prepare
  <2>1. job.ws \in Workspaces
    BY <1>1, JobHas DEF Prepare
  <2>2. job.ws # None
    BY <2>1
  <2> QED
    BY <1>1, <2>2, PrepareStays DEF MadeType, PathsStay, Machines, CountType
<1>2. CASE ~Prepare
  <2>1. UNCHANGED made
    BY <1>2
    DEF Next, Begins, Boots, Rotates, TakesDown, Fails, Asks, CreateExisting, BeginCreate,
     BeginDestroy, BeginReap, Park, DiscardSnapshot, ShutdownNext, Recover, Choose,
     Launch, Restored, Ready, WriteMeta, WriteMarker, Insert, DropPrevious, Demote,
     Promote, LoadPolls, CountReferences, Flush, Pause, Stage, Sweep, Kill, Erase, Unmap,
     FailPlainly, FailFlush, FailRestore, FailReady, FailPersist, FailErase, HangUp,
     Crash, BeginHostShutdown, CancelHostShutdown, PowerOff, BeginShutdown, Restart, Gone,
     Arrive, CheckFlag, FindsItUp, FindsItDead, Evict, Clean, Work, Resume, WriteBack, Done, TimePasses, GuestExits
  <2>2. \A k \in Machines : PathsStay(k)
    BY <1>2, VmStays, LaunchStays DEF Stays
  <2>3. MadeType'
    BY <2>1, <2>2 DEF MadeType, PathsStay
  <2> QED
    BY <2>1, <2>3 DEF CountType
<1> QED
  BY <1>1, <1>2

-----------------------------------------------------------------------------
(* What the lock's holder, a request and the map have in their hands.      *)

LEMMA RunningShrinks ==
    ASSUME RunType, Next, ~Insert, NEW w \in Workspaces
    PROVE  running'[w] \in {running[w], None}
<1>1. CASE Unmap
  BY <1>1 DEF Unmap, RunType
<1>2. CASE Gone
  BY <1>2 DEF Gone, ReqType
<1>3. ASSUME NEW r \in Requests, Evict(r) PROVE running'[w] \in {running[w], None}
  BY <1>3 DEF Evict, Evicted, RunType
<1> QED
  BY <1>1, <1>2, <1>3, RunningMoves

LEMMA InsertRuns ==
    ASSUME RunType, JobType, JobShape, Insert
    PROVE  /\ job.op = "create" /\ job.ws \in Workspaces /\ job.m \in Machines
           /\ vm[job.m].ws = job.ws /\ vm[job.m].slot = job.slot
           /\ running'[job.ws] = job.m
           /\ \A w \in Workspaces : w # job.ws => running'[w] = running[w]
<1>1. job.op = "create" /\ job.ws \in Workspaces /\ job.m \in Machines
  BY JobHas DEF Insert, WithMachine
<1> QED
  BY <1>1 DEF Insert, RunType, JobShape, OfCreate, WithMachine

LEMMA MapOwnKept ==
    ASSUME RunType, VmType, JobType, MadeType, CountType, JobShape, MapOwn, Next
    PROVE  MapOwn'
<1>1. CASE Insert
  <2>1. \A k \in Machines : PathsStay(k)
    BY <1>1 DEF Insert, PathsStay
  <2> QED
    BY <1>1, <2>1, InsertRuns DEF MapOwn, RunType, PathsStay
<1>2. CASE Prepare
  <2>1. UNCHANGED running
    BY <1>2 DEF Prepare
  <2>2. \A w \in Workspaces : running[w] # None => running[w] \in Machines /\ running[w] # made'
    BY <1>2, PrepareStays DEF MapOwn, MadeType, RunType, CountType, Machines
  <2> QED
    BY <1>2, <2>1, <2>2, PrepareStays DEF MapOwn, PathsStay
<1>3. CASE ~Insert /\ ~Prepare
  <2>1. \A k \in Machines : PathsStay(k)
    BY <1>3, VmStays, LaunchStays DEF Stays
  <2> QED
    BY <1>3, <2>1, RunningShrinks DEF MapOwn, RunType, PathsStay
<1> QED
  BY <1>1, <1>2, <1>3

\* What one step may do to one request.
Moves(r, from, to) ==
    /\ req[r].at = from /\ req'[r].at = to
    /\ req'[r].m = req[r].m /\ req'[r].poll = req[r].poll
Ends(r) ==
    /\ req[r].at \in {"flag", "using", "clean"} /\ req'[r] = NoRequest
    /\ req[r].at = "using" => TornCount \/ job.at # "count"
Comes(r) ==
    \E w \in Workspaces :
        /\ req[r].at = "free" /\ req'[r].at = "flag" /\ job.op # "shutdown"
        /\ running[w] # None /\ req'[r].m = running[w] /\ UNCHANGED <<running, vm>>

LEMMA OneRequest ==
    ASSUME ReqType, Next, NEW q \in Requests
    PROVE  \/ req'[q] = req[q]
           \/ Comes(q)
           \/ Moves(q, "flag", "child") /\ ~vm[req[q].m].hibernating
           \/ Moves(q, "child", "using")
           \/ Moves(q, "child", "evict") /\ ~Live(req[q].m)
           \/ Moves(q, "evict", "clean")
           \/ Ends(q)
           \/ Gone /\ req'[q] = NoRequest
<1> USE DEF Moves, Ends
<1>1. CASE UNCHANGED req
  BY <1>1
<1>2. CASE Gone
  BY <1>2 DEF Gone, ReqType
<1>3. ASSUME NEW r \in Requests, NEW w \in Workspaces, NEW poll \in BOOLEAN, Arrive(r, w, poll)
      PROVE  req'[q] = req[q] \/ Comes(q)
  BY <1>3 DEF Arrive, Comes, ReqType
<1>4. ASSUME NEW r \in Requests, CheckFlag(r)
      PROVE  \/ req'[q] = req[q]
             \/ Ends(q)
             \/ Moves(q, "flag", "child") /\ ~vm[req[q].m].hibernating
  BY <1>4 DEF CheckFlag, ReqType
<1>5. ASSUME NEW r \in Requests, FindsItUp(r) \/ FindsItDead(r) \/ Evict(r)
      PROVE  \/ req'[q] = req[q]
             \/ Moves(q, "child", "using")
             \/ Moves(q, "child", "evict") /\ ~Live(req[q].m)
             \/ Moves(q, "evict", "clean")
  BY <1>5 DEF FindsItUp, FindsItDead, Evict, ReqType
<1>6. ASSUME NEW r \in Requests, Clean(r) \/ \E touch \in BOOLEAN : Done(r, touch)
      PROVE  req'[q] = req[q] \/ Ends(q)
  BY <1>6 DEF Clean, Done, ReqType
<1> QED
  BY <1>1, <1>2, <1>3, <1>4, <1>5, <1>6, ReqMoves

LEMMA ReqShapeKept ==
    ASSUME RunType, VmType, JobType, ReqType, MadeType, CountType, JobShape, ReqShape, MapOwn, Next
    PROVE  ReqShape'
<1> SUFFICES ASSUME NEW r \in Requests
             PROVE  /\ req'[r].at = "free" <=> req'[r] = NoRequest
                    /\ req'[r].at # "free" => req'[r].m \in Machines /\ vm'[req'[r].m].ws # None
  BY DEF ReqShape
<1>1. \A k \in Machines : vm[k].ws # None => vm'[k].ws # None
  <2>1. CASE Prepare
    BY <2>1, PrepareStays DEF MadeType, PathsStay, CountType, Machines
  <2>2. CASE ~Prepare
    BY <2>2, VmStays, LaunchStays DEF Stays, PathsStay
  <2> QED
    BY <2>1, <2>2
<1>2. CASE req'[r] = req[r]
  BY <1>1, <1>2 DEF ReqShape, ReqType
<1>3. CASE req'[r] = NoRequest
  BY <1>3 DEF NoRequest
<1>4. CASE Comes(r)
  BY <1>4, <1>1 DEF Comes, MapOwn, RunType, NoRequest
<1>5. ASSUME NEW from \in {"flag", "child", "evict"}, NEW to \in {"child", "using", "evict", "clean"},
             Moves(r, from, to)
      PROVE  req'[r].at = to /\ req'[r].m = req[r].m /\ req[r].at # "free"
  BY <1>5 DEF Moves, ReqType
<1>6. CASE req'[r].at \in {"child", "using", "evict", "clean"} /\ req'[r].m = req[r].m
           /\ req[r].at # "free"
  BY <1>6, <1>1 DEF ReqShape, NoRequest
<1> QED
  BY <1>2, <1>3, <1>4, <1>5, <1>6, OneRequest DEF Ends

LEMMA CreateGoesOn ==
    ASSUME RunType, VmType, JobType, JobShape, Next, ~Insert, ~Prepare,
           job.op = "create", job'.op = "create", job'.ws = job.ws,
           job'.at \in Boot \cup Rotate \cup Reclaims,
           job'.m = None <=> job'.at \notin WithMachine \cup Reclaims,
           job'.at \in WithMachine =>
                job.at \in WithMachine /\ job'.m = job.m /\ job'.slot = job.slot
    PROVE  JobShape'
<1>1. \A k \in Machines : PathsStay(k)
  BY VmStays, LaunchStays DEF Stays
<1>2. job.ws \in Workspaces /\ running'[job.ws] = None
  BY RunningShrinks DEF JobShape, OfCreate
<1>3. job'.at \in WithMachine => vm'[job'.m].ws = job.ws /\ vm'[job'.m].slot = job'.slot
  <2>1. job.at \in WithMachine => job.m \in Machines /\ vm[job.m].ws = job.ws
                                  /\ vm[job.m].slot = job.slot
    BY JobHas DEF JobShape, OfCreate
  <2> QED
    BY <2>1, <1>1 DEF PathsStay
<1> QED
  BY <1>2, <1>3 DEF JobShape, OfNobody, OfCreate, OfTaker

LEMMA TakerGoesOn ==
    ASSUME VmType, JobType, JobShape, Next, ~Prepare,
           job.op \in {"destroy", "reap", "shutdown"}, job'.op = job.op,
           job.at # "next" \/ job.op = "reap",
           job'.ws = job.ws, job'.m = job.m,
           \/ job'.at \in Down \cup Rotate
           \/ job.op = "reap" /\ job'.at = "count"
    PROVE  JobShape'
<1>1. \A k \in Machines : PathsStay(k)
  BY VmStays, LaunchStays DEF Stays
<1>2. job.ws \in Workspaces /\ job.m \in Machines /\ vm[job.m].ws = job.ws
  BY DEF JobShape, OfTaker
<1> QED
  BY <1>1, <1>2 DEF JobShape, OfNobody, OfCreate, OfTaker, PathsStay

\* Which step the jobs are at.
LEMMA JobAt ==
    ASSUME JobType, JobShape
    PROVE  /\ job.op = "create" => job.at \in Boot \cup Rotate \cup Reclaims
           /\ job.op \in {"destroy", "reap", "shutdown"} =>
                job.at \in Down \cup Rotate \cup {"next", "count"}
           /\ job.op = "none" <=> job.at = "none"
           /\ job.at \in {"next", "count"} => job.op \in {"reap", "shutdown"}
           /\ job.at = "count" => job.op = "reap"
           /\ job.op \in {"none", "create", "destroy", "reap", "shutdown"}
BY DEF JobType, Jobs, JobShape, OfNobody, OfCreate, OfTaker, NoJob, Boot, Rotate, Down, Reclaims

LEMMA BootShape ==
    ASSUME RunType, VmType, JailType, SnapType, JobType, MadeType, CountType, Shape, Next, Boots
    PROVE  JobShape'
<1> USE DEF Shape, Boot, Rotate, Reclaims, WithMachine, Step
<1>1. CASE job' = NoJob
  BY <1>1 DEF JobShape, OfNobody, OfCreate, OfTaker, NoJob
<1>2. job.op = "create" /\ job.ws \in Workspaces
  BY JobHas DEF Boots, Recover, Choose, Prepare, Launch, Restored, Ready, WriteMeta, WriteMarker, Insert
<1>3. job.m = None <=> job.at \notin WithMachine \cup Reclaims
  BY <1>2 DEF JobShape, OfCreate
<1>4. CASE Recover
  <2>1. \/ job' = NoJob
        \/ job' = [job EXCEPT !.at = "choose"]
        \/ job' = [job EXCEPT !.at = "dropPrev",
                         !.cp = [kind |-> "disks", work |-> jail[job.ws].work,
                                 slot |-> vm[jail[job.ws].of].slot]]
    BY <1>4 DEF Recover
  <2>2. ~Insert /\ ~Prepare
    BY <1>4 DEF Recover, Insert, Prepare
  <2>3. job.at = "recover"
    BY <1>4 DEF Recover
  <2> QED
    BY <1>1, <1>2, <1>3, <2>1, <2>2, <2>3, CreateGoesOn DEF JobType, Jobs
<1>5. CASE Choose
  <2>1. PICK cp, slot :
            job' = NoJob \/ job' = [job EXCEPT !.at = "prepare", !.cp = cp, !.slot = slot]
    BY <1>5 DEF Choose
  <2>2. ~Insert /\ ~Prepare
    BY <1>5 DEF Choose, Insert, Prepare
  <2>3. job.at = "choose"
    BY <1>5 DEF Choose
  <2> QED
    BY <1>1, <1>2, <1>3, <2>1, <2>2, <2>3, CreateGoesOn DEF JobType, Jobs
<1>6. CASE Prepare
  <2>1. job' = [job EXCEPT !.at = "launch", !.m = made'] /\ UNCHANGED running
    BY <1>6 DEF Prepare
  <2>2. job'.op = "create" /\ job'.ws = job.ws /\ job'.at = "launch" /\ job'.m = made'
        /\ job'.slot = job.slot
    BY <1>2, <2>1 DEF JobType, Jobs
  <2>3. running[job.ws] = None
    BY <1>2 DEF JobShape, OfCreate
  <2> QED
    BY <1>2, <1>6, <2>1, <2>2, <2>3, PrepareStays, Sets DEF JobShape, OfNobody, OfCreate, OfTaker
<1>7. CASE Launch \/ Restored \/ Ready \/ WriteMeta \/ WriteMarker
  <2>1. PICK at \in WithMachine : job' = [job EXCEPT !.at = at]
    BY <1>7 DEF Launch, Restored, Ready, WriteMeta, WriteMarker
  <2>2. ~Insert /\ ~Prepare
    BY <1>7 DEF Launch, Restored, Ready, WriteMeta, WriteMarker, Insert, Prepare
  <2>3. job.at \in WithMachine
    BY <1>7 DEF Launch, Restored, Ready, WriteMeta, WriteMarker
  <2> QED
    BY <1>2, <1>3, <2>1, <2>2, <2>3, CreateGoesOn DEF JobType, Jobs
<1>8. CASE Insert
  BY <1>1, <1>8 DEF Insert
<1> QED
  BY <1>4, <1>5, <1>6, <1>7, <1>8 DEF Boots

LEMMA TakeShape ==
    ASSUME RunType, VmType, JobType, Shape, Next, Rotates \/ TakesDown
    PROVE  JobShape'
<1> USE DEF Shape
<1>1. CASE job' = NoJob
  BY <1>1 DEF JobShape, OfNobody, OfCreate, OfTaker, NoJob
<1>2. ~Insert /\ ~Prepare
  BY DEF Rotates, DropPrevious, Demote, Promote, TakesDown, LoadPolls, CountReferences, Flush,
     Pause, Stage, Sweep, Kill, Erase, Unmap, Insert, Prepare
<1>3. CASE Rotates \/ Kill \/ Erase
  <2>1. job.at \in Rotate \cup {"kill", "erase"}
    BY <1>3 DEF Rotates, DropPrevious, Demote, Promote, Kill, Erase, Rotate
  <2>2. job.op # "none"
    BY <2>1, JobHas DEF Down, Rotate
  <2>3. CASE job.op = "create"
    <3>1. PICK at \in {"demote", "promote", "choose", "erase", "unmap"} :
              /\ job' = [job EXCEPT !.at = at]
              /\ at \in Reclaims <=> job.at \in Reclaims
      BY <1>3, <2>3 DEF Rotates, DropPrevious, Demote, Promote, Kill, Erase, Step, Reclaims
    <3>2. job.m = None <=> job.at \notin Reclaims
      BY <2>1, <2>3 DEF JobShape, OfCreate, Reclaims, WithMachine, Rotate
    <3> QED
      BY <1>2, <2>3, <3>1, <3>2, CreateGoesOn
         DEF JobType, Jobs, Boot, Rotate, Reclaims, WithMachine
  <2>4. CASE job.op # "create"
    <3>1. PICK at \in {"demote", "promote", "sweep", "kill", "erase", "unmap"} :
              job' = [job EXCEPT !.at = at]
      BY <1>3, <2>4 DEF Rotates, DropPrevious, Demote, Promote, Kill, Erase, Step
    <3> QED
      BY <1>2, <2>1, <2>2, <2>4, <3>1, TakerGoesOn DEF JobType, Jobs, Down, Rotate
  <2> QED
    BY <2>3, <2>4
<1>4. CASE LoadPolls \/ CountReferences
  <2>1. PICK at, polls :
            /\ at \in Down \cup {"count"}
            /\ job' = NoJob \/ job' = [job EXCEPT !.at = at, !.polls = polls]
    BY <1>4 DEF LoadPolls, CountReferences, FirstStep, Down
  <2>2. job.op = "reap"
    BY <1>4 DEF LoadPolls, CountReferences
  <2> QED
    BY <1>1, <1>2, <2>1, <2>2, TakerGoesOn DEF JobType, Jobs
<1>5. CASE Flush \/ Pause \/ Stage \/ Sweep
  <2>1. job.at \in Down \ Reclaims
    BY <1>5 DEF Flush, Pause, Stage, Sweep, Down, Reclaims
  <2>2. job.op \notin {"none", "create"} /\ job.at \notin {"next", "count"}
    BY <2>1, JobHas DEF Down, Reclaims
  <2>3. PICK at \in {"pause", "stage", "dropPrev", "kill"} :
            \E cp : job' = [job EXCEPT !.at = at] \/ job' = [job EXCEPT !.at = at, !.cp = cp]
    BY <1>5 DEF Flush, Pause, Stage, Sweep, Step
  <2>4. PICK cp : job' = [job EXCEPT !.at = at] \/ job' = [job EXCEPT !.at = at, !.cp = cp]
    BY <2>3
  <2> QED
    BY <1>2, <2>2, <2>4, TakerGoesOn DEF JobType, Jobs, Down, Rotate
<1>6. CASE Unmap
  <2>1. CASE job.op = "create"
    <3>1. job' = [job EXCEPT !.at = "recover", !.m = None]
      BY <1>6, <2>1 DEF Unmap
    <3> QED
      BY <1>2, <2>1, <3>1, CreateGoesOn DEF JobType, Jobs, Boot, WithMachine, Reclaims
  <2>2. CASE job.op = "shutdown"
    <3>1. job' = [job EXCEPT !.at = "next", !.m = None, !.ws = None]
      BY <1>6, <2>2 DEF Unmap
    <3> QED
      BY <2>2, <3>1 DEF JobType, Jobs, JobShape, OfNobody, OfCreate, OfTaker
  <2> QED
    BY <1>1, <1>6, <2>1, <2>2 DEF Unmap
<1> QED
  BY <1>3, <1>4, <1>5, <1>6 DEF TakesDown

LEMMA JobShapeKept ==
    ASSUME RunType, VmType, JailType, SnapType, JobType, MadeType, CountType, Shape, Next
    PROVE  JobShape'
<1> USE DEF Shape
<1>1. CASE job' = NoJob
  BY <1>1 DEF JobShape, OfNobody, OfCreate, OfTaker, NoJob
<1>2. CASE UNCHANGED job
  <2>4. ~Insert
    BY <1>2 DEF Insert, NoJob
  <2>5. ~Prepare
    <3>1. Prepare => job'.at = "launch" /\ job.at = "prepare"
      BY DEF Prepare, JobType, Jobs
    <3> QED
      BY <1>2, <3>1
  <2>1. ~Insert /\ ~Prepare
    BY <2>4, <2>5
  <2>2. CASE job.op = "create"
    <3>1. /\ job.at \in Boot \cup Rotate \cup Reclaims
          /\ job.m = None <=> job.at \notin WithMachine \cup Reclaims
      BY <2>2 DEF JobShape, OfCreate
    <3> QED
      BY <1>2, <2>1, <2>2, <3>1, CreateGoesOn
  <2>3. CASE job.op # "create"
    <3>1. \A k \in Machines : PathsStay(k)
      BY <2>1, VmStays, LaunchStays DEF Stays
    <3> QED
      BY <1>2, <2>3, <3>1 DEF JobShape, OfNobody, OfCreate, OfTaker, PathsStay
  <2> QED
    BY <2>2, <2>3
<1>3. ASSUME NEW w \in Workspaces, BeginCreate(w)
      PROVE  JobShape'
  <2>1. running[w] = None /\ UNCHANGED running
    BY <1>3 DEF BeginCreate
  <2>2. CASE job' = [NoJob EXCEPT !.op = "create", !.ws = w, !.at = "recover"]
    BY <2>1, <2>2, Sets DEF NoJob, JobShape, OfNobody, OfCreate, OfTaker, Boot, Reclaims, WithMachine
  <2>3. ASSUME NEW m \in Machines,
               job' = [NoJob EXCEPT !.op = "create", !.ws = w, !.m = m, !.at = "kill"]
        PROVE  JobShape'
    <3>1. job'.op = "create" /\ job'.ws = w /\ job'.m = m /\ job'.at = "kill" /\ m # None
      BY <2>3, Sets DEF NoJob
    <3> QED
      BY <2>1, <3>1 DEF JobShape, OfNobody, OfCreate, OfTaker, Boot, Reclaims, WithMachine
  <2> QED
    BY <1>3, <2>2, <2>3 DEF BeginCreate
<1>4. ASSUME NEW w \in Workspaces, BeginDestroy(w) \/ BeginReap(w) \/ ShutdownNext(w)
      PROVE  JobShape'
  <2>1. running[w] \in Machines /\ vm[running[w]].ws = w
    BY <1>4 DEF BeginDestroy, BeginReap, ShutdownNext, MapOwn, RunType
  <2>2. \A k \in Machines : PathsStay(k)
    <3>1. ~Prepare /\ ~Launch
      BY <1>4, JobAt DEF BeginDestroy, BeginReap, ShutdownNext, Idle, Prepare, Launch
    <3> QED
      BY <3>1, VmStays DEF Stays
  <2>3. vm'[running[w]].ws = w
    BY <2>1, <2>2 DEF PathsStay
  <2>4. FirstStep(w) \in Down
    BY DEF FirstStep, Down
  <2>5. /\ job'.ws = w /\ job'.m = running[w]
        /\ \/ job'.op \in {"destroy", "shutdown"} /\ job'.at \in Down
           \/ job'.op = "reap" /\ job'.at = "next"
    BY <1>4, <2>4 DEF BeginDestroy, BeginReap, ShutdownNext, NoJob, JobType, Jobs
  <2> QED
    BY <2>1, <2>3, <2>5 DEF JobShape, OfNobody, OfCreate, OfTaker
<1>5. CASE BeginShutdown
  BY <1>5 DEF BeginShutdown, NoJob, JobShape, OfNobody, OfCreate, OfTaker
<1>6. CASE Fails
  <2>1. job' = NoJob \/ FailRestore
    BY <1>6 DEF Fails, FailPlainly, FailFlush, FailReady, FailPersist, FailErase, HangUp, Crash,
       Gone, GiveUp
  <2>2. CASE FailRestore
    <3>1. job' = [job EXCEPT !.at = "recover", !.m = None, !.plain = TRUE] /\ job.op = "create"
          /\ ~Insert /\ ~Prepare
      BY <2>2, JobHas DEF FailRestore, WithMachine, Insert, Prepare
    <3> QED
      BY <3>1, CreateGoesOn DEF JobType, Jobs, Boot, WithMachine, Reclaims
  <2> QED
    BY <1>1, <2>1, <2>2
<1> QED
  BY <1>1, <1>2, <1>3, <1>4, <1>5, <1>6, BootShape, TakeShape, JobMoves DEF Gone

LEMMA NextType == TypeOK /\ Shape /\ [Next]_vars => TypeOK' /\ Shape'
<1> SUFFICES ASSUME TypeOK, Shape, [Next]_vars PROVE TypeOK' /\ Shape'
  OBVIOUS
<1>1. CASE UNCHANGED vars
  BY <1>1 DEF vars, files, progress, TypeOK, Shape, JobShape, OfNobody, OfCreate, OfTaker, ReqShape,
     MapOwn
<1>2. CASE Next
  <2>1. /\ RunType /\ VmType /\ JailType /\ SnapType /\ MarkType /\ TapType
        /\ JobType /\ ReqType /\ MadeType /\ PendingType /\ CountType /\ PastType
    BY TypeParts
  <2>2. /\ RunType' /\ VmType' /\ JailType' /\ SnapType' /\ MarkType' /\ TapType'
        /\ JobType' /\ ReqType' /\ MadeType' /\ PendingType' /\ CountType' /\ PastType'
    BY <1>2, <2>1, RunTypeKept, VmTypeKept, JailTypeKept, SnapTypeKept, MarkTypeKept, TapTypeKept,
       JobTypeKept, ReqTypeKept, MadeTypeKept, PendingTypeKept, CountTypeKept, PastTypeKept
       DEF Shape
  <2>3. TypeOK'
    BY <2>2 DEF TypeOK, RunType, VmType, JailType, SnapType, MarkType, TapType, JobType, ReqType,
       MadeType, PendingType, CountType, PastType, VmRecords
  <2>4. Shape'
    BY <1>2, <2>1, JobShapeKept, ReqShapeKept, MapOwnKept DEF Shape
  <2> QED
    BY <2>3, <2>4
<1> QED
  BY <1>1, <1>2

\* The state of FirecrackerHost is well typed, and no job, request or entry of
\* the map points to a machine that was never made or is of another workspace.
THEOREM TypeCorrect == Spec => [](TypeOK /\ Shape)
BY InitType, NextType, PTL DEF Spec

-----------------------------------------------------------------------------
(* A create and its machine.                                               *)

\* Where a job is after the steps that do not lead to a machine of its own.
BootPath == WithMachine \cup {"prepare"}

LEMMA OffThePath ==
    ASSUME JobType,
           \/ \E w \in Workspaces :
                BeginCreate(w) \/ BeginDestroy(w) \/ BeginReap(w) \/ ShutdownNext(w)
           \/ Recover \/ Insert \/ Rotates \/ TakesDown \/ Fails \/ BeginShutdown \/ Gone
    PROVE  job'.at \notin BootPath
<1> USE DEF BootPath, WithMachine, JobType, Jobs, Step
<1>0. NoJob.at = "none" /\ \A at : [job EXCEPT !.at = at].at = at
  BY DEF NoJob
<1>1. ASSUME NEW w \in Workspaces,
             BeginCreate(w) \/ BeginDestroy(w) \/ BeginReap(w) \/ ShutdownNext(w)
      PROVE  job'.at \notin BootPath
  BY <1>1 DEF BeginCreate, BeginDestroy, BeginReap, ShutdownNext, FirstStep, NoJob
<1>2. CASE Recover
  BY <1>0, <1>2 DEF Recover
<1>3. CASE Insert \/ Gone \/ HangUp \/ Crash
  BY <1>0, <1>3 DEF Insert, Gone, HangUp, Crash
<1>4. CASE BeginShutdown
  BY <1>4 DEF BeginShutdown, NoJob
<1>5. CASE Rotates
  BY <1>0, <1>5 DEF Rotates, DropPrevious, Demote, Promote
<1>6. CASE LoadPolls \/ CountReferences
  BY <1>0, <1>6 DEF LoadPolls, CountReferences, FirstStep
<1>7. CASE Flush \/ Pause \/ Sweep \/ Kill \/ Erase
  BY <1>0, <1>7 DEF Flush, Pause, Sweep, Kill, Erase
<1>8. CASE Stage
  BY <1>8 DEF Stage
<1>9. CASE Unmap
  BY <1>0, <1>9 DEF Unmap
<1>10. CASE FailPlainly \/ FailFlush \/ FailReady \/ FailPersist \/ FailErase
  BY <1>0, <1>10 DEF FailPlainly, FailFlush, FailReady, FailPersist, FailErase, GiveUp
<1>11. CASE FailRestore
  BY <1>11 DEF FailRestore
<1> QED
  BY <1>1, <1>2, <1>3, <1>4, <1>5, <1>6, <1>7, <1>8, <1>9, <1>10, <1>11 DEF TakesDown, Fails

LEMMA ChooseMoves ==
    ASSUME SnapType, JobType, JobShape, Choose
    PROVE  \/ job' = NoJob
           \/ job'.at = "prepare" /\ job'.slot \in Slots \ Taken /\ job'.op = job.op
<1>1. PICK require \in BOOLEAN :
        LET cp == IF job.ws \in Durable THEN Saved(job.ws) ELSE NoCheckpoint
            restore == ~job.plain /\ cp.kind = "full"
            free == IF restore THEN cp.slot \notin Taken ELSE Slots \ Taken # {}
        IN  \/ job' = NoJob
            \/ /\ free
               /\ job' = [job EXCEPT !.at = "prepare", !.cp = cp,
                            !.slot = IF restore THEN cp.slot ELSE FirstFree]
  BY DEF Choose
<1> DEFINE cp == IF job.ws \in Durable THEN Saved(job.ws) ELSE NoCheckpoint
<1>2. cp.slot \in Slots
  <2>1. job.ws \in Workspaces
    BY JobHas DEF Choose
  <2> QED
    BY <2>1, SavedType, NoCheckpointType DEF Checkpoints
<1>3. \/ job' = NoJob
      \/ \E slot \in Slots \ Taken : job' = [job EXCEPT !.at = "prepare", !.cp = cp, !.slot = slot]
  <2> HIDE DEF cp
  <2> QED BY <1>1, <1>2, FirstFreeSlot DEF cp
<1> HIDE DEF cp
<1> QED
  BY <1>3 DEF JobType, Jobs

LEMMA BootMoves ==
    ASSUME SnapType, JobType, JobShape, Next, job'.at \in WithMachine
    PROVE  \/ Prepare
           \/ /\ job.at \in WithMachine /\ ~Insert /\ ~Prepare
              /\ job'.m = job.m /\ job'.ws = job.ws /\ job'.slot = job.slot
              /\ job'.at \in Launched => job.at \in Launched \/ Launch
<1>1. CASE UNCHANGED job
  BY <1>1, JobAt DEF Insert, Prepare, NoJob, JobType, Jobs, WithMachine, Launched
<1>2. CASE Choose
  BY <1>2, ChooseMoves DEF NoJob, WithMachine
<1>3. CASE Launch \/ Restored \/ Ready \/ WriteMeta \/ WriteMarker
  <2>1. PICK at \in Launched :
            /\ job' = [job EXCEPT !.at = at]
            /\ job.at \in WithMachine /\ ~Insert /\ ~Prepare
            /\ Launch \/ job.at \in Launched
    BY <1>3 DEF Launch, Restored, Ready, WriteMeta, WriteMarker, Step, Insert, Prepare,
       WithMachine, Launched
  <2> QED
    BY <2>1 DEF JobType, Jobs
<1> QED
  BY <1>1, <1>2, <1>3, OffThePath, JobMoves DEF Boots, BootPath

LEMMA PrepareMoves ==
    ASSUME SnapType, JobType, JobShape, Next, job'.at = "prepare"
    PROVE  \/ UNCHANGED job
           \/ Choose /\ job'.slot \in Slots \ Taken
<1>1. CASE Choose
  BY <1>1, ChooseMoves DEF NoJob
<1>2. CASE Prepare \/ Launch \/ Restored \/ Ready \/ WriteMeta \/ WriteMarker
  BY <1>2 DEF Prepare, Launch, Restored, Ready, WriteMeta, WriteMarker, JobType, Jobs, Step
<1> QED
  BY <1>1, <1>2, OffThePath, JobMoves DEF Boots, BootPath

-----------------------------------------------------------------------------
(* The slot and the machine of a create; machines that are taken down.     *)

Typed ==
    /\ RunType /\ VmType /\ JailType /\ SnapType /\ TapType /\ JobType /\ ReqType /\ MadeType
    /\ CountType /\ JobShape /\ ReqShape /\ MapOwn

LEMMA TypedAll == TypeOK /\ Shape => Typed
BY TypeParts DEF Typed, Shape

LEMMA MappedType ==
    ASSUME Typed
    PROVE  /\ Mapped \subseteq Machines
           /\ \A m \in Mapped : vm[m].ws \in Workspaces /\ running[vm[m].ws] = m /\ m <= made
BY DEF Typed, Mapped, RunType, MapOwn, MadeType, Machines, CountType

LEMMA MappedShrinks ==
    ASSUME Typed, Next, ~Insert
    PROVE  Mapped' \subseteq Mapped /\ Taken' \subseteq Taken
<1>1. Mapped' \subseteq Mapped
  BY RunningShrinks DEF Typed, Mapped
<1>2. \A m \in Mapped : vm'[m].slot = vm[m].slot
  <2>1. CASE Prepare
    BY <2>1, MappedType, PrepareStays DEF PathsStay, Typed, CountType, Machines
  <2>2. CASE ~Prepare
    BY <2>2, MappedType, VmStays, LaunchStays DEF Stays, PathsStay, Typed
  <2> QED
    BY <2>1, <2>2
<1> QED
  BY <1>1, <1>2 DEF Taken

\* A create's machine is in nobody's reach.
LEMMA BootHas ==
    ASSUME Typed, job.at \in WithMachine
    PROVE  /\ Booting /\ job.op = "create" /\ job.ws \in Workspaces /\ job.m \in Machines
           /\ vm[job.m].ws = job.ws /\ vm[job.m].slot = job.slot
           /\ running[job.ws] = None /\ job.m \notin Mapped
<1>1. /\ job.op = "create" /\ job.ws \in Workspaces /\ job.m \in Machines
      /\ vm[job.m].ws = job.ws /\ vm[job.m].slot = job.slot /\ running[job.ws] = None
  BY JobHas DEF Typed, JobShape, OfCreate
<1> QED
  BY <1>1, MappedType, Sets DEF Booting

LEMMA SlotKeptKept ==
    ASSUME Typed, SlotKept, Next
    PROVE  SlotKept'
<1> SUFFICES ASSUME job'.op = "create", job'.at \in WithMachine \cup {"prepare"}
             PROVE  job'.slot \notin Taken'
  BY DEF SlotKept
<1>1. ~Insert
  BY OffThePath DEF BootPath, Typed
<1>2. Taken' \subseteq Taken
  BY <1>1, MappedShrinks
<1>3. CASE job'.at = "prepare"
  BY <1>2, <1>3, PrepareMoves DEF SlotKept, Typed
<1>4. CASE Prepare
  <2>1. job.op = "create" /\ job.at = "prepare" /\ job'.slot = job.slot
    BY <1>4, JobHas DEF Prepare, Typed, JobType, Jobs
  <2> QED
    BY <1>2, <2>1 DEF SlotKept
<1>5. CASE job'.at \in WithMachine /\ ~Prepare
  <2>1. job.at \in WithMachine /\ job'.slot = job.slot
    BY <1>5, BootMoves DEF Typed
  <2> QED
    BY <1>2, <2>1, BootHas DEF SlotKept
<1> QED
  BY <1>3, <1>4, <1>5

LEMMA UnusedKept ==
    ASSUME Typed, Unused, Next
    PROVE  Unused'
<1> SUFFICES ASSUME job'.at \in WithMachine, NEW r \in Requests, req'[r].m = job'.m
             PROVE  FALSE
  BY DEF Unused, Booting, Users
<1>1. CASE Prepare
  <2>1. job'.m = made' /\ UNCHANGED req /\ made' = made + 1 /\ made' \in Machines
    BY <1>1, PrepareStays DEF Prepare, Typed, JobType, Jobs
  <2>2. req[r].m = made'
    BY <2>1
  <2>3. req[r].at # "free"
    BY <2>1, <2>2, Sets DEF Typed, ReqShape, NoRequest
  <2> QED
    BY <2>1, <2>2, <2>3 DEF Typed, ReqShape, MadeType, CountType, Machines
<1>2. CASE ~Prepare
  <2>1. job.at \in WithMachine /\ job'.m = job.m
    BY <1>2, BootMoves DEF Typed
  <2>2. job.m \in Machines /\ job.m \notin Mapped /\ Booting
    BY <2>1, BootHas
  <2>3. req[r].m # job.m
    BY <2>2 DEF Unused, Users
  <2>4. req'[r].m \in {req[r].m, None} \cup Mapped
    BY OneRequest DEF Typed, Moves, Ends, Comes, NoRequest, Mapped, ReqType
  <2> QED
    BY <2>1, <2>2, <2>3, <2>4, Sets
<1> QED
  BY <1>1, <1>2

\* A machine in the hands of a request is not started again.
LEMMA UsedStays ==
    ASSUME Typed, Unused, Next, NEW r \in Requests, req[r].at # "free"
    PROVE  /\ req[r].m \in Machines /\ vm[req[r].m].ws \in Workspaces /\ Stays(req[r].m)
<1>1. req[r].m \in Machines /\ vm[req[r].m].ws # None
  BY DEF Typed, ReqShape
<1>2. vm[req[r].m].ws \in Workspaces
  BY <1>1 DEF Typed, VmType, VmRecords
<1>3. CASE Prepare
  BY <1>1, <1>2, <1>3, PrepareStays DEF Typed, MadeType, CountType, Machines
<1>4. CASE Launch
  <2>1. req[r].m # job.m
    BY <1>4, BootHas DEF Launch, WithMachine, Unused, Users
  <2> QED
    BY <1>1, <1>2, <1>4, <2>1, LaunchStays DEF Typed
<1>5. CASE ~Prepare /\ ~Launch
  BY <1>1, <1>2, <1>5, VmStays DEF Typed
<1> QED
  BY <1>1, <1>2, <1>3, <1>4, <1>5

LEMMA EraseMoves ==
    ASSUME JobType, JobShape, SnapType, Next, job'.at \in {"erase", "unmap"}
    PROVE  \/ Kill
           \/ /\ job.at \in {"erase", "unmap"} /\ ~Prepare /\ ~Launch /\ ~Insert
              /\ job'.m = job.m /\ job'.op = job.op /\ job'.ws = job.ws
<1> USE DEF JobType, Jobs, Step
<1>0. NoJob.at = "none" /\ \A at : [job EXCEPT !.at = at].at = at
  BY DEF NoJob
<1>1. CASE UNCHANGED job
  BY <1>1 DEF Prepare, Launch, Insert
<1>2. ASSUME NEW w \in Workspaces,
             BeginCreate(w) \/ BeginDestroy(w) \/ BeginReap(w) \/ ShutdownNext(w)
      PROVE  FALSE
  BY <1>2 DEF BeginCreate, BeginDestroy, BeginReap, ShutdownNext, FirstStep, NoJob
<1>3. CASE Recover \/ Insert \/ Gone \/ HangUp \/ Crash \/ BeginShutdown
  BY <1>0, <1>3 DEF Recover, Insert, Gone, HangUp, Crash, BeginShutdown, NoJob
<1>4. CASE Choose
  BY <1>0, <1>4, ChooseMoves
<1>5. CASE Prepare \/ Launch \/ Restored \/ Ready \/ WriteMeta \/ WriteMarker
  BY <1>0, <1>5 DEF Prepare, Launch, Restored, Ready, WriteMeta, WriteMarker
<1>6. CASE Rotates
  BY <1>0, <1>6 DEF Rotates, DropPrevious, Demote, Promote
<1>7. CASE LoadPolls \/ CountReferences \/ Stage
  BY <1>0, <1>7 DEF LoadPolls, CountReferences, FirstStep, Stage
<1>8. CASE Flush \/ Pause \/ Sweep
  BY <1>0, <1>8 DEF Flush, Pause, Sweep
<1>9. CASE Erase
  BY <1>9 DEF Erase, Prepare, Launch, Insert
<1>10. CASE Unmap
  BY <1>0, <1>10 DEF Unmap
<1>11. CASE FailPlainly \/ FailFlush \/ FailReady \/ FailPersist \/ FailErase \/ FailRestore
  BY <1>0, <1>11 DEF FailPlainly, FailFlush, FailReady, FailPersist, FailErase, FailRestore, GiveUp
<1> QED
  BY <1>1, <1>2, <1>3, <1>4, <1>5, <1>6, <1>7, <1>8, <1>9, <1>10, <1>11, JobMoves
     DEF Boots, TakesDown, Fails

LEMMA DeadKept ==
    ASSUME Typed, Unused, Dead, Next
    PROVE  Dead'
<1>1. ASSUME job'.at \in {"erase", "unmap"} PROVE ~vm'[job'.m].alive
  <2>1. CASE Kill
    <3>1. job.m \in Machines /\ job'.m = job.m
      BY <2>1, JobHas DEF Kill, Down, Typed, Step, JobType, Jobs
    <3> QED
      BY <2>1, <3>1 DEF Kill, Typed, VmType, VmRecords
  <2>2. CASE job.at \in {"erase", "unmap"} /\ ~Prepare /\ ~Launch /\ job'.m = job.m
    <3>1. job.m \in Machines
      BY <2>2, JobHas DEF Down, Typed
    <3> QED
      BY <2>2, <3>1, VmStays DEF Typed, Stays, Dead
  <2> QED
    BY <1>1, <2>1, <2>2, EraseMoves DEF Typed
<1>2. ASSUME NEW r \in Requests, req'[r].at \in {"evict", "clean"}
      PROVE  ~vm'[req'[r].m].alive
  <2>1. /\ req'[r].m = req[r].m /\ req[r].at # "free"
        /\ req[r].at \in {"evict", "clean"} \/ ~Live(req[r].m)
    BY <1>2, OneRequest DEF Typed, Moves, Ends, Comes, NoRequest, ReqType
  <2>2. ~vm[req[r].m].alive
    BY <2>1 DEF Live, Held, Users, Dead
  <2> QED
    BY <2>1, <2>2, UsedStays DEF Stays
<1> QED
  BY <1>1, <1>2 DEF Dead

-----------------------------------------------------------------------------
(* The reservation of the host.                                            *)

LEMMA ShutdownGoesOn ==
    ASSUME JobType, JobShape, Next, job.op = "shutdown"
    PROVE  job'.op = "shutdown" \/ ~pending'
<1> USE JobHas, JobAt DEF JobType, Jobs, Step
<1>1. CASE UNCHANGED job
  BY <1>1
<1>2. ASSUME NEW w \in Workspaces,
             BeginCreate(w) \/ BeginDestroy(w) \/ BeginReap(w) \/ ShutdownNext(w)
      PROVE  job'.op = "shutdown"
  BY <1>2 DEF BeginCreate, MayCreate, BeginDestroy, BeginReap, ShutdownNext, Idle
<1>3. CASE Boots \/ BeginShutdown
  BY <1>3 DEF Boots, Recover, Choose, Prepare, Launch, Restored, Ready, WriteMeta, WriteMarker,
     Insert, BeginShutdown, Idle, WithMachine
<1>4. CASE Rotates
  BY <1>4 DEF Rotates, DropPrevious, Demote, Promote
<1>5. CASE TakesDown
  BY <1>5 DEF TakesDown, LoadPolls, CountReferences, Flush, Pause, Stage, Sweep, Kill, Erase, Unmap
<1>6. CASE Fails
  BY <1>6 DEF Fails, FailPlainly, FailFlush, FailRestore, FailReady, FailPersist, FailErase,
     HangUp, Crash, Gone, WithMachine
<1>7. CASE Gone
  BY <1>7 DEF Gone
<1> QED
  BY <1>1, <1>2, <1>3, <1>4, <1>5, <1>6, <1>7, JobMoves

LEMMA ReservedKept ==
    ASSUME Typed, Reserved, Next
    PROVE  Reserved'
<1> SUFFICES ASSUME pending', job'.op # "shutdown" PROVE job'.op = "none" /\ Mapped' = {}
  BY DEF Reserved, Idle
<1>1. CASE UNCHANGED pending
  <2>1. Idle /\ Mapped = {} /\ pending
    BY <1>1, ShutdownGoesOn DEF Reserved, Typed
  <2>2. job.at = "none" /\ job.op = "none"
    BY <2>1, JobAt DEF Idle, Typed
  <2>3. ~Insert
    BY <2>2 DEF Insert
  <2>4. \A w \in Workspaces : running[w] = None
    BY <2>1 DEF Mapped
  <2>5. \A w \in Workspaces :
            ~BeginCreate(w) /\ ~BeginDestroy(w) /\ ~BeginReap(w) /\ ~ShutdownNext(w)
    BY <2>1, <2>4 DEF BeginCreate, MayCreate, BeginDestroy, BeginReap, ShutdownNext
  <2>6. ~Boots
    BY <2>2 DEF Boots, Recover, Choose, Prepare, Launch, Restored, Ready, WriteMeta, WriteMarker,
       Insert
  <2>7. ~Rotates /\ ~TakesDown
    BY <2>2 DEF Rotates, DropPrevious, Demote, Promote, TakesDown, LoadPolls, CountReferences,
       Flush, Pause, Stage, Sweep, Kill, Erase, Unmap
  <2>8. Fails => Gone
    BY <2>2 DEF Fails, FailPlainly, FailFlush, FailRestore, FailReady, FailPersist, FailErase,
       HangUp, Crash, Rotate
  <2>9. BeginShutdown => job'.op = "shutdown"
    BY DEF BeginShutdown, NoJob
  <2>10. Gone => ~pending'
    BY DEF Gone
  <2>11. UNCHANGED job
    BY <2>5, <2>6, <2>7, <2>8, <2>9, <2>10, JobMoves
  <2> QED
    BY <2>1, <2>2, <2>3, <2>11, MappedShrinks
<1>2. CASE BeginHostShutdown
  BY <1>2 DEF BeginHostShutdown, Idle, Mapped
<1>3. CASE CancelHostShutdown \/ Gone
  BY <1>3 DEF CancelHostShutdown, Gone
<1>4. CASE BeginShutdown
  BY <1>4 DEF BeginShutdown, NoJob
<1> QED
  BY <1>1, <1>2, <1>3, <1>4, PendingMoves

-----------------------------------------------------------------------------
(* The flag, the count and the requests of the reaper.                     *)

LEMMA BootsOp ==
    ASSUME SnapType, JobType, JobShape, Boots
    PROVE  job.op = "create" /\ job'.op \in {"create", "none"}
<1>1. job.op = "create"
  BY JobHas DEF Boots, Recover, Choose, Prepare, Launch, Restored, Ready, WriteMeta, WriteMarker,
     Insert, WithMachine
<1>2. job' = NoJob => job'.op = "none"
  BY DEF NoJob
<1>3. \A at, m : /\ [job EXCEPT !.at = at].op = job.op
                 /\ [job EXCEPT !.at = at, !.m = m].op = job.op
                 /\ [job EXCEPT !.at = at, !.cp = m].op = job.op
  BY DEF JobType, Jobs
<1>4. Recover => job'.op \in {job.op, "none"}
  <2>1. Recover => \/ job' = NoJob
                   \/ job' = [job EXCEPT !.at = "choose"]
                   \/ job' = [job EXCEPT !.at = "dropPrev",
                                 !.cp = [kind |-> "disks", work |-> jail[job.ws].work,
                                         slot |-> vm[jail[job.ws].of].slot]]
    BY DEF Recover, Step
  <2>2. [job EXCEPT !.at = "dropPrev",
                !.cp = [kind |-> "disks", work |-> jail[job.ws].work,
                        slot |-> vm[jail[job.ws].of].slot]].op = job.op
    BY DEF JobType, Jobs
  <2> QED
    BY <1>2, <1>3, <2>1, <2>2
<1>5. Choose => job'.op \in {job.op, "none"}
  BY <1>2, ChooseMoves
<1>6. Prepare => job'.op \in {job.op, "none"}
  BY <1>3 DEF Prepare
<1>7. Launch \/ Restored \/ Ready \/ WriteMeta \/ WriteMarker \/ Insert
      => job'.op \in {job.op, "none"}
  BY <1>2, <1>3 DEF Launch, Restored, Ready, WriteMeta, WriteMarker, Insert, Step
<1> QED
  BY <1>1, <1>4, <1>5, <1>6, <1>7 DEF Boots

LEMMA ReapMoves ==
    ASSUME SnapType, JobType, JobShape, Next, job'.op = "reap"
    PROVE  \/ \E w \in Workspaces : BeginReap(w) /\ job'.m = running[w] /\ job'.at = "next"
           \/ /\ job.op = "reap" /\ job'.m = job.m
              /\ job'.at = "count" => LoadPolls \/ UNCHANGED job
              /\ job'.at \in Down \cup Rotate => CountReferences \/ job.at \in Down \cup Rotate
<1> USE JobHas, JobAt DEF JobType, Jobs, Step
<1>1. CASE UNCHANGED job
  BY <1>1
<1>2. ASSUME NEW w \in Workspaces,
             BeginCreate(w) \/ BeginDestroy(w) \/ BeginReap(w) \/ ShutdownNext(w)
      PROVE  BeginReap(w) /\ job'.m = running[w] /\ job'.at = "next"
  BY <1>2 DEF BeginCreate, BeginDestroy, BeginReap, ShutdownNext, NoJob
<1>3. CASE Boots
  BY <1>3, BootsOp
<1>4. CASE Rotates
  <2>1. job.at \in Rotate /\ job'.op = job.op /\ job'.m = job.m
        /\ job'.at \notin {"next", "count"}
    BY <1>4 DEF Rotates, DropPrevious, Demote, Promote, Rotate
  <2> QED
    BY <2>1
<1>5. CASE LoadPolls
  BY <1>5 DEF LoadPolls, Down, Rotate
<1>6. CASE CountReferences
  <2>1. job' = [job EXCEPT !.at = FirstStep(job.ws), !.polls = 0] /\ job.op = "reap"
    BY <1>6 DEF CountReferences, NoJob
  <2> QED
    BY <1>6, <2>1 DEF FirstStep
<1>7. CASE Flush \/ Pause \/ Stage \/ Sweep \/ Kill \/ Erase
  <2>1. job.at \in Down /\ job'.op = job.op /\ job'.m = job.m /\ job'.at \notin {"next", "count"}
    BY <1>7 DEF Flush, Pause, Stage, Sweep, Kill, Erase, Down
  <2> QED
    BY <2>1
<1>8. CASE Unmap
  BY <1>8 DEF Unmap, NoJob
<1>9. CASE Fails \/ BeginShutdown \/ Gone
  <2>1. CASE BeginShutdown
    BY <2>1 DEF BeginShutdown, NoJob
  <2>2. CASE FailRestore
    BY <2>2 DEF FailRestore, WithMachine
  <2>3. CASE job' = NoJob
    BY <2>3 DEF NoJob
  <2> QED
    BY <1>9, <2>1, <2>2, <2>3
       DEF Fails, FailPlainly, FailFlush, FailReady, FailPersist, FailErase, HangUp, Crash, Gone,
           GiveUp
<1> QED
  BY <1>1, <1>2, <1>3, <1>4, <1>5, <1>6, <1>7, <1>8, <1>9, JobMoves DEF TakesDown

LEMMA FlagStays ==
    ASSUME VmType, JobType, JobShape, Next, job.op = "reap", job'.op = "reap",
           vm[job.m].hibernating
    PROVE  vm'[job.m].hibernating
<1>1. job.m \in Machines
  BY JobAt DEF JobShape, OfTaker
<1>2. CASE \/ UNCHANGED vm
           \/ \E m : \/ vm' = [vm EXCEPT ![m].alive = FALSE]
                     \/ vm' = [vm EXCEPT ![m].paused = TRUE]
                     \/ vm' = [vm EXCEPT ![m].paused = FALSE]
                     \/ vm' = [vm EXCEPT ![m].due = FALSE]
                     \/ vm' = Active(m)
  BY <1>1, <1>2 DEF VmType, VmRecords, Active
<1>3. CASE \E w \in Workspaces : CreateExisting(w) \/ BeginReap(w) \/ Park(w)
  BY <1>3 DEF CreateExisting, MayCreate, BeginReap, Park, Idle
<1>4. CASE Prepare \/ Launch \/ FailRestore \/ FailReady
  BY <1>4, JobHas DEF Prepare, Launch, FailRestore, FailReady, WithMachine
<1>5. CASE CountReferences \/ Unmap
  BY <1>2, <1>5 DEF CountReferences, Unmap, NoJob
<1>6. CASE Pause \/ Kill
  BY <1>2, <1>6 DEF Pause, Kill
<1>7. CASE FailPlainly \/ FailFlush \/ FailPersist \/ FailErase \/ Gone
  <2>1. job' = NoJob
    BY <1>7 DEF FailPlainly, FailFlush, FailPersist, FailErase, GiveUp, Gone
  <2> QED
    BY <2>1 DEF NoJob
<1>8. CASE \E r \in Requests :
             CheckFlag(r) \/ Resume(r) \/ \E touch \in BOOLEAN : Done(r, touch)
  BY <1>2, <1>8 DEF CheckFlag, Resume, Done
<1>9. CASE \E m \in Machines : TimePasses(m) \/ GuestExits(m)
  BY <1>2, <1>9 DEF TimePasses, GuestExits, Idle
<1> QED
  BY <1>2, <1>3, <1>4, <1>5, <1>6, <1>7, <1>8, <1>9, VmMoves

PollsThen(m) == Cardinality({r \in Requests : req'[r].m = m /\ req'[r].poll /\ req'[r].at = "using"})

\* No fewer requests poll a machine while its references are counted.
LEMMA PollsStay ==
    ASSUME ReqType, ~TornCount, Next, UNCHANGED job, job.at = "count", NEW m \in Machines
    PROVE  Polls(m) <= PollsThen(m) /\ PollsThen(m) \in Nat
<1> DEFINE Before == {r \in Users(m) : req[r].poll /\ req[r].at = "using"}
           After == {r \in Requests : req'[r].m = m /\ req'[r].poll /\ req'[r].at = "using"}
<1>1. ASSUME NEW r \in Before PROVE r \in After
  <2>1. r \in Requests /\ req[r].m = m /\ req[r].poll /\ req[r].at = "using"
    BY DEF Users
  <2>2. ~Gone
    <3>1. Gone => job' = NoJob
      BY DEF Gone
    <3> QED
      BY <3>1 DEF NoJob
  <2>3. req'[r] = req[r]
    BY <2>1, <2>2, OneRequest DEF Moves, Ends, Comes
  <2> QED
    BY <2>1, <2>3
<1>2. After \subseteq Requests /\ Before \subseteq After
  BY <1>1
<1>3. IsFiniteSet(After) /\ Cardinality(Before) <= Cardinality(After)
  BY <1>2, FS_Subset
<1>4. Polls(m) = Cardinality(Before)
  BY DEF Polls
<1> QED
  BY <1>3, <1>4, FS_CardinalityType DEF PollsThen

\* When the count finds no more references than polls, every request polls.
LEMMA CountedAll ==
    ASSUME NEW m, NEW polls \in Nat, polls <= Polls(m), ~Blocked(m, polls),
           NEW r \in Requests, req[r].m = m
    PROVE  req[r].poll /\ req[r].at = "using"
<1> DEFINE P == {q \in Users(m) : req[q].poll /\ req[q].at = "using"}
<1>1. IsFiniteSet(Users(m)) /\ P \subseteq Users(m)
  BY FS_Subset DEF Users
<1>2. Cardinality(P) = Polls(m)
  BY DEF Polls
<1>3. Cardinality(Users(m)) = Cardinality(P)
  BY <1>1, <1>2, FS_Subset, FS_CardinalityType DEF Blocked
<1>4. Users(m) = P
  BY <1>1, <1>3, FS_Subset
<1> QED
  BY <1>4 DEF Users

LEMMA ReaperKept ==
    ASSUME Typed, ~TornCount, Reaper, Next
    PROVE  Reaper'
<1> USE DEF Typed
<1>1. Flagged'
  <2> SUFFICES ASSUME job'.op = "reap" PROVE vm'[job'.m].hibernating
    BY DEF Flagged
  <2>1. ASSUME NEW w \in Workspaces, BeginReap(w), job'.m = running[w]
        PROVE  vm'[job'.m].hibernating
    <3>1. running[w] \in Machines
      BY <2>1 DEF BeginReap, RunType
    <3> QED
      BY <2>1, <3>1 DEF BeginReap, VmType, VmRecords
  <2> QED
    BY <2>1, ReapMoves, FlagStays DEF Reaper, Flagged
<1>2. Counts'
  <2> SUFFICES ASSUME job'.op = "reap", job'.at = "count" PROVE job'.polls <= PollsThen(job'.m)
    <3>1. Polls(job.m)' = PollsThen(job'.m)
      <4>1. {r \in Users(job.m) : req[r].poll /\ req[r].at = "using"}' =
              {r \in Requests : req'[r].m = job'.m /\ req'[r].poll /\ req'[r].at = "using"}
        BY DEF Users
      <4> QED
        BY <4>1 DEF Polls, PollsThen
    <3> QED
      BY <3>1 DEF Counts
  <2>1. CASE LoadPolls
    <3>1. job'.polls = Polls(job.m) /\ job'.m = job.m /\ UNCHANGED req
      BY <2>1 DEF LoadPolls, JobType, Jobs
    <3>2. PollsThen(job.m) = Polls(job.m)
      <4>1. {r \in Users(job.m) : req[r].poll /\ req[r].at = "using"} =
              {r \in Requests : req'[r].m = job.m /\ req'[r].poll /\ req'[r].at = "using"}
        BY <3>1 DEF Users
      <4> QED
        BY <4>1 DEF Polls, PollsThen
    <3> QED
      BY <3>1, <3>2, PollsType
  <2>2. CASE UNCHANGED job
    <3>1. job.m \in Machines /\ job.polls \in Nat /\ job.polls <= Polls(job.m)
      BY <2>2, JobHas DEF Reaper, Counts, JobType, Jobs
    <3>2. Polls(job.m) <= PollsThen(job.m) /\ PollsThen(job.m) \in Nat
      BY <2>2, <3>1, PollsStay
    <3> QED
      BY <2>2, <3>1, <3>2, PollsType
  <2> QED
    BY <2>1, <2>2, ReapMoves
<1>3. OnlyPolls'
  <2> SUFFICES ASSUME job'.op = "reap", job'.at \in Down \cup Rotate,
                      NEW r \in Requests, req'[r].m = job'.m, req'[r].at \in {"child", "using"}
               PROVE  req'[r].poll
    BY DEF OnlyPolls
  <2>1. CASE CountReferences
    <3>1. /\ ~Blocked(job.m, job.polls) /\ job.op = "reap" /\ job.at = "count"
          /\ job'.m = job.m /\ UNCHANGED req
      <4>1. job' = [job EXCEPT !.at = FirstStep(job.ws), !.polls = 0] /\ UNCHANGED req
            /\ ~Blocked(job.m, job.polls) /\ job.op = "reap" /\ job.at = "count"
        BY <2>1 DEF CountReferences, NoJob
      <4> QED
        BY <4>1 DEF JobType, Jobs
    <3>2. job.polls \in Nat /\ job.polls <= Polls(job.m)
      BY <3>1 DEF Reaper, Counts, JobType, Jobs
    <3> QED
      BY <3>1, <3>2, CountedAll
  <2>2. CASE job.op = "reap" /\ job'.m = job.m /\ job.at \in Down \cup Rotate
    <3>1. vm[job.m].hibernating /\ job.m # None
      BY <2>2, JobAt DEF Reaper, Flagged, JobShape, OfTaker, Down, Rotate, Machines
    <3>2. req'[r].m = job.m /\ req'[r].at \in {"child", "using"}
      BY <2>2
    <3>3. req[r].m = job.m /\ req[r].at \in {"child", "using"} /\ req'[r].poll = req[r].poll
      BY <3>1, <3>2, OneRequest DEF Moves, Ends, Comes, NoRequest
    <3> QED
      BY <2>2, <3>3 DEF Reaper, OnlyPolls
  <2>3. ~ \E w \in Workspaces : BeginReap(w) /\ job'.m = running[w] /\ job'.at = "next"
    BY DEF Down, Rotate
  <2> QED
    BY <2>1, <2>2, <2>3, ReapMoves
<1> QED
  BY <1>1, <1>2, <1>3 DEF Reaper

-----------------------------------------------------------------------------
(* Nobody removes the files of another's machine.                          *)

LEMMA JobMachine ==
    ASSUME Typed, Next, ~Prepare
    PROVE  job'.m \in {job.m, None} \cup Mapped
<1> USE DEF Typed, JobType, Jobs, Step
<1>0. /\ NoJob.m = None
      /\ \A at : [job EXCEPT !.at = at].m = job.m
  BY DEF NoJob
<1>1. ASSUME NEW w \in Workspaces,
             BeginCreate(w) \/ BeginDestroy(w) \/ BeginReap(w) \/ ShutdownNext(w)
      PROVE  job'.m \in {None} \cup Mapped
  <2>1. CASE BeginCreate(w)
    BY <2>1 DEF BeginCreate, NoJob, Parked
  <2>2. CASE BeginDestroy(w) \/ BeginReap(w) \/ ShutdownNext(w)
    <3>1. job'.m = running[w] /\ running[w] # None
      BY <2>2 DEF BeginDestroy, BeginReap, ShutdownNext, NoJob
    <3> QED
      BY <3>1 DEF Mapped
  <2> QED
    BY <1>1, <2>1, <2>2
<1>2. CASE Recover
  <2>1. [job EXCEPT !.at = "dropPrev",
                !.cp = [kind |-> "disks", work |-> jail[job.ws].work,
                        slot |-> vm[jail[job.ws].of].slot]].m = job.m
    OBVIOUS
  <2> QED
    BY <1>0, <1>2, <2>1 DEF Recover
<1>3. CASE Choose
  <2>1. \A cp, slot : [job EXCEPT !.at = "prepare", !.cp = cp, !.slot = slot].m = job.m
    OBVIOUS
  <2>2. PICK cp, slot : job' = NoJob \/ job' = [job EXCEPT !.at = "prepare", !.cp = cp, !.slot = slot]
    BY <1>3 DEF Choose
  <2> QED
    BY <1>0, <2>1, <2>2
<1>4. CASE Launch \/ Restored \/ Ready \/ WriteMeta \/ WriteMarker \/ Insert
  BY <1>0, <1>4 DEF Launch, Restored, Ready, WriteMeta, WriteMarker, Insert
<1>5. CASE Rotates
  BY <1>0, <1>5 DEF Rotates, DropPrevious, Demote, Promote
<1>6. CASE LoadPolls \/ CountReferences
  BY <1>0, <1>6 DEF LoadPolls, CountReferences
<1>7. CASE Flush \/ Pause \/ Sweep \/ Kill \/ Erase
  BY <1>0, <1>7 DEF Flush, Pause, Sweep, Kill, Erase
<1>8. CASE Stage
  BY <1>8 DEF Stage
<1>9. CASE Unmap
  BY <1>0, <1>9 DEF Unmap
<1>10. CASE FailPlainly \/ FailFlush \/ FailReady \/ FailPersist \/ FailErase \/ HangUp \/ Crash
            \/ Gone
  BY <1>0, <1>10 DEF FailPlainly, FailFlush, FailReady, FailPersist, FailErase, HangUp, Crash,
     Gone, GiveUp
<1>11. CASE FailRestore \/ BeginShutdown
  BY <1>11 DEF FailRestore, BeginShutdown, NoJob
<1> QED
  BY <1>1, <1>2, <1>3, <1>4, <1>5, <1>6, <1>7, <1>8, <1>9, <1>10, <1>11, JobMoves
     DEF Boots, TakesDown, Fails

LEMMA PartiesType ==
    ASSUME Typed
    PROVE  Standing \subseteq Parties /\ Parties \subseteq Machines
<1>1. Standing \subseteq Machines
  BY MappedType, BootHas DEF Standing, Boots1, Booting
<1>2. job.m \in Machines \cup {None}
  BY DEF Typed, JobType, Jobs
<1>3. \A r \in Requests : Checking(r) => req[r].m \in Machines
  BY DEF Typed, ReqShape, Checking
<1> QED
  BY <1>1, <1>2, <1>3 DEF Parties

LEMMA StandingMoves ==
    ASSUME Typed, Next, ~Prepare
    PROVE  Standing' \subseteq Standing
<1>1. CASE Insert
  <2>1. job'.at = "none" /\ Booting
    BY <1>1, BootHas DEF Insert, NoJob, WithMachine
  <2>2. Mapped' \subseteq Mapped \cup {job.m}
    BY <1>1, InsertRuns DEF Typed, Mapped
  <2> QED
    BY <2>1, <2>2 DEF Standing, Boots1, Booting, WithMachine
<1>2. CASE ~Insert
  <2>1. Mapped' \subseteq Mapped
    BY <1>2, MappedShrinks
  <2>2. Boots1' \subseteq Boots1
    BY BootMoves, BootHas DEF Typed, Boots1, Booting
  <2> QED
    BY <2>1, <2>2 DEF Standing
<1> QED
  BY <1>1, <1>2

LEMMA PartiesMove ==
    ASSUME Typed, Next, ~Prepare
    PROVE  Parties' \subseteq Parties
<1>1. Standing' \subseteq Parties /\ Mapped \subseteq Parties
  BY StandingMoves, PartiesType DEF Standing
<1>2. job'.m \in {None} \cup Parties
  BY <1>1, JobMachine DEF Parties
<1>3. ASSUME NEW r \in Requests, Checking(r)' PROVE req'[r].m \in Parties
  <2>1. CASE Comes(r)
    BY <1>1, <2>1 DEF Comes, Mapped
  <2>2. CASE ~Comes(r)
    <3>1. Checking(r) /\ req'[r].m = req[r].m
      BY <1>3, <2>2, OneRequest DEF Typed, Checking, Moves, Ends, NoRequest
    <3> QED
      BY <3>1 DEF Parties
  <2> QED
    BY <2>1, <2>2
<1> QED
  BY <1>1, <1>2, <1>3 DEF Parties

LEMMA ApartKept ==
    ASSUME Typed, ~LateRequests, SlotKept, Apart, Next
    PROVE  Apart'
<1>1. CASE Prepare
  <2>1. /\ job.op = "create" /\ job.at = "prepare" /\ job.ws \in Workspaces
        /\ job'.m = made' /\ job'.at = "launch" /\ job'.op = "create"
        /\ UNCHANGED <<running, req>>
    BY <1>1, JobHas DEF Prepare, Typed, JobType, Jobs
  <2>2. \A r \in Requests : ~Checking(r)'
    BY <1>1, <2>1 DEF Prepare, Prompt, Checking
  <2>3. Standing' \subseteq Mapped \cup {made'} /\ Parties' \subseteq Mapped \cup {made'}
    BY <2>1, <2>2 DEF Standing, Boots1, Parties, Mapped
  <2>4. running[job.ws] = None /\ job.slot \notin Taken
    BY <2>1 DEF Typed, JobShape, OfCreate, SlotKept
  <2>5. ASSUME NEW m \in Mapped
        PROVE  m \in Machines /\ m # made' /\ vm'[m].ws # job.ws /\ vm'[m].slot # job.slot
    <3>1. m \in Machines /\ m # made'
      BY <1>1, MappedType, PrepareStays DEF Typed, CountType, Machines
    <3>2. vm[m].ws # job.ws /\ vm[m].slot # job.slot
      BY <2>4, MappedType, Sets DEF Taken
    <3> QED
      BY <1>1, <3>1, <3>2, PrepareStays DEF Typed, PathsStay
  <2>6. ASSUME NEW m \in Mapped, NEW k \in Mapped PROVE m = k \/ Disjoint(m, k)'
    <3>1. m = k \/ Disjoint(m, k)
      BY DEF Apart, Standing, Parties
    <3> QED
      BY <1>1, <3>1, <2>5, PrepareStays DEF Disjoint, PathsStay, Typed
  <2> QED
    BY <1>1, <2>3, <2>5, <2>6, PrepareStays DEF Apart, Disjoint, Typed
<1>2. CASE ~Prepare
  <2>1. \A k \in Machines : PathsStay(k)
    BY <1>2, VmStays, LaunchStays DEF Stays, Typed
  <2> QED
    BY <1>2, <2>1, StandingMoves, PartiesMove, PartiesType DEF Apart, Disjoint, PathsStay
<1> QED
  BY <1>1, <1>2

\* Two machines in reach of which one is in the map, or about to be.
LEMMA SamePaths ==
    ASSUME Apart, NEW m \in Parties, NEW k \in Standing,
           vm[m].ws = vm[k].ws \/ vm[m].slot = vm[k].slot
    PROVE  m = k
BY DEF Apart, Disjoint

LEMMA JobInReach == ASSUME job.m # None PROVE job.m \in Parties
BY DEF Parties

LEMMA AskerInReach == ASSUME NEW r \in Requests, Checking(r) PROVE req[r].m \in Parties
BY DEF Parties

LEMMA InUseKept ==
    ASSUME Typed, Unused, Dead, Apart, InUse, Next
    PROVE  InUse'
<1> SUFFICES ASSUME NEW r \in Requests, req'[r].at # "free", vm'[req'[r].m].alive
             PROVE  running'[vm'[req'[r].m].ws] = req'[r].m
  BY DEF InUse
<1>1. CASE Comes(r)
  BY <1>1 DEF Comes, Typed, MapOwn
<1>2. CASE ~Comes(r)
  <2> DEFINE m == req[r].m
             w == vm[m].ws
  <2>1. req'[r].m = m /\ req[r].at # "free" /\ ~Gone
    <3>1. ~Gone
      <4>1. Gone => req'[r] = NoRequest
        BY DEF Gone
      <4>2. NoRequest.at = "free"
        BY DEF NoRequest
      <4> QED
        BY <4>1, <4>2
    <3> QED
      BY <1>2, <3>1, OneRequest DEF Typed, Moves, Ends, NoRequest
  <2>2. m \in Machines /\ w \in Workspaces /\ Stays(m)
    BY <2>1, UsedStays
  <2>3. vm[m].alive /\ vm'[m].ws = w
    BY <2>1, <2>2 DEF Stays, PathsStay
  <2>4. running[w] = m /\ m \in Mapped /\ m \in Standing
    BY <2>1, <2>2, <2>3, Sets DEF InUse, Mapped, Standing
  <2>5. CASE Insert
    <3>1. w # job.ws
      BY <2>2, <2>4, <2>5, BootHas, Sets DEF Insert, WithMachine
    <3> QED
      BY <2>1, <2>2, <2>3, <2>4, <2>5, <3>1, InsertRuns DEF Typed
  <2>6. CASE Unmap
    <3>1. job.m \in Machines /\ ~vm[job.m].alive
      BY <2>6, JobHas DEF Unmap, Down, Typed, Dead
    <3>2. vm[job.m].ws # w
      BY <2>3, <2>4, <3>1, SamePaths, JobInReach, Sets
    <3> QED
      BY <2>1, <2>2, <2>3, <2>4, <2>6, <3>2 DEF Unmap, Typed, RunType
  <2>7. ASSUME NEW q \in Requests, Evict(q) PROVE running'[w] = m
    <3>1. Checking(q) /\ ~vm[req[q].m].alive
      BY <2>7 DEF Evict, Checking, Dead
    <3>2. vm[req[q].m].ws # w
      BY <2>3, <2>4, <3>1, SamePaths, AskerInReach
    <3> QED
      BY <2>2, <2>4, <2>7, <3>2 DEF Evict, Evicted, Typed, RunType
  <2>8. CASE UNCHANGED running
    BY <2>1, <2>3, <2>4, <2>8
  <2> QED
    BY <2>1, <2>3, <2>5, <2>6, <2>7, <2>8, RunningMoves
<1> QED
  BY <1>1, <1>2

\* What a step does to the jail and the tap of a machine that is up or about to
\* be offered, and not touched by a job of its own.
LEMMA JailSafe ==
    ASSUME Typed, Dead, Apart, Next, NEW m \in Standing, vm[m].alive \/ Users(m) = {},
           vm[m].ws \in Workspaces, jail[vm[m].ws].of = m,
           job.m = m => vm[m].alive \/ job.at \in WithMachine,
           job.op = "create" /\ job.at \notin WithMachine \cup Reclaims => vm[m].ws # job.ws,
           Idle => running[vm[m].ws] # None,
           ~FailRestore, ~FailReady
    PROVE  jail'[vm[m].ws].of = m
<1> DEFINE w == vm[m].ws
<1>1. CASE Choose \/ Prepare
  <2>1. job.op = "create" /\ job.at \notin WithMachine \cup Reclaims
    BY <1>1, JobHas DEF Choose, Prepare, Typed, WithMachine, Reclaims
  <2>2. w # job.ws
    BY <2>1
  <2>3. CASE Choose
    <3>1. jail' = jail \/ jail' = [jail EXCEPT ![job.ws] = NoJail]
      BY <2>3 DEF Choose
    <3> QED
      BY <2>2, <3>1 DEF Typed, JailType
  <2>4. CASE Prepare
    BY <2>2, <2>4 DEF Prepare, Typed, JailType
  <2> QED
    BY <1>1, <2>3, <2>4
<1>2. CASE WriteMeta
  BY <1>2 DEF WriteMeta, Typed, JailType
<1>3. CASE Erase \/ FailErase
  <2>1. job.at = "erase" /\ job.m \in Machines /\ ~vm[job.m].alive
    BY <1>3, JobHas DEF Erase, FailErase, Down, Typed, Dead
  <2>2. job.m # m
    BY <2>1 DEF WithMachine
  <2>3. vm[job.m].ws # w
    BY <2>1, <2>2, SamePaths, JobInReach, Sets
  <2>4. PICK left : jail' = [jail EXCEPT ![vm[job.m].ws] = left]
    BY <1>3 DEF Erase, FailErase
  <2> QED
    BY <2>3, <2>4 DEF Typed, JailType
<1>4. ASSUME NEW v \in Workspaces, DiscardSnapshot(v) PROVE jail'[w].of = m
  <2>1. jail' = jail \/ (jail' = [jail EXCEPT ![v] = NoJail] /\ running[v] = None)
    BY <1>4 DEF DiscardSnapshot
  <2>2. Idle
    BY <1>4 DEF DiscardSnapshot
  <2> QED
    BY <2>1, <2>2 DEF Typed, JailType
<1>5. ASSUME NEW r \in Requests, Clean(r) PROVE jail'[w].of = m
  <2>1. Checking(r) /\ ~vm[req[r].m].alive
    BY <1>5 DEF Clean, Checking, Dead
  <2>2. req[r].m # m
    BY <2>1 DEF Users
  <2>3. vm[req[r].m].ws # w
    BY <2>1, <2>2, SamePaths, AskerInReach
  <2> QED
    BY <1>5, <2>3 DEF Clean, Remains, Typed, JailType
<1>6. ASSUME NEW k, NEW n, Settles(k, n) PROVE jail'[w].of = m
  <2>1. jail' = [jail EXCEPT ![vm[k].ws].work = @ + n]
    BY <1>6 DEF Settles
  <2> QED
    BY <2>1 DEF Typed, JailType
<1>7. CASE UNCHANGED jail
  BY <1>7
<1> QED
  BY <1>1, <1>2, <1>3, <1>4, <1>5, <1>6, <1>7, JailMoves DEF Flush, WriteBack

LEMMA TapSafe ==
    ASSUME Typed, Dead, Apart, Next, NEW m \in Standing, vm[m].alive \/ Users(m) = {},
           vm[m].slot \in Slots, tap[vm[m].slot] = m,
           job.at = "launch" => job.slot # vm[m].slot,
           ~FailRestore, ~FailReady, ~Gone, ~(Kill /\ job.m = m)
    PROVE  tap'[vm[m].slot] = m
<1> DEFINE s == vm[m].slot
<1>1. CASE Launch
  BY <1>1 DEF Launch, Typed, TapType
<1>2. CASE Kill
  <2>1. job.m \in Machines /\ job.m # m
    BY <1>2, JobHas DEF Kill, Down, Typed
  <2>2. vm[job.m].slot # s
    BY <2>1, SamePaths, JobInReach, Sets
  <2> QED
    BY <1>2, <2>2 DEF Kill, Typed, TapType
<1>3. ASSUME NEW r \in Requests, Clean(r) PROVE tap'[s] = m
  <2>1. Checking(r) /\ ~vm[req[r].m].alive
    BY <1>3 DEF Clean, Checking, Dead
  <2>2. req[r].m # m
    BY <2>1 DEF Users
  <2>3. vm[req[r].m].slot # s
    BY <2>1, <2>2, SamePaths, AskerInReach
  <2> QED
    BY <1>3, <2>3 DEF Clean, Remains, Typed, TapType
<1>4. CASE UNCHANGED tap
  BY <1>4
<1> QED
  BY <1>1, <1>2, <1>3, <1>4, TapMoves

LEMMA BootIntactKept ==
    ASSUME Typed, Unused, Dead, Apart, BootIntact, Next
    PROVE  BootIntact'
<1> SUFFICES ASSUME job'.at \in WithMachine
             PROVE  /\ jail'[job'.ws].of = job'.m
                    /\ job'.at \in Launched => tap'[job'.slot] = job'.m
  BY DEF BootIntact, Booting
<1>1. CASE Prepare
  <2>1. job.ws \in Workspaces
    BY <1>1, JobHas DEF Prepare, Typed
  <2> QED
    BY <1>1, <2>1 DEF Prepare, Typed, JailType, JobType, Jobs, Launched
<1>2. CASE ~Prepare
  <2>1. /\ job.at \in WithMachine /\ ~Insert
        /\ job'.m = job.m /\ job'.ws = job.ws /\ job'.slot = job.slot
        /\ job'.at \in Launched => job.at \in Launched \/ Launch
    BY <1>2, BootMoves DEF Typed
  <2>2. /\ job.op = "create" /\ job.ws \in Workspaces /\ job.m \in Machines /\ Booting
        /\ vm[job.m].ws = job.ws /\ vm[job.m].slot = job.slot
    BY <2>1, BootHas
  <2>3. job.m \in Standing /\ Users(job.m) = {} /\ ~Idle
    BY <2>2 DEF Standing, Boots1, Unused, Idle
  <2>4. ~FailRestore /\ ~FailReady /\ ~Gone /\ ~Kill
    BY <2>1, OffThePath DEF Fails, TakesDown, BootPath, Typed
  <2>5. jail[job.ws].of = job.m /\ (job.at \in Launched => tap[job.slot] = job.m)
    BY <2>2 DEF BootIntact
  <2>6. jail'[job.ws].of = job.m
    BY <2>1, <2>2, <2>3, <2>4, <2>5, JailSafe
  <2>7. job.slot \in Slots
    BY DEF Typed, JobType, Jobs
  <2>8. CASE Launch
    BY <2>1, <2>6, <2>7, <2>8 DEF Launch, Typed, TapType
  <2>9. CASE job.at \in Launched
    <3>1. job.at # "launch"
      BY <2>9 DEF Launched
    <3>2. tap'[job.slot] = job.m
      BY <2>2, <2>3, <2>4, <2>5, <2>7, <2>9, <3>1, TapSafe
    <3> QED
      BY <2>1, <2>6, <3>2
  <2> QED
    BY <2>1, <2>6, <2>8, <2>9
<1> QED
  BY <1>1, <1>2

LEMMA ServedIntactKept ==
    ASSUME Typed, SlotKept, Dead, Apart, BootIntact, ServedIntact, Next
    PROVE  ServedIntact'
<1> SUFFICES ASSUME NEW w \in Workspaces, running'[w] # None, vm'[running'[w]].alive
             PROVE  /\ tap'[vm'[running'[w]].slot] = running'[w]
                    /\ jail'[vm'[running'[w]].ws].of = running'[w]
  BY DEF ServedIntact, Intact
<1>1. CASE Insert /\ w = job.ws
  <2>1. job.at \in Launched /\ UNCHANGED <<vm, jail, tap>>
    BY <1>1 DEF Insert, files, Launched, WithMachine
  <2>2. Booting /\ running'[w] = job.m /\ vm[job.m].ws = job.ws /\ vm[job.m].slot = job.slot
    BY <1>1, <2>1, InsertRuns, BootHas DEF Typed, Launched
  <2> QED
    BY <2>1, <2>2 DEF BootIntact
<1>2. CASE ~(Insert /\ w = job.ws)
  <2> DEFINE m == running[w]
  <2>1. running'[w] = m /\ m # None
    BY <1>2, RunningShrinks, InsertRuns DEF Typed
  <2>2. m \in Mapped /\ m \in Standing /\ m \in Machines /\ vm[m].ws = w
    BY <2>1, MappedType DEF Mapped, Standing, Typed, MapOwn
  <2>3. Stays(m)
    <3>1. CASE Prepare
      BY <2>2, <3>1, MappedType, PrepareStays DEF Typed, CountType, Machines
    <3>2. CASE Launch
      BY <2>2, <3>2, BootHas, LaunchStays DEF Typed, Launch, WithMachine
    <3>3. CASE ~Prepare /\ ~Launch
      BY <2>2, <3>3, VmStays DEF Typed
    <3> QED
      BY <3>1, <3>2, <3>3
  <2>4. vm[m].alive /\ vm'[m].ws = w /\ vm'[m].slot = vm[m].slot
    BY <2>1, <2>2, <2>3 DEF Stays, PathsStay
  <2>5. tap[vm[m].slot] = m /\ jail[w].of = m
    BY <2>1, <2>2, <2>4 DEF ServedIntact, Intact
  <2>6. vm[m].slot \in Slots /\ vm[m].slot \in Taken
    BY <2>2 DEF Taken, Typed, VmType, VmRecords
  <2>7. job.op = "create" => w # job.ws
    BY <2>1 DEF Typed, JobShape, OfCreate
  <2>8. job.at \in WithMachine => job.slot # vm[m].slot /\ job.op = "create"
    BY <2>6, BootHas DEF SlotKept
  <2>9. ~Gone
    BY <2>1 DEF Gone
  <2>10. CASE FailRestore \/ FailReady
    <3>1. job.at \in WithMachine /\ job.op = "create"
      BY <2>8, <2>10 DEF FailRestore, FailReady, WithMachine
    <3>2. PICK left : /\ jail' = [jail EXCEPT ![job.ws] = left]
                      /\ tap' = [tap EXCEPT ![job.slot] = None]
      BY <2>10 DEF FailRestore, FailReady, CleanFiles
    <3>3. jail'[w].of = m
      BY <2>5, <2>7, <3>1, <3>2 DEF Typed, JailType
    <3>4. tap'[vm[m].slot] = m
      BY <2>5, <2>6, <2>8, <3>1, <3>2 DEF Typed, TapType
    <3> QED
      BY <2>1, <2>4, <3>3, <3>4
  <2>11. CASE ~FailRestore /\ ~FailReady
    <3>1. ~(Kill /\ job.m = m)
      BY <2>1, <2>2 DEF Kill, Typed, VmType, VmRecords
    <3>2. tap'[vm[m].slot] = m
      <4>1. job.at = "launch" => job.slot # vm[m].slot
        BY <2>8 DEF WithMachine
      <4> QED
        BY <2>2, <2>4, <2>5, <2>6, <2>9, <2>11, <3>1, <4>1, TapSafe
    <3>3. jail'[w].of = m
      BY <2>1, <2>2, <2>4, <2>5, <2>7, <2>11, JailSafe
    <3> QED
      BY <2>1, <2>4, <3>2, <3>3
  <2> QED
    BY <2>10, <2>11
<1> QED
  BY <1>1, <1>2

-----------------------------------------------------------------------------
(* The steps of whoever holds the lock.                                    *)

LEMMA JobFields ==
    ASSUME JobType,
           NEW at \in Boot \cup Rotate \cup Down \cup {"none", "reclaim", "count", "next"}
    PROVE  LET j == [job EXCEPT !.at = at]
           IN  /\ j.op = job.op /\ j.ws = job.ws /\ j.m = job.m /\ j.cp = job.cp /\ j.at = at
               /\ j.slot = job.slot
BY DEF JobType, Jobs

\* The job only moves on.
Goes(from, to) ==
    /\ job.at = from /\ job'.at = to
    /\ job'.op = job.op /\ job'.ws = job.ws /\ job'.m = job.m /\ job'.cp = job.cp

LEMMA PlainSteps ==
    ASSUME JobType
    PROVE  /\ Restored => Goes("restore", "await")
           /\ Launch => Goes("launch", "restore") \/ Goes("launch", "await")
           /\ Ready => \/ Goes("await", "meta") /\ job.ws \in Durable
                       \/ Goes("await", "insert") /\ job.ws \notin Durable
           /\ WriteMeta => Goes("meta", "marker")
           /\ WriteMarker => Goes("marker", "insert")
           /\ DropPrevious => Goes("dropPrev", "demote")
           /\ Demote => Goes("demote", "promote")
           /\ Promote => \/ job.op = "create" /\ Goes("promote", "choose")
                         \/ /\ job.op # "create"
                            /\ Goes("promote", "sweep") \/ Goes("promote", "kill")
           /\ Sweep => Goes("sweep", "kill")
           /\ Kill => Goes("kill", "erase")
           /\ Erase => Goes("erase", "unmap")
           /\ Flush => Goes("flush", "pause")
           /\ Pause => Goes("pause", "stage")
<1>1. \A at \in Boot \cup Rotate \cup Down :
        Step(at) => Goes(job.at, at)
  BY JobFields DEF Step, Goes
<1>2. {"await", "restore", "meta", "insert", "marker", "demote", "promote", "choose", "sweep",
       "kill", "erase", "unmap", "pause", "stage"} \subseteq Boot \cup Rotate \cup Down
  BY DEF Boot, Rotate, Down
<1>3. /\ Restored => Goes("restore", "await")
      /\ WriteMeta => Goes("meta", "marker")
      /\ WriteMarker => Goes("marker", "insert")
      /\ DropPrevious => Goes("dropPrev", "demote")
      /\ Demote => Goes("demote", "promote")
      /\ Sweep => Goes("sweep", "kill")
      /\ Kill => Goes("kill", "erase")
      /\ Erase => Goes("erase", "unmap")
      /\ Flush => Goes("flush", "pause")
      /\ Pause => Goes("pause", "stage")
  BY <1>1, <1>2 DEF Restored, WriteMeta, WriteMarker, DropPrevious, Demote, Sweep, Kill, Erase,
     Flush, Pause
<1>4. Launch => Goes("launch", "restore") \/ Goes("launch", "await")
  BY <1>1, <1>2 DEF Launch
<1>5. Ready => \/ Goes("await", "meta") /\ job.ws \in Durable
               \/ Goes("await", "insert") /\ job.ws \notin Durable
  BY <1>1, <1>2 DEF Ready
<1>6. Promote => \/ job.op = "create" /\ Goes("promote", "choose")
                 \/ job.op # "create" /\ (Goes("promote", "sweep") \/ Goes("promote", "kill"))
  BY <1>1, <1>2 DEF Promote
<1> QED
  BY <1>3, <1>4, <1>5, <1>6

\* A create has found the disks of an interrupted guest, or none.
Recovers ==
    /\ Recover /\ job'.ws = job.ws /\ job.op = "create" /\ job.at = "recover" /\ job'.op = job.op
    /\ \/ job'.at = "choose" /\ (job.ws \in Durable => jail[job.ws].of = None)
       \/ /\ job'.at = "dropPrev" /\ job.ws \in Durable /\ Recoverable(job.ws)
          /\ Is(job'.cp, jail[job.ws].work)

\* A create has found what to boot from.
Chooses ==
    /\ Choose /\ job'.ws = job.ws /\ job.op = "create" /\ job.at = "choose" /\ job'.op = job.op
    /\ job'.at = "prepare" /\ (job.ws \in Durable => job'.cp = Saved(job.ws))
    /\ marker[job.ws] => Exists(job'.cp)

\* It has its machine.
Prepares ==
    /\ Prepare /\ job'.ws = job.ws /\ job.at = "prepare" /\ job'.op = job.op
    /\ job'.at = "launch" /\ job'.m = made'

\* It begins, and if need be takes down a parked machine first.
Reclaimed(v) ==
    /\ BeginCreate(v) /\ job'.ws = v /\ job.op = "none" /\ job'.op = "create"
    /\ \/ job'.at = "recover"
       \/ job'.at = "kill" /\ job'.m \in Machines /\ vm[job'.m].parked

LEMMA RecoverSteps ==
    ASSUME Typed
    PROVE  Recover => job' = NoJob \/ Recovers
<1> SUFFICES ASSUME Recover PROVE job' = NoJob \/ Recovers
  OBVIOUS
<1>1. CASE /\ job.ws \in Ephemeral \/ jail[job.ws].of = None
           /\ Step("choose")
  <2>1. job'.ws = job.ws /\ job'.op = job.op /\ job'.at = "choose"
    BY <1>1, JobFields DEF Step, Typed, Boot
  <2> QED
    BY <1>1, <2>1 DEF Recovers, Recover
<1>2. CASE /\ job.ws \in Durable /\ jail[job.ws].of # None /\ jail[job.ws].meta
           /\ job' = [job EXCEPT !.at = "dropPrev",
                         !.cp = [kind |-> "disks", work |-> jail[job.ws].work,
                                 slot |-> vm[jail[job.ws].of].slot]]
  <2>1. /\ job'.ws = job.ws /\ job'.op = job.op /\ job'.at = "dropPrev"
        /\ Is(job'.cp, jail[job.ws].work)
    BY <1>2 DEF Typed, JobType, Jobs, Is, Exists
  <2> QED
    BY <1>2, <2>1 DEF Recovers, Recover, Recoverable
<1>3. \/ (job.ws \in Ephemeral \/ jail[job.ws].of = None) /\ Step("choose")
      \/ /\ job.ws \in Durable /\ jail[job.ws].of # None /\ jail[job.ws].meta
         /\ job' = [job EXCEPT !.at = "dropPrev",
                         !.cp = [kind |-> "disks", work |-> jail[job.ws].work,
                                 slot |-> vm[jail[job.ws].of].slot]]
      \/ job' = NoJob
  BY DEF Recover
<1> QED
  BY <1>1, <1>2, <1>3

LEMMA ChooseSteps ==
    ASSUME Typed, Choose
    PROVE  \/ job' = NoJob /\ UNCHANGED jail
           \/ Chooses /\ jail' = [jail EXCEPT ![job.ws] = NoJail]
<1>1. PICK cp, slot :
        /\ job.ws \in Durable => cp = Saved(job.ws)
        /\ \/ job' = NoJob /\ UNCHANGED jail
           \/ /\ job' = [job EXCEPT !.at = "prepare", !.cp = cp, !.slot = slot]
              /\ jail' = [jail EXCEPT ![job.ws] = NoJail]
              /\ marker[job.ws] => Exists(cp)
  <2>1. PICK require \in BOOLEAN :
          LET c == IF job.ws \in Durable THEN Saved(job.ws) ELSE NoCheckpoint
              restore == ~job.plain /\ c.kind = "full"
          IN  \/ job' = NoJob /\ UNCHANGED jail
              \/ /\ job' = [job EXCEPT !.at = "prepare", !.cp = c,
                             !.slot = IF restore THEN c.slot ELSE FirstFree]
                 /\ jail' = [jail EXCEPT ![job.ws] = NoJail]
                 /\ marker[job.ws] => Exists(c)
    BY DEF Choose, Refused
  <2> QED
    BY <2>1
<1>2. CASE /\ job' = [job EXCEPT !.at = "prepare", !.cp = cp, !.slot = slot]
           /\ jail' = [jail EXCEPT ![job.ws] = NoJail]
           /\ marker[job.ws] => Exists(cp)
  <2>1. job'.ws = job.ws /\ job'.op = job.op /\ job'.at = "prepare" /\ job'.cp = cp
    BY <1>2 DEF Typed, JobType, Jobs
  <2> QED
    BY <1>1, <1>2, <2>1 DEF Chooses, Choose
<1> QED
  BY <1>1, <1>2

LEMMA PrepareSteps ==
    ASSUME Typed
    PROVE  Prepare => Prepares /\ job.op = "create"
<1>1. Prepare => job.op = "create"
  BY JobHas DEF Prepare, Typed
<1> QED
  BY <1>1 DEF Prepare, Prepares, Typed, JobType, Jobs

LEMMA ReclaimSteps ==
    ASSUME Typed, NEW v \in Workspaces
    PROVE  BeginCreate(v) => Reclaimed(v)
BY DEF BeginCreate, Reclaimed, NoJob, MayCreate, Idle, Parked

\* A job begins to take down the machine of v.
Grabs(v) ==
    /\ job'.ws = v /\ job'.m = running[v] /\ running[v] # None /\ UNCHANGED <<running, files>>
    /\ job'.at \in {"next", "flush", "kill"} /\ (v \in Durable => job'.at # "kill")

\* The reaper goes on.
CountsOn ==
    /\ LoadPolls \/ CountReferences
    /\ job.at \in {"next", "count"} /\ job'.ws = job.ws /\ job'.m = job.m /\ job'.op = job.op
    /\ job'.at \in {"count", "flush", "kill"} /\ (job.ws \in Durable => job'.at # "kill")

\* The disks of the paused guest are linked into the next checkpoint.
Stages ==
    /\ Stage /\ job.at = "stage" /\ job'.at = "dropPrev"
    /\ job'.ws = job.ws /\ job'.m = job.m /\ job'.op = job.op
    /\ Is(job'.cp, jail[job.ws].work)

LEMMA GrabSteps ==
    ASSUME Typed, NEW v \in Workspaces
    PROVE  BeginDestroy(v) \/ BeginReap(v) \/ ShutdownNext(v) => Grabs(v)
<1>1. BeginDestroy(v) => Grabs(v)
  BY DEF BeginDestroy, NoJob, FirstStep, Grabs
<1>2. BeginReap(v) => Grabs(v)
  BY DEF BeginReap, NoJob, Grabs
<1>3. ShutdownNext(v) => Grabs(v)
  <2>1. ASSUME NEW m, NEW at
        PROVE  LET j == [job EXCEPT !.ws = v, !.m = m, !.at = at]
               IN  j.ws = v /\ j.m = m /\ j.at = at
    BY DEF Typed, JobType, Jobs
  <2> QED
    BY <2>1 DEF ShutdownNext, FirstStep, Grabs
<1> QED
  BY <1>1, <1>2, <1>3

LEMMA CountSteps ==
    ASSUME Typed
    PROVE  /\ LoadPolls => CountsOn
           /\ CountReferences => job' = NoJob \/ CountsOn
<1>1. ASSUME NEW at, NEW polls
      PROVE  LET j == [job EXCEPT !.at = at, !.polls = polls]
             IN  j.ws = job.ws /\ j.m = job.m /\ j.op = job.op /\ j.at = at
  BY DEF Typed, JobType, Jobs
<1>2. LoadPolls => CountsOn
  BY <1>1 DEF LoadPolls, CountsOn
<1>3. CountReferences => job' = NoJob \/ CountsOn
  <2> SUFFICES ASSUME CountReferences, job' # NoJob PROVE CountsOn
    OBVIOUS
  <2>1. job.at = "count" /\ job' = [job EXCEPT !.at = FirstStep(job.ws), !.polls = 0]
    BY DEF CountReferences
  <2>2. job'.ws = job.ws /\ job'.m = job.m /\ job'.op = job.op /\ job'.at = FirstStep(job.ws)
    BY <1>1, <2>1
  <2> QED
    BY <2>1, <2>2 DEF CountsOn, FirstStep
<1> QED
  BY <1>2, <1>3

LEMMA StageSteps ==
    ASSUME Typed
    PROVE  Stage => Stages
BY DEF Stage, Stages, Typed, JobType, Jobs, Is, Exists

LEMMA UnmapSteps ==
    ASSUME Typed, Unmap
    PROVE  \/ job' = NoJob
           \/ /\ job.op = "create" /\ job'.op = "create" /\ job'.at = "recover"
              /\ job'.ws = job.ws /\ job'.m = None
           \/ /\ job.op = "shutdown" /\ job'.op = "shutdown" /\ job'.at = "next"
              /\ job'.m = None /\ job'.ws = None
<1>1. CASE job.op = "create"
  <2>1. job' = [job EXCEPT !.at = "recover", !.m = None]
    BY <1>1 DEF Unmap
  <2> QED
    BY <1>1, <2>1 DEF Typed, JobType, Jobs
<1>2. CASE job.op = "shutdown"
  <2>1. job' = [job EXCEPT !.at = "next", !.m = None, !.ws = None]
    BY <1>2 DEF Unmap
  <2> QED
    BY <1>2, <2>1 DEF Typed, JobType, Jobs
<1>3. CASE job.op \notin {"create", "shutdown"}
  BY <1>3 DEF Unmap
<1> QED
  BY <1>1, <1>2, <1>3

LEMMA RestoreSteps ==
    ASSUME Typed
    PROVE  FailRestore => job.op = "create" /\ job'.op = "create" /\ job'.at = "recover"
                          /\ job'.ws = job.ws
<1>1. FailRestore => job.op = "create"
  BY JobHas DEF FailRestore, Typed, WithMachine
<1> QED
  BY <1>1 DEF FailRestore, Typed, JobType, Jobs

LEMMA FailSteps ==
    Fails => job' = NoJob \/ FailRestore
BY DEF Fails, FailPlainly, FailFlush, FailReady, FailPersist, FailErase, HangUp, Crash, Gone, GiveUp

LEMMA ShutdownSteps ==
    ASSUME BeginShutdown
    PROVE  job'.op = "shutdown" /\ job'.at = "next" /\ job'.m = None /\ job'.ws = None
BY DEF BeginShutdown, NoJob

LEMMA CreateSteps ==
    ASSUME Typed, Next, job'.op = "create"
    PROVE  \/ UNCHANGED job
           \/ \E v \in Workspaces : Reclaimed(v)
           \/ /\ job.op = "create"
              /\ \/ Recovers \/ Chooses \/ Prepares \/ Launch \/ Restored \/ Ready
                 \/ WriteMeta \/ WriteMarker \/ Rotates \/ Kill \/ Erase
                 \/ (Unmap \/ FailRestore) /\ job'.at = "recover" /\ job'.ws = job.ws
<1>0. job' # NoJob
  BY DEF NoJob
<1>1. ASSUME NEW v \in Workspaces, BeginDestroy(v) \/ BeginReap(v) \/ ShutdownNext(v)
      PROVE  FALSE
  <2>1. BeginDestroy(v) \/ BeginReap(v) => job'.op # "create"
    BY DEF BeginDestroy, BeginReap, NoJob
  <2>2. ShutdownNext(v) => job'.op = job.op /\ job.op = "shutdown"
    BY DEF ShutdownNext, Typed, JobType, Jobs
  <2> QED
    BY <1>1, <2>1, <2>2
<1>2. ASSUME LoadPolls \/ CountReferences \/ Flush \/ Pause \/ Stage \/ Sweep
      PROVE  FALSE
  <2>1. job.op # "create" /\ job'.op = job.op
    BY <1>0, <1>2, CountSteps, PlainSteps, StageSteps, JobHas
    DEF CountsOn, Goes, Stages, Typed, Down, Reclaims, LoadPolls, CountReferences
  <2> QED
    BY <2>1
<1>3. CASE Boots
  <2>1. job.op = "create"
    BY <1>3, BootsOp DEF Typed
  <2> QED
    BY <1>0, <1>3, <2>1, RecoverSteps, ChooseSteps, PrepareSteps DEF Boots, Insert
<1>4. CASE Rotates \/ Kill \/ Erase
  BY <1>4, PlainSteps DEF Goes, Rotates, Typed
<1>5. CASE Unmap
  BY <1>0, <1>5, UnmapSteps
<1>6. CASE Fails \/ Gone \/ BeginShutdown
  BY <1>0, <1>6, FailSteps, RestoreSteps, ShutdownSteps DEF Gone
<1>7. ASSUME NEW v \in Workspaces, BeginCreate(v) PROVE \E u \in Workspaces : Reclaimed(u)
  BY <1>7, ReclaimSteps
<1> QED
  BY <1>1, <1>2, <1>3, <1>4, <1>5, <1>6, <1>7, JobMoves DEF TakesDown

LEMMA TakerSteps ==
    ASSUME Typed, Next, job'.op \in {"destroy", "reap", "shutdown"}
    PROVE  \/ UNCHANGED job
           \/ \E v \in Workspaces : Grabs(v)
           \/ job'.at = "next" /\ job'.m = None /\ job'.ws = None
           \/ /\ Taker
              /\ \/ CountsOn \/ Flush \/ Pause \/ Stages \/ Rotates \/ Sweep \/ Kill \/ Erase
<1>0. job' # NoJob
  BY DEF NoJob
<1>1. ASSUME NEW v \in Workspaces, BeginDestroy(v) \/ BeginReap(v) \/ ShutdownNext(v)
      PROVE  Grabs(v)
  BY <1>1, GrabSteps
<1>2. ASSUME NEW v \in Workspaces, BeginCreate(v) PROVE FALSE
  BY <1>2, ReclaimSteps DEF Reclaimed
<1>3. ASSUME Boots PROVE FALSE
  BY <1>3, BootsOp DEF Typed
<1>4. CASE LoadPolls \/ CountReferences
  BY <1>0, <1>4, CountSteps DEF CountsOn, Taker
<1>5. CASE Flush \/ Pause \/ Sweep \/ Kill \/ Erase \/ Rotates
  BY <1>5, PlainSteps DEF Goes, Rotates, Typed, Taker
<1>6. CASE Stage
  BY <1>6, StageSteps DEF Stages, Taker
<1>7. CASE Unmap
  BY <1>0, <1>7, UnmapSteps
<1>8. CASE Fails \/ Gone \/ BeginShutdown
  BY <1>0, <1>8, FailSteps, RestoreSteps, ShutdownSteps DEF Gone
<1> QED
  BY <1>1, <1>2, <1>3, <1>4, <1>5, <1>6, <1>7, <1>8, JobMoves DEF TakesDown

LEMMA TakerHas ==
    ASSUME Typed, Taker, job.at # "next"
    PROVE  job.m \in Machines /\ job.ws \in Workspaces /\ vm[job.m].ws = job.ws /\ job.m # None
BY Sets DEF Typed, JobShape, OfTaker, Taker

-----------------------------------------------------------------------------
(* What only the memory of a guest has.                                    *)

LEMMA CacheMoves ==
    Next => \/ UNCHANGED cache
            \/ \E r \in Requests : Work(r)
            \/ Flush \/ \E m \in Machines : WriteBack(m)
BY DEF Next, Begins, Boots, Rotates, TakesDown, Fails, Asks, CreateExisting, BeginCreate,
       BeginDestroy, BeginReap, Park, DiscardSnapshot, ShutdownNext, Recover, Choose,
       Prepare, Launch, Restored, Ready, WriteMeta, WriteMarker, Insert, DropPrevious, Demote,
       Promote, LoadPolls, CountReferences, Pause, Stage, Sweep, Kill, Erase, Unmap,
       FailPlainly, FailFlush, FailRestore, FailReady, FailPersist, FailErase, HangUp,
       Crash, BeginHostShutdown, CancelHostShutdown, PowerOff, BeginShutdown, Restart, Gone,
       Arrive, CheckFlag, FindsItUp, FindsItDead, Evict, Clean, Resume, Done, TimePasses,
       GuestExits, progress

\* Nothing is added to what a guest has to write, except by a request to it.
LEMMA StaysWritten ==
    ASSUME Typed, PastType, Next, NEW m \in Machines, cache[m] = 0,
           \A r \in Requests : Work(r) => req[r].m # m
    PROVE  cache'[m] = 0
<1>1. CASE UNCHANGED cache
  BY <1>1
<1>2. ASSUME NEW r \in Requests, Work(r) PROVE cache'[m] = 0
  BY <1>2 DEF Work, PastType
<1>3. CASE Flush
  <2>1. cache' = [cache EXCEPT ![job.m] = @ - cache[job.m]]
    BY <1>3 DEF Flush, Settles, SyncAll
  <2> QED
    BY <2>1 DEF PastType
<1>4. ASSUME NEW k \in Machines, WriteBack(k) PROVE cache'[m] = 0
  <2>1. cache' = [cache EXCEPT ![k] = @ - 1] /\ k # m
    BY <1>4 DEF WriteBack, Settles
  <2> QED
    BY <2>1 DEF PastType
<1> QED
  BY <1>1, <1>2, <1>3, <1>4, CacheMoves

LEMMA BlankKept ==
    ASSUME Typed, PastType, Unused, Blank, Next
    PROVE  Blank'
<1>1. \A r \in Requests : Work(r) => req[r].m \in Machines /\ req[r].m <= made
  BY Sets DEF Work, Typed, ReqShape, MadeType, CountType, Machines
<1>2. ASSUME NEW m \in Machines, m > made PROVE cache'[m] = 0
  BY <1>1, <1>2, StaysWritten DEF Blank, Machines, Typed, CountType
<1>3. made \in Int /\ made' \in Int /\ made <= made'
  BY MadeTypeKept, CountTypeKept DEF Typed, CountType
<1>4. ASSUME job'.at \in WithMachine PROVE cache'[job'.m] = 0
  <2>1. CASE Prepare
    <3>1. job'.m = made' /\ made' = made + 1 /\ made' \in Machines
      BY <2>1, PrepareStays DEF Prepare, Typed, JobType, Jobs
    <3> QED
      BY <1>2, <1>3, <3>1
  <2>2. CASE ~Prepare
    <3>1. job.at \in WithMachine /\ job'.m = job.m
      BY <1>4, <2>2, BootMoves DEF Typed
    <3>2. job.m \in Machines /\ Booting
      BY <3>1, BootHas
    <3>3. \A r \in Requests : req[r].m # job.m
      BY <3>2 DEF Unused, Users
    <3> QED
      BY <3>1, <3>2, <3>3, StaysWritten DEF Blank
  <2> QED
    BY <2>1, <2>2
<1> QED
  BY <1>2, <1>3, <1>4 DEF Blank, Booting, Machines

LEMMA ShutdownBegins ==
    ASSUME Typed, Next, job.op # "shutdown", job'.op = "shutdown"
    PROVE  BeginShutdown
<1>1. ASSUME NEW v \in Workspaces
      PROVE  ~BeginCreate(v) /\ ~BeginDestroy(v) /\ ~BeginReap(v) /\ ~ShutdownNext(v)
  <2>1. ~BeginCreate(v)
    BY ReclaimSteps DEF Reclaimed
  <2>2. ~BeginDestroy(v) /\ ~BeginReap(v)
    BY DEF BeginDestroy, BeginReap, NoJob
  <2> QED
    BY <2>1, <2>2 DEF ShutdownNext
<1>2. job' # NoJob /\ ~Gone
  <2>1. job' # NoJob
    BY DEF NoJob
  <2> QED
    BY <2>1 DEF Gone
<1>3. ~Boots
  BY BootsOp DEF Typed
<1>4. ~Rotates
  BY PlainSteps DEF Rotates, Goes, Typed
<1>5. ~TakesDown
  BY <1>2, PlainSteps, CountSteps, StageSteps, UnmapSteps
     DEF TakesDown, Goes, CountsOn, Stages, Typed
<1>6. ~Fails
  BY <1>2, FailSteps, RestoreSteps
<1> QED
  BY <1>1, <1>2, <1>3, <1>4, <1>5, <1>6, JobMoves

\* No request comes to a guest while the service is shut down.
LEMMA DrainedKept ==
    ASSUME Typed, Drained, Next
    PROVE  Drained'
<1> SUFFICES ASSUME job'.op = "shutdown"
             PROVE  /\ \A r \in Requests : req'[r].at = "free"
                    /\ job'.m # None => job'.m \in Mapped'
  BY DEF Drained
<1>1. ASSUME job.op = "shutdown", NEW r \in Requests PROVE req'[r].at = "free"
  <2>1. req[r].at = "free"
    BY <1>1 DEF Drained
  <2> QED
    BY <1>1, <2>1, OneRequest DEF Typed, Moves, Ends, Comes, NoRequest
<1>2. ASSUME job.op = "shutdown", job'.m # None PROVE job'.m \in Mapped'
  <2>1. UNCHANGED running
    <3>1. ~Insert
      BY <1>2, InsertRuns DEF Typed
    <3>2. ~Unmap /\ ~Gone
      <4>1. job' # NoJob
        BY DEF NoJob
      <4> QED
        BY <1>2, <4>1, UnmapSteps DEF Gone
    <3>3. \A r \in Requests : ~Evict(r)
      BY <1>2 DEF Drained, Evict
    <3> QED
      BY <3>1, <3>2, <3>3, RunningMoves
  <2>2. job'.m \in Mapped
    <3>1. ASSUME job'.m = job.m PROVE job'.m \in Mapped
      BY <1>2, <3>1 DEF Drained
    <3>2. ASSUME NEW v \in Workspaces, Grabs(v) PROVE job'.m \in Mapped
      BY <3>2 DEF Grabs, Mapped
    <3>3. CASE CountsOn \/ Flush \/ Pause \/ Stages \/ Rotates \/ Sweep \/ Kill \/ Erase
      BY <3>1, <3>3, PlainSteps DEF Goes, CountsOn, Stages, Rotates, Typed
    <3> QED
      BY <1>2, <3>1, <3>2, <3>3, TakerSteps
  <2> QED
    BY <2>1, <2>2 DEF Mapped
<1>3. CASE job.op # "shutdown"
  <2>1. BeginShutdown
    BY <1>3, ShutdownBegins
  <2> QED
    BY <2>1, ShutdownSteps DEF BeginShutdown
<1> QED
  BY <1>1, <1>2, <1>3

\* A guest that the reaper or a shutdown takes down has nothing left to write once
\* it was told to: only polls reach it.
LEMMA FlushedKept ==
    ASSUME Typed, PastType, OnlyPolls, Drained, Flushed, Next
    PROVE  Flushed'
<1> SUFFICES ASSUME job'.op \in {"reap", "shutdown"}, job'.ws \in Durable, job'.at \in StillUp
             PROVE  cache'[job'.m] = 0
  BY DEF Flushed
<1>1. ASSUME job.op = job'.op, job.ws = job'.ws, job.m = job'.m, job.at \in StillUp
      PROVE  cache'[job'.m] = 0
  <2>1. job.m \in Machines /\ job.m # None
    BY <1>1, TakerHas DEF Taker, StillUp, Rotate
  <2>2. \A r \in Requests : Work(r) => req[r].m # job.m
    BY <1>1 DEF Work, OnlyPolls, Drained, StillUp, Down, Rotate
  <2> QED
    BY <1>1, <2>1, <2>2, StaysWritten DEF Flushed
<1>2. CASE Flush
  <2>1. job'.m = job.m /\ cache' = [cache EXCEPT ![job.m] = @ - cache[job.m]]
    BY <1>2, PlainSteps DEF Flush, Settles, SyncAll, Goes, Typed
  <2>2. job.m \in Machines
    BY <1>2, JobHas DEF Flush, Down, Typed
  <2> QED
    BY <2>1, <2>2 DEF PastType
<1>3. CASE UNCHANGED job
  BY <1>1, <1>3
<1>4. CASE Pause \/ Stages \/ Rotates \/ Sweep \/ Kill \/ Erase
  <2>1. job'.op = job.op /\ job'.ws = job.ws /\ job'.m = job.m /\ job.at \in StillUp
    BY <1>4, PlainSteps DEF Goes, Stages, Rotates, Rotate, StillUp, Typed
  <2> QED
    BY <1>1, <2>1
<1>5. ~CountsOn /\ job'.at # "next" /\ \A v \in Workspaces : ~Grabs(v)
  BY DEF CountsOn, Grabs, StillUp, Rotate
<1> QED
  BY <1>2, <1>3, <1>4, <1>5, TakerSteps

-----------------------------------------------------------------------------
(* The invariant.                                                          *)

LEMMA InitInv == Init => HostInv
<1> SUFFICES ASSUME Init PROVE HostInv
  OBVIOUS
<1>1. TypeOK /\ Shape
  BY InitType
<1>2. job = NoJob /\ Mapped = {} /\ \A r \in Requests : req[r] = NoRequest
  BY DEF Init, Mapped
<1>3. job.op = "none" /\ job.at = "none" /\ job.m = None
  BY <1>2 DEF NoJob
<1>4. Standing = {} /\ ~Booting
  BY <1>2, <1>3 DEF Standing, Boots1, Booting
<1>5. SlotKept /\ Unused /\ Dead /\ Reserved /\ Apart /\ InUse /\ BootIntact /\ Reaper
  BY <1>2, <1>3, <1>4
     DEF SlotKept, Unused, Dead, Reserved, Apart, InUse, BootIntact, Reaper, Flagged, Counts,
         OnlyPolls, NoRequest, Idle
<1>6. ServedIntact
  BY DEF Init, ServedIntact
<1>7. Drained /\ Blank /\ Flushed
  BY <1>3, <1>4 DEF Init, Drained, Blank, Flushed
<1> QED
  BY <1>1, <1>5, <1>6, <1>7 DEF HostInv, Alone

LEMMA NextInv == HostInv /\ [Next]_vars => HostInv'
<1> SUFFICES ASSUME HostInv, [Next]_vars PROVE HostInv'
  OBVIOUS
<1>1. TypeOK' /\ Shape'
  BY NextType DEF HostInv
<1>2. CASE UNCHANGED vars
  <2>1. (SlotKept /\ Unused /\ Dead /\ Reserved)'
    BY <1>2 DEF vars, HostInv, SlotKept, Unused, Dead, Reserved, Taken, Mapped, Booting, Users, Idle
  <2>2. Alone => Alone'
    BY <1>2 DEF vars, files, Alone, Apart, InUse, BootIntact, ServedIntact, Intact, Standing,
       Parties, Boots1, Booting, Mapped, Disjoint, Checking
  <2>3. Reaper => Reaper'
    BY <1>2 DEF vars, Reaper, Flagged, Counts, OnlyPolls, Polls, Users
  <2>4. (Drained /\ Blank)' /\ (Flushed => Flushed')
    BY <1>2 DEF vars, progress, HostInv, Drained, Mapped, Blank, Booting, Flushed
  <2> QED
    BY <1>1, <2>1, <2>2, <2>3, <2>4 DEF HostInv
<1>3. CASE Next
  <2>1. Typed
    BY TypedAll DEF HostInv
  <2>2. (SlotKept /\ Unused /\ Dead /\ Reserved)'
    BY <1>3, <2>1, SlotKeptKept, UnusedKept, DeadKept, ReservedKept DEF HostInv
  <2>3. ASSUME ~LateRequests PROVE Alone'
    BY <1>3, <2>1, <2>3, ApartKept, InUseKept, BootIntactKept, ServedIntactKept DEF HostInv, Alone
  <2>4. ASSUME ~TornCount PROVE Reaper'
    BY <1>3, <2>1, <2>4, ReaperKept DEF HostInv
  <2>5. PastType
    BY TypeParts DEF HostInv
  <2>6. (Drained /\ Blank)'
    BY <1>3, <2>1, <2>5, DrainedKept, BlankKept DEF HostInv
  <2>7. ASSUME ~TornCount PROVE Flushed'
    BY <1>3, <2>1, <2>5, <2>7, FlushedKept DEF HostInv, Reaper
  <2> QED
    BY <1>1, <2>2, <2>3, <2>4, <2>6, <2>7 DEF HostInv
<1> QED
  BY <1>2, <1>3

\* The invariant holds throughout: what firecracker.rs relies on between two of
\* its steps, when it works without the lock on the map.
THEOREM HostInvariantHolds == Spec => []HostInv
BY InitInv, NextInv, PTL DEF Spec

\* A machine that is served keeps its own tap and its own jail: neither the files
\* that prepare_resources makes and cleanup_failed_machine removes, nor the slot
\* that first_available_slot gives, are taken from under it, if the checks of a request are over before
\* another machine is made.
THEOREM ServedIntactHolds == Spec => [](~LateRequests => ServedIntact)
<1>1. HostInv => (~LateRequests => ServedIntact)
  BY DEF HostInv, Alone
<1> QED
  BY <1>1, HostInvariantHolds, PTL

\* No machine is taken down under a request: reap_expired goes on only with
\* the requests that poll, if none of them ends between its two loads of counters.
THEOREM HeldOpenHolds == Spec => [](~TornCount => HeldOpen)
<1>1. HostInv => (~TornCount => HeldOpen)
  BY DEF HostInv, Reaper, OnlyPolls, HeldOpen, TakenDown
<1> QED
  BY <1>1, HostInvariantHolds, PTL

\* Once the host is reserved for shutdown (begin_host_shutdown_if_idle), no machine
\* lives on it that a job or a request has in its hands.
THEOREM HostIdleHolds == Spec => [](~LateRequests => HostIdle)
<1>1. HostInv => (~LateRequests => HostIdle)
  <2> SUFFICES ASSUME HostInv, ~LateRequests,
                      pending, job.op # "shutdown", NEW m \in Machines, Live(m)
               PROVE  FALSE
    BY DEF HostIdle
  <2>1. job = NoJob /\ Mapped = {}
    BY DEF HostInv, Reserved, Idle, Shape, JobShape, OfNobody
  <2>2. job.m # m
    BY <2>1, Sets DEF NoJob
  <2>3. PICK r \in Requests : req[r].m = m
    BY <2>1, <2>2 DEF Live, Held, Users
  <2>4. req[r].at # "free"
    BY <2>3, Sets DEF HostInv, Shape, ReqShape, NoRequest
  <2>5. vm[m].alive /\ running[vm[m].ws] = m
    BY <2>3, <2>4 DEF Live, HostInv, Alone, InUse
  <2>6. vm[m].ws \in Workspaces
    BY <2>3, <2>4 DEF HostInv, Shape, ReqShape, TypeOK
  <2> QED
    BY <2>1, <2>5, <2>6, Sets DEF Mapped
<1> QED
  BY <1>1, HostInvariantHolds, PTL

-----------------------------------------------------------------------------
(* The saved work: what a step does to the files of a workspace.           *)

\* Failures are only counted up.
LEMMA CountMoves ==
    ASSUME CountType, Next
    PROVE  /\ faults' \in {faults, faults + 1} /\ exits' \in {exits, exits + 1}
           /\ \A m \in Machines : GuestExits(m) => exits' = exits + 1
<1>1. CASE \E m \in Machines : GuestExits(m)
  BY <1>1 DEF GuestExits, CountType
<1>2. CASE UNCHANGED <<faults, exits>>
  BY <1>2 DEF GuestExits
<1>3. CASE Fails
  BY <1>3 DEF Fails, FailPlainly, FailFlush, FailRestore, FailReady, FailPersist, FailErase,
     HangUp, Crash, Counted, Gone, GuestExits, CountType
<1>4. CASE \E w \in Workspaces : DiscardSnapshot(w)
  BY <1>4 DEF DiscardSnapshot, GuestExits, CountType
<1> QED
  BY <1>1, <1>2, <1>3, <1>4
  DEF Next, Begins, Boots, Rotates, TakesDown, Asks, CreateExisting, BeginCreate, BeginDestroy,
      BeginReap, Park, ShutdownNext, Recover, Choose, Prepare, Launch, Restored, Ready,
      WriteMeta, WriteMarker, Insert, DropPrevious, Demote, Promote, LoadPolls,
      CountReferences, Flush, Pause, Stage, Sweep, Kill, Erase, Unmap, BeginHostShutdown,
      CancelHostShutdown, PowerOff, BeginShutdown, Restart, Gone, Arrive, CheckFlag,
      FindsItUp, FindsItDead, Evict, Clean, Work, Resume, WriteBack, Done, TimePasses

LEMMA CalmBack ==
    ASSUME CountType, Next, Calm'
    PROVE  /\ Calm /\ faults \in {0, 1} /\ faults' \in {faults, faults + 1}
           /\ \A m \in Machines : ~GuestExits(m)
<1>1. faults \in Nat /\ exits \in Nat /\ faults' <= 1 /\ exits' = 0 /\ ~LateRequests
  BY DEF Calm, CountType
<1> QED
  BY <1>1, CountMoves DEF Calm

\* A guest writes what its memory has: all of it before it is paused, or a change.
Writes(m) == (Flush /\ job.m = m) \/ (m \in Machines /\ WriteBack(m))
Wrote(w) == \E m : Writes(m) /\ vm[m].ws = w
Grew(w) == \E n : jail'[w] = [jail[w] EXCEPT !.work = @ + n]

LEMMA SyncedMoves ==
    ASSUME PastType, Next, NEW w \in Workspaces
    PROVE  \/ synced'[w] = synced[w]
           \/ DiscardSnapshot(w)
           \/ Wrote(w)
<1>1. CASE UNCHANGED synced
  BY <1>1
<1>2. ASSUME NEW v \in Workspaces, DiscardSnapshot(v)
      PROVE  synced'[w] = synced[w] \/ v = w
  BY <1>2 DEF DiscardSnapshot, PastType
<1>3. ASSUME NEW m, Writes(m)
      PROVE  synced'[w] = synced[w] \/ vm[m].ws = w
  <2>1. PICK n : synced' = [synced EXCEPT ![vm[m].ws] = jail[vm[m].ws].work + n]
    BY <1>3 DEF Writes, Flush, WriteBack, Settles
  <2> QED
    BY <2>1 DEF PastType
<1>4. CASE Flush \/ \E m \in Machines : WriteBack(m)
  BY <1>3, <1>4 DEF Writes, Wrote
<1> QED
  BY <1>1, <1>2, <1>4
  DEF Next, Begins, Boots, Rotates, TakesDown, Fails, Asks, CreateExisting, BeginCreate,
      BeginDestroy, BeginReap, Park, ShutdownNext, Recover, Choose,
      Prepare, Launch, Restored, Ready, WriteMeta, WriteMarker, Insert, DropPrevious, Demote,
      Promote, LoadPolls, CountReferences, Pause, Stage, Sweep, Kill, Erase, Unmap,
      FailPlainly, FailFlush, FailRestore, FailReady, FailPersist, FailErase, HangUp, progress,
      Crash, BeginHostShutdown, CancelHostShutdown, PowerOff, BeginShutdown, Restart, Gone,
      Arrive, CheckFlag, FindsItUp, FindsItDead, Evict, Clean, Work, Resume, Done, TimePasses, GuestExits

\* The checkpoints of a workspace.
LEMMA CheckpointMoves ==
    ASSUME Typed, Next, NEW w \in Workspaces
    PROVE  \/ snap'[w] = snap[w] /\ prev'[w] = prev[w]
           \/ DropPrevious /\ job.ws = w /\ snap'[w] = snap[w]
           \/ Demote /\ job.ws = w /\ ~Exists(snap'[w]) /\ prev'[w] = snap[w]
           \/ Promote /\ job.ws = w /\ snap'[w] = job.cp
           \/ Sweep /\ job.ws = w /\ snap'[w] = snap[w]
           \/ FailPersist /\ job.ws = w /\ job.at = "promote"
           \/ DiscardSnapshot(w)
<1>1. CASE UNCHANGED <<snap, prev>>
  BY <1>1
<1>2. CASE DropPrevious \/ Demote \/ Promote \/ Sweep
  <2>1. job.ws = w \/ (snap'[w] = snap[w] /\ prev'[w] = prev[w])
    BY <1>2 DEF DropPrevious, Demote, Promote, Sweep, Typed, SnapType
  <2>2. ASSUME job.ws = w
        PROVE  /\ DropPrevious \/ Sweep => snap'[w] = snap[w]
               /\ Demote => snap'[w] = NoCheckpoint /\ prev'[w] = snap[w]
               /\ Promote => snap'[w] = job.cp
    BY <2>2 DEF DropPrevious, Demote, Promote, Sweep, Typed, SnapType
  <2> QED
    BY <1>2, <2>1, <2>2 DEF Exists, NoCheckpoint
<1>3. CASE FailPersist
  BY <1>3 DEF FailPersist, Typed, SnapType
<1>4. ASSUME NEW v \in Workspaces, DiscardSnapshot(v), v # w
      PROVE  snap'[w] = snap[w] /\ prev'[w] = prev[w]
  BY <1>4 DEF DiscardSnapshot, Typed, SnapType
<1> QED
  BY <1>1, <1>2, <1>3, <1>4, SnapMoves

-----------------------------------------------------------------------------
(* The saved work: which machines are up.                                  *)

LEMMA EditKeeps ==
    ASSUME VmType, NEW m,
           \/ UNCHANGED vm
           \/ vm' = [vm EXCEPT ![m].paused = TRUE]
           \/ vm' = [vm EXCEPT ![m].paused = FALSE]
           \/ vm' = [vm EXCEPT ![m].hibernating = TRUE]
           \/ vm' = [vm EXCEPT ![m].hibernating = FALSE]
           \/ vm' = [[vm EXCEPT ![m].paused = FALSE] EXCEPT ![m].hibernating = FALSE]
           \/ vm' = [vm EXCEPT ![m].due = TRUE]
           \/ vm' = [vm EXCEPT ![m].due = FALSE]
           \/ vm' = [vm EXCEPT ![m].due = FALSE, ![m].parked = TRUE]
           \/ vm' = [vm EXCEPT ![m].due = FALSE, ![m].parked = FALSE]
           \/ vm' = Active(m)
           \/ vm' = [vm EXCEPT ![m].alive = TRUE]
    PROVE  \A k \in Machines : vm[k].alive => vm'[k].alive
<1>1. ASSUME NEW k \in Machines, vm[k].alive, m = k PROVE vm'[k].alive
  <2>1. vm[k] \in VmRecords
    BY DEF VmType
  <2> QED
    BY <1>1, <2>1 DEF VmType, VmRecords, Active
<1>2. ASSUME NEW k \in Machines, m # k PROVE vm'[k] = vm[k]
  BY <1>2 DEF VmType, Active
<1> QED
  BY <1>1, <1>2

\* How the process of a machine ends.
LEMMA Falls ==
    ASSUME Typed, Dead, Next,
           NEW k \in Machines, vm[k].ws # None, vm[k].alive, ~vm'[k].alive
    PROVE  Gone \/ GuestExits(k) \/ (k = job.m /\ (Kill \/ FailRestore \/ FailReady))
<1>0. VmType /\ k <= made
  BY DEF Typed, MadeType, CountType, Machines
<1>1. ASSUME NEW w \in Workspaces, CreateExisting(w) \/ BeginReap(w) \/ Park(w)
      PROVE  FALSE
  <2>1. \/ UNCHANGED vm
        \/ vm' = [vm EXCEPT ![running[w]].hibernating = TRUE]
        \/ vm' = [vm EXCEPT ![running[w]].due = FALSE, ![running[w]].parked = TRUE]
        \/ vm' = [vm EXCEPT ![running[w]].due = FALSE, ![running[w]].parked = FALSE]
    BY <1>1 DEF CreateExisting, BeginReap, Park
  <2> QED
    BY <1>0, <2>1, EditKeeps
<1>2. CASE CountReferences \/ Pause \/ Launch
  <2>1. \/ UNCHANGED vm
        \/ vm' = [vm EXCEPT ![job.m].hibernating = FALSE]
        \/ vm' = [vm EXCEPT ![job.m].paused = TRUE]
        \/ vm' = [vm EXCEPT ![job.m].alive = TRUE]
    BY <1>2 DEF CountReferences, Pause, Launch
  <2> QED
    BY <1>0, <2>1, EditKeeps
<1>3. CASE FailPlainly \/ FailFlush \/ FailErase \/ FailPersist
  <2>1. \/ UNCHANGED vm
        \/ vm' = [vm EXCEPT ![job.m].hibernating = FALSE]
        \/ vm' = [vm EXCEPT ![job.m].paused = FALSE]
        \/ vm' = [[vm EXCEPT ![job.m].paused = FALSE] EXCEPT ![job.m].hibernating = FALSE]
    BY <1>3 DEF FailPlainly, FailFlush, FailErase, FailPersist, GiveUp
  <2> QED
    BY <1>0, <2>1, EditKeeps
<1>4. ASSUME NEW r \in Requests,
             CheckFlag(r) \/ Resume(r) \/ \E touch \in BOOLEAN : Done(r, touch)
      PROVE  FALSE
  <2>1. \/ UNCHANGED vm
        \/ vm' = Active(req[r].m)
        \/ vm' = [vm EXCEPT ![req[r].m].due = FALSE]
        \/ vm' = [vm EXCEPT ![req[r].m].paused = FALSE]
    BY <1>4 DEF CheckFlag, Resume, Done
  <2> QED
    BY <1>0, <2>1, EditKeeps
<1>5. ASSUME NEW m \in Machines, TimePasses(m) PROVE FALSE
  BY <1>0, <1>5, EditKeeps DEF TimePasses
<1>6. CASE Prepare
  BY <1>0, <1>6 DEF Prepare, VmType, Typed, CountType, Machines
<1>7. CASE Unmap
  <2>1. job.m # k
    BY <1>7 DEF Unmap, Dead
  <2> QED
    BY <1>0, <1>7, <2>1 DEF Unmap, VmType
<1>8. CASE Kill \/ FailRestore \/ FailReady
  BY <1>0, <1>8 DEF Kill, FailRestore, FailReady, Cleaned, VmType
<1>9. ASSUME NEW m \in Machines, GuestExits(m) PROVE m = k
  BY <1>0, <1>9 DEF GuestExits, VmType
<1> QED
  BY <1>1, <1>2, <1>3, <1>4, <1>5, <1>6, <1>7, <1>8, <1>9, VmMoves

\* A workspace whose machine is up, or about to be made, is not doomed.
LEMMA UpIsSafe ==
    ASSUME Typed, Apart, NEW w \in Workspaces, Up(w)
    PROVE  ~Doomed(w) /\ running[w] \in Mapped /\ running[w] \in Machines
           /\ running[w] \in Standing /\ vm[running[w]].ws = w
<1>1. /\ running[w] \in Mapped /\ running[w] \in Machines /\ running[w] \in Standing
      /\ vm[running[w]].ws = w
  BY DEF Up, Mapped, Standing, Typed, RunType, MapOwn
<1>2. ~Late(w)
  <2> SUFFICES ASSUME NEW r \in Requests, Checking(r), vm[req[r].m].ws = w, ~vm[req[r].m].alive
               PROVE  FALSE
    BY DEF Late
  <2>1. req[r].m = running[w]
    BY <1>1, SamePaths, AskerInReach
  <2> QED
    BY <2>1 DEF Up
<1> QED
  BY <1>1, <1>2 DEF Doomed, Up

LEMMA BootIsSafe ==
    ASSUME Typed, Apart, Unused, NEW w \in Workspaces, Creates(w, WithMachine)
    PROVE  ~Doomed(w)
<1>1. /\ Booting /\ job.m \in Machines /\ vm[job.m].ws = w /\ running[w] = None
      /\ job.m \in Standing
  BY BootHas DEF Creates, Standing, Boots1
<1> SUFFICES ASSUME NEW r \in Requests, Checking(r), vm[req[r].m].ws = w
             PROVE  FALSE
  BY <1>1 DEF Doomed, Late
<1>2. req[r].m = job.m
  BY <1>1, SamePaths, AskerInReach
<1> QED
  BY <1>1, <1>2 DEF Unused, Users

\* Whoever takes a machine down while one of its workspace is up, takes that one.
LEMMA TakerHasIt ==
    ASSUME Typed, Apart, NEW w \in Workspaces, Up(w), Taker, job.ws = w, job.m # None
    PROVE  running[w] = job.m /\ vm[job.m].alive
<1>1. vm[job.m].ws = w
  BY JobAt DEF Typed, JobShape, OfTaker, Taker
<1>2. job.m = running[w]
  BY <1>1, UpIsSafe, SamePaths, JobInReach
<1> QED
  BY <1>2 DEF Up

LEMMA DoomedMoves ==
    ASSUME Typed, Unused, Dead, ReclaimedOnly, BootUp, Next,
           \A m \in Machines : ~GuestExits(m),
           NEW w \in Durable, Doomed(w)'
    PROVE  Doomed(w) \/ (Kill /\ Takes(w, {"kill"}))
<1>1. w \in Workspaces
  BY Sets
<1>2. ASSUME NEW k \in Machines, vm[k].ws = w, vm[k].alive, ~vm'[k].alive,
             ~Gone, k # job.m \/ job.at \notin WithMachine
      PROVE  Kill /\ Takes(w, {"kill"})
  <2>1. k = job.m /\ Kill
    BY <1>1, <1>2, Falls, Sets DEF FailRestore, FailReady, WithMachine
  <2>2. job.op # "none"
    BY <2>1, JobHas DEF Kill, Down, Typed
  <2>3. job.op # "create"
    BY <1>2, <2>1 DEF Kill, ReclaimedOnly, Reclaims
  <2>4. Taker /\ job.at = "kill"
    BY <2>1, <2>2, <2>3, JobAt DEF Taker, Kill, Typed
  <2> QED
    BY <1>2, <2>1, <2>4, TakerHas DEF Takes
<1>3. ASSUME NEW r \in Requests, Checking(r)', vm'[req'[r].m].ws = w, ~vm'[req'[r].m].alive
      PROVE  Doomed(w) \/ (Kill /\ Takes(w, {"kill"}))
  <2>1. CASE Comes(r)
    BY <1>3, <2>1 DEF Comes, Doomed, Typed, MapOwn
  <2>2. CASE ~Comes(r)
    <3>1. Checking(r) /\ req'[r].m = req[r].m /\ ~Gone
      <4>1. NoRequest.at = "free"
        BY DEF NoRequest
      <4>2. Checking(r) /\ req'[r].m = req[r].m
        BY <1>3, <2>2, <4>1, OneRequest DEF Typed, Checking, Moves, Ends
      <4>3. Gone => req'[r] = NoRequest
        BY DEF Gone
      <4> QED
        BY <1>3, <4>1, <4>2, <4>3 DEF Checking
    <3>2. req[r].m \in Machines /\ Stays(req[r].m)
      BY <3>1, UsedStays DEF Checking
    <3>3. vm[req[r].m].ws = w
      BY <1>3, <3>1, <3>2 DEF Stays, PathsStay
    <3>4. CASE ~vm[req[r].m].alive
      BY <3>1, <3>3, <3>4 DEF Doomed, Late
    <3>5. CASE vm[req[r].m].alive
      <4>1. req[r].m # job.m \/ job.at \notin WithMachine
        BY BootHas DEF Unused, Users
      <4> QED
        BY <1>2, <1>3, <3>1, <3>2, <3>3, <3>5, <4>1
    <3> QED
      BY <3>4, <3>5
  <2> QED
    BY <2>1, <2>2
<1>4. ASSUME running'[w] # None, ~vm'[running'[w]].alive
      PROVE  Doomed(w) \/ (Kill /\ Takes(w, {"kill"}))
  <2>1. CASE Insert /\ w = job.ws
    BY <1>4, <2>1, InsertRuns, BootHas DEF BootUp, Insert, Launched, WithMachine, Typed
  <2>2. CASE ~(Insert /\ w = job.ws)
    <3>1. running'[w] = running[w] /\ ~Gone
      BY <1>1, <1>4, <2>2, RunningShrinks, InsertRuns DEF Typed, Gone
    <3>2. running[w] \in Mapped /\ running[w] \in Machines /\ vm[running[w]].ws = w
      BY <1>1, <1>4, <3>1 DEF Mapped, Typed, RunType, MapOwn
    <3>3. running[w] # job.m \/ job.at \notin WithMachine
      BY <3>2, BootHas
    <3> QED
      BY <1>2, <1>4, <3>1, <3>2, <3>3 DEF Doomed
  <2> QED
    BY <2>1, <2>2
<1> QED
  BY <1>3, <1>4 DEF Doomed, Late

-----------------------------------------------------------------------------
(* The saved work: the jail of a durable workspace.                        *)

LEMMA JailOfOne ==
    ASSUME Typed, Dead, ReclaimedOnly, Next, NEW w \in Durable
    PROVE  \/ jail'[w] = jail[w]
           \/ Chooses /\ job.ws = w /\ jail'[w] = NoJail
           \/ /\ Prepares /\ job.ws = w
              /\ jail'[w] = [of |-> made', work |-> Source(job.cp), meta |-> FALSE]
           \/ WriteMeta /\ Creates(w, {"meta"}) /\ jail'[w] = [jail[w] EXCEPT !.meta = TRUE]
           \/ Erase /\ Takes(w, {"erase"}) /\ jail'[w] = NoJail
           \/ FailErase /\ Takes(w, {"erase"}) /\ jail'[w] \in Leftovers(w)
           \/ /\ FailRestore \/ FailReady
              /\ Creates(w, {"restore", "await"}) /\ jail'[w] \in Leftovers(w)
           \/ DiscardSnapshot(w) /\ (running[w] # None => jail'[w] = jail[w])
           \/ \E r \in Requests : Clean(r) /\ Late(w) /\ jail'[w] = NoJail
           \/ Wrote(w) /\ Grew(w)
<1>0. /\ w \in Workspaces
      /\ jail \in [Workspaces -> [of : Machines \cup {None}, work : Nat, meta : BOOLEAN]]
  BY Sets DEF Typed, JailType
<1>1. CASE Choose
  BY <1>0, <1>1, ChooseSteps
<1>2. CASE Prepare
  BY <1>0, <1>2, PrepareSteps DEF Prepare
<1>3. CASE WriteMeta
  <2>1. job.op = "create" /\ job.at = "meta"
    BY <1>3, JobHas DEF WriteMeta, WithMachine, Typed
  <2> QED
    BY <1>0, <1>3, <2>1 DEF WriteMeta, Creates
<1>4. CASE Erase \/ FailErase
  <2>1. PICK left \in Leftovers(vm[job.m].ws) :
            jail' = [jail EXCEPT ![vm[job.m].ws] = left] /\ (Erase => left = NoJail)
    BY <1>4 DEF Erase, FailErase, Leftovers
  <2>2. CASE vm[job.m].ws # w
    BY <1>0, <2>1, <2>2
  <2>3. CASE vm[job.m].ws = w
    <3>1. job.at = "erase"
      BY <1>4 DEF Erase, FailErase
    <3>2. job.op # "create"
      BY <2>3, <3>1 DEF ReclaimedOnly, Reclaims
    <3>3. Taker
      BY <3>1, <3>2, JobAt DEF Typed, Taker
    <3>4. Takes(w, {"erase"})
      BY <2>3, <3>1, <3>3, TakerHas DEF Takes
    <3>5. jail'[w] = left
      BY <1>0, <2>1, <2>3
    <3> QED
      BY <1>4, <2>1, <2>3, <3>4, <3>5
  <2> QED
    BY <2>2, <2>3
<1>5. CASE FailRestore \/ FailReady
  <2>1. job.at \in {"restore", "await"} /\ job.op = "create"
    BY <1>5, JobHas DEF FailRestore, FailReady, WithMachine, Typed
  <2>2. PICK left \in Leftovers(job.ws) : jail' = [jail EXCEPT ![job.ws] = left]
    BY <1>5 DEF FailRestore, FailReady, CleanFiles
  <2> QED
    BY <1>0, <1>5, <2>1, <2>2 DEF Creates
<1>6. ASSUME NEW v \in Workspaces, DiscardSnapshot(v)
      PROVE  jail'[w] = jail[w] \/ (DiscardSnapshot(w) /\ (running[w] # None => jail'[w] = jail[w]))
  <2>1. jail' = jail \/ (jail' = [jail EXCEPT ![v] = NoJail] /\ running[v] = None)
    BY <1>6 DEF DiscardSnapshot
  <2> QED
    BY <1>0, <1>6, <2>1
<1>7. ASSUME NEW r \in Requests, Clean(r)
      PROVE  jail'[w] = jail[w] \/ (Late(w) /\ jail'[w] = NoJail)
  <2>1. Checking(r) /\ ~vm[req[r].m].alive
    BY <1>7 DEF Clean, Checking, Dead
  <2>2. jail' = [jail EXCEPT ![vm[req[r].m].ws] = NoJail]
    BY <1>7 DEF Clean, Remains
  <2> QED
    BY <1>0, <2>1, <2>2 DEF Late
<1>8. ASSUME NEW m, Writes(m)
      PROVE  jail'[w] = jail[w] \/ (Wrote(w) /\ Grew(w))
  <2>1. PICK n : jail' = [jail EXCEPT ![vm[m].ws].work = @ + n]
    BY <1>8 DEF Writes, Flush, WriteBack, Settles
  <2> QED
    BY <1>0, <1>8, <2>1 DEF Wrote, Grew
<1>9. CASE UNCHANGED jail
  BY <1>9
<1> QED
  BY <1>1, <1>2, <1>3, <1>4, <1>5, <1>6, <1>7, <1>8, <1>9, JailMoves DEF Writes

LEMMA UpStep ==
    ASSUME Typed, Unused, Dead, Next, NEW w \in Workspaces, Up(w)'
    PROVE  \/ Up(w) /\ running'[w] = running[w]
           \/ Insert /\ Creates(w, {"insert"})
<1>0. running'[w] # None /\ vm'[running'[w]].alive
  BY DEF Up
<1>1. CASE Insert /\ job.ws = w
  BY <1>1, InsertRuns DEF Typed, Creates, Insert
<1>2. CASE ~(Insert /\ job.ws = w)
  <2>1. running'[w] = running[w]
    BY <1>0, <1>2, RunningShrinks, InsertRuns DEF Typed
  <2>2. running[w] \in Machines /\ running[w] \in Mapped
    BY <1>0, <2>1 DEF Typed, RunType, Mapped
  <2>3. vm'[running[w]].alive => vm[running[w]].alive
    <3>1. CASE Prepare
      BY <2>2, <3>1, MappedType, PrepareStays DEF Typed, CountType, Machines, Stays
    <3>2. CASE Launch
      BY <2>2, <3>2, BootHas, LaunchStays DEF Typed, Launch, Stays, WithMachine
    <3>3. CASE ~Prepare /\ ~Launch
      BY <2>2, <3>3, VmStays DEF Typed, Stays
    <3> QED
      BY <3>1, <3>2, <3>3
  <2> QED
    BY <1>0, <2>1, <2>3 DEF Up
<1> QED
  BY <1>1, <1>2

\* A job is left before its end only when something fails.
LEMMA HolderMoves ==
    ASSUME Next, job.op # "none", job.at \notin {"flush", "next"}
    PROVE  \/ UNCHANGED job
           \/ Boots \/ Rotates \/ TakesDown
           \/ Fails /\ faults' = faults + 1
<1>1. CASE Fails
  BY <1>1 DEF Fails, FailPlainly, FailFlush, FailRestore, FailReady, FailPersist, FailErase,
     HangUp, Crash, Counted
<1> QED
  BY <1>1 DEF Next, Begins, Asks, CreateExisting, Park, DiscardSnapshot, BeginHostShutdown,
       CancelHostShutdown, PowerOff, Restart, Arrive, CheckFlag, FindsItUp, FindsItDead,
       Evict, Clean, Work, Resume, WriteBack, Done, TimePasses, GuestExits, BeginCreate, BeginDestroy, BeginReap,
       ShutdownNext, BeginShutdown, MayCreate, Idle

LEMMA LeavesPromote ==
    ASSUME Typed, Next, job.at = "promote"
    PROVE  UNCHANGED job \/ Promote \/ (Fails /\ faults' = faults + 1)
<1>1. job.op # "none" /\ ~Boots /\ ~TakesDown /\ ~DropPrevious /\ ~Demote
  BY JobAt DEF Typed, Boots, Recover, Choose, Prepare, Launch, Restored, Ready, WriteMeta,
     WriteMarker, Insert, TakesDown, LoadPolls, CountReferences, Flush, Pause, Stage, Sweep,
     Kill, Erase, Unmap, DropPrevious, Demote
<1> QED
  BY <1>1, HolderMoves DEF Rotates

LEMMA LeavesErase ==
    ASSUME Typed, Next, job.at = "erase"
    PROVE  UNCHANGED job \/ Erase \/ (Fails /\ faults' = faults + 1)
<1>1. job.op # "none" /\ ~Boots /\ ~Rotates
  BY JobAt DEF Typed, Boots, Recover, Choose, Prepare, Launch, Restored, Ready, WriteMeta,
     WriteMarker, Insert, Rotates, DropPrevious, Demote, Promote
<1>2. TakesDown => Erase
  BY DEF TakesDown, LoadPolls, CountReferences, Flush, Pause, Stage, Sweep, Kill, Unmap
<1> QED
  BY <1>1, <1>2, HolderMoves

\* A paused guest goes on only after a failure.
LEMMA EditPaused ==
    ASSUME VmType, NEW m,
           \/ UNCHANGED vm
           \/ vm' = [vm EXCEPT ![m].alive = FALSE]
           \/ vm' = [vm EXCEPT ![m].alive = TRUE]
           \/ vm' = [vm EXCEPT ![m].paused = TRUE]
           \/ vm' = [vm EXCEPT ![m].hibernating = TRUE]
           \/ vm' = [vm EXCEPT ![m].hibernating = FALSE]
           \/ vm' = [vm EXCEPT ![m].due = TRUE]
           \/ vm' = [vm EXCEPT ![m].due = FALSE]
           \/ vm' = [vm EXCEPT ![m].due = FALSE, ![m].parked = TRUE]
           \/ vm' = [vm EXCEPT ![m].due = FALSE, ![m].parked = FALSE]
           \/ vm' = Active(m)
    PROVE  \A k \in Machines : vm[k].paused => vm'[k].paused
<1>1. ASSUME NEW k \in Machines, vm[k].paused, m = k PROVE vm'[k].paused
  <2>1. vm[k] \in VmRecords
    BY DEF VmType
  <2> QED
    BY <1>1, <2>1 DEF VmType, VmRecords, Active
<1>2. ASSUME NEW k \in Machines, m # k PROVE vm'[k] = vm[k]
  BY <1>2 DEF VmType, Active
<1> QED
  BY <1>1, <1>2

LEMMA PausedStays ==
    ASSUME Typed, Next, NEW k \in Machines, vm[k].ws \in Durable, vm[k].paused,
           ~Gone, ~FailPersist, ~Unmap
    PROVE  vm'[k].paused
<1>0. VmType /\ k <= made
  BY Sets DEF Typed, MadeType, CountType, Machines
<1>1. CASE Prepare
  BY <1>0, <1>1 DEF Prepare, VmType, Typed, CountType, Machines
<1>2. ASSUME NEW r \in Requests, Resume(r) PROVE vm'[k].paused
  <2>1. vm' = [vm EXCEPT ![req[r].m].paused = FALSE] /\ req[r].m # k
    BY <1>2, HostConstants DEF Resume
  <2> QED
    BY <1>0, <2>1 DEF VmType
<1>3. CASE ~Prepare /\ \A r \in Requests : ~Resume(r)
  <2>1. PICK m :
           \/ UNCHANGED vm
           \/ vm' = [vm EXCEPT ![m].alive = FALSE]
           \/ vm' = [vm EXCEPT ![m].alive = TRUE]
           \/ vm' = [vm EXCEPT ![m].paused = TRUE]
           \/ vm' = [vm EXCEPT ![m].hibernating = TRUE]
           \/ vm' = [vm EXCEPT ![m].hibernating = FALSE]
           \/ vm' = [vm EXCEPT ![m].due = TRUE]
           \/ vm' = [vm EXCEPT ![m].due = FALSE]
           \/ vm' = [vm EXCEPT ![m].due = FALSE, ![m].parked = TRUE]
           \/ vm' = [vm EXCEPT ![m].due = FALSE, ![m].parked = FALSE]
           \/ vm' = Active(m)
    BY <1>3, VmMoves
    DEF CreateExisting, BeginReap, Park, Launch, CountReferences, Pause, Kill, FailPlainly,
        FailFlush, FailRestore, FailReady, FailErase, GiveUp, Cleaned, CheckFlag, Done,
        TimePasses, GuestExits
  <2> QED
    BY <1>0, <2>1, EditPaused
<1> QED
  BY <1>1, <1>2, <1>3

-----------------------------------------------------------------------------
(* The saved work: what is parked, and what is taken down.                 *)

LEMMA EditParked ==
    ASSUME VmType, NEW m,
           \/ UNCHANGED vm
           \/ vm' = [vm EXCEPT ![m].alive = FALSE]
           \/ vm' = [vm EXCEPT ![m].alive = TRUE]
           \/ vm' = [vm EXCEPT ![m].paused = TRUE]
           \/ vm' = [vm EXCEPT ![m].paused = FALSE]
           \/ vm' = [vm EXCEPT ![m].hibernating = TRUE]
           \/ vm' = [vm EXCEPT ![m].hibernating = FALSE]
           \/ vm' = [[vm EXCEPT ![m].paused = FALSE] EXCEPT ![m].hibernating = FALSE]
           \/ vm' = [vm EXCEPT ![m].due = TRUE]
           \/ vm' = [vm EXCEPT ![m].due = FALSE]
           \/ vm' = [vm EXCEPT ![m].due = FALSE, ![m].parked = FALSE]
           \/ vm' = Active(m)
           \/ vm' = [vm EXCEPT ![m] = Forgotten(m)]
    PROVE  \A k \in Machines : vm'[k].parked => vm[k].parked /\ vm'[k].ws = vm[k].ws
<1>1. ASSUME NEW k \in Machines, m = k PROVE vm'[k].parked => vm[k].parked /\ vm'[k].ws = vm[k].ws
  <2>1. vm[k] \in VmRecords
    BY DEF VmType
  <2>2. CASE vm' = [vm EXCEPT ![m] = Forgotten(m)]
    <3>1. vm'[k] = Forgotten(k)
      BY <1>1, <2>2 DEF VmType
    <3> QED
      BY <3>1 DEF Forgotten, Unmade
  <2> QED
    BY <1>1, <2>1, <2>2 DEF VmType, VmRecords, Active
<1>2. ASSUME NEW k \in Machines, m # k PROVE vm'[k] = vm[k]
  BY <1>2 DEF VmType, Active
<1> QED
  BY <1>1, <1>2

LEMMA ParkedOnlyKept ==
    ASSUME Typed, ParkedOnly, Next
    PROVE  ParkedOnly'
<1> SUFFICES ASSUME NEW k \in Machines, vm'[k].parked PROVE vm'[k].ws \notin Durable
  BY DEF ParkedOnly
<1>0. VmType
  BY DEF Typed
<1>1. CASE Prepare
  <2>1. vm'[k] = vm[k]
    BY <1>0, <1>1 DEF Prepare, VmType, Unmade
  <2> QED
    BY <2>1 DEF ParkedOnly
<1>2. CASE Gone
  BY <1>2 DEF Gone, Unmade
<1>3. ASSUME NEW w \in Workspaces, Park(w) PROVE vm'[k].ws \notin Durable
  <2>1. vm' = [vm EXCEPT ![running[w]].due = FALSE, ![running[w]].parked = TRUE]
    BY <1>3 DEF Park
  <2>2. w \in Ephemeral /\ running[w] \in Machines /\ vm[running[w]].ws = w
    BY <1>3 DEF Park, Typed, RunType, MapOwn
  <2>3. vm'[k].ws = vm[k].ws
    BY <1>0, <2>1, EditStays DEF Stays, PathsStay
  <2>4. CASE k = running[w]
    BY <2>2, <2>3, <2>4
  <2>5. CASE k # running[w]
    BY <1>0, <2>1, <2>5 DEF VmType, ParkedOnly
  <2> QED
    BY <2>4, <2>5
<1>4. CASE ~Prepare /\ ~Gone /\ \A w \in Workspaces : ~Park(w)
  <2>1. PICK m :
           \/ UNCHANGED vm
           \/ vm' = [vm EXCEPT ![m].alive = FALSE]
           \/ vm' = [vm EXCEPT ![m].alive = TRUE]
           \/ vm' = [vm EXCEPT ![m].paused = TRUE]
           \/ vm' = [vm EXCEPT ![m].paused = FALSE]
           \/ vm' = [vm EXCEPT ![m].hibernating = TRUE]
           \/ vm' = [vm EXCEPT ![m].hibernating = FALSE]
           \/ vm' = [[vm EXCEPT ![m].paused = FALSE] EXCEPT ![m].hibernating = FALSE]
           \/ vm' = [vm EXCEPT ![m].due = TRUE]
           \/ vm' = [vm EXCEPT ![m].due = FALSE]
           \/ vm' = [vm EXCEPT ![m].due = FALSE, ![m].parked = FALSE]
           \/ vm' = Active(m)
           \/ vm' = [vm EXCEPT ![m] = Forgotten(m)]
    BY <1>4, VmMoves
    DEF CreateExisting, BeginReap, Launch, CountReferences, Pause, Kill, FailPlainly, Unmap,
        FailFlush, FailRestore, FailReady, FailErase, FailPersist, GiveUp, Cleaned, CheckFlag,
        Resume, Done, TimePasses, GuestExits
  <2> QED
    BY <1>0, <2>1, EditParked DEF ParkedOnly
<1> QED
  BY <1>1, <1>2, <1>3, <1>4

LEMMA ReclaimedOnlyKept ==
    ASSUME Typed, ParkedOnly, ReclaimedOnly, Next
    PROVE  ReclaimedOnly'
<1> SUFFICES ASSUME job'.op = "create", job'.at \in Reclaims PROVE vm'[job'.m].ws \notin Durable
  BY DEF ReclaimedOnly
<1>1. ASSUME NEW v \in Workspaces, Reclaimed(v) PROVE vm'[job'.m].ws \notin Durable
  <2>1. job'.m \in Machines /\ vm[job'.m].parked
    BY <1>1 DEF Reclaimed, Reclaims
  <2>2. UNCHANGED vm
    BY <1>1 DEF Reclaimed, BeginCreate
  <2> QED
    BY <2>1, <2>2 DEF ParkedOnly
<1>2. ASSUME job.op = "create", job.at \in Reclaims, job'.m = job.m
      PROVE  vm'[job'.m].ws \notin Durable
  <2>1. job.m \in Machines /\ ~Prepare /\ ~Launch
    BY <1>2, JobHas DEF Typed, Reclaims, Down, Prepare, Launch
  <2> QED
    BY <1>2, <2>1, VmStays DEF Typed, Stays, PathsStay, ReclaimedOnly
<1>3. CASE Kill \/ Erase
  <2>1. job'.m = job.m /\ job.at \in Reclaims /\ job'.op = job.op
    BY <1>3, PlainSteps DEF Goes, Reclaims, Typed
  <2> QED
    BY <1>2, <2>1
<1>4. CASE \/ Recovers \/ Chooses \/ Prepares \/ Launch \/ Restored \/ Ready
           \/ WriteMeta \/ WriteMarker
  BY <1>4, PlainSteps DEF Recovers, Chooses, Prepares, Goes, Reclaims, Typed
<1>5. CASE Rotates
  BY <1>5, PlainSteps DEF Rotates, Goes, Reclaims, Typed
<1> QED
  BY <1>1, <1>2, <1>3, <1>4, <1>5, CreateSteps DEF Reclaims

LEMMA BootUpKept ==
    ASSUME Typed, Dead, BootUp, Next
    PROVE  BootUp'
<1> SUFFICES ASSUME job'.op = "create", job'.at \in Launched PROVE vm'[job'.m].alive
  BY DEF BootUp, Booting
<1>1. job'.at \in WithMachine /\ ~Prepare
  BY PrepareSteps DEF Prepares, Launched
<1>2. job.at \in WithMachine /\ job'.m = job.m /\ (job.at \in Launched \/ Launch)
  BY <1>1, BootMoves DEF Typed
<1>3. job.m \in Machines /\ Booting /\ vm[job.m].ws # None
  BY <1>2, BootHas, Sets DEF Typed
<1>4. CASE Launch
  BY <1>2, <1>3, <1>4 DEF Launch, Typed, VmType
<1>5. CASE job.at \in Launched
  <2>1. vm[job.m].alive
    BY <1>3, <1>5 DEF BootUp
  <2>2. job' # NoJob /\ job'.at # "recover" /\ job.at # "kill"
    BY <1>5 DEF NoJob, Launched, WithMachine
  <2>3. ~Gone /\ ~Kill /\ ~FailReady /\ ~FailRestore
    BY <2>2, RestoreSteps DEF Gone, Kill, FailReady
  <2>4. ~GuestExits(job.m)
    BY <1>2, BootHas DEF GuestExits
  <2> QED
    BY <1>2, <1>3, <2>1, <2>3, <2>4, Falls
<1> QED
  BY <1>2, <1>4, <1>5

\* Whoever takes down a machine that is up finds it in the map.
LEMMA TakesMapped ==
    ASSUME Typed, Unused, Dead, Apart, KeepsUp, Next, job'.op \in {"destroy", "reap", "shutdown"},
           job'.m # None, vm'[job'.m].alive
    PROVE  running'[job'.ws] = job'.m
<1>1. ASSUME NEW v \in Workspaces, Grabs(v) PROVE running'[job'.ws] = job'.m
  BY <1>1 DEF Grabs
<1>2. ASSUME Taker, job'.m = job.m, job'.ws = job.ws
      PROVE  running'[job'.ws] = job'.m
  <2>1. job.m \in Machines /\ job.ws \in Workspaces /\ vm[job.m].ws = job.ws /\ job.m # None
    BY <1>2, JobAt, Sets DEF Typed, JobShape, OfTaker, Taker
  <2>2. ~Prepare /\ ~Launch /\ ~Insert
    BY <1>2, JobHas DEF Typed, Taker, Prepare, Launch, Insert, WithMachine
  <2>3. vm[job.m].alive
    BY <1>2, <2>1, <2>2, VmStays DEF Typed, Stays
  <2>4. running[job.ws] = job.m /\ Up(job.ws)
    BY <1>2, <2>1, <2>3 DEF KeepsUp, Up
  <2>5. CASE Unmap \/ Gone
    <3>1. ~Gone
      <4>1. Gone => job' = NoJob
        BY DEF Gone
      <4>2. NoJob.m = None
        BY DEF NoJob
      <4> QED
        BY <1>2, <2>1, <4>1, <4>2
    <3> QED
      BY <1>2, <2>1, <2>3, <2>5, <3>1 DEF Unmap, Dead
  <2>6. ASSUME NEW r \in Requests, Evict(r) PROVE running'[job.ws] = job.m
    <3>1. Checking(r) /\ ~vm[req[r].m].alive
      BY <2>6 DEF Evict, Checking, Dead
    <3>2. vm[req[r].m].ws # job.ws
      BY <2>1, <2>4, <3>1, UpIsSafe DEF Doomed, Late
    <3>3. running' = [running EXCEPT ![vm[req[r].m].ws] = None]
      BY <2>6 DEF Evict, Evicted
    <3> QED
      BY <2>1, <2>4, <3>2, <3>3 DEF Typed, RunType
  <2>7. CASE UNCHANGED running
    BY <1>2, <2>4, <2>7
  <2>8. running'[job.ws] = job.m
    BY <1>2, <2>2, <2>5, <2>6, <2>7, RunningMoves
  <2> QED
    BY <1>2, <2>8
<1>3. Taker /\ (CountsOn \/ Flush \/ Pause \/ Stages \/ Rotates \/ Sweep \/ Kill \/ Erase)
        => job'.m = job.m /\ job'.ws = job.ws
  BY PlainSteps DEF Goes, CountsOn, Stages, Rotates, Typed
<1> QED
  BY <1>1, <1>2, <1>3, TakerSteps DEF Taker

\* A step of a job that takes a durable machine down, up to the removal of files.
LEMMA StillTakes ==
    ASSUME Typed, Next,
           job'.op \in {"destroy", "reap", "shutdown"}, job'.ws \in Durable, job'.at \in StillUp
    PROVE  /\ Taker /\ job'.m = job.m /\ job'.ws = job.ws
           /\ job.m \in Machines /\ job.m # None /\ vm[job.m].ws = job.ws
           /\ \/ Flush /\ job'.at = "pause"
              \/ job.at \in StillUp /\ (Pause \/ (job'.at \in StillPaused => job.at \in StillPaused))
           /\ ~Gone /\ ~Kill /\ ~FailRestore /\ ~FailReady /\ ~Unmap /\ ~FailPersist
<1>1. ~\E v \in Workspaces : Grabs(v)
  BY DEF Grabs, StillUp, Rotate
<1>2. job'.ws # None /\ ~CountsOn
  BY Sets DEF CountsOn, StillUp, Rotate
<1>3. Taker
  BY <1>1, <1>2, TakerSteps DEF Taker
<1>4. UNCHANGED job \/ Flush \/ Pause \/ Stages \/ Rotates \/ Sweep
  <2>1. (Kill \/ Erase) => job'.at \in {"erase", "unmap"}
    BY PlainSteps DEF Goes, Typed
  <2>2. job'.at \notin {"erase", "unmap"}
    BY DEF StillUp, Rotate
  <2> QED
    BY <1>1, <1>2, <2>1, <2>2, TakerSteps
<1>5. /\ job'.m = job.m /\ job'.ws = job.ws
      /\ \/ Flush /\ job'.at = "pause"
         \/ job.at \in StillUp /\ (Pause \/ (job'.at \in StillPaused => job.at \in StillPaused))
  BY <1>4, PlainSteps DEF Goes, Stages, Rotates, Typed, StillUp, StillPaused, Rotate
<1>6. job.m \in Machines /\ job.m # None /\ vm[job.m].ws = job.ws
  BY <1>3, <1>5, TakerHas, Sets DEF StillUp, Rotate, Flush
<1>7. ~Gone /\ ~Kill /\ ~FailRestore /\ ~FailReady /\ ~Unmap /\ ~FailPersist
  <2>1. job' # NoJob /\ job'.at \notin {"erase", "next", "recover"}
    BY DEF NoJob, StillUp, Rotate
  <2>2. ~Kill
    BY <2>1, PlainSteps DEF Goes, Typed
  <2> QED
    BY <2>1, <2>2, RestoreSteps, UnmapSteps DEF Gone, FailReady, FailPersist, GiveUp
<1> QED
  BY <1>3, <1>5, <1>6, <1>7

\* A durable machine that is taken down is paused until the end.
LEMMA TakesPaused ==
    ASSUME Typed, KeepsUp, Next,
           job'.op \in {"destroy", "reap", "shutdown"}, job'.ws \in Durable,
           job'.at \in StillPaused
    PROVE  vm'[job'.m].paused
<1>1. job'.at \in StillUp /\ job'.at # "pause"
  BY DEF StillUp, StillPaused, Rotate
<1>2. CASE Pause
  BY <1>1, <1>2, StillTakes DEF Pause, Typed, VmType
<1>3. CASE job.at \in StillPaused
  <2>1. vm[job.m].paused
    BY <1>1, <1>3, StillTakes DEF KeepsUp
  <2> QED
    BY <1>1, <2>1, StillTakes, PausedStays
<1> QED
  BY <1>1, <1>2, <1>3, StillTakes

LEMMA KeepsUpKept ==
    ASSUME Typed, Unused, Dead, Apart, KeepsUp, Next
    PROVE  KeepsUp'
BY TakesMapped, TakesPaused DEF KeepsUp, Taker

\* It is up until then, if no guest exits on its own.
LEMMA StaysUpKept ==
    ASSUME Typed, Dead, StaysUp, Next, \A m \in Machines : ~GuestExits(m)
    PROVE  StaysUp'
<1> SUFFICES ASSUME job'.op \in {"destroy", "reap", "shutdown"}, job'.ws \in Durable,
                    job'.at \in StillUp
             PROVE  vm'[job'.m].alive
  BY DEF StaysUp, Taker
<1>1. vm[job.m].alive
  <2>1. CASE Flush
    BY <2>1 DEF Flush, Answers, Live
  <2>2. CASE job.at \in StillUp
    BY <2>2, StillTakes DEF StaysUp
  <2> QED
    BY <2>1, <2>2, StillTakes
<1> QED
  BY <1>1, StillTakes, Falls, Sets

-----------------------------------------------------------------------------
(* The saved work: what the jail of a durable workspace is like.           *)

\* What the steps of one workspace go by.
Sound ==
    /\ Typed /\ PastType /\ MarkType /\ Unused /\ Dead /\ Apart /\ InUse /\ BootIntact
    /\ Blank /\ ReclaimedOnly /\ KeepsUp /\ BootUp

\* A step in which no guest exits on its own.
NextCalm == Next /\ \A m \in Machines : ~GuestExits(m)

\* A durable machine that writes is in the map and up, and nobody has paused it.
LEMMA Writer ==
    ASSUME Sound, NEW w \in Durable, NEW m, Writes(m), vm[m].ws = w
    PROVE  m \in Machines /\ Up(w) /\ running[w] = m /\ ~vm[m].paused
<1>1. m \in Machines /\ m # None /\ vm[m].alive /\ ~vm[m].paused /\ Held(m)
  <2>1. CASE Flush /\ job.m = m
    <3>1. job.at = "flush" /\ Answers(m)
      BY <2>1 DEF Flush
    <3>2. m \in Machines
      BY <2>1, <3>1, JobHas DEF Down, Sound, Typed
    <3> QED
      BY <3>1, <3>2, Sets DEF Answers, Live
  <2>2. CASE m \in Machines /\ WriteBack(m)
    <3>1. Answers(m)
      BY <2>2 DEF WriteBack
    <3> QED
      BY <2>2, <3>1, Sets DEF Answers, Live
  <2> QED
    BY <2>1, <2>2 DEF Writes
<1>2. m \in Mapped => running[w] = m
  BY MappedType DEF Sound
<1>3. ASSUME NEW r \in Requests, req[r].m = m PROVE running[w] = m
  <2>1. req[r].at # "free"
    BY <1>1, <1>3 DEF Sound, Typed, ReqShape, NoRequest
  <2> QED
    BY <1>1, <1>3, <2>1 DEF Sound, InUse
<1>4. ASSUME job.m = m PROVE running[w] = m
  <2>1. CASE Taker
    <3>1. job.ws = w
      BY <1>1, <1>4, <2>1, JobAt DEF Sound, Typed, JobShape, OfTaker, Taker
    <3> QED
      BY <1>1, <1>4, <2>1, <3>1 DEF Sound, KeepsUp
  <2>2. CASE job.op = "create"
    <3>1. job.at \in WithMachine
      BY <1>1, <1>4, <2>2 DEF Sound, Typed, JobShape, OfCreate, ReclaimedOnly
    <3>2. ~WriteBack(m)
      BY <1>1, <1>4, <2>2, <3>1 DEF Sound, Blank, Booting, WriteBack
    <3>3. ~Flush
      BY <3>1 DEF Flush, WithMachine
    <3> QED
      BY <3>2, <3>3 DEF Writes
  <2>3. job.op # "none"
    BY <1>1, <1>4, Sets DEF Sound, Typed, JobShape, OfNobody, NoJob
  <2> QED
    BY <2>1, <2>2, <2>3, JobAt DEF Taker, Sound, Typed
<1>5. running[w] = m
  BY <1>1, <1>2, <1>3, <1>4 DEF Held, Users
<1> QED
  BY <1>1, <1>5 DEF Up

\* What it writes is in the workspace's jail.
LEMMA Written ==
    ASSUME Sound, NEW w \in Durable, NEW m, Writes(m), vm[m].ws = w
    PROVE  /\ jail'[w].of = jail[w].of /\ jail'[w].meta = jail[w].meta
           /\ jail'[w].work = synced'[w] /\ synced'[w] \in Nat
           /\ UNCHANGED <<snap, prev, running, vm>>
           /\ UNCHANGED job \/ (Flush /\ job.m = m)
<1>1. m \in Machines
  BY Writer
<1>2. PICK n \in Nat : Settles(m, n)
  <2>1. cache[m] \in Nat
    BY <1>1 DEF Sound, PastType
  <2> QED
    BY <2>1 DEF Writes, Flush, WriteBack, SyncAll
<1>3. /\ jail' = [jail EXCEPT ![w].work = @ + n]
      /\ synced' = [synced EXCEPT ![w] = jail[w].work + n]
  BY <1>2 DEF Settles
<1>4. w \in Workspaces /\ JailType /\ PastType
  BY Sets DEF Sound, Typed
<1>5. jail'[w] = [jail[w] EXCEPT !.work = @ + n] /\ synced'[w] = jail[w].work + n
  BY <1>3, <1>4 DEF JailType, PastType
<1> QED
  BY <1>4, <1>5 DEF JailType, Writes, Flush, WriteBack

\* The jail of a machine that is being made is its own until it is in the map.
LEMMA BootKeepsJail ==
    ASSUME Sound, Next, NEW w \in Durable, Creates(w, WithMachine),
           job'.op = "create", job'.at \in WithMachine
    PROVE  \/ jail'[w] = jail[w]
           \/ WriteMeta /\ jail'[w] = [jail[w] EXCEPT !.meta = TRUE]
<1>0. Typed /\ Dead /\ ReclaimedOnly /\ Next /\ Unused /\ Apart /\ w \in Workspaces
  BY Sets DEF Sound
<1>1. ~Choose /\ ~Prepare
  BY DEF Creates, Choose, Prepare, WithMachine
<1>2. ~FailRestore /\ ~FailReady
  BY <1>0, RestoreSteps DEF FailReady, NoJob, WithMachine
<1>3. ~Late(w) /\ running[w] = None
  BY <1>0, BootIsSafe, BootHas DEF Creates, Doomed
<1>4. ~DiscardSnapshot(w) /\ ~Taker
  BY DEF DiscardSnapshot, Idle, Creates, Taker
<1>5. ~Wrote(w)
  BY <1>3, Writer DEF Wrote, Up
<1> QED
  BY <1>0, <1>1, <1>2, <1>3, <1>4, <1>5, JailOfOne DEF Chooses, Prepares, Takes

LEMMA UpKeepsJail ==
    ASSUME Sound, Next, NEW w \in Durable, Up(w)
    PROVE  jail'[w] = jail[w] \/ Grew(w)
<1>0. Typed /\ Dead /\ ReclaimedOnly /\ Next /\ Unused /\ Apart /\ w \in Workspaces
  BY Sets DEF Sound
<1>1. ~Doomed(w) /\ running[w] # None /\ running[w] \in Machines
  BY <1>0, UpIsSafe DEF Up
<1>2. ASSUME Creates(w, {"choose", "prepare", "meta", "restore", "await"}) PROVE FALSE
  BY <1>0, <1>1, <1>2 DEF Creates, Typed, JobShape, OfCreate
<1>3. ASSUME Takes(w, {"erase"}) PROVE FALSE
  <2>1. job.m # None /\ Taker /\ job.ws = w
    BY <1>0, <1>3, TakerHas DEF Takes
  <2> QED
    BY <1>0, <1>3, <2>1, TakerHasIt DEF Takes, Dead
<1>4. ~(Chooses /\ job.ws = w) /\ ~(Prepares /\ job.ws = w)
  BY <1>0, <1>2, PrepareSteps DEF Chooses, Prepares, Creates
<1>5. ~Late(w)
  BY <1>1 DEF Doomed
<1> QED
  BY <1>0, <1>1, <1>2, <1>3, <1>4, <1>5, JailOfOne DEF Creates

\* The steps of a create that has a machine.
LEMMA BootSteps ==
    ASSUME Typed, Next, job'.op = "create", job'.at \in WithMachine, ~Prepare, job'.ws \in Durable
    PROVE  /\ Creates(job'.ws, WithMachine)
           /\ job'.at \in {"launch", "restore", "await", "meta"} =>
                job.at \in {"launch", "restore", "await", "meta"} /\ ~WriteMeta
           /\ job'.at \in {"marker", "insert"} => job.at \in {"marker", "insert"} \/ WriteMeta
<1>1. job.at \in WithMachine /\ job'.ws = job.ws
  BY BootMoves DEF Typed
<1>2. job.op = "create"
  BY <1>1, BootHas
<1>3. UNCHANGED job \/ Launch \/ Restored \/ Ready \/ WriteMeta \/ WriteMarker
  <2>1. ~Recovers /\ ~Chooses /\ ~Prepares
    BY DEF Recovers, Chooses, Prepares, WithMachine
  <2>2. ~Rotates /\ ~Kill /\ ~Erase
    <3>1. Rotates \/ Kill \/ Erase => job.at \in Rotate \cup {"kill", "erase"}
      BY DEF Rotates, DropPrevious, Demote, Promote, Kill, Erase, Rotate
    <3> QED
      BY <1>1, <3>1 DEF WithMachine, Rotate
  <2>3. job'.at # "recover" /\ \A v \in Workspaces : ~Reclaimed(v)
    BY <1>2 DEF WithMachine, Reclaimed
  <2> QED
    BY <2>1, <2>2, <2>3, CreateSteps
<1>4. /\ job'.at \in {"launch", "restore", "await", "meta"} =>
          job.at \in {"launch", "restore", "await", "meta"} /\ ~WriteMeta
      /\ job'.at \in {"marker", "insert"} => job.at \in {"marker", "insert"} \/ WriteMeta
  BY <1>1, <1>3, PlainSteps DEF Goes, Typed, WriteMeta
<1> QED
  BY <1>1, <1>2, <1>4 DEF Creates

LEMMA JailedKept ==
    ASSUME Sound, Next, NEW w \in Durable, Jailed(w)
    PROVE  Jailed(w)'
<1>0. /\ Typed /\ Dead /\ ReclaimedOnly /\ Next /\ Unused /\ Apart /\ w \in Workspaces
      /\ BootIntact /\ JailType
  BY Sets DEF Sound, Typed
<1>1. ASSUME Up(w)' PROVE Recoverable(w)'
  <2>1. CASE Up(w)
    <3>1. jail'[w].of = jail[w].of /\ jail'[w].meta = jail[w].meta
      <4>1. jail'[w] = jail[w] \/ Grew(w)
        BY <2>1, UpKeepsJail
      <4> QED
        BY <1>0, <4>1 DEF JailType, Grew
    <3> QED
      BY <2>1, <3>1 DEF Jailed, Recoverable
  <2>2. CASE Insert /\ Creates(w, {"insert"})
    <3>1. jail'[w] = jail[w]
      BY <2>2 DEF Insert, files
    <3>2. jail[w].of = job.m /\ job.m # None
      BY <1>0, <2>2, BootHas, Sets DEF BootIntact, Creates, WithMachine
    <3>3. jail[w].meta
      BY <2>2 DEF Jailed, Creates
    <3> QED
      BY <3>1, <3>2, <3>3 DEF Recoverable
  <2> QED
    BY <1>0, <1>1, <2>1, <2>2, UpStep
<1>2. ASSUME job'.op = "create", job'.ws = w, job'.at \in {"launch", "restore", "await", "meta"}
      PROVE  ~jail'[w].meta
  <2>1. CASE Prepare
    <3>1. job.ws = w
      BY <1>0, <1>2, <2>1, PrepareSteps DEF Prepares
    <3> QED
      BY <1>0, <2>1, <3>1 DEF Prepare, JailType
  <2>2. CASE ~Prepare
    <3>1. /\ Creates(w, WithMachine) /\ job'.at \in WithMachine /\ ~WriteMeta
          /\ Creates(w, {"launch", "restore", "await", "meta"})
      BY <1>0, <1>2, <2>2, BootSteps DEF Creates, WithMachine
    <3>2. jail'[w] = jail[w]
      BY <1>2, <3>1, BootKeepsJail
    <3> QED
      BY <3>1, <3>2 DEF Jailed
  <2> QED
    BY <2>1, <2>2
<1>3. ASSUME job'.op = "create", job'.ws = w, job'.at \in {"marker", "insert"}
      PROVE  jail'[w].meta
  <2>1. ~Prepare
    BY <1>0, <1>3, PrepareSteps DEF Prepares
  <2>2. /\ Creates(w, WithMachine) /\ job'.at \in WithMachine
        /\ Creates(w, {"marker", "insert"}) \/ WriteMeta
    BY <1>0, <1>3, <2>1, BootSteps DEF Creates, WithMachine
  <2>3. \/ jail'[w] = jail[w] /\ ~WriteMeta
        \/ jail'[w] = [jail[w] EXCEPT !.meta = TRUE]
    BY <1>0, <1>3, <2>2, BootKeepsJail DEF WriteMeta, Creates, JailType
  <2> QED
    BY <1>0, <2>2, <2>3 DEF Jailed, JailType
<1>4. ASSUME job'.op \in {"destroy", "reap", "shutdown"}, job'.ws = w, job'.at = "unmap"
      PROVE  jail'[w].of = None
  <2>1. CASE Erase
    <3>1. Taker /\ job.ws = w
      BY <1>0, <1>4, <2>1, PlainSteps DEF Goes, Taker, Typed
    <3>2. vm[job.m].ws = w
      BY <1>0, <2>1, <3>1, TakerHas DEF Erase
    <3> QED
      BY <1>0, <2>1, <3>2 DEF Erase, JailType, NoJail
  <2>2. CASE ~Erase
    <3>1. ~\E v \in Workspaces : Grabs(v)
      BY <1>4 DEF Grabs
    <3>2. ~CountsOn /\ ~Flush /\ ~Pause /\ ~Stages /\ ~Rotates /\ ~Sweep /\ ~Kill
      BY <1>0, <1>4, PlainSteps DEF CountsOn, Stages, Goes, Rotates, Typed
    <3>3. UNCHANGED job
      BY <1>0, <1>4, <2>2, <3>1, <3>2, TakerSteps
    <3>4. Takes(w, {"unmap"}) /\ jail[w].of = None
      BY <1>4, <3>3 DEF Takes, Taker, Jailed
    <3>5. \/ jail'[w] = jail[w]
          \/ jail'[w] = NoJail
          \/ Grew(w)
      <4>1. /\ ~FailErase /\ ~FailRestore /\ ~FailReady /\ ~WriteMeta /\ ~Prepares
            /\ ~DiscardSnapshot(w)
        BY <3>4 DEF FailErase, FailRestore, FailReady, WriteMeta, Prepares, Takes,
           DiscardSnapshot, Idle, Taker
      <4> QED
        BY <1>0, <4>1, JailOfOne
    <3> QED
      <4>1. Grew(w) => jail'[w].of = jail[w].of
        BY <1>0 DEF JailType, Grew
      <4> QED
        BY <3>4, <3>5, <4>1 DEF NoJail
  <2> QED
    BY <2>1, <2>2
<1> QED
  BY <1>1, <1>2, <1>3, <1>4 DEF Jailed, Creates, Takes, Taker

LEMMA RecoverableMoves ==
    ASSUME Sound, Next, NEW w \in Durable, Recoverable(w)'
    PROVE  \/ Recoverable(w) /\ jail'[w] = jail[w]
           \/ WriteMeta /\ Creates(w, {"meta"}) /\ jail'[w] = [jail[w] EXCEPT !.meta = TRUE]
           \/ Wrote(w) /\ Recoverable(w)
<1>0. Typed /\ Dead /\ ReclaimedOnly /\ Next /\ JailType /\ w \in Workspaces
  BY Sets DEF Sound, Typed
<1>1. jail'[w] # NoJail /\ jail'[w].meta
  BY DEF Recoverable, NoJail
<1>2. ~Prepares \/ job.ws # w \/ jail'[w] # [of |-> made', work |-> Source(job.cp), meta |-> FALSE]
  BY <1>1
<1>3. jail'[w] \in Leftovers(w) => jail'[w] = jail[w]
  <2>1. jail'[w] # [jail[w] EXCEPT !.meta = FALSE]
    BY <1>0, <1>1 DEF JailType
  <2> QED
    BY <1>1, <2>1 DEF Leftovers
<1>4. DiscardSnapshot(w) => jail'[w] = jail[w]
  BY <1>0, <1>1 DEF DiscardSnapshot, JailType
<1>5. jail'[w] = jail[w] => Recoverable(w)
  BY DEF Recoverable
<1>6. Grew(w) => Recoverable(w)
  BY <1>0 DEF Recoverable, JailType, Grew
<1> QED
  BY <1>0, <1>1, <1>2, <1>3, <1>4, <1>5, <1>6, JailOfOne

\* Where a checkpoint is being replaced.
LEMMA RotateSteps ==
    ASSUME Typed, Next, job'.at \in Rotate, job'.op # "none", JobType', JobShape'
    PROVE  \/ Recovers /\ job'.op = "create"
           \/ Stages /\ Taker /\ job'.op # "create"
           \/ /\ job'.op = job.op /\ job'.ws = job.ws /\ job'.cp = job.cp /\ job.at \in Rotate
              /\ \/ UNCHANGED job
                 \/ DropPrevious /\ Goes("dropPrev", "demote")
                 \/ Demote /\ Goes("demote", "promote")
<1>1. ASSUME DropPrevious \/ Demote
      PROVE  /\ job'.op = job.op /\ job'.ws = job.ws /\ job'.cp = job.cp /\ job.at \in Rotate
             /\ \/ DropPrevious /\ Goes("dropPrev", "demote")
                \/ Demote /\ Goes("demote", "promote")
  BY <1>1, PlainSteps DEF Goes, Typed, Rotate
<1>2. ~Promote
  BY PlainSteps DEF Goes, Typed, Rotate
<1>3. CASE job'.op = "create"
  <2>1. ~Chooses /\ ~Prepares /\ job'.at # "recover" /\ \A v \in Workspaces : ~Reclaimed(v)
    BY DEF Chooses, Prepares, Reclaimed, Rotate
  <2>2. ~Launch /\ ~Restored /\ ~Ready /\ ~WriteMeta /\ ~WriteMarker /\ ~Kill /\ ~Erase
    BY PlainSteps DEF Goes, Typed, Rotate
  <2> QED
    BY <1>1, <1>2, <1>3, <2>1, <2>2, CreateSteps DEF Rotates
<1>4. CASE job'.op \in {"destroy", "reap", "shutdown"}
  <2>1. ~CountsOn /\ job'.at # "next" /\ \A v \in Workspaces : ~Grabs(v)
    BY DEF CountsOn, Grabs, Rotate
  <2>2. ~Flush /\ ~Pause /\ ~Sweep /\ ~Kill /\ ~Erase
    BY PlainSteps DEF Goes, Typed, Rotate
  <2> QED
    BY <1>1, <1>2, <1>4, <2>1, <2>2, TakerSteps DEF Rotates, Taker
<1>5. job'.op \in {"create", "destroy", "reap", "shutdown"}
  BY DEF JobType, Jobs
<1> QED
  BY <1>3, <1>4, <1>5

LEMMA BlamedKept ==
    ASSUME Sound, NextCalm, NEW w \in Durable, Blamed(w), JobType', JobShape'
    PROVE  Blamed(w)'
<1>0. /\ Typed /\ Dead /\ ReclaimedOnly /\ Next /\ JailType /\ Unused /\ Apart /\ w \in Workspaces
      /\ JobType
  BY Sets DEF Sound, NextCalm, Typed
<1>1. faults \in Nat /\ faults' \in {faults, faults + 1}
  BY <1>0, CountMoves DEF Typed, CountType
<1>2. Doomed(w)' => Doomed(w) \/ (Kill /\ Takes(w, {"kill"}))
  BY <1>0, DoomedMoves DEF Sound, NextCalm
<1>3. ASSUME Doomed(w)', Recoverable(w)'
      PROVE  \/ faults' >= 1
             \/ /\ job'.op \in {"destroy", "reap", "shutdown"}
                /\ job'.ws = w /\ job'.at = "erase"
  <2>1. CASE Kill /\ Takes(w, {"kill"})
    BY <1>0, <2>1, PlainSteps DEF Goes, Takes, Taker
  <2>2. CASE Doomed(w)
    <3>1. Recoverable(w)
      <4>1. ~Creates(w, WithMachine)
        BY <1>0, <2>2, BootIsSafe
      <4> QED
        BY <1>0, <1>3, <4>1, RecoverableMoves DEF Creates, WithMachine
    <3>2. CASE Takes(w, {"erase"})
      <4>1. ~Erase
        <5>1. Erase => jail'[w] = NoJail
          BY <1>0, <3>2, TakerHas DEF Takes, Erase, JailType
        <5> QED
          BY <1>3, <5>1 DEF Recoverable, NoJail
      <4>2. UNCHANGED job \/ faults' = faults + 1
        BY <1>0, <3>2, <4>1, LeavesErase DEF Takes
      <4> QED
        BY <1>1, <3>2, <4>2 DEF Takes, Taker
    <3> QED
      BY <1>1, <2>2, <3>1, <3>2 DEF Blamed
  <2> QED
    BY <1>2, <1>3, <2>1, <2>2
<1>4. ASSUME job'.op = "create", job'.ws = w, job'.at \in Rotate, Doomed(w)' \/ ~Recoverable(w)'
      PROVE  faults' >= 1
  <2>1. CASE Recovers
    <3>1. jail' = jail
      BY <2>1 DEF Recovers, Recover, files
    <3>2. Recoverable(w) /\ Recoverable(w)' /\ job.op = "create"
      BY <1>4, <2>1, <3>1 DEF Recovers, Recoverable, Rotate
    <3>3. Doomed(w)
      BY <1>2, <1>4, <3>2 DEF Takes, Taker
    <3> QED
      BY <1>1, <3>2, <3>3 DEF Blamed, Takes, Taker
  <2>2. CASE Creates(w, Rotate)
    <3>1. Doomed(w)' => Doomed(w)
      BY <1>2, <2>2 DEF Creates, Takes, Taker
    <3>2. CASE ~Recoverable(w)'
      <4>1. \/ jail'[w] = jail[w]
            \/ \E r \in Requests : Late(w)
            \/ Grew(w)
        <5>1. ~Chooses /\ ~Prepares /\ ~WriteMeta /\ ~DiscardSnapshot(w)
          BY <2>2 DEF Creates, Chooses, Prepares, WriteMeta, DiscardSnapshot, Idle, Rotate
        <5>2. ~Creates(w, {"restore", "await"}) /\ ~Takes(w, {"erase"})
          BY <2>2 DEF Creates, Takes, Taker, Rotate
        <5> QED
          BY <1>0, <5>1, <5>2, JailOfOne
      <4>2. ~Recoverable(w) \/ Late(w)
        <5>1. Grew(w) => jail'[w].of = jail[w].of /\ jail'[w].meta = jail[w].meta
          BY <1>0 DEF JailType, Grew
        <5> QED
          BY <3>2, <4>1, <5>1 DEF Recoverable
      <4> QED
        BY <1>1, <2>2, <4>2 DEF Blamed, Doomed
    <3> QED
      BY <1>1, <1>4, <2>2, <3>1, <3>2 DEF Blamed
  <2>3. Recovers \/ Creates(w, Rotate)
    BY <1>0, <1>4, RotateSteps DEF Creates
  <2> QED
    BY <2>1, <2>2, <2>3
<1> QED
  BY <1>3, <1>4 DEF Blamed, Creates, Takes, Taker

-----------------------------------------------------------------------------
(* The saved work: where it is after a step.                               *)

\* A step that leaves the saved work of w as it is.
Carries(w) ==
    /\ Sound /\ NextCalm /\ StaysUp /\ Jailed(w) /\ Blamed(w) /\ Saves(w) /\ faults' <= 1
    /\ synced[w] # None /\ synced'[w] = synced[w]

LEMMA CarriesFacts ==
    ASSUME NEW w \in Durable, Carries(w)
    PROVE  /\ Sound /\ NextCalm /\ Typed /\ Dead /\ ReclaimedOnly /\ Next /\ JailType
           /\ Unused /\ Apart
           /\ w \in Workspaces /\ ~DiscardSnapshot(w) /\ JobType /\ JobShape
           /\ faults \in Nat /\ faults' \in {faults, faults + 1}
           /\ faults' = faults + 1 => faults = 0
<1>1. ~DiscardSnapshot(w)
  BY Sets DEF Carries, DiscardSnapshot, Sound, PastType
<1>2. Typed /\ Next
  BY DEF Carries, Sound, NextCalm
<1>3. faults \in Nat /\ faults' \in {faults, faults + 1} /\ faults' <= 1
  BY <1>2, CountMoves DEF Typed, CountType, Carries
<1> QED
  BY <1>1, <1>2, <1>3, Sets DEF Carries, Sound, NextCalm, Typed

\* In a recovery that fails, nothing has failed before.
LEMMA FirstFailure ==
    ASSUME NEW w \in Durable, Carries(w), faults' = faults + 1, Creates(w, Rotate)
    PROVE  ~Doomed(w) /\ Recoverable(w)
BY CarriesFacts DEF Carries, Blamed

\* Nobody takes down a machine that is dead and not written off.
LEMMA TakerIsUp ==
    ASSUME NEW w \in Durable, Carries(w), Taker, job.ws = w, job.at \in Rotate \cup {"stage"}
    PROVE  Up(w) /\ Recoverable(w) /\ ~Doomed(w)
<1>1. job.m # None
  BY CarriesFacts, TakerHas DEF Rotate
<1>2. vm[job.m].alive /\ running[w] = job.m
  BY <1>1, Sets DEF Carries, Sound, KeepsUp, StaysUp, StillUp, Rotate
<1>3. Up(w)
  BY <1>1, <1>2 DEF Up
<1> QED
  BY <1>3, CarriesFacts, UpIsSafe DEF Carries, Jailed

LEMMA HolderIs ==
    ASSUME NEW w \in Durable, Carries(w), job.ws = w, job.at \in Rotate
    PROVE  Creates(w, Rotate) \/ Taker
BY CarriesFacts, JobAt DEF Creates, Taker, Rotate

\* A checkpoint that is in its place stays there, or makes room for another.
LEMMA InPlaceStays ==
    ASSUME NEW w \in Durable, Carries(w), InPlace(w), Doomed(w) \/ ~Recoverable(w)
    PROVE  InPlace(w)'
<1>0. synced'[w] = synced[w]
  BY DEF Carries
<1>1. ASSUME job.ws = w, job.at \in Rotate PROVE Creates(w, Rotate)
  BY <1>1, HolderIs, TakerIsUp
<1>2. ASSUME job.ws = w, job.at = "promote" PROVE UNCHANGED job \/ Promote
  BY <1>1, <1>2, CarriesFacts, LeavesPromote, FirstFailure DEF Rotate
<1>3. ~(FailPersist /\ job.ws = w /\ job.at = "promote")
  <2>1. FailPersist => job' = NoJob
    BY DEF FailPersist, GiveUp
  <2>2. Promote => job' # NoJob
    BY CarriesFacts, PlainSteps DEF Goes, NoJob
  <2>3. NoJob.at = "none"
    BY DEF NoJob
  <2> QED
    BY <1>2, <2>1, <2>2, <2>3
<1>4. job.ws = w /\ job.at \in Rotate => Is(job.cp, synced[w])
  BY DEF Carries, Saves
<1>5. CASE Is(snap[w], synced[w])
  <2>1. CASE snap'[w] = snap[w]
    BY <1>0, <1>5, <2>1 DEF InPlace
  <2>2. CASE Demote /\ job.ws = w /\ ~Exists(snap'[w]) /\ prev'[w] = snap[w]
    <3>1. job.op = "create" /\ Goes("demote", "promote")
      BY <1>1, <2>2, CarriesFacts, PlainSteps DEF Demote, Creates, Rotate
    <3> QED
      BY <1>0, <1>5, <2>2, <3>1 DEF InPlace, Creates, Goes
  <2>3. CASE Promote /\ job.ws = w /\ snap'[w] = job.cp
    BY <1>0, <1>4, <2>3 DEF InPlace, Promote, Rotate
  <2> QED
    BY <1>3, <2>1, <2>2, <2>3, CarriesFacts, CheckpointMoves
<1>6. CASE Creates(w, {"promote"}) /\ ~Exists(snap[w]) /\ Is(prev[w], synced[w])
  <2>1. job.ws = w /\ job.at = "promote" /\ job.op = "create"
    BY <1>6 DEF Creates
  <2>2. CASE Promote
    <3>1. snap' = [snap EXCEPT ![job.ws] = job.cp]
      BY <2>2 DEF Promote
    <3>2. snap'[w] = job.cp
      BY <2>1, <3>1, CarriesFacts DEF Typed, SnapType
    <3> QED
      BY <1>0, <1>4, <2>1, <3>2 DEF InPlace, Rotate
  <2>3. CASE ~Promote
    <3>1. UNCHANGED job
      BY <1>2, <2>1, <2>3
    <3>2. snap'[w] = snap[w] /\ prev'[w] = prev[w]
      BY <1>3, <2>1, <2>3, CarriesFacts, CheckpointMoves DEF DropPrevious, Demote, Sweep
    <3> QED
      BY <1>0, <1>6, <2>1, <3>1, <3>2 DEF InPlace, Creates
  <2> QED
    BY <2>2, <2>3
<1> QED
  BY <1>5, <1>6 DEF InPlace

LEMMA InPlaceSaves ==
    ASSUME NEW w
    PROVE  /\ InPlace(w) => Is(Saved(w), synced[w])
           /\ InPlace(w)' => Is(Saved(w)', synced'[w])
BY DEF InPlace, Saved, Is

\* What the jail of a workspace no longer holds is in the checkpoint.
LEMMA LeavesJail ==
    ASSUME NEW w \in Durable, Carries(w), Recoverable(w), ~Recoverable(w)'
    PROVE  Is(Saved(w), synced[w]) /\ UNCHANGED <<snap, prev>>
<1>0. Typed /\ Dead /\ ReclaimedOnly /\ Next /\ JailType /\ w \in Workspaces /\ ~DiscardSnapshot(w)
  BY CarriesFacts
<1>1. jail'[w].of # jail[w].of \/ ~jail'[w].meta
  BY DEF Recoverable
<1>2. CASE jail'[w] = jail[w]
  BY <1>1, <1>2 DEF Recoverable
<1>3. CASE (Chooses \/ Prepares) /\ job.ws = w
  <2>1. Creates(w, {"choose", "prepare"})
    BY <1>0, <1>3, PrepareSteps DEF Chooses, Prepares, Creates
  <2>2. UNCHANGED <<snap, prev>>
    BY <1>3 DEF Chooses, Prepares, Choose, Prepare, files
  <2> QED
    BY <2>1, <2>2 DEF Carries, Saves
<1>4. ASSUME WriteMeta, jail'[w] = [jail[w] EXCEPT !.meta = TRUE] PROVE FALSE
  BY <1>0, <1>1, <1>4 DEF JailType
<1>5. CASE (Erase \/ FailErase) /\ Takes(w, {"erase"})
  <2>1. Is(snap[w], synced[w])
    BY <1>5 DEF Carries, Saves, Takes
  <2> QED
    BY <1>5, <2>1 DEF Saved, Is, Erase, FailErase
<1>6. ASSUME Creates(w, {"restore", "await"}) PROVE FALSE
  BY <1>6 DEF Carries, Jailed, Recoverable, Creates
<1>7. ASSUME NEW r \in Requests, Clean(r), Late(w)
      PROVE  Is(Saved(w), synced[w]) /\ UNCHANGED <<snap, prev>>
  <2>1. InPlace(w)
    BY <1>7 DEF Carries, Saves, Doomed
  <2> QED
    BY <1>7, <2>1, InPlaceSaves DEF Clean
<1>8. CASE Grew(w)
  BY <1>0, <1>1, <1>8 DEF JailType, Recoverable, Grew
<1> QED
  BY <1>0, <1>2, <1>3, <1>4, <1>5, <1>6, <1>7, <1>8, JailOfOne

LEMMA SavedStays ==
    ASSUME NEW w \in Durable, Carries(w), ~Recoverable(w)
    PROVE  Is(Saved(w)', synced[w])
<1>0. Is(Saved(w), synced[w]) /\ synced'[w] = synced[w]
  BY DEF Carries, Saves
<1>1. CASE snap'[w] = snap[w] /\ prev'[w] = prev[w]
  BY <1>0, <1>1 DEF Saved
<1>2. CASE job.ws = w /\ job.at \in Rotate
  <2>1. Creates(w, Rotate)
    BY <1>2, HolderIs, TakerIsUp
  <2>2. InPlace(w)
    BY <2>1 DEF Carries, Saves
  <2> QED
    BY <1>0, <2>2, InPlaceStays, InPlaceSaves
<1>3. CASE Sweep /\ job.ws = w /\ snap'[w] = snap[w]
  <2>1. Takes(w, {"sweep"})
    BY <1>3, CarriesFacts, JobHas, JobAt DEF Takes, Taker, Sweep, Down, Reclaims
  <2>2. Is(snap[w], synced[w])
    BY <2>1 DEF Carries, Saves, Takes
  <2> QED
    BY <1>3, <2>2 DEF Saved, Is
<1> QED
  BY <1>1, <1>2, <1>3, CarriesFacts, CheckpointMoves DEF DropPrevious, Demote, Promote, Rotate

LEMMA SavedInJail ==
    ASSUME NEW w \in Durable, Carries(w), Recoverable(w)'
    PROVE  jail'[w].work = synced[w]
<1>0. JailType /\ w \in Workspaces /\ Sound /\ NextCalm /\ Next
  BY CarriesFacts
<1>1. CASE Recoverable(w) /\ jail'[w] = jail[w]
  BY <1>1 DEF Carries, Saves
<1>2. CASE Creates(w, {"meta"}) /\ jail'[w] = [jail[w] EXCEPT !.meta = TRUE]
  <2>1. jail[w].work = synced[w]
    BY <1>2 DEF Carries, Saves, Creates
  <2> QED
    BY <1>0, <1>2, <2>1 DEF JailType
<1>3. CASE Wrote(w)
  BY <1>0, <1>3, Written DEF Wrote, Carries
<1> QED
  BY <1>0, <1>1, <1>2, <1>3, RecoverableMoves

LEMMA SavedInCheckpoint ==
    ASSUME NEW w \in Durable, Carries(w), ~Recoverable(w)'
    PROVE  Is(Saved(w)', synced[w])
<1>1. CASE Recoverable(w)
  <2>1. Is(Saved(w), synced[w]) /\ UNCHANGED <<snap, prev>>
    BY <1>1, LeavesJail
  <2> QED
    BY <2>1 DEF Saved
<1> QED
  BY <1>1, SavedStays

LEMMA SavedToChoose ==
    ASSUME NEW w \in Durable, Carries(w), job'.op = "create", job'.ws = w,
           job'.at \in {"choose", "prepare"}
    PROVE  /\ Is(Saved(w)', synced[w])
           /\ job'.at = "prepare" => Is(job'.cp, synced[w])
<1>0. Typed /\ Next /\ w \in Workspaces /\ SnapType /\ JobType /\ ~DiscardSnapshot(w)
  BY CarriesFacts DEF Typed
<1>1. CASE UNCHANGED job
  <2>1. Creates(w, {"choose", "prepare"}) /\ (job.at = "prepare" => Creates(w, {"prepare"}))
    BY <1>1 DEF Creates
  <2>2. Is(Saved(w), synced[w]) /\ (job.at = "prepare" => Is(job.cp, synced[w]))
    BY <2>1 DEF Carries, Saves
  <2>3. snap'[w] = snap[w] /\ prev'[w] = prev[w]
    BY <1>0, <2>1, CheckpointMoves DEF Creates, DropPrevious, Demote, Promote, Sweep
  <2> QED
    BY <1>1, <2>2, <2>3 DEF Saved
<1>2. CASE Recovers
  <2>1. job.ws = w /\ ~Recoverable(w) /\ job'.at = "choose"
    BY <1>2 DEF Recovers, Recoverable
  <2>2. Is(Saved(w), synced[w]) /\ UNCHANGED <<snap, prev>>
    BY <1>2, <2>1 DEF Carries, Saves, Recovers, Recover, files
  <2> QED
    BY <2>1, <2>2 DEF Saved
<1>3. CASE Chooses
  <2>1. Creates(w, {"choose", "prepare"}) /\ job'.cp = Saved(w) /\ UNCHANGED <<snap, prev>>
    BY <1>3 DEF Chooses, Choose, Creates
  <2>2. Is(Saved(w), synced[w])
    BY <2>1 DEF Carries, Saves
  <2> QED
    BY <2>1, <2>2 DEF Saved
<1>4. CASE Promote
  <2>1. job.ws = w /\ job'.at = "choose"
    BY <1>0, <1>4, PlainSteps DEF Goes
  <2>2. snap'[w] = job.cp
    BY <1>0, <1>4, <2>1 DEF Promote, SnapType
  <2>3. Is(job.cp, synced[w])
    BY <1>4, <2>1 DEF Promote, Rotate, Carries, Saves
  <2> QED
    BY <2>1, <2>2, <2>3 DEF Saved, Is
<1>5. /\ ~Prepares /\ ~Launch /\ ~Restored /\ ~Ready /\ ~WriteMeta /\ ~WriteMarker /\ ~DropPrevious
      /\ ~Demote /\ ~Kill /\ ~Erase /\ job'.at # "recover" /\ \A v \in Workspaces : ~Reclaimed(v)
  BY <1>0, PlainSteps DEF Goes, Prepares, Reclaimed
<1> QED
  BY <1>0, <1>1, <1>2, <1>3, <1>4, <1>5, CreateSteps DEF Rotates

LEMMA SavedInBoot ==
    ASSUME NEW w \in Durable, Carries(w), job'.op = "create", job'.ws = w,
           job'.at \in {"launch", "restore", "await", "meta"}
    PROVE  jail'[w].work = synced[w]
<1>0. Typed /\ Next /\ w \in Workspaces /\ JailType /\ JobType /\ Sound /\ NextCalm
  BY CarriesFacts
<1>1. CASE Prepare
  <2>1. Creates(w, {"prepare"})
    BY <1>0, <1>1, PrepareSteps DEF Prepares, Creates
  <2>2. Is(job.cp, synced[w])
    BY <2>1 DEF Carries, Saves
  <2>3. jail'[w].work = Source(job.cp)
    BY <1>0, <1>1, <2>1 DEF Prepare, JailType, Creates
  <2> QED
    BY <2>2, <2>3 DEF Source, Is
<1>2. CASE ~Prepare
  <2>1. /\ Creates(w, WithMachine) /\ job'.at \in WithMachine /\ ~WriteMeta
        /\ Creates(w, {"launch", "restore", "await", "meta"})
    BY <1>0, <1>2, BootSteps DEF Creates, WithMachine
  <2>2. jail'[w] = jail[w]
    BY <1>0, <2>1, BootKeepsJail
  <2> QED
    BY <2>1, <2>2 DEF Carries, Saves
<1> QED
  BY <1>1, <1>2

LEMMA SavedInHand ==
    ASSUME NEW w \in Durable, Carries(w), job'.ws = w, job'.at \in Rotate, job'.op # "none",
           JobType', JobShape'
    PROVE  Is(job'.cp, synced[w])
<1>0. Typed /\ Next
  BY CarriesFacts
<1>1. CASE Recovers
  <2>1. job.ws = w /\ Recoverable(w) /\ Is(job'.cp, jail[w].work)
    BY <1>1 DEF Recovers, Rotate
  <2> QED
    BY <2>1 DEF Carries, Saves
<1>2. CASE Stages /\ Taker
  <2>1. job.ws = w /\ Is(job'.cp, jail[w].work) /\ job.at = "stage"
    BY <1>2 DEF Stages
  <2>2. Recoverable(w)
    BY <1>2, <2>1, TakerIsUp
  <2> QED
    BY <2>1, <2>2 DEF Carries, Saves
<1>3. CASE job'.ws = job.ws /\ job'.cp = job.cp /\ job.at \in Rotate
  BY <1>3 DEF Carries, Saves
<1> QED
  BY <1>0, <1>1, <1>2, <1>3, RotateSteps

LEMMA SavedInRecovery ==
    ASSUME NEW w \in Durable, Carries(w), job'.ws = w, job'.at \in Rotate, job'.op = "create",
           JobType', JobShape'
    PROVE  Recoverable(w)' \/ InPlace(w)'
<1>0. Typed /\ Next /\ JailType /\ Dead /\ ReclaimedOnly /\ w \in Workspaces /\ ~DiscardSnapshot(w)
  BY CarriesFacts
<1>1. CASE Recovers
  <2>1. job.ws = w /\ Recoverable(w) /\ UNCHANGED jail
    BY <1>1 DEF Recovers, Rotate, Recover, files
  <2> QED
    BY <2>1 DEF Recoverable
<1>2. CASE Creates(w, Rotate)
  <2>1. CASE Doomed(w) \/ ~Recoverable(w)
    <3>1. InPlace(w)
      BY <1>2, <2>1 DEF Carries, Saves
    <3> QED
      BY <2>1, <3>1, InPlaceStays
  <2>2. CASE ~Doomed(w) /\ Recoverable(w)
    <3>1. ~Chooses /\ ~Prepares /\ ~WriteMeta
      BY <1>2 DEF Creates, Chooses, Prepares, WriteMeta, Rotate
    <3>2. ~Creates(w, {"restore", "await"}) /\ ~Takes(w, {"erase"}) /\ ~Late(w)
      BY <1>2, <2>2 DEF Creates, Takes, Taker, Rotate, Doomed
    <3>3. jail'[w] = jail[w] \/ Grew(w)
      BY <1>0, <3>1, <3>2, JailOfOne
    <3> QED
      <4>1. Grew(w) => jail'[w].of = jail[w].of /\ jail'[w].meta = jail[w].meta
        BY <1>0 DEF JailType, Grew
      <4> QED
        BY <2>2, <3>3, <4>1 DEF Recoverable
  <2> QED
    BY <2>1, <2>2
<1> QED
  BY <1>0, <1>1, <1>2, RotateSteps DEF Creates

LEMMA SavedByTaker ==
    ASSUME NEW w \in Durable, Carries(w), job'.ws = w, job'.op \in {"destroy", "reap", "shutdown"},
           job'.at \in {"sweep", "kill", "erase", "unmap"}
    PROVE  Is(snap'[w], synced[w])
<1>0. Typed /\ Next /\ JobType /\ SnapType /\ w \in Workspaces /\ ~DiscardSnapshot(w)
  BY CarriesFacts DEF Typed
<1>1. ASSUME Takes(w, {"sweep", "kill", "erase", "unmap"}), snap'[w] = snap[w]
      PROVE  Is(snap'[w], synced[w])
  BY <1>1 DEF Carries, Saves
<1>2. CASE UNCHANGED job
  <2>1. Takes(w, {"sweep", "kill", "erase", "unmap"})
    BY <1>2 DEF Takes, Taker
  <2>2. snap'[w] = snap[w]
    BY <1>0, <2>1, CheckpointMoves DEF Takes, DropPrevious, Demote, Promote
  <2> QED
    BY <1>1, <2>1, <2>2
<1>3. CASE Taker /\ (Sweep \/ Kill \/ Erase)
  <2>1. Takes(w, {"sweep", "kill", "erase", "unmap"})
    BY <1>0, <1>3, PlainSteps DEF Goes, Takes
  <2>2. snap'[w] = snap[w]
    BY <1>3 DEF Sweep, Kill, Erase, files
  <2> QED
    BY <1>1, <2>1, <2>2
<1>4. CASE Promote
  <2>1. job.ws = w
    BY <1>0, <1>4, PlainSteps DEF Goes
  <2>2. snap'[w] = job.cp
    BY <1>0, <1>4, <2>1 DEF Promote, SnapType
  <2>3. Is(job.cp, synced[w])
    BY <1>4, <2>1 DEF Promote, Rotate, Carries, Saves
  <2> QED
    BY <2>2, <2>3
<1>5. ~CountsOn /\ ~Stages /\ \A v \in Workspaces : ~Grabs(v)
  BY DEF CountsOn, Stages, Grabs
<1>6. ~Flush /\ ~Pause /\ ~DropPrevious /\ ~Demote
  BY <1>0, PlainSteps DEF Goes
<1> QED
  BY <1>0, <1>2, <1>3, <1>4, <1>5, <1>6, TakerSteps DEF Rotates

LEMMA SavedIfDoomed ==
    ASSUME NEW w \in Durable, Carries(w), Doomed(w)'
    PROVE  InPlace(w)'
<1>1. CASE Doomed(w)
  <2>1. InPlace(w)
    BY <1>1 DEF Carries, Saves
  <2> QED
    BY <1>1, <2>1, InPlaceStays
<1>2. CASE Kill /\ Takes(w, {"kill"})
  <2>1. Is(snap[w], synced[w])
    BY <1>2 DEF Carries, Saves, Takes
  <2> QED
    BY <1>2, <2>1 DEF InPlace, Kill, files, Carries
<1> QED
  BY <1>1, <1>2, CarriesFacts, DoomedMoves DEF Sound, NextCalm

\* A step that carries the saved work of w on.
LEMMA CarriedOn ==
    ASSUME NEW w \in Durable, Carries(w), JobType', JobShape'
    PROVE  Saves(w)'
<1>0. synced'[w] = synced[w]
  BY DEF Carries
<1>1. job'.at \in Rotate => job'.op # "none"
  BY DEF JobShape, OfNobody, NoJob, Rotate
<1> QED
  BY <1>0, <1>1, SavedInJail, SavedInCheckpoint, SavedToChoose, SavedInBoot, SavedInHand,
     SavedInRecovery, SavedByTaker, SavedIfDoomed
  DEF Saves, Creates, Takes, Taker

\* Nobody who is making a machine, or is past pausing it, meets one that writes.
LEMMA WritesAlone ==
    ASSUME Sound, NEW w \in Durable, NEW m, Writes(m), vm[m].ws = w
    PROVE  /\ ~(job.op = "create" /\ job.ws = w)
           /\ ~(Taker /\ job.ws = w /\ job.at \in {"erase", "unmap"} \cup StillPaused)
           /\ ~(job.ws = w /\ job.at \in Rotate)
<1>0. Typed /\ Dead /\ Apart /\ w \in Workspaces /\ JobType /\ JobShape /\ KeepsUp
  BY Sets DEF Sound, Typed
<1>1. Up(w) /\ ~vm[running[w]].paused
  BY Writer
<1>2. ~(job.op = "create" /\ job.ws = w)
  BY <1>0, <1>1 DEF JobShape, OfCreate, Up
<1>3. ASSUME Taker, job.ws = w, job.at \in {"erase", "unmap"} \cup StillPaused
      PROVE  FALSE
  <2>1. running[w] = job.m /\ vm[job.m].alive /\ job.m # None
    BY <1>0, <1>1, <1>3, TakerHas, TakerHasIt DEF Rotate, StillPaused
  <2> QED
    BY <1>0, <1>1, <1>3, <2>1 DEF KeepsUp, Dead
<1>4. ~(job.ws = w /\ job.at \in Rotate)
  BY <1>0, <1>2, <1>3, JobAt DEF Taker, Rotate, StillPaused
<1> QED
  BY <1>2, <1>3, <1>4

\* What is written is in the jail of such a machine.
LEMMA WrittenSaved ==
    ASSUME Sound, NextCalm, NEW w \in Durable, Jailed(w), Wrote(w)
    PROVE  Saves(w)'
<1> PICK m : Writes(m) /\ vm[m].ws = w
  BY DEF Wrote
<1>0. /\ Typed /\ Dead /\ ReclaimedOnly /\ Next /\ JailType /\ Unused /\ Apart /\ w \in Workspaces
      /\ JobType /\ JobShape /\ KeepsUp
  BY Sets DEF Sound, NextCalm, Typed
<1>1. Up(w)
  BY Writer
<1>2. Recoverable(w)' /\ jail'[w].work = synced'[w]
  BY <1>1, Written DEF Jailed, Recoverable
<1>3. /\ ~(job'.op = "create" /\ job'.ws = w)
      /\ ~(Taker' /\ job'.ws = w /\ job'.at \in {"sweep", "kill", "erase", "unmap"})
      /\ ~(job'.ws = w /\ job'.at \in Rotate)
  <2>1. CASE UNCHANGED job
    BY <2>1, WritesAlone DEF Taker, StillPaused
  <2>2. CASE Flush
    <3>1. job'.op = job.op /\ job'.at = "pause" /\ job.op # "create"
      BY <1>0, <2>2, JobAt, PlainSteps DEF Goes, Flush, Boot, Rotate, Reclaims
    <3> QED
      BY <3>1 DEF Rotate
  <2> QED
    BY <2>1, <2>2, Written
<1>4. ~Doomed(w)'
  <2>1. ~Doomed(w)
    BY <1>0, <1>1, UpIsSafe
  <2>2. ~(Kill /\ Takes(w, {"kill"}))
    BY WritesAlone DEF Takes, StillPaused
  <2> QED
    BY <1>0, <2>1, <2>2, DoomedMoves DEF Sound, NextCalm
<1> QED
  BY <1>2, <1>3, <1>4 DEF Saves, Creates, Takes, Taker

LEMMA SavesKept ==
    ASSUME Sound, NextCalm, StaysUp, NEW w \in Durable, Jailed(w), Blamed(w), Saves(w),
           faults' <= 1, JobType', JobShape'
    PROVE  Saves(w)'
<1>1. w \in Workspaces /\ PastType /\ Next
  BY Sets DEF Sound, NextCalm
<1>2. CASE synced'[w] = None
  BY <1>2 DEF Saves
<1>3. CASE synced'[w] = synced[w] /\ synced'[w] # None
  <2>1. Carries(w)
    BY <1>1, <1>3 DEF Carries
  <2> QED
    BY <2>1, CarriedOn
<1>4. ASSUME DiscardSnapshot(w) PROVE synced'[w] = None
  BY <1>1, <1>4 DEF DiscardSnapshot, PastType
<1>5. CASE Wrote(w)
  BY <1>1, <1>5, WrittenSaved
<1> QED
  BY <1>1, <1>2, <1>3, <1>4, <1>5, SyncedMoves

-----------------------------------------------------------------------------
(* What the next boot has while no job has failed.                         *)

\* A step of a workspace in which no job fails, and none has failed before.
Unfailed(w) == Sound /\ Next /\ Lasts(w) /\ faults' = 0

LEMMA UnfailedFacts ==
    ASSUME NEW w \in Durable, Unfailed(w)
    PROVE  /\ Sound /\ Typed /\ Dead /\ ReclaimedOnly /\ Next /\ JailType /\ SnapType /\ JobType
           /\ JobShape /\ PastType /\ MarkType /\ w \in Workspaces /\ faults = 0
           /\ ~FailRestore /\ ~FailReady /\ ~FailPersist /\ ~FailErase
           /\ ~(Fails /\ faults' = faults + 1)
<1>1. Typed /\ Next /\ PastType /\ MarkType /\ faults' = 0
  BY DEF Unfailed, Sound
<1>2. faults \in Nat /\ faults' \in {faults, faults + 1}
  BY <1>1, CountMoves DEF Typed, CountType
<1>3. ~FailRestore /\ ~FailReady /\ ~FailPersist /\ ~FailErase
  BY <1>1, <1>2 DEF FailRestore, FailReady, FailPersist, FailErase, Counted
<1> QED
  BY <1>1, <1>2, <1>3, Sets DEF Unfailed, Sound, Typed

LEMMA KeptMoves ==
    ASSUME PastType, Next, NEW w \in Workspaces
    PROVE  \/ kept'[w] = kept[w]
           \/ Promote /\ job.ws = w /\ kept'[w] = job.cp.work
           \/ DiscardSnapshot(w)
<1>1. CASE UNCHANGED kept
  BY <1>1
<1>2. CASE Promote
  <2>1. kept' = [kept EXCEPT ![job.ws] = job.cp.work]
    BY <1>2 DEF Promote
  <2> QED
    BY <1>2, <2>1 DEF PastType
<1>3. ASSUME NEW v \in Workspaces, DiscardSnapshot(v), v # w
      PROVE  kept'[w] = kept[w]
  BY <1>3 DEF DiscardSnapshot, PastType
<1> QED
  BY <1>1, <1>2, <1>3
  DEF Next, Begins, Boots, Rotates, TakesDown, Fails, Asks, CreateExisting, BeginCreate,
      BeginDestroy, BeginReap, Park, ShutdownNext, Recover, Choose,
      Prepare, Launch, Restored, Ready, WriteMeta, WriteMarker, Insert, DropPrevious, Demote,
      LoadPolls, CountReferences, Flush, Pause, Stage, Sweep, Kill, Erase, Unmap,
      FailPlainly, FailFlush, FailRestore, FailReady, FailPersist, FailErase, HangUp, progress,
      Crash, BeginHostShutdown, CancelHostShutdown, PowerOff, BeginShutdown, Restart, Gone,
      Arrive, CheckFlag, FindsItUp, FindsItDead, Evict, Clean, Work, Resume, WriteBack, Done, TimePasses, GuestExits

LEMMA MarkMoves ==
    ASSUME MarkType, Next, NEW w \in Workspaces
    PROVE  \/ marker'[w] = marker[w]
           \/ WriteMarker /\ job.ws = w /\ marker'[w]
           \/ DiscardSnapshot(w)
<1>1. CASE UNCHANGED marker
  BY <1>1
<1>2. CASE WriteMarker
  BY <1>2 DEF WriteMarker, MarkType
<1>3. ASSUME NEW v \in Workspaces, DiscardSnapshot(v), v # w
      PROVE  marker'[w] = marker[w]
  BY <1>3 DEF DiscardSnapshot, MarkType
<1> QED
  BY <1>1, <1>2, <1>3
  DEF Next, Begins, Boots, Rotates, TakesDown, Fails, Asks, CreateExisting, BeginCreate,
      BeginDestroy, BeginReap, Park, ShutdownNext, Recover, Choose,
      Prepare, Launch, Restored, Ready, WriteMeta, Insert, DropPrevious, Demote, Promote,
      LoadPolls, CountReferences, Flush, Pause, Stage, Sweep, Kill, Erase, Unmap, files,
      FailPlainly, FailFlush, FailRestore, FailReady, FailPersist, FailErase, HangUp, progress,
      Crash, BeginHostShutdown, CancelHostShutdown, PowerOff, BeginShutdown, Restart, Gone,
      Arrive, CheckFlag, FindsItUp, FindsItDead, Evict, Clean, Work, Resume, WriteBack, Done, TimePasses, GuestExits

LEMMA DiscardLeaves ==
    ASSUME PastType, MarkType, SnapType, JailType, CountType,
           NEW w \in Workspaces, DiscardSnapshot(w)
    PROVE  /\ UNCHANGED <<job, running, exits>> /\ Idle
           /\ synced'[w] = None /\ kept'[w] = None
           /\ running[w] # None => jail'[w] = jail[w]
           /\ jail'[w] = jail[w] \/ jail'[w] = NoJail
           /\ faults' = faults =>
                ~Exists(snap'[w]) /\ ~Exists(prev'[w]) /\ ~marker'[w]
                /\ (running[w] = None => jail'[w] = NoJail)
<1>1. /\ UNCHANGED <<job, running, exits>> /\ Idle
      /\ synced'[w] = None /\ kept'[w] = None /\ snap'[w] = NoCheckpoint
  BY DEF DiscardSnapshot, PastType, SnapType
<1>2. PICK done \in 1 .. 4 :
        /\ faults' = IF done < 4 THEN faults + 1 ELSE faults
        /\ prev' = IF done >= 2 THEN [prev EXCEPT ![w] = NoCheckpoint] ELSE prev
        /\ marker' = IF done >= 3 THEN [marker EXCEPT ![w] = FALSE] ELSE marker
        /\ jail' = IF done = 4 /\ running[w] = None
                   THEN [jail EXCEPT ![w] = NoJail] ELSE jail
  BY DEF DiscardSnapshot
<1>3. /\ running[w] # None => jail'[w] = jail[w]
      /\ jail'[w] = jail[w] \/ jail'[w] = NoJail
  BY <1>2 DEF JailType
<1>4. ASSUME faults' = faults
      PROVE  /\ prev'[w] = NoCheckpoint /\ ~marker'[w]
             /\ running[w] = None => jail'[w] = NoJail
  <2>1. done = 4
    BY <1>2, <1>4 DEF CountType
  <2> QED
    BY <1>2, <2>1 DEF JailType, SnapType, MarkType
<1>5. ~Exists(NoCheckpoint)
  BY DEF Exists, NoCheckpoint
<1> QED
  BY <1>1, <1>3, <1>4, <1>5

\* The checkpoints of a workspace are replaced by the work that is kept.
LEMMA CheckpointLasts ==
    ASSUME NEW w \in Durable, Unfailed(w), JobType', JobShape'
    PROVE  Checkpointed(w)'
<1>0. /\ Typed /\ Next /\ SnapType /\ PastType /\ MarkType /\ JailType /\ w \in Workspaces
      /\ ~FailPersist /\ faults = 0 /\ faults' = faults
  BY UnfailedFacts DEF Unfailed
<1>1. /\ kept[w] = IF Exists(Saved(w)) THEN Saved(w).work ELSE None
      /\ ~Exists(snap[w]) /\ Exists(prev[w]) => job.ws = w /\ job.at = "promote"
      /\ job.ws = w /\ job.at \in Rotate => Exists(job.cp)
  BY DEF Unfailed, Lasts, Checkpointed
<1>2. ~Exists(NoCheckpoint)
  BY DEF Exists, NoCheckpoint
<1>3. ASSUME job'.ws = w, job'.at \in Rotate PROVE Exists(job'.cp)
  <2>1. job'.op # "none"
    BY <1>3 DEF JobShape, OfNobody, NoJob, Rotate
  <2>2. Recovers /\ job'.op = "create" => Exists(job'.cp)
    BY <1>3 DEF Recovers, Is, Rotate
  <2> QED
    BY <1>0, <1>1, <1>3, <2>1, <2>2, RotateSteps DEF Stages, Is
<1>4. CASE DiscardSnapshot(w)
  BY <1>0, <1>3, <1>4, DiscardLeaves DEF Checkpointed, Saved, Typed, Exists
<1>5. CASE Promote /\ job.ws = w
  <2>1. snap'[w] = job.cp /\ kept'[w] = job.cp.work /\ Exists(job.cp)
    BY <1>0, <1>1, <1>5 DEF Promote, SnapType, PastType, Rotate
  <2> QED
    BY <1>3, <2>1 DEF Checkpointed, Saved, Exists
<1>6. CASE ~DiscardSnapshot(w) /\ ~(Promote /\ job.ws = w)
  <2>1. kept'[w] = kept[w]
    BY <1>0, <1>6, KeptMoves
  <2>2. CASE snap'[w] = snap[w] /\ prev'[w] = prev[w]
    <3>1. ~Exists(snap[w]) /\ Exists(prev[w]) => job'.ws = w /\ job'.at = "promote"
      BY <1>0, <1>1, <1>6, LeavesPromote DEF Typed
    <3> QED
      BY <1>1, <1>3, <2>1, <2>2, <3>1 DEF Checkpointed, Saved, Exists
  <2>3. CASE (DropPrevious \/ Sweep) /\ job.ws = w /\ snap'[w] = snap[w]
    <3>1. prev'[w] \in {prev[w], NoCheckpoint}
      BY <1>0, <2>3 DEF DropPrevious, Sweep, SnapType
    <3>2. Exists(snap[w]) \/ ~Exists(prev[w])
      BY <1>1, <2>3 DEF DropPrevious, Sweep
    <3> QED
      BY <1>1, <1>2, <1>3, <2>1, <2>3, <3>1, <3>2 DEF Checkpointed, Saved, Exists
  <2>4. CASE Demote /\ job.ws = w /\ ~Exists(snap'[w]) /\ prev'[w] = snap[w]
    <3>1. Exists(snap[w]) \/ ~Exists(prev[w])
      BY <1>1, <2>4 DEF Demote
    <3>2. job'.ws = w /\ job'.at = "promote"
      BY <1>0, <2>4, PlainSteps DEF Goes, Typed
    <3> QED
      BY <1>1, <1>3, <2>1, <2>4, <3>1, <3>2 DEF Checkpointed, Saved, Exists
  <2> QED
    BY <1>0, <1>6, <2>2, <2>3, <2>4, CheckpointMoves
<1> QED
  BY <1>4, <1>5, <1>6

\* Disks that can be recovered after a step could be before, and are the same.
LEMMA StillRecoverable ==
    ASSUME NEW w \in Durable, Unfailed(w), Recoverable(w)',
           \/ Creates(w, {"choose", "prepare"} \cup Rotate)
           \/ Takes(w, {"sweep", "kill", "erase"} \cup Rotate)
    PROVE  Recoverable(w) /\ jail'[w] = jail[w]
<1>1. ~Creates(w, {"meta"})
  BY DEF Creates, Takes, Taker, Rotate
<1>2. ~Wrote(w)
  BY UnfailedFacts, WritesAlone DEF Wrote, Creates, Takes, StillPaused
<1> QED
  BY <1>1, <1>2, UnfailedFacts, RecoverableMoves

LEMMA KeptByHolder ==
    ASSUME NEW w \in Durable, Unfailed(w), job.op # "none",
           job.at \notin Rotate \/ job.ws # w
    PROVE  kept'[w] = kept[w]
BY UnfailedFacts, KeptMoves DEF DiscardSnapshot, Idle, Promote, Rotate

LEMMA CopiedInHand ==
    ASSUME NEW w \in Durable, Unfailed(w), Recoverable(w)', JobType', JobShape',
           job'.ws = w, job'.at \in Rotate
    PROVE  jail'[w].work = job'.cp.work
<1>0. Typed /\ Next /\ JobType /\ JobShape
  BY UnfailedFacts
<1>1. job'.op # "none"
  BY DEF JobShape, OfNobody, NoJob, Rotate
<1>2. CASE Recovers
  <2>1. UNCHANGED jail /\ Is(job'.cp, jail[w].work)
    BY <1>2 DEF Recovers, Recover, files, Rotate
  <2> QED
    BY <2>1 DEF Is
<1>3. CASE Stages
  <2>1. UNCHANGED jail /\ Is(job'.cp, jail[w].work)
    BY <1>3 DEF Stages, Stage, files
  <2> QED
    BY <2>1 DEF Is
<1>4. CASE job'.op = job.op /\ job'.ws = job.ws /\ job'.cp = job.cp /\ job.at \in Rotate
  <2>1. Creates(w, Rotate) \/ Takes(w, Rotate)
    BY <1>0, <1>1, <1>4, JobAt DEF Creates, Takes, Taker
  <2>2. Recoverable(w) /\ jail'[w] = jail[w]
    BY <2>1, StillRecoverable DEF Creates, Takes
  <2> QED
    BY <1>4, <2>2 DEF Unfailed, Lasts, Copied
<1> QED
  BY <1>0, <1>1, <1>2, <1>3, <1>4, RotateSteps

LEMMA CopiedToChoose ==
    ASSUME NEW w \in Durable, Unfailed(w), Recoverable(w)', job'.op = "create", job'.ws = w,
           job'.at \in {"choose", "prepare"}
    PROVE  job'.at = "choose" /\ jail'[w].work = kept'[w]
<1>0. Typed /\ Next /\ PastType /\ JobType /\ JailType /\ w \in Workspaces
  BY UnfailedFacts
<1>1. CASE UNCHANGED job
  <2>1. Creates(w, {"choose", "prepare"})
    BY <1>1 DEF Creates
  <2>2. Recoverable(w) /\ jail'[w] = jail[w]
    BY <2>1, StillRecoverable DEF Creates
  <2>3. kept'[w] = kept[w]
    BY <2>1, KeptByHolder DEF Creates, Rotate
  <2> QED
    BY <1>1, <2>1, <2>2, <2>3 DEF Unfailed, Lasts, Copied, Creates
<1>2. CASE Recovers
  <2>1. job.ws = w /\ jail[w].of = None /\ UNCHANGED jail
    BY <1>2 DEF Recovers, Recover, files
  <2> QED
    BY <2>1 DEF Recoverable
<1>3. CASE Chooses
  <2>1. job' # NoJob
    BY <1>3 DEF Chooses, NoJob
  <2>2. jail'[w] = NoJail
    BY <1>0, <1>3, <2>1, ChooseSteps DEF Chooses, JailType
  <2> QED
    BY <2>2 DEF Recoverable, NoJail
<1>4. CASE Promote
  <2>1. job.ws = w /\ job'.at = "choose" /\ job.at \in Rotate
    BY <1>0, <1>4, PlainSteps DEF Goes, Rotate
  <2>2. kept'[w] = job.cp.work /\ UNCHANGED jail
    BY <1>0, <1>4, <2>1 DEF Promote, PastType
  <2> QED
    BY <2>1, <2>2 DEF Unfailed, Lasts, Copied, Recoverable
<1>5. /\ ~Prepares /\ ~Launch /\ ~Restored /\ ~Ready /\ ~WriteMeta /\ ~WriteMarker /\ ~DropPrevious
      /\ ~Demote /\ ~Kill /\ ~Erase /\ job'.at # "recover" /\ \A v \in Workspaces : ~Reclaimed(v)
  BY <1>0, PlainSteps DEF Goes, Prepares, Reclaimed
<1> QED
  BY <1>0, <1>1, <1>2, <1>3, <1>4, <1>5, CreateSteps DEF Rotates

LEMMA CopiedByTaker ==
    ASSUME NEW w \in Durable, Unfailed(w), Recoverable(w)', job'.ws = w,
           job'.op \in {"destroy", "reap", "shutdown"}, job'.at \in {"sweep", "kill", "erase"}
    PROVE  jail'[w].work = kept'[w]
<1>0. Typed /\ Next /\ PastType /\ JobType /\ JailType /\ w \in Workspaces
  BY UnfailedFacts
<1>1. ASSUME Takes(w, {"sweep", "kill", "erase"}) PROVE jail'[w].work = kept'[w]
  <2>1. Recoverable(w) /\ jail'[w] = jail[w]
    BY <1>1, StillRecoverable DEF Takes
  <2>2. kept'[w] = kept[w]
    BY <1>1, KeptByHolder DEF Takes, Taker, Rotate
  <2> QED
    BY <1>1, <2>1, <2>2 DEF Unfailed, Lasts, Copied
<1>2. CASE UNCHANGED job
  BY <1>1, <1>2 DEF Takes, Taker
<1>3. CASE Taker /\ (Sweep \/ Kill)
  BY <1>0, <1>1, <1>3, PlainSteps DEF Goes, Takes
<1>4. CASE Promote
  <2>1. job.ws = w /\ job.at \in Rotate
    BY <1>0, <1>4, PlainSteps DEF Goes, Rotate
  <2>2. kept'[w] = job.cp.work /\ UNCHANGED jail
    BY <1>0, <1>4, <2>1 DEF Promote, PastType
  <2> QED
    BY <2>1, <2>2 DEF Unfailed, Lasts, Copied, Recoverable
<1>5. ~CountsOn /\ ~Stages /\ \A v \in Workspaces : ~Grabs(v)
  BY DEF CountsOn, Stages, Grabs
<1>6. ~Flush /\ ~Pause /\ ~DropPrevious /\ ~Demote /\ ~Erase
  BY <1>0, PlainSteps DEF Goes
<1> QED
  BY <1>0, <1>2, <1>3, <1>4, <1>5, <1>6, TakerSteps DEF Rotates

LEMMA CopiedLasts ==
    ASSUME NEW w \in Durable, Unfailed(w), JobType', JobShape'
    PROVE  Copied(w)'
BY CopiedInHand, CopiedToChoose, CopiedByTaker DEF Copied, Creates, Takes, Taker

LEMMA BegunToPrepare ==
    ASSUME NEW w \in Durable, Unfailed(w), job'.op = "create", job'.ws = w, job'.at = "prepare"
    PROVE  /\ Source(job'.cp) = IF kept'[w] = None THEN 0 ELSE kept'[w]
           /\ marker'[w] => kept'[w] # None
<1>0. Typed /\ Next /\ PastType /\ MarkType /\ JobType /\ SnapType /\ w \in Workspaces
  BY UnfailedFacts
<1>1. CASE UNCHANGED job
  <2>1. Creates(w, {"prepare"})
    BY <1>1 DEF Creates
  <2>2. kept'[w] = kept[w]
    BY <2>1, KeptByHolder DEF Creates, Rotate
  <2>3. marker'[w] = marker[w]
    BY <1>0, <2>1, MarkMoves DEF Creates, DiscardSnapshot, Idle, WriteMarker
  <2> QED
    BY <1>1, <2>1, <2>2, <2>3 DEF Unfailed, Lasts, Begun, Basis, Creates
<1>2. CASE Chooses
  <2>1. job.ws = w /\ job'.cp = Saved(w) /\ (marker[w] => Exists(job'.cp))
    BY <1>2 DEF Chooses
  <2>2. kept'[w] = kept[w] /\ marker'[w] = marker[w]
    BY <1>2 DEF Chooses, Choose, progress
  <2>3. kept[w] = IF Exists(Saved(w)) THEN Saved(w).work ELSE None
    BY DEF Unfailed, Lasts, Checkpointed
  <2>4. Exists(Saved(w)) => Saved(w).work # None
    BY <1>0, SavedType, Sets DEF Checkpoints
  <2> QED
    BY <2>1, <2>2, <2>3, <2>4 DEF Source
<1>3. /\ ~Recovers /\ ~Prepares /\ ~Launch /\ ~Restored /\ ~Ready /\ ~WriteMeta /\ ~WriteMarker
      /\ ~Rotates /\ ~Kill /\ ~Erase /\ job'.at # "recover" /\ \A v \in Workspaces : ~Reclaimed(v)
  BY <1>0, PlainSteps DEF Goes, Prepares, Reclaimed, Recovers, Rotates
<1> QED
  BY <1>0, <1>1, <1>2, <1>3, CreateSteps

LEMMA BegunToBoot ==
    ASSUME NEW w \in Durable, Unfailed(w), job'.op = "create", job'.ws = w,
           job'.at \in {"launch", "restore", "await", "meta"}
    PROVE  /\ jail'[w].work = IF kept'[w] = None THEN 0 ELSE kept'[w]
           /\ marker'[w] => kept'[w] # None
<1>0. /\ Sound /\ Typed /\ Next /\ PastType /\ MarkType /\ JobType /\ JailType
      /\ w \in Workspaces
  BY UnfailedFacts
<1>1. CASE Prepare
  <2>1. Creates(w, {"prepare"})
    BY <1>0, <1>1, PrepareSteps DEF Prepares, Creates
  <2>2. jail'[w].work = Source(job.cp)
    BY <1>0, <1>1, <2>1 DEF Prepare, JailType, Creates
  <2>3. kept'[w] = kept[w] /\ marker'[w] = marker[w]
    BY <1>1 DEF Prepare, progress
  <2> QED
    BY <2>1, <2>2, <2>3 DEF Unfailed, Lasts, Begun, Basis, Creates
<1>2. CASE ~Prepare
  <2>1. /\ Creates(w, WithMachine) /\ job'.at \in WithMachine /\ ~WriteMeta
        /\ Creates(w, {"launch", "restore", "await", "meta"})
    BY <1>0, <1>2, BootSteps DEF Creates, WithMachine
  <2>2. jail'[w] = jail[w]
    BY <1>0, <2>1, BootKeepsJail
  <2>3. kept'[w] = kept[w]
    BY <2>1, KeptByHolder DEF Creates, Rotate
  <2>4. marker'[w] = marker[w]
    BY <1>0, <2>1, MarkMoves DEF Creates, DiscardSnapshot, Idle, WriteMarker
  <2> QED
    BY <2>1, <2>2, <2>3, <2>4 DEF Unfailed, Lasts, Begun, Basis, Creates
<1> QED
  BY <1>1, <1>2

LEMMA BegunLasts ==
    ASSUME NEW w \in Durable, Unfailed(w)
    PROVE  Begun(w)'
BY BegunToPrepare, BegunToBoot DEF Begun, Basis, Creates

LEMMA LastsKept ==
    ASSUME NEW w \in Durable, Unfailed(w), JobType', JobShape'
    PROVE  Lasts(w)'
BY CheckpointLasts, CopiedLasts, BegunLasts DEF Lasts

-----------------------------------------------------------------------------
(* While no job has failed, nothing is stopped behind the job's back.      *)

\* A step that pauses nothing.
LEMMA EditPausesNone ==
    ASSUME VmType, NEW m,
           \/ UNCHANGED vm
           \/ vm' = [vm EXCEPT ![m].alive = FALSE]
           \/ vm' = [vm EXCEPT ![m].alive = TRUE]
           \/ vm' = [vm EXCEPT ![m].paused = FALSE]
           \/ vm' = [vm EXCEPT ![m].hibernating = TRUE]
           \/ vm' = [vm EXCEPT ![m].hibernating = FALSE]
           \/ vm' = [vm EXCEPT ![m].due = TRUE]
           \/ vm' = [vm EXCEPT ![m].due = FALSE]
           \/ vm' = [vm EXCEPT ![m].due = FALSE, ![m].parked = TRUE]
           \/ vm' = [vm EXCEPT ![m].due = FALSE, ![m].parked = FALSE]
           \/ vm' = Active(m)
           \/ vm' = [vm EXCEPT ![m] = Forgotten(m)]
           \/ vm' = [vm EXCEPT ![m] = [Unmade EXCEPT !.ws = job.ws, !.slot = job.slot]]
    PROVE  \A k \in Machines : vm'[k].paused => vm[k].paused
<1>1. ASSUME NEW k \in Machines, vm'[k].paused, m = k PROVE vm[k].paused
  <2>1. vm[k] \in VmRecords
    BY DEF VmType
  <2>2. /\ vm' # [vm EXCEPT ![m] = Forgotten(m)]
        /\ vm' # [vm EXCEPT ![m] = [Unmade EXCEPT !.ws = job.ws, !.slot = job.slot]]
    <3>1. ~Forgotten(m).paused /\ ~[Unmade EXCEPT !.ws = job.ws, !.slot = job.slot].paused
      BY DEF Forgotten, Unmade
    <3> QED
      BY <1>1, <3>1 DEF VmType
  <2> QED
    BY <1>1, <2>1, <2>2 DEF VmType, VmRecords, Active
<1>2. ASSUME NEW k \in Machines, m # k PROVE vm'[k] = vm[k]
  BY <1>2 DEF VmType, Active
<1> QED
  BY <1>1, <1>2

LEMMA PausedBy ==
    ASSUME Typed, Next, ~FailPersist, NEW k \in Machines, vm'[k].paused
    PROVE  vm[k].paused \/ (Pause /\ k = job.m)
<1>0. VmType
  BY DEF Typed
<1>1. ~Gone
  BY DEF Gone, Unmade
<1>2. CASE Pause
  BY <1>0, <1>2 DEF Pause, VmType
<1>3. CASE ~Pause
  <2>1. PICK m :
           \/ UNCHANGED vm
           \/ vm' = [vm EXCEPT ![m].alive = FALSE]
           \/ vm' = [vm EXCEPT ![m].alive = TRUE]
           \/ vm' = [vm EXCEPT ![m].paused = FALSE]
           \/ vm' = [vm EXCEPT ![m].hibernating = TRUE]
           \/ vm' = [vm EXCEPT ![m].hibernating = FALSE]
           \/ vm' = [vm EXCEPT ![m].due = TRUE]
           \/ vm' = [vm EXCEPT ![m].due = FALSE]
           \/ vm' = [vm EXCEPT ![m].due = FALSE, ![m].parked = TRUE]
           \/ vm' = [vm EXCEPT ![m].due = FALSE, ![m].parked = FALSE]
           \/ vm' = Active(m)
           \/ vm' = [vm EXCEPT ![m] = Forgotten(m)]
           \/ vm' = [vm EXCEPT ![m] = [Unmade EXCEPT !.ws = job.ws, !.slot = job.slot]]
    BY <1>1, <1>3, VmMoves
    DEF CreateExisting, BeginReap, Park, Prepare, Launch, CountReferences, Kill, FailPlainly,
        Unmap, FailFlush, FailRestore, FailReady, FailErase, GiveUp, Cleaned, CheckFlag, Resume,
        Done, TimePasses, GuestExits
  <2> QED
    BY <1>0, <2>1, EditPausesNone
<1> QED
  BY <1>2, <1>3

\* A machine in the hands of a job stays there until it is out of the map.
InHandFrom == StillPaused \cup {"erase", "unmap"}

LEMMA StaysInHand ==
    ASSUME Typed, Next, NEW m \in Mapped, m \in Mapped', job.m = m,
           ~(Fails /\ faults' = faults + 1), job.at \in InHandFrom
    PROVE  /\ job'.m = m /\ job'.at \in InHandFrom
           /\ job.at \in {"erase", "unmap"} => job'.at \in {"erase", "unmap"}
<1>1. m \in Machines /\ m # None /\ running[vm[m].ws] = m /\ vm[m].ws \in Workspaces
  BY MappedType, Sets
<1>2. job.op # "none" /\ job.at \notin {"flush", "next"}
  BY JobAt DEF Typed, InHandFrom, StillPaused, Rotate
<1>3. ~Boots
  BY JobHas DEF Typed, InHandFrom, StillPaused, Rotate, Boots, Recover, Choose, Prepare, Launch,
     Restored, Ready, WriteMeta, WriteMarker, Insert
<1>4. job.at \in Rotate => job.op # "create"
  BY <1>1 DEF Typed, JobShape, OfCreate, WithMachine, Reclaims, Rotate
<1>5. ~Unmap
  <2>1. Unmap => running' = [running EXCEPT ![vm[m].ws] = None]
    BY DEF Unmap
  <2>2. Unmap => m \notin Mapped'
    BY <1>1, <2>1 DEF Typed, RunType, MapOwn, Mapped
  <2> QED
    BY <2>2
<1>6. CASE UNCHANGED job
  BY <1>6
<1>7. CASE Rotates \/ TakesDown
  <2>1. ~LoadPolls /\ ~CountReferences
    BY DEF LoadPolls, CountReferences, InHandFrom, StillPaused, Rotate
  <2>2. CASE Rotates
    BY <1>4, <2>2, PlainSteps DEF Rotates, Goes, Typed, InHandFrom, StillPaused, Rotate
  <2>3. CASE Flush \/ Pause \/ Sweep \/ Kill \/ Erase
    BY <2>3, PlainSteps DEF Goes, Typed, InHandFrom, StillPaused, Rotate
  <2>4. CASE Stage
    BY <2>4, StageSteps DEF Stages, InHandFrom, StillPaused, Rotate
  <2> QED
    BY <1>5, <1>7, <2>1, <2>2, <2>3, <2>4 DEF TakesDown
<1> QED
  BY <1>2, <1>3, <1>6, <1>7, HolderMoves

LEMMA OnlyInHandKept ==
    ASSUME Typed, Dead, BootUp, OnlyInHand, Next, faults' = 0
    PROVE  OnlyInHand'
<1>1. ~Gone \/ Mapped' = {}
  BY DEF Gone, Mapped
<1>2. /\ faults = 0 /\ ~(Fails /\ faults' = faults + 1)
      /\ ~FailRestore /\ ~FailReady /\ ~FailPersist
      /\ exits \in Nat /\ exits' \in {exits, exits + 1}
      /\ \A m \in Machines : GuestExits(m) => exits' = exits + 1
  <2>1. faults \in Nat /\ exits \in Nat
    BY DEF Typed, CountType
  <2>2. faults = 0
    BY <2>1, CountMoves DEF Typed
  <2>3. ~FailRestore /\ ~FailReady /\ ~FailPersist
    BY <2>2 DEF FailRestore, FailReady, FailPersist, Counted
  <2> QED
    BY <2>1, <2>2, <2>3, CountMoves DEF Typed
<1>3. ASSUME NEW m \in Mapped'
      PROVE  /\ vm'[m].paused => job'.m = m /\ job'.at \in InHandFrom
             /\ exits' = 0 /\ ~vm'[m].alive => job'.m = m /\ job'.at \in {"erase", "unmap"}
  <2>1. CASE m \in Mapped
    <3>1. m \in Machines /\ vm[m].ws \in Workspaces /\ vm[m].ws # None
      BY <2>1, MappedType, Sets
    <3>2. /\ vm[m].paused => job.m = m /\ job.at \in InHandFrom
          /\ exits = 0 /\ ~vm[m].alive => job.m = m /\ job.at \in {"erase", "unmap"}
      BY <2>1 DEF OnlyInHand, InHand, InHandFrom
    <3>3. Pause /\ m = job.m => job'.m = m /\ job'.at \in InHandFrom
      BY PlainSteps DEF Goes, Typed, InHandFrom, StillPaused
    <3>4. Kill /\ m = job.m => job'.m = m /\ job'.at \in {"erase", "unmap"}
      BY PlainSteps DEF Goes, Typed
    <3>5. vm[m].alive /\ ~vm'[m].alive /\ exits' = 0 => Kill /\ m = job.m
      BY <1>1, <1>2, <3>1, Falls
    <3>6. exits' = 0 => exits = 0
      BY <1>2
    <3>7. {"erase", "unmap"} \subseteq InHandFrom
      BY DEF InHandFrom
    <3>8. job.m = m /\ job.at \in InHandFrom =>
            /\ job'.m = m /\ job'.at \in InHandFrom
            /\ job.at \in {"erase", "unmap"} => job'.at \in {"erase", "unmap"}
      BY <1>2, <2>1, StaysInHand
    <3>9. vm'[m].paused => vm[m].paused \/ (Pause /\ m = job.m)
      BY <1>2, <3>1, PausedBy
    <3> QED
      BY <3>2, <3>3, <3>4, <3>5, <3>6, <3>7, <3>8, <3>9
  <2>2. CASE m \notin Mapped
    <3>1. Insert /\ m = job.m
      BY <2>2, MappedShrinks, InsertRuns DEF Typed, Mapped
    <3>2. vm'[m] = vm[m] /\ Booting /\ vm[m].alive /\ ~vm[m].paused
      BY <3>1, BootHas DEF Insert, BootUp, Launched, WithMachine, OnlyInHand
    <3> QED
      BY <3>2
  <2> QED
    BY <2>1, <2>2
<1>4. ASSUME job'.at \in WithMachine PROVE ~vm'[job'.m].paused
  <2>1. CASE Prepare
    BY <2>1, PrepareStays DEF Prepare, Typed, VmType, JobType, Jobs, Unmade
  <2>2. CASE ~Prepare
    <3>1. job.at \in WithMachine /\ job'.m = job.m
      BY <1>4, <2>2, BootMoves DEF Typed
    <3>2. job.m \in Machines /\ Booting /\ ~Pause
      BY <3>1, BootHas DEF Pause, WithMachine
    <3> QED
      BY <1>2, <3>1, <3>2, PausedBy DEF OnlyInHand
  <2> QED
    BY <2>1, <2>2
<1> QED
  BY <1>3, <1>4 DEF OnlyInHand, InHand, InHandFrom, Booting

-----------------------------------------------------------------------------
(* The invariant.                                                          *)

LEMMA InitWork == Init => WorkInv
<1> SUFFICES ASSUME Init PROVE WorkInv
  OBVIOUS
<1>1. HostInv
  BY InitInv
<1>2. job.op = "none" /\ job.at = "none" /\ job.m = None /\ job.ws = None
  BY DEF Init, NoJob
<1>3. ParkedOnly /\ ReclaimedOnly /\ KeepsUp /\ BootUp /\ StaysUp
  BY <1>2 DEF Init, Unmade, ParkedOnly, ReclaimedOnly, KeepsUp, Taker, BootUp, Booting, StaysUp
<1>4. ASSUME NEW w \in Durable PROVE Jailed(w) /\ Blamed(w) /\ Saves(w) /\ Lasts(w)
  <2>1. w \in Workspaces /\ w # None
    BY Sets
  <2>2. /\ running[w] = None /\ jail[w] = NoJail /\ \A r \in Requests : ~Checking(r)
    BY <2>1 DEF Init, NoRequest, Checking
  <2>3. ~Up(w) /\ ~Recoverable(w) /\ ~Doomed(w)
    BY <2>2 DEF Up, Recoverable, Doomed, Late, NoJail
  <2>4. synced[w] # None => Is(Saved(w), synced[w])
    <3>1. synced[w] = IF snap[w] = Legacy THEN 1 ELSE None
      BY <2>1 DEF Init
    <3> QED
      BY <3>1 DEF Saved, Is, Exists, Legacy
  <2>5. Jailed(w) /\ Blamed(w) /\ Saves(w)
    BY <1>2, <2>1, <2>3, <2>4
    DEF Jailed, Blamed, Saves, Creates, Takes, Taker, Rotate
  <2>6. Checkpointed(w)
    <3>1. kept[w] = IF snap[w] = Legacy THEN 1 ELSE None
      BY <2>1 DEF Init
    <3>2. snap[w] \in {NoCheckpoint, Legacy} /\ prev[w] = NoCheckpoint
      BY <2>1 DEF Init
    <3> QED
      BY <1>2, <2>1, <3>1, <3>2 DEF Checkpointed, Saved, Exists, Legacy, NoCheckpoint
  <2>7. Copied(w) /\ Begun(w)
    BY <1>2, <2>1, <2>3 DEF Copied, Begun, Creates
  <2> QED
    BY <2>5, <2>6, <2>7 DEF Lasts
<1>5. OnlyInHand
  BY <1>2 DEF Init, Mapped, OnlyInHand, Booting
<1> QED
  BY <1>1, <1>3, <1>4, <1>5 DEF WorkInv

LEMMA NextWork == WorkInv /\ [Next]_vars => WorkInv'
<1> SUFFICES ASSUME WorkInv, [Next]_vars PROVE WorkInv'
  OBVIOUS
<1>1. HostInv'
  BY NextInv DEF WorkInv
<1>2. JobType' /\ JobShape'
  <2>1. TypeOK' /\ Shape'
    BY <1>1 DEF HostInv
  <2>2. JobType'
    BY <2>1 DEF TypeOK, JobType
  <2> QED
    BY <2>1, <2>2 DEF Shape
<1>3. CASE UNCHANGED vars
  <2>1. (ParkedOnly /\ ReclaimedOnly)' /\ (Calm' => Calm) /\ (Flawless' => Flawless)
    BY <1>3 DEF vars, WorkInv, ParkedOnly, ReclaimedOnly, Calm, Flawless
  <2>2. (KeepsUp => KeepsUp') /\ (BootUp => BootUp') /\ (StaysUp => StaysUp')
    BY <1>3 DEF vars, KeepsUp, BootUp, StaysUp, Taker, Booting
  <2>3. ASSUME NEW w \in Durable
        PROVE  /\ Jailed(w) => Jailed(w)'
               /\ Blamed(w) => Blamed(w)'
               /\ Saves(w) => Saves(w)'
    BY <1>3
    DEF vars, files, progress, Jailed, Blamed, Saves, Up, Recoverable, Doomed, Late,
        Creates, Takes, Taker, Is, InPlace, Saved, Checking
  <2>4. ASSUME NEW w \in Durable, Lasts(w) PROVE Lasts(w)'
    BY <1>3, <2>4
    DEF vars, files, progress, Lasts, Checkpointed, Copied, Begun, Basis, Recoverable,
        Creates, Takes, Taker, Saved
  <2>5. OnlyInHand => OnlyInHand'
    BY <1>3 DEF vars, OnlyInHand, InHand, Mapped, Booting
  <2> QED
    BY <1>1, <2>1, <2>2, <2>3, <2>4, <2>5 DEF WorkInv
<1>4. CASE Next
  <2>1. Typed /\ ParkedOnly /\ ReclaimedOnly /\ Unused /\ Dead /\ PastType /\ MarkType
    BY TypedAll, TypeParts DEF WorkInv, HostInv
  <2>2. (ParkedOnly /\ ReclaimedOnly)'
    BY <1>4, <2>1, ParkedOnlyKept, ReclaimedOnlyKept
  <2>3. ~LateRequests => Sound /\ \A w \in Durable : Jailed(w)
    BY <2>1 DEF Sound, WorkInv, HostInv, Alone
  <2>4. ~LateRequests => KeepsUp' /\ BootUp' /\ \A w \in Durable : Jailed(w)'
    BY <1>4, <2>1, <2>3, KeepsUpKept, BootUpKept, JailedKept DEF Sound
  <2>5. ASSUME Calm' PROVE StaysUp' /\ \A w \in Durable : Blamed(w)' /\ Saves(w)'
    <3>1. Calm /\ NextCalm /\ faults' <= 1 /\ ~LateRequests
      BY <1>4, <2>1, <2>5, CalmBack DEF NextCalm, Typed, Calm
    <3>2. StaysUp'
      BY <2>1, <3>1, StaysUpKept DEF NextCalm, WorkInv
    <3>3. ASSUME NEW w \in Durable PROVE Blamed(w)' /\ Saves(w)'
      BY <1>2, <2>3, <3>1, BlamedKept, SavesKept DEF WorkInv
    <3> QED
      BY <3>2, <3>3
  <2>6. ASSUME Flawless', NEW w \in Durable PROVE Lasts(w)'
    <3>1. faults \in Nat /\ faults' \in {faults, faults + 1} /\ faults' = 0 /\ ~LateRequests
      BY <1>4, <2>1, <2>6, CountMoves DEF Typed, CountType, Flawless
    <3>2. Unfailed(w)
      BY <1>4, <2>3, <3>1 DEF Unfailed, Flawless, WorkInv
    <3> QED
      BY <1>2, <3>2, LastsKept
  <2>7. ASSUME Flawless' PROVE OnlyInHand'
    <3>1. faults \in Nat /\ faults' \in {faults, faults + 1} /\ faults' = 0 /\ ~LateRequests
      BY <1>4, <2>1, <2>7, CountMoves DEF Typed, CountType, Flawless
    <3> QED
      BY <1>4, <2>1, <3>1, OnlyInHandKept DEF Flawless, WorkInv
  <2> QED
    BY <1>1, <2>2, <2>4, <2>5, <2>6, <2>7 DEF WorkInv
<1> QED
  BY <1>3, <1>4

\* Between any two steps of firecracker.rs the saved work of a durable
\* workspace is where recover_interrupted_workspace or a create will find it.
THEOREM WorkInvariantHolds == Spec => []WorkInv
BY InitWork, NextWork, PTL DEF Spec

\* No saved work is lost to one failure, hang-up or crash at any step, if
\* no guest exits on its own and the checks of a request are over before another
\* machine is made (recover_interrupted_workspace, hibernate_machine).
THEOREM WorkKeptHolds == Spec => [](~LateRequests /\ faults <= 1 => WorkKept)
<1>1. WorkInv => (~LateRequests /\ faults <= 1 => WorkKept)
  <2> SUFFICES ASSUME WorkInv, ~LateRequests, faults <= 1, exits = 0,
                      NEW w \in Durable, synced[w] # None
               PROVE  Bootable(w) = synced[w]
    BY DEF WorkKept
  <2>1. Saves(w)
    BY DEF WorkInv, Calm
  <2>2. Recoverable(w) => jail[w].work = synced[w]
    BY <2>1 DEF Saves
  <2>3. ~Recoverable(w) => Exists(Saved(w)) /\ Saved(w).work = synced[w]
    BY <2>1 DEF Saves, Is
  <2> QED
    BY <2>2, <2>3 DEF Bootable, Recoverable, Saved, Exists
<1> QED
  BY <1>1, WorkInvariantHolds, PTL

-----------------------------------------------------------------------------
(* What the owners of durable workspaces are promised: every step of the   *)
(* host is a step of DurableWork, for one workspace at a time.             *)

\* Nothing that DurableWork knows of a workspace changes.
Rests(w) ==
    /\ Bootable(w)' = Bootable(w) /\ kept'[w] = kept[w] /\ synced'[w] = synced[w]
    /\ marker'[w] = marker[w]

\* What the steps of DurableWork do to the disks of a workspace, but for writing
\* what its guest has in memory.
Refreshed(w) ==
    /\ Bootable(w) = None /\ ~marker[w] /\ Bootable(w)' = 0
    /\ kept'[w] = kept[w] /\ synced'[w] = synced[w] /\ marker'[w] = marker[w]
Initialized(w) ==
    /\ Bootable(w) # None /\ Bootable(w)' = Bootable(w) /\ marker'[w] = TRUE
    /\ kept'[w] = kept[w] /\ synced'[w] = synced[w]
Rotated(w) ==
    /\ Bootable(w)' # None /\ kept'[w] = Bootable(w)'
    /\ exits > 0 \/ Bootable(w)' = Bootable(w)
    /\ synced'[w] = synced[w] /\ marker'[w] = marker[w]
Fallen(w) ==
    /\ exits > 0 /\ Bootable(w)' = kept[w]
    /\ kept'[w] = kept[w] /\ synced'[w] = synced[w] /\ marker'[w] = marker[w]
Dropped(w) ==
    /\ faults' = 0 => Bootable(w)' \in {None, Bootable(w)}
    /\ kept'[w] = None /\ synced'[w] = None /\ marker'[w] \in {marker[w], FALSE}
Drifted(w) ==
    /\ faults > 0 /\ synced[w] = None /\ synced'[w] = synced[w] /\ marker'[w] = marker[w]

\* Nothing of a workspace on the disk changes.
Untouched(w) ==
    /\ jail'[w] = jail[w] /\ snap'[w] = snap[w] /\ prev'[w] = prev[w]
    /\ kept'[w] = kept[w] /\ synced'[w] = synced[w] /\ marker'[w] = marker[w]

LEMMA UntouchedRests ==
    ASSUME NEW w, Untouched(w)
    PROVE  Rests(w)
BY DEF Untouched, Rests, Bootable, Saved, Exists

LEMMA BootableType ==
    ASSUME SnapType', JailType', NEW w \in Durable
    PROVE  Bootable(w)' \in Nat \cup {None}
<1>0. w \in Workspaces
  BY Sets
<1>1. jail'[w].work \in Nat
  BY <1>0 DEF JailType
<1>2. snap'[w].work \in Nat /\ prev'[w].work \in Nat
  BY <1>0 DEF SnapType, Checkpoints
<1> QED
  BY <1>1, <1>2 DEF Bootable, Saved, Exists

\* As long as no job has failed, a boot has the disks that were left, or the
\* last checkpoint.
LEMMA LastsBoots ==
    ASSUME NEW w, Lasts(w)
    PROVE  Bootable(w) = IF Recoverable(w) THEN jail[w].work ELSE kept[w]
BY DEF Lasts, Checkpointed, Bootable, Recoverable, Saved, Exists

LEMMA LastsBootsNext ==
    ASSUME NEW w, Lasts(w)'
    PROVE  Bootable(w)' = IF jail'[w].of # None /\ jail'[w].meta THEN jail'[w].work ELSE kept'[w]
BY DEF Lasts, Checkpointed, Bootable, Recoverable, Saved, Exists

\* A guest writes on its own disk.
LEMMA WritesOne ==
    ASSUME Typed, PastType, JailType, NEW m, Writes(m)
    PROVE  \A w \in Durable : w # vm[m].ws => Untouched(w)
<1>1. PICK n :
        /\ jail' = [jail EXCEPT ![vm[m].ws].work = @ + n]
        /\ synced' = [synced EXCEPT ![vm[m].ws] = jail[vm[m].ws].work + n]
  BY DEF Writes, Flush, WriteBack, Settles
<1>2. UNCHANGED <<snap, prev, marker, kept>>
  BY DEF Writes, Flush, WriteBack
<1>3. Durable \subseteq Workspaces
  BY Sets
<1> QED
  BY <1>1, <1>2, <1>3 DEF Untouched, JailType, PastType

\* A step touches the files of one workspace.
LEMMA OneAtATime ==
    ASSUME Sound, Next
    PROVE  \E v : \A w \in Durable : w # v => Untouched(w)
<1>0. /\ Typed /\ Dead /\ ReclaimedOnly /\ PastType /\ MarkType /\ JailType /\ SnapType
      /\ Durable \subseteq Workspaces
  BY Sets DEF Sound, Typed
<1>1. ASSUME NEW r \in Requests, Clean(r)
      PROVE  \A w \in Durable : w # vm[req[r].m].ws => Untouched(w)
  BY <1>0, <1>1 DEF Clean, Remains, Untouched, JailType, PastType, progress
<1>2. ASSUME NEW m, Writes(m)
      PROVE  \A w \in Durable : w # vm[m].ws => Untouched(w)
  BY <1>0, <1>2, WritesOne
<1>3. ASSUME NEW u \in Workspaces, DiscardSnapshot(u)
      PROVE  \A w \in Durable : w # u => Untouched(w)
  BY <1>0, <1>3 DEF DiscardSnapshot, Untouched, JailType, PastType, SnapType, MarkType
<1>4. ASSUME \A r \in Requests : ~Clean(r), \A m : ~Writes(m),
             \A u \in Workspaces : ~DiscardSnapshot(u), NEW w \in Durable, w # job.ws
      PROVE  Untouched(w)
  <2>0. ~Wrote(w)
    BY <1>4 DEF Wrote
  <2>1. jail'[w] = jail[w]
    BY <1>0, <1>4, <2>0, JailOfOne DEF Creates, Takes
  <2>2. snap'[w] = snap[w] /\ prev'[w] = prev[w]
    BY <1>0, <1>4, CheckpointMoves
  <2>3. synced'[w] = synced[w]
    BY <1>0, <1>4, <2>0, SyncedMoves
  <2>4. kept'[w] = kept[w]
    BY <1>0, <1>4, KeptMoves
  <2>5. marker'[w] = marker[w]
    BY <1>0, <1>4, MarkMoves
  <2> QED
    BY <2>1, <2>2, <2>3, <2>4, <2>5 DEF Untouched
<1> QED
  BY <1>1, <1>2, <1>3, <1>4

\* The steps of DurableWork for the disks of one workspace.
Promised(w) ==
    \/ Rests(w) \/ Refreshed(w) \/ Initialized(w) \/ Rotated(w) \/ Fallen(w)
    \/ Dropped(w) \/ Drifted(w)

\* A workspace counts as initialized when its disks can be recovered.
LEMMA MarkerInitializes ==
    ASSUME Sound, NEW w \in Durable, Jailed(w), WriteMarker, job.ws = w
    PROVE  Initialized(w)
<1>0. Typed /\ JailType /\ MarkType /\ w \in Workspaces /\ None \notin Nat
  BY Sets DEF Sound, Typed
<1>1. job.at = "marker" /\ UNCHANGED <<jail, snap, prev, kept, synced>>
      /\ marker' = [marker EXCEPT ![job.ws] = TRUE]
  BY DEF WriteMarker, progress
<1>2. job.op = "create" /\ Booting /\ job.m \in Machines
  BY <1>0, <1>1, BootHas DEF WithMachine
<1>3. jail[w].meta /\ jail[w].of = job.m /\ job.m # None
  BY <1>1, <1>2, Sets DEF Jailed, Creates, Sound, BootIntact
<1>4. jail[w].work \in Nat
  BY <1>0 DEF JailType
<1> QED
  BY <1>0, <1>1, <1>3, <1>4 DEF Initialized, Bootable, Saved, Exists, MarkType

\* Who replaces a checkpoint has the disks in front of it, unless a guest exited.
LEMMA RotateHasDisks ==
    ASSUME Sound, NEW w \in Durable, Jailed(w), Blamed(w), StaysUp, faults = 0,
           job.ws = w, job.at \in Rotate
    PROVE  Recoverable(w)
<1>0. Typed /\ w \in Workspaces /\ w # None
  BY Sets DEF Sound
<1>1. CASE job.op = "create"
  BY <1>1 DEF Blamed, Creates
<1>2. CASE Taker
  <2>1. job.m # None /\ job.m \in Machines
    BY <1>0, <1>2, TakerHas DEF Rotate
  <2>2. vm[job.m].alive
    BY <1>2, <2>1 DEF StaysUp, StillUp
  <2>3. running[w] = job.m
    BY <1>2, <2>1, <2>2 DEF Sound, KeepsUp
  <2> QED
    BY <2>1, <2>2, <2>3 DEF Jailed, Up
<1>3. job.op # "none"
  BY <1>0, JobHas DEF Typed
<1> QED
  BY <1>0, <1>1, <1>2, <1>3, JobAt DEF Taker, Typed

\* What holds when no job has failed, before and after a step.
Fine(w) ==
    /\ Unfailed(w) /\ Lasts(w)' /\ Jailed(w) /\ exits \in Nat
    /\ exits = 0 => StaysUp /\ Blamed(w)

LEMMA FineFacts ==
    ASSUME NEW w \in Durable, Fine(w)
    PROVE  /\ Sound /\ Typed /\ Next /\ JailType /\ SnapType /\ PastType /\ MarkType /\ JobType
           /\ w \in Workspaces /\ faults = 0 /\ faults' = 0
           /\ Bootable(w) = IF Recoverable(w) THEN jail[w].work ELSE kept[w]
           /\ Bootable(w)' =
                IF jail'[w].of # None /\ jail'[w].meta THEN jail'[w].work ELSE kept'[w]
           /\ jail[w].work \in Nat
<1>1. Unfailed(w) /\ Lasts(w) /\ Lasts(w)'
  BY DEF Fine, Unfailed
<1>2. Bootable(w) = IF Recoverable(w) THEN jail[w].work ELSE kept[w]
  BY <1>1, LastsBoots
<1>3. Bootable(w)' = IF jail'[w].of # None /\ jail'[w].meta THEN jail'[w].work ELSE kept'[w]
  BY <1>1, LastsBootsNext
<1>4. JailType /\ w \in Workspaces /\ faults' = 0
  BY <1>1, UnfailedFacts DEF Unfailed
<1>5. jail[w].work \in Nat
  BY <1>4 DEF JailType
<1> QED
  BY <1>1, <1>2, <1>3, <1>4, <1>5, UnfailedFacts

LEMMA PromoteRotates ==
    ASSUME NEW w \in Durable, Fine(w), Promote, job.ws = w
    PROVE  Rotated(w)
<1>0. /\ Sound /\ Typed /\ JailType /\ PastType /\ JobType /\ w \in Workspaces /\ faults = 0
      /\ Bootable(w) = IF Recoverable(w) THEN jail[w].work ELSE kept[w]
      /\ Bootable(w)' =
           IF jail'[w].of # None /\ jail'[w].meta THEN jail'[w].work ELSE kept'[w]
  BY FineFacts
<1>1. job.at = "promote" /\ UNCHANGED <<jail, marker, synced>> /\ kept'[w] = job.cp.work
  BY <1>0 DEF Promote, PastType
<1>2. Recoverable(w) => jail[w].work = job.cp.work
  BY <1>1 DEF Fine, Unfailed, Lasts, Copied, Rotate
<1>3. job.cp.work \in Nat /\ None \notin Nat
  BY <1>0, Sets DEF JobType, Jobs, Checkpoints
<1>4. Bootable(w)' = job.cp.work
  BY <1>0, <1>1, <1>2 DEF Recoverable
<1>5. exits = 0 => Recoverable(w)
  BY <1>0, <1>1, RotateHasDisks DEF Fine, Rotate
<1>6. exits > 0 \/ Bootable(w)' = Bootable(w)
  BY <1>0, <1>2, <1>4, <1>5 DEF Fine
<1> QED
  BY <1>1, <1>3, <1>4, <1>6 DEF Rotated

\* Disks can be recovered from recovery.json on: those of a fresh checkout, or
\* those of the last checkpoint.
LEMMA MetaRefreshes ==
    ASSUME NEW w \in Durable, Fine(w), WriteMeta, job.ws = w
    PROVE  Refreshed(w) \/ Rests(w)
<1>0. /\ Sound /\ Typed /\ JailType /\ PastType /\ MarkType /\ w \in Workspaces
      /\ Bootable(w) = IF Recoverable(w) THEN jail[w].work ELSE kept[w]
      /\ Bootable(w)' =
           IF jail'[w].of # None /\ jail'[w].meta THEN jail'[w].work ELSE kept'[w]
  BY FineFacts
<1>1. /\ job.at = "meta" /\ UNCHANGED <<kept, synced, marker>>
      /\ jail'[w].work = jail[w].work
  BY <1>0 DEF WriteMeta, progress, JailType
<1>2. job.op = "create"
  BY <1>0, <1>1, BootHas DEF WithMachine
<1>3. ~Recoverable(w) /\ jail[w].work = Basis(w) /\ (marker[w] => kept[w] # None)
  BY <1>1, <1>2 DEF Fine, Unfailed, Jailed, Lasts, Begun, Creates, Recoverable
<1>4. Bootable(w) = kept[w] /\ Bootable(w)' \in {kept[w], Basis(w)}
  BY <1>0, <1>1, <1>3
<1>5. marker[w] \in BOOLEAN
  BY <1>0 DEF MarkType
<1>6. CASE Bootable(w)' = kept[w]
  BY <1>1, <1>4, <1>6 DEF Rests
<1>7. CASE kept[w] = None /\ Bootable(w)' = Basis(w)
  BY <1>1, <1>3, <1>4, <1>5, <1>7 DEF Refreshed, Basis
<1> QED
  BY <1>4, <1>6, <1>7 DEF Basis

\* A request that finds its machine dead removes disks that nobody has yet, only
\* after an exit.
LEMMA CleanLoses ==
    ASSUME NEW w \in Durable, Fine(w), NEW r \in Requests, Clean(r), Late(w), jail'[w] = NoJail
    PROVE  Fallen(w) \/ Rests(w)
<1>0. /\ faults = 0
      /\ Bootable(w) = IF Recoverable(w) THEN jail[w].work ELSE kept[w]
      /\ Bootable(w)' =
           IF jail'[w].of # None /\ jail'[w].meta THEN jail'[w].work ELSE kept'[w]
  BY FineFacts
<1>1. UNCHANGED <<kept, synced, marker>> /\ Bootable(w)' = kept[w]
  BY <1>0 DEF Clean, progress, NoJail
<1>2. CASE exits = 0
  <2>1. Recoverable(w) => Takes(w, {"erase"})
    BY <1>0, <1>2 DEF Fine, Blamed, Doomed
  <2>2. Recoverable(w) => jail[w].work = kept[w]
    BY <2>1 DEF Fine, Unfailed, Lasts, Copied, Takes
  <2> QED
    BY <1>0, <1>1, <2>2 DEF Rests
<1>3. CASE exits > 0
  BY <1>1, <1>3 DEF Fallen
<1> QED
  BY <1>2, <1>3 DEF Fine

\* The owner's deletion takes all of it but what a machine has.
LEMMA DiscardDrops ==
    ASSUME Sound, NEW w \in Durable, DiscardSnapshot(w), exits \in Nat
    PROVE  Dropped(w) /\ exits' = exits
<1>0. /\ PastType /\ MarkType /\ SnapType /\ JailType /\ CountType /\ w \in Workspaces
  BY Sets DEF Sound, Typed
<1>1. /\ synced'[w] = None /\ kept'[w] = None /\ exits' = exits
      /\ jail'[w] = jail[w] \/ jail'[w] = NoJail
      /\ faults' = faults => ~Exists(snap'[w]) /\ ~Exists(prev'[w]) /\ ~marker'[w]
      /\ faults' = faults /\ running[w] = None => jail'[w] = NoJail
  BY <1>0, DiscardLeaves
<1>2. marker'[w] \in {marker[w], FALSE} /\ faults' \in {faults, faults + 1}
  BY <1>0 DEF DiscardSnapshot, MarkType
<1>3. ASSUME faults' = 0 PROVE Bootable(w)' \in {None, Bootable(w)}
  <2>1. faults' = faults
    BY <1>0, <1>2, <1>3 DEF CountType
  <2> QED
    BY <1>1, <2>1 DEF Bootable, Saved, Exists, NoJail
<1> QED
  BY <1>1, <1>2, <1>3 DEF Dropped

\* Every other step leaves what a boot would have, as long as no job fails.
LEMMA FineRests ==
    ASSUME NEW w \in Durable, Fine(w), ~DiscardSnapshot(w),
           ~(Promote /\ job.ws = w), ~(WriteMarker /\ job.ws = w), ~(WriteMeta /\ job.ws = w),
           ~Wrote(w),
           \A r \in Requests : ~(Clean(r) /\ Late(w) /\ jail'[w] = NoJail)
    PROVE  Rests(w)
<1>0. /\ Sound /\ Typed /\ Next /\ Dead /\ ReclaimedOnly /\ PastType /\ MarkType
      /\ w \in Workspaces /\ ~FailRestore /\ ~FailReady /\ ~FailErase
      /\ Bootable(w) = IF Recoverable(w) THEN jail[w].work ELSE kept[w]
      /\ Bootable(w)' =
           IF jail'[w].of # None /\ jail'[w].meta THEN jail'[w].work ELSE kept'[w]
  BY FineFacts, UnfailedFacts DEF Fine
<1>1. kept'[w] = kept[w]
  BY <1>0, KeptMoves
<1>2. synced'[w] = synced[w]
  BY <1>0, SyncedMoves
<1>3. marker'[w] = marker[w]
  BY <1>0, MarkMoves
<1>4. Copied(w)
  BY DEF Fine, Unfailed, Lasts
<1>5. CASE jail'[w] = jail[w]
  BY <1>0, <1>1, <1>2, <1>3, <1>5 DEF Rests, Recoverable
<1>6. CASE Chooses /\ job.ws = w /\ jail'[w] = NoJail
  <2>1. Recoverable(w) => jail[w].work = kept[w]
    BY <1>4, <1>6 DEF Copied, Creates, Chooses
  <2> QED
    BY <1>0, <1>1, <1>2, <1>3, <1>6, <2>1 DEF Rests, NoJail
<1>7. CASE /\ Prepares /\ job.ws = w
           /\ jail'[w] = [of |-> made', work |-> Source(job.cp), meta |-> FALSE]
  <2>1. job.op = "create"
    BY <1>0, <1>7, PrepareSteps DEF Prepares
  <2>2. ~Recoverable(w)
    BY <1>4, <1>7, <2>1 DEF Copied, Creates, Prepares
  <2>3. ~jail'[w].meta
    BY <1>7
  <2> QED
    BY <1>0, <1>1, <1>2, <1>3, <2>2, <2>3 DEF Rests
<1>8. CASE Takes(w, {"erase"}) /\ jail'[w] = NoJail
  <2>1. Recoverable(w) => jail[w].work = kept[w]
    BY <1>4, <1>8 DEF Copied, Takes
  <2> QED
    BY <1>0, <1>1, <1>2, <1>3, <1>8, <2>1 DEF Rests, NoJail
<1>9. \/ jail'[w] = jail[w]
      \/ Chooses /\ job.ws = w /\ jail'[w] = NoJail
      \/ /\ Prepares /\ job.ws = w
         /\ jail'[w] = [of |-> made', work |-> Source(job.cp), meta |-> FALSE]
      \/ Erase /\ Takes(w, {"erase"}) /\ jail'[w] = NoJail
      \/ WriteMeta /\ Creates(w, {"meta"})
      \/ \E r \in Requests : Clean(r) /\ Late(w) /\ jail'[w] = NoJail
  BY <1>0, JailOfOne
<1>10. ~(WriteMeta /\ Creates(w, {"meta"}))
  BY DEF Creates
<1> QED
  BY <1>5, <1>6, <1>7, <1>8, <1>9, <1>10

LEMMA FinePromised ==
    ASSUME NEW w \in Durable, Fine(w), ~Wrote(w)
    PROVE  Promised(w)
<1>0. Sound /\ Next /\ Jailed(w) /\ exits \in Nat
  BY FineFacts DEF Fine
<1>1. CASE DiscardSnapshot(w)
  BY <1>0, <1>1, DiscardDrops DEF Promised
<1>2. CASE Promote /\ job.ws = w
  BY <1>2, PromoteRotates DEF Promised
<1>3. CASE WriteMarker /\ job.ws = w
  BY <1>0, <1>3, MarkerInitializes DEF Promised
<1>4. CASE WriteMeta /\ job.ws = w
  BY <1>4, MetaRefreshes DEF Promised
<1>5. ASSUME NEW r \in Requests, Clean(r), Late(w), jail'[w] = NoJail PROVE Promised(w)
  BY <1>5, CleanLoses DEF Promised
<1> QED
  BY <1>1, <1>2, <1>3, <1>4, <1>5, FineRests DEF Promised

\* The failure itself leaves what a boot would have.
Failing(w) ==
    /\ Sound /\ Next /\ Jailed(w) /\ Blamed(w) /\ StaysUp /\ Lasts(w)
    /\ faults = 0 /\ faults' = 1 /\ ~DiscardSnapshot(w)

LEMMA FailureMoves ==
    ASSUME CountType, Next, faults' # faults
    PROVE  /\ Fails \/ \E u \in Workspaces : DiscardSnapshot(u)
           /\ ~Choose /\ ~Prepare /\ ~WriteMeta /\ ~Erase /\ ~DropPrevious /\ ~Demote /\ ~Promote
           /\ ~Sweep /\ ~WriteMarker
           /\ \A r \in Requests : ~Clean(r) /\ ~Work(r)
           /\ \A m : ~Writes(m)
<1>1. CASE Fails \/ \E u \in Workspaces : DiscardSnapshot(u)
  BY <1>1 DEF Choose, Prepare, WriteMeta, Erase, DropPrevious, Demote, Promote, Sweep,
     WriteMarker, Clean, Work, Writes, Flush, WriteBack
<1>2. CASE UNCHANGED faults
  BY <1>2
<1> QED
  BY <1>1, <1>2
  DEF Next, Begins, Boots, Rotates, TakesDown, Asks, CreateExisting, BeginCreate,
      BeginDestroy, BeginReap, Park, ShutdownNext, Recover, Choose, Prepare, Launch, Restored,
      Ready, WriteMeta, WriteMarker, Insert, DropPrevious, Demote, Promote, LoadPolls,
      CountReferences, Flush, Pause, Stage, Sweep, Kill, Erase, Unmap, BeginHostShutdown,
      CancelHostShutdown, PowerOff, BeginShutdown, Restart, Arrive, CheckFlag,
      FindsItUp, FindsItDead, Evict, Clean, Work, Resume, WriteBack, Done, TimePasses, GuestExits

LEMMA FailingRests ==
    ASSUME NEW w \in Durable, Failing(w)
    PROVE  Rests(w)
<1>0. /\ Sound /\ Typed /\ Next /\ Dead /\ ReclaimedOnly /\ PastType /\ MarkType /\ CountType
      /\ w \in Workspaces /\ ~DiscardSnapshot(w) /\ faults' # faults /\ SnapType
  BY Sets DEF Failing, Sound, Typed
<1>1. /\ ~Choose /\ ~Prepare /\ ~WriteMeta /\ ~Erase /\ ~DropPrevious /\ ~Demote /\ ~Promote
      /\ ~Sweep /\ ~WriteMarker
      /\ (\A r \in Requests : ~Clean(r)) /\ ~Wrote(w)
  BY <1>0, FailureMoves DEF Wrote
<1>2. kept'[w] = kept[w]
  BY <1>0, <1>1, KeptMoves
<1>3. synced'[w] = synced[w]
  BY <1>0, <1>1, SyncedMoves
<1>4. marker'[w] = marker[w]
  BY <1>0, <1>1, MarkMoves
<1>5. Bootable(w) = IF Recoverable(w) THEN jail[w].work ELSE kept[w]
  BY LastsBoots DEF Failing
<1>6. \/ snap'[w] = snap[w] /\ prev'[w] = prev[w]
      \/ FailPersist /\ job.ws = w /\ job.at = "promote"
  BY <1>0, <1>1, CheckpointMoves
<1>7. \/ jail'[w] = jail[w]
      \/ FailErase /\ Takes(w, {"erase"}) /\ jail'[w] \in Leftovers(w)
      \/ (FailRestore \/ FailReady) /\ Creates(w, {"restore", "await"}) /\ jail'[w] \in Leftovers(w)
  BY <1>0, <1>1, JailOfOne DEF Chooses, Prepares
<1>8. CASE jail'[w] = jail[w] /\ snap'[w] = snap[w] /\ prev'[w] = prev[w]
  BY <1>2, <1>3, <1>4, <1>8, UntouchedRests DEF Untouched
<1>9. CASE FailPersist /\ job.ws = w /\ job.at = "promote"
  <2>1. Recoverable(w) /\ jail' = jail
    BY <1>9, RotateHasDisks DEF Failing, Rotate, FailPersist
  <2>2. Bootable(w)' = Bootable(w)
    BY <2>1 DEF Bootable, Recoverable, Saved, Exists
  <2> QED
    BY <1>2, <1>3, <1>4, <2>2 DEF Rests
<1>10. ASSUME jail'[w] \in Leftovers(w), snap'[w] = snap[w], prev'[w] = prev[w],
              Recoverable(w) => jail[w].work = kept[w]
       PROVE  Rests(w)
  <2>1. /\ jail'[w].of # None /\ jail'[w].meta => Recoverable(w) /\ jail'[w] = jail[w]
    BY <1>0, <1>10 DEF Leftovers, NoJail, Recoverable, Sound, Typed, JailType
  <2>2. kept[w] = IF Exists(Saved(w)) THEN Saved(w).work ELSE None
    BY DEF Failing, Lasts, Checkpointed
  <2>3. Bootable(w)' = IF jail'[w].of # None /\ jail'[w].meta THEN jail[w].work ELSE kept[w]
    BY <1>10, <2>1, <2>2 DEF Bootable, Saved, Exists
  <2> QED
    BY <1>2, <1>3, <1>4, <1>5, <1>10, <2>1, <2>3 DEF Rests
<1>11. CASE FailErase /\ Takes(w, {"erase"}) /\ jail'[w] \in Leftovers(w)
  <2>1. Recoverable(w) => jail[w].work = kept[w]
    BY <1>11 DEF Failing, Lasts, Copied, Takes
  <2> QED
    BY <1>10, <1>11, <2>1 DEF FailErase
<1>12. CASE /\ FailRestore \/ FailReady
            /\ Creates(w, {"restore", "await"}) /\ jail'[w] \in Leftovers(w)
  <2>1. ~Recoverable(w)
    BY <1>12 DEF Failing, Jailed, Creates, Recoverable
  <2> QED
    BY <1>10, <1>12, <2>1 DEF FailRestore, FailReady
<1> QED
  BY <1>6, <1>7, <1>8, <1>9, <1>11, <1>12 DEF FailPersist, FailErase, FailRestore, FailReady

\* After the one failure, what was saved is still what a boot would have;
\* nothing is promised of the rest.
After(w) ==
    /\ Sound /\ Next /\ Jailed(w) /\ Saves(w) /\ Saves(w)' /\ faults = 1 /\ exits = 0

LEMMA SavesBoots ==
    ASSUME NEW w, Saves(w), synced[w] # None
    PROVE  Bootable(w) = synced[w]
<1>1. Recoverable(w) => jail[w].work = synced[w]
  BY DEF Saves
<1>2. ~Recoverable(w) => Is(Saved(w), synced[w])
  BY DEF Saves
<1> QED
  BY <1>1, <1>2 DEF Bootable, Recoverable, Is, Saved, Exists

LEMMA SavesBootsNext ==
    ASSUME NEW w, Saves(w)', synced'[w] # None
    PROVE  Bootable(w)' = synced'[w]
<1>1. Recoverable(w)' => jail'[w].work = synced'[w]
  BY DEF Saves
<1>2. ~Recoverable(w)' => Is(Saved(w), synced[w])'
  BY DEF Saves
<1> QED
  BY <1>1, <1>2 DEF Bootable, Recoverable, Is, Saved, Exists

LEMMA AfterPromised ==
    ASSUME NEW w \in Durable, After(w), ~Wrote(w)
    PROVE  Promised(w)
<1>0. /\ Sound /\ Next /\ Jailed(w) /\ PastType /\ MarkType /\ JobType /\ exits \in Nat
      /\ w \in Workspaces /\ faults = 1 /\ exits = 0
  BY Sets DEF After, Sound, Typed
<1>1. CASE DiscardSnapshot(w)
  BY <1>0, <1>1, DiscardDrops DEF Promised
<1>2. CASE WriteMarker /\ job.ws = w
  BY <1>0, <1>2, MarkerInitializes DEF Promised
<1>3. ASSUME ~DiscardSnapshot(w), ~(WriteMarker /\ job.ws = w)
      PROVE  Promised(w)
  <2>1. synced'[w] = synced[w]
    BY <1>0, <1>3, SyncedMoves
  <2>2. marker'[w] = marker[w]
    BY <1>0, <1>3, MarkMoves
  <2>3. CASE synced[w] = None
    BY <1>0, <2>1, <2>2, <2>3 DEF Drifted, Promised
  <2>4. CASE synced[w] # None
    <3>1. Bootable(w) = synced[w]
      BY <2>4, SavesBoots DEF After
    <3>2. Bootable(w)' = synced[w]
      BY <2>1, <2>4, SavesBootsNext DEF After
    <3>3. CASE kept'[w] = kept[w]
      BY <2>1, <2>2, <3>1, <3>2, <3>3 DEF Rests, Promised
    <3>4. CASE Promote /\ job.ws = w /\ kept'[w] = job.cp.work
      <4>1. job.cp.work = synced[w]
        BY <2>4, <3>4 DEF After, Saves, Promote, Rotate, Is
      <4> QED
        BY <2>1, <2>2, <2>4, <3>1, <3>2, <3>4, <4>1 DEF Rotated, Promised
    <3> QED
      BY <1>0, <1>3, <3>3, <3>4, KeptMoves
  <2> QED
    BY <2>3, <2>4
<1> QED
  BY <1>1, <1>2, <1>3

-----------------------------------------------------------------------------
(* What members were told of and only a guest has in memory.               *)

LEMMA StoppingMoves ==
    ASSUME Typed, Next
    PROVE  \/ UNCHANGED Stopping
           \/ \E v \in Workspaces : BeginDestroy(v)
           \/ Stopping' = {} /\ (Unmap \/ Fails \/ Gone)
<1> DEFINE Same == job'.op = job.op /\ job'.ws = job.ws
           None2 == job.op # "destroy" /\ job'.op # "destroy"
<1>1. Same \/ None2 => UNCHANGED Stopping
  BY DEF Stopping
<1>2. job' = NoJob => Stopping' = {}
  BY DEF Stopping, NoJob
<1>3. ASSUME NEW v \in Workspaces, BeginCreate(v) \/ BeginReap(v) \/ ShutdownNext(v)
      PROVE  Same \/ None2
  <2>1. BeginCreate(v) => None2
    BY ReclaimSteps DEF Reclaimed
  <2>2. BeginReap(v) => None2
    BY DEF BeginReap, NoJob, Idle
  <2>3. ShutdownNext(v) => job'.op = job.op /\ job.op = "shutdown"
    BY DEF ShutdownNext, Typed, JobType, Jobs
  <2> QED
    BY <1>3, <2>1, <2>2, <2>3
<1>4. Boots => None2
  BY BootsOp DEF Typed
<1>5. Rotates \/ Flush \/ Pause \/ Sweep \/ Kill \/ Erase \/ Stage => Same
  BY PlainSteps, StageSteps DEF Rotates, Goes, Stages, Typed
<1>6. LoadPolls \/ CountReferences => Same \/ None2
  <2>1. LoadPolls \/ CountReferences => job.op = "reap"
    BY DEF LoadPolls, CountReferences
  <2>2. job' = NoJob => job'.op # "destroy"
    BY DEF NoJob
  <2> QED
    BY <2>1, <2>2, CountSteps DEF CountsOn
<1>7. Unmap => None2 \/ job' = NoJob
  BY UnmapSteps
<1>8. Fails => None2 \/ job' = NoJob
  BY FailSteps, RestoreSteps
<1>9. BeginShutdown => None2
  BY ShutdownSteps DEF BeginShutdown, Idle
<1>10. Gone => job' = NoJob
  BY DEF Gone
<1> HIDE DEF Same, None2
<1>11. UNCHANGED job => UNCHANGED Stopping
  BY DEF Stopping
<1> QED
  BY <1>1, <1>2, <1>3, <1>4, <1>5, <1>6, <1>7, <1>8, <1>9, <1>10, <1>11, JobMoves DEF TakesDown

\* A member's change is in the memory of the guest that the map has.
LEMMA WorkAdds ==
    ASSUME Sound, NEW r \in Requests, Work(r)
    PROVE  /\ vm[req[r].m].ws \in Durable /\ Up(vm[req[r].m].ws)
           /\ \A w \in Durable :
                Unsaved(w)' = IF w = vm[req[r].m].ws THEN Unsaved(w) + 1 ELSE Unsaved(w)
<1> DEFINE m == req[r].m
           v == vm[m].ws
<1>1. /\ req[r].at = "using" /\ v \in Durable /\ Live(m) /\ UNCHANGED <<running, vm>>
      /\ cache' = [cache EXCEPT ![m] = @ + 1]
  BY DEF Work, Answers
<1>2. m \in Machines
  BY <1>1 DEF Sound, Typed, ReqShape
<1>3. running[v] = m /\ running[v] # None /\ vm[m].alive
  BY <1>1, <1>2, Sets DEF Sound, InUse, Live
<1>4. ASSUME NEW w \in Durable, running[w] # None
      PROVE  cache'[running[w]] = IF w = v THEN cache[running[w]] + 1 ELSE cache[running[w]]
  <2>1. w \in Workspaces /\ running[w] \in Machines /\ vm[running[w]].ws = w
    BY <1>4, Sets DEF Sound, Typed, RunType, MapOwn
  <2> QED
    BY <1>1, <1>2, <1>3, <2>1 DEF Sound, PastType
<1> HIDE DEF m, v
<1>5. v \in Durable /\ Up(v)
  BY <1>1, <1>3 DEF Up
<1>6. ASSUME NEW w \in Durable
      PROVE  Unsaved(w)' = IF w = v THEN Unsaved(w) + 1 ELSE Unsaved(w)
  <2>1. running' = running /\ vm' = vm
    BY <1>1
  <2> QED
    BY <1>3, <1>4, <2>1 DEF Unsaved
<1> QED
  BY <1>5, <1>6 DEF m, v

\* What it writes is added to what the next boot would have.
LEMMA WriteSaves ==
    ASSUME Sound, NEW v \in Durable, Jailed(v), NEW m, Writes(m), vm[m].ws = v
    PROVE  \E n \in 0 .. Unsaved(v) :
             /\ Bootable(v) # None /\ Bootable(v)' = Bootable(v) + n
             /\ synced'[v] = Bootable(v) + n
             /\ kept'[v] = kept[v] /\ marker'[v] = marker[v]
             /\ \A w \in Durable : Unsaved(w)' = IF w = v THEN Unsaved(v) - n ELSE Unsaved(w)
<1>0. JailType /\ PastType /\ v \in Workspaces /\ None \notin Nat
  BY Sets DEF Sound, Typed
<1>1. m \in Machines /\ Up(v) /\ running[v] = m /\ running[v] # None /\ vm[m].alive
  BY Writer DEF Up
<1>2. cache[m] \in Nat
  BY <1>0, <1>1 DEF PastType
<1>3. Unsaved(v) = cache[m]
  BY <1>1 DEF Unsaved
<1>4. PICK n \in 0 .. cache[m] : Settles(m, n)
  <2>1. Flush /\ job.m = m => Settles(m, cache[m])
    BY DEF Flush, SyncAll
  <2>2. WriteBack(m) => Settles(m, 1) /\ cache[m] > 0
    BY DEF WriteBack
  <2> QED
    BY <1>2, <2>1, <2>2 DEF Writes
<1>5. UNCHANGED <<running, vm, snap, prev, marker, kept>>
  BY DEF Writes, Flush, WriteBack
<1>6. /\ cache' = [cache EXCEPT ![m] = @ - n]
      /\ jail' = [jail EXCEPT ![v].work = @ + n]
      /\ synced' = [synced EXCEPT ![v] = jail[v].work + n]
  BY <1>4 DEF Settles
<1>7. /\ jail'[v].of = jail[v].of /\ jail'[v].meta = jail[v].meta
      /\ jail'[v].work = jail[v].work + n /\ jail[v].work \in Nat
      /\ synced'[v] = jail[v].work + n
  BY <1>0, <1>6 DEF JailType, PastType
<1>8. Recoverable(v)
  BY <1>1 DEF Jailed
<1>9. Bootable(v) = jail[v].work /\ Bootable(v)' = jail[v].work + n
  BY <1>7, <1>8 DEF Bootable, Recoverable, Saved, Exists
<1>10. ASSUME NEW w \in Durable
       PROVE  Unsaved(w)' = IF w = v THEN Unsaved(v) - n ELSE Unsaved(w)
  <2>1. running' = running /\ vm' = vm
    BY <1>5
  <2>2. CASE w = v
    <3>1. cache'[m] = cache[m] - n
      BY <1>0, <1>1, <1>6 DEF PastType
    <3> QED
      BY <1>1, <1>3, <2>1, <2>2, <3>1 DEF Unsaved
  <2>3. CASE w # v /\ running[w] # None
    <3>1. w \in Workspaces /\ running[w] \in Machines /\ vm[running[w]].ws = w
      BY <2>3, Sets DEF Sound, Typed, RunType, MapOwn
    <3>2. cache'[running[w]] = cache[running[w]]
      BY <1>0, <1>6, <2>3, <3>1 DEF PastType
    <3> QED
      BY <2>1, <2>3, <3>2 DEF Unsaved
  <2>4. CASE w # v /\ running[w] = None
    BY <2>1, <2>4 DEF Unsaved
  <2> QED
    BY <2>2, <2>3, <2>4
<1> QED
  BY <1>0, <1>3, <1>4, <1>5, <1>7, <1>9, <1>10

LEMMA RunningEnds ==
    Next => \/ UNCHANGED running
            \/ Insert \/ Unmap \/ Crash \/ PowerOff \/ Restart \/ \E r \in Requests : Evict(r)
BY DEF Next, Begins, Boots, Rotates, TakesDown, Fails, Asks, CreateExisting, BeginCreate,
       BeginDestroy, BeginReap, Park, DiscardSnapshot, ShutdownNext, Recover, Choose,
       Prepare, Launch, Restored, Ready, WriteMeta, WriteMarker, DropPrevious, Demote,
       Promote, LoadPolls, CountReferences, Flush, Pause, Stage, Sweep, Kill, Erase,
       FailPlainly, FailFlush, FailRestore, FailReady, FailPersist, FailErase, HangUp,
       BeginHostShutdown, CancelHostShutdown, BeginShutdown,
       Arrive, CheckFlag, FindsItUp, FindsItDead, Clean, Work, Resume, WriteBack, Done,
       TimePasses, GuestExits

\* A machine that is up stays in the map.
LEMMA UpStaysMapped ==
    ASSUME Sound, Next, NEW w \in Durable, Up(w), ~Crash, ~PowerOff, ~Restart
    PROVE  running'[w] = running[w]
<1>0. Typed /\ Dead /\ Apart /\ ReclaimedOnly /\ w \in Workspaces /\ w # None
  BY Sets DEF Sound
<1> SUFFICES ASSUME running'[w] # running[w] PROVE FALSE
  OBVIOUS
<1>1. /\ running[w] \in Machines /\ vm[running[w]].ws = w /\ ~Doomed(w) /\ running[w] # None
  BY <1>0, UpIsSafe DEF Up
<1>2. ~Insert
  BY <1>0, <1>1, InsertRuns, BootHas DEF Insert, Typed, WithMachine
<1>3. ~Unmap
  <2> SUFFICES ASSUME Unmap PROVE FALSE
    OBVIOUS
  <2>1. job.at = "unmap" /\ running' = [running EXCEPT ![vm[job.m].ws] = None]
    BY DEF Unmap
  <2>2. vm[job.m].ws = w
    BY <1>0, <2>1 DEF Typed, RunType
  <2>3. job.op \notin {"none", "create"}
    BY <1>0, <2>1, <2>2, JobHas DEF ReclaimedOnly, Reclaims, Down, Typed
  <2>4. Taker
    BY <1>0, <2>1, <2>3, JobAt DEF Taker, Typed
  <2>5. job.ws = w /\ job.m # None
    BY <1>0, <2>1, <2>2, <2>4, TakerHas
  <2> QED
    BY <1>0, <2>1, <2>4, <2>5, TakerHasIt DEF Dead
<1>4. ASSUME NEW r \in Requests, Evict(r) PROVE FALSE
  <2>1. req[r].at = "evict" /\ running' = [running EXCEPT ![vm[req[r].m].ws] = None]
    BY <1>4 DEF Evict, Evicted
  <2>2. vm[req[r].m].ws = w
    BY <1>0, <2>1 DEF Typed, RunType
  <2>3. Late(w)
    BY <1>0, <2>1, <2>2 DEF Late, Checking, Dead
  <2> QED
    BY <1>1, <2>3 DEF Doomed
<1> QED
  BY <1>2, <1>3, <1>4, RunningEnds

\* Otherwise it only goes, with the guest's process.
LEMMA UnsavedStays ==
    ASSUME Sound, Next, NEW w \in Durable, ~Gone, ~Wrote(w), \A r \in Requests : ~Work(r)
    PROVE  \/ Unsaved(w)' = Unsaved(w)
           \/ Unsaved(w)' = 0 /\ Up(w) /\ Kill /\ Takes(w, {"kill"})
           \/ Unsaved(w)' = 0 /\ \E m \in Machines : GuestExits(m)
<1>0. /\ Typed /\ Unused /\ Dead /\ Apart /\ ReclaimedOnly /\ PastType
      /\ w \in Workspaces /\ w # None
  BY Sets DEF Sound
<1>1. ASSUME Insert, Creates(w, {"insert"}) PROVE Unsaved(w)' = Unsaved(w)
  <2>1. Booting /\ running[w] = None /\ running'[w] = job.m /\ cache' = cache
    BY <1>0, <1>1, BootHas, InsertRuns DEF Insert, Creates, Typed, WithMachine, progress
  <2> QED
    BY <2>1 DEF Unsaved, Sound, Blank
<1>2. ASSUME Up(w), running'[w] = running[w], vm'[running[w]].alive
      PROVE  Unsaved(w)' = Unsaved(w)
  <2>1. running[w] \in Machines /\ vm[running[w]].ws = w
    BY <1>0, <1>2, UpIsSafe
  <2>2. cache'[running[w]] = cache[running[w]]
    <3>1. CASE UNCHANGED cache
      BY <3>1
    <3>2. ASSUME NEW m, Writes(m), m # running[w] PROVE cache'[running[w]] = cache[running[w]]
      <4>1. PICK n : cache' = [cache EXCEPT ![m] = @ - n]
        BY <3>2 DEF Writes, Flush, WriteBack, Settles
      <4> QED
        BY <1>0, <2>1, <3>2, <4>1 DEF PastType
    <3>3. ~Writes(running[w])
      BY <2>1 DEF Wrote
    <3> QED
      BY <3>1, <3>2, <3>3, CacheMoves DEF Writes
  <2> QED
    BY <1>2, <2>2 DEF Unsaved, Up
<1>3. ASSUME Up(w), ~vm'[running[w]].alive
      PROVE  (Kill /\ Takes(w, {"kill"})) \/ \E m \in Machines : GuestExits(m)
  <2>1. /\ running[w] \in Machines /\ vm[running[w]].ws = w /\ vm[running[w]].alive
        /\ running[w] \in Mapped
    BY <1>0, <1>3, UpIsSafe DEF Up
  <2>2. running[w] # job.m \/ job.at \notin WithMachine
    BY <1>0, <2>1, BootHas
  <2>3. CASE running[w] = job.m /\ Kill
    <3>1. job.op # "none"
      BY <1>0, <2>3, JobHas DEF Kill, Down, Typed
    <3>2. job.op # "create"
      BY <1>0, <2>1, <2>3 DEF Kill, ReclaimedOnly, Reclaims
    <3>3. Taker /\ job.at = "kill"
      BY <1>0, <2>3, <3>1, <3>2, JobAt DEF Taker, Kill, Typed
    <3> QED
      BY <1>0, <2>1, <2>3, <3>3, TakerHas DEF Takes
  <2> QED
    BY <1>0, <1>3, <2>1, <2>2, <2>3, Falls DEF FailRestore, FailReady, WithMachine
<1>4. Up(w) => running'[w] = running[w]
  BY UpStaysMapped DEF Crash, PowerOff, Restart
<1>5. ~Up(w) => Unsaved(w) = 0
  BY DEF Unsaved, Up
<1>6. ~Up(w)' => Unsaved(w)' = 0
  BY DEF Unsaved, Up
<1>7. CASE Up(w)'
  BY <1>0, <1>1, <1>2, <1>7, UpStep DEF Up
<1>8. CASE ~Up(w)'
  BY <1>3, <1>4, <1>5, <1>6, <1>8 DEF Up
<1> QED
  BY <1>7, <1>8

\* Not with the process that the reaper or a shutdown ends: it was written before.
LEMMA KillForgets ==
    ASSUME Sound, Flushed, NEW w \in Durable, Up(w), Kill, Takes(w, {"kill"})
    PROVE  Unsaved(w) = 0 \/ w \in Stopping
<1>1. Typed /\ Apart /\ w \in Workspaces /\ w # None
  BY Sets DEF Sound
<1>2. Taker /\ job.ws = w /\ job.at = "kill" /\ job.m # None
  BY <1>1, TakerHas DEF Takes
<1>3. running[w] = job.m
  BY <1>1, <1>2, TakerHasIt
<1>4. job.op # "destroy" => cache[job.m] = 0
  BY <1>2 DEF Flushed, Taker, StillUp
<1> QED
  BY <1>2, <1>3, <1>4 DEF Unsaved, Stopping

\* A shutdown finds a guest that answers, if no job has failed and no guest exited.
LEMMA ShutdownAnswers ==
    ASSUME Sound, Drained, ServedIntact, OnlyInHand, exits = 0,
           job.op = "shutdown", job.at = "flush"
    PROVE  Answers(job.m)
<1>0. Typed /\ Taker /\ job.at # "next"
  BY DEF Sound, Taker
<1>1. job.m \in Machines /\ job.m # None /\ job.ws \in Workspaces /\ vm[job.m].ws = job.ws
  BY <1>0, TakerHas
<1>2. job.m \in Mapped
  BY <1>1 DEF Drained
<1>3. ~vm[job.m].paused /\ vm[job.m].alive
  BY <1>2 DEF OnlyInHand, InHand, StillPaused, Rotate
<1>4. running[job.ws] = job.m
  BY <1>0, <1>1, <1>2, MappedType
<1>5. jail[vm[job.m].ws].of = job.m
  BY <1>1, <1>3, <1>4 DEF ServedIntact, Intact
<1> QED
  BY <1>2, <1>3, <1>5 DEF Answers, Live, Held

-----------------------------------------------------------------------------
(* Every step of the host is a step of DurableWork.                        *)

\* The disks of DurableWork change for one workspace at a time.
LEMMA OthersRest ==
    ASSUME NEW v \in Durable, \A w \in Durable : w # v => Rests(w)
    PROVE  /\ [w \in Durable |-> Bootable(w)']
                = [[w \in Durable |-> Bootable(w)] EXCEPT ![v] = Bootable(v)']
           /\ [w \in Durable |-> kept'[w]]
                = [[w \in Durable |-> kept[w]] EXCEPT ![v] = kept'[v]]
           /\ [w \in Durable |-> synced'[w]]
                = [[w \in Durable |-> synced[w]] EXCEPT ![v] = synced'[v]]
           /\ [w \in Durable |-> marker'[w]]
                = [[w \in Durable |-> marker[w]] EXCEPT ![v] = marker'[v]]
<1>1. \A w \in Durable : w # v => Bootable(w)' = Bootable(w)
  BY DEF Rests
<1>2. \A w \in Durable : w # v => kept'[w] = kept[w] /\ synced'[w] = synced[w] /\ marker'[w] = marker[w]
  BY DEF Rests
<1>3. [w \in Durable |-> Bootable(w)']
        = [[w \in Durable |-> Bootable(w)] EXCEPT ![v] = Bootable(v)']
  BY <1>1
<1>4. [w \in Durable |-> kept'[w]] = [[w \in Durable |-> kept[w]] EXCEPT ![v] = kept'[v]]
  BY <1>2
<1>5. [w \in Durable |-> synced'[w]] = [[w \in Durable |-> synced[w]] EXCEPT ![v] = synced'[v]]
  BY <1>2
<1>6. [w \in Durable |-> marker'[w]] = [[w \in Durable |-> marker[w]] EXCEPT ![v] = marker'[v]]
  BY <1>2
<1> QED
  BY <1>3, <1>4, <1>5, <1>6

\* What is in the memory of the guests, and who is having one stopped, is as before.
Steady == UNCHANGED Stopping /\ \A w \in Durable : Unsaved(w)' = Unsaved(w)

LEMMA PromisedMaps ==
    ASSUME NEW v \in Durable, \A w \in Durable : w # v => Rests(w), Promised(v), ~Rests(v),
           ~Dropped(v), exits' = exits, faults' = faults, Steady,
           Bootable(v)' \in Nat \cup {None}, kept'[v] \in Nat \cup {None}
    PROVE  Owners!Next
<1>1. /\ [w \in Durable |-> Bootable(w)']
           = [[w \in Durable |-> Bootable(w)] EXCEPT ![v] = Bootable(v)']
      /\ [w \in Durable |-> kept'[w]] = [[w \in Durable |-> kept[w]] EXCEPT ![v] = kept'[v]]
      /\ [w \in Durable |-> synced'[w]] = [[w \in Durable |-> synced[w]] EXCEPT ![v] = synced'[v]]
      /\ [w \in Durable |-> marker'[w]]
           = [[w \in Durable |-> marker[w]] EXCEPT ![v] = marker'[v]]
  BY OthersRest
<1>2. /\ kept'[v] = kept[v] => UNCHANGED [w \in Durable |-> kept[w]]
      /\ synced'[v] = synced[v] => UNCHANGED [w \in Durable |-> synced[w]]
      /\ marker'[v] = marker[v] => UNCHANGED [w \in Durable |-> marker[w]]
      /\ Bootable(v)' = Bootable(v) => UNCHANGED [w \in Durable |-> Bootable(w)]
  BY DEF Rests
<1>3. UNCHANGED <<exits > 0, faults > 0, Stopping, [w \in Durable |-> Unsaved(w)]>>
  BY DEF Steady
<1>4. CASE Refreshed(v)
  <2>1. Owners!FirstBoot(v)
    BY <1>1, <1>2, <1>3, <1>4 DEF Refreshed, Owners!FirstBoot, Owners!Holds
  <2> QED
    BY <2>1 DEF Owners!Next
<1>5. CASE Initialized(v)
  <2>1. Owners!Started(v)
    BY <1>1, <1>2, <1>3, <1>5 DEF Initialized, Owners!Started
  <2> QED
    BY <2>1 DEF Owners!Next
<1>6. CASE Rotated(v)
  <2>1. Owners!Checkpoint(v)
    BY <1>1, <1>2, <1>3, <1>6 DEF Rotated, Owners!Checkpoint, Owners!Holds
  <2> QED
    BY <2>1 DEF Owners!Next
<1>7. CASE Fallen(v)
  <2>1. Owners!Lose(v)
    BY <1>1, <1>2, <1>3, <1>7 DEF Fallen, Owners!Lose, Owners!Holds
  <2> QED
    BY <2>1 DEF Owners!Next
<1>8. CASE Drifted(v)
  <2>1. Owners!Drift(v)
    BY <1>1, <1>2, <1>3, <1>8 DEF Drifted, Owners!Drift, Owners!Holds, Owners!Works
  <2> QED
    BY <2>1 DEF Owners!Next
<1> QED
  BY <1>4, <1>5, <1>6, <1>7, <1>8 DEF Promised

LEMMA DroppedMaps ==
    ASSUME NEW v \in Durable, \A w \in Durable : w # v => Rests(w), Dropped(v),
           exits' = exits, faults \in Nat, faults' \in {faults, faults + 1}, Steady,
           Bootable(v)' \in Nat \cup {None}
    PROVE  Owners!Next
<1>1. /\ [w \in Durable |-> Bootable(w)']
           = [[w \in Durable |-> Bootable(w)] EXCEPT ![v] = Bootable(v)']
      /\ [w \in Durable |-> kept'[w]] = [[w \in Durable |-> kept[w]] EXCEPT ![v] = kept'[v]]
      /\ [w \in Durable |-> synced'[w]] = [[w \in Durable |-> synced[w]] EXCEPT ![v] = synced'[v]]
      /\ [w \in Durable |-> marker'[w]]
           = [[w \in Durable |-> marker[w]] EXCEPT ![v] = marker'[v]]
  BY OthersRest
<1>2. marker'[v] = marker[v] => UNCHANGED [w \in Durable |-> marker[w]]
  BY DEF Rests
<1>0. UNCHANGED <<exits > 0, Stopping, [w \in Durable |-> Unsaved(w)]>>
  BY DEF Steady
<1>3. (faults' > 0) \in {faults > 0, TRUE}
  <2>1. CASE faults' = faults
    BY <2>1
  <2>2. CASE faults' = faults + 1
    <3>1. faults' > 0
      BY <2>2
    <3>2. (faults' > 0) = TRUE
      BY <3>1
    <3> QED
      BY <3>2
  <2> QED
    BY <2>1, <2>2
<1>4. Bootable(v)' \in IF faults' > 0 THEN Nat \cup {None} ELSE {None, Bootable(v)}
  BY DEF Dropped
<1>5. Owners!Discard(v)
  BY <1>0, <1>1, <1>2, <1>3, <1>4 DEF Dropped, Owners!Discard, Owners!Holds, Owners!Works
<1> QED
  BY <1>5 DEF Owners!Next

\* A step at which the disks of every workspace rest.
AllRest == \A w \in Durable : Rests(w)

LEMMA RestingDisks ==
    ASSUME AllRest
    PROVE  /\ UNCHANGED [w \in Durable |-> Bootable(w)]
           /\ UNCHANGED <<[w \in Durable |-> kept[w]], [w \in Durable |-> synced[w]],
                          [w \in Durable |-> marker[w]]>>
BY DEF AllRest, Rests

LEMMA RestingMaps ==
    ASSUME AllRest, Steady, faults' = faults, exits' = exits
    PROVE  UNCHANGED Owners!work
<1>1. UNCHANGED <<exits > 0, faults > 0, Stopping, [w \in Durable |-> Unsaved(w)]>>
  BY DEF Steady
<1> QED
  BY <1>1, RestingDisks DEF Owners!work, Owners!disks

\* Some guests' memory is lost, at most.
Loses == \A w \in Durable : Unsaved(w)' \in {Unsaved(w), 0}

LEMMA LostMaps ==
    ASSUME Loses
    PROVE  \A lost \in SUBSET Durable :
             (\A w \in Durable : w \in lost <=> Unsaved(w)' # Unsaved(w)) => Owners!Forgets(lost)
BY DEF Loses, Owners!Forgets

LEMMA SomeLost ==
    ASSUME Loses
    PROVE  \E lost \in SUBSET Durable : Owners!Forgets(lost)
<1>1. {w \in Durable : Unsaved(w)' # Unsaved(w)} \in SUBSET Durable
  OBVIOUS
<1> QED
  BY <1>1, LostMaps

LEMMA ForgetMaps ==
    ASSUME AllRest, Loses, UNCHANGED Stopping, faults' = faults, exits' = exits,
           \A w \in Durable : Unsaved(w)' # Unsaved(w) => exits > 0 \/ w \in Stopping
    PROVE  Owners!Next
<1> DEFINE lost == {w \in Durable : Unsaved(w)' # Unsaved(w)}
<1>1. Owners!Forgets(lost)
  BY LostMaps
<1>2. lost \in SUBSET Durable /\ (exits > 0 \/ lost \subseteq Stopping)
  OBVIOUS
<1>3. UNCHANGED <<exits > 0, faults > 0, Stopping>>
  OBVIOUS
<1> HIDE DEF lost
<1>4. Owners!Forget
  BY <1>1, <1>2, <1>3, RestingDisks DEF Owners!Forget, Owners!disks
<1> QED
  BY <1>4 DEF Owners!Next

LEMMA StopMaps ==
    ASSUME AllRest, \A w \in Durable : Unsaved(w)' = Unsaved(w), faults' = faults, exits' = exits
    PROVE  Owners!Next
<1>1. UNCHANGED <<exits > 0, faults > 0, [w \in Durable |-> Unsaved(w)]>>
  OBVIOUS
<1>2. Stopping' \in SUBSET Durable
  BY DEF Stopping
<1>3. Owners!Stop
  BY <1>1, <1>2, RestingDisks DEF Owners!Stop, Owners!disks
<1> QED
  BY <1>3 DEF Owners!Next

LEMMA ExitMaps ==
    ASSUME AllRest, Loses, UNCHANGED Stopping, faults' = faults, exits \in Nat, exits' = exits + 1
    PROVE  Owners!Next
<1>1. (exits' > 0) = TRUE
  <2>1. exits' > 0
    OBVIOUS
  <2> QED
    BY <2>1
<1>2. UNCHANGED <<faults > 0, Stopping>>
  OBVIOUS
<1>3. Owners!Exit
  BY <1>1, <1>2, RestingDisks, SomeLost DEF Owners!Exit, Owners!disks
<1> QED
  BY <1>3 DEF Owners!Next

LEMMA FailMaps ==
    ASSUME AllRest, Loses, Stopping' \subseteq Stopping, faults' \in Nat, faults' > 0, exits' = exits
    PROVE  Owners!Next
<1>1. (faults' > 0) = TRUE
  OBVIOUS
<1>2. UNCHANGED (exits > 0)
  OBVIOUS
<1>3. Owners!Fail
  BY <1>1, <1>2, RestingDisks, SomeLost DEF Owners!Fail, Owners!disks
<1> QED
  BY <1>3 DEF Owners!Next

\* A member's change, and what a guest writes of them.
LEMMA WorkMaps ==
    ASSUME Sound, \A w \in Durable : Jailed(w), NEW r \in Requests, Work(r)
    PROVE  Owners!Next
<1> DEFINE v == vm[req[r].m].ws
<1>1. /\ v \in Durable /\ Up(v)
      /\ \A w \in Durable : Unsaved(w)' = IF w = v THEN Unsaved(w) + 1 ELSE Unsaved(w)
  BY WorkAdds
<1>2. \A w \in Durable : Untouched(w)
  BY DEF Work, Untouched, files
<1>3. AllRest
  BY <1>2, UntouchedRests DEF AllRest
<1>4. Bootable(v) # None
  <2>1. Recoverable(v) /\ v \in Workspaces
    BY <1>1, Sets DEF Jailed
  <2>2. jail[v].work \in Nat
    BY <2>1 DEF Sound, Typed, JailType
  <2> QED
    BY <2>1, <2>2, Sets DEF Bootable, Recoverable, Saved, Exists
<1>5. UNCHANGED <<exits > 0, faults > 0, Stopping>>
  BY DEF Work, Stopping
<1> HIDE DEF v
<1>6. [w \in Durable |-> Unsaved(w)']
        = [[w \in Durable |-> Unsaved(w)] EXCEPT ![v] = @ + 1]
  BY <1>1
<1>7. Owners!Acknowledge(v)
  BY <1>1, <1>3, <1>4, <1>5, <1>6, RestingDisks DEF Owners!Acknowledge, Owners!disks
<1> QED
  BY <1>1, <1>7 DEF Owners!Next

LEMMA WriteMaps ==
    ASSUME Sound, NEW v \in Durable, Jailed(v), NEW m, Writes(m), vm[m].ws = v,
           \A w \in Durable : w # v => Rests(w), UNCHANGED Stopping
    PROVE  Owners!Next
<1>1. PICK n \in 0 .. Unsaved(v) :
        /\ Bootable(v) # None /\ Bootable(v)' = Bootable(v) + n
        /\ synced'[v] = Bootable(v) + n
        /\ kept'[v] = kept[v] /\ marker'[v] = marker[v]
        /\ \A w \in Durable : Unsaved(w)' = IF w = v THEN Unsaved(v) - n ELSE Unsaved(w)
  BY WriteSaves
<1>2. /\ [w \in Durable |-> Bootable(w)']
           = [[w \in Durable |-> Bootable(w)] EXCEPT ![v] = Bootable(v)']
      /\ [w \in Durable |-> kept'[w]] = [[w \in Durable |-> kept[w]] EXCEPT ![v] = kept'[v]]
      /\ [w \in Durable |-> synced'[w]] = [[w \in Durable |-> synced[w]] EXCEPT ![v] = synced'[v]]
      /\ [w \in Durable |-> marker'[w]]
           = [[w \in Durable |-> marker[w]] EXCEPT ![v] = marker'[v]]
  BY OthersRest
<1>3. UNCHANGED <<[w \in Durable |-> kept[w]], [w \in Durable |-> marker[w]]>>
  BY <1>1 DEF Rests
<1>4. UNCHANGED <<exits > 0, faults > 0, Stopping>>
  BY DEF Writes, Flush, WriteBack
<1>5. [w \in Durable |-> Unsaved(w)']
        = [[w \in Durable |-> Unsaved(w)] EXCEPT ![v] = @ - n]
  BY <1>1
<1>6. Owners!Save(v)
  BY <1>1, <1>2, <1>3, <1>4, <1>5 DEF Owners!Save, Owners!Holds
<1> QED
  BY <1>6 DEF Owners!Next

LEMMA KeepsInit == Init => Owners!Init
<1> SUFFICES ASSUME Init PROVE Owners!Init
  OBVIOUS
<1>1. ASSUME NEW w \in Durable
      PROVE  Bootable(w) = synced[w] /\ kept[w] = synced[w] /\ synced[w] \in Nat \cup {None}
  <2>1. w \in Workspaces
    BY Sets
  <2>2. /\ synced[w] = IF snap[w] = Legacy THEN 1 ELSE None
        /\ kept[w] = synced[w] /\ jail[w] = NoJail /\ prev[w] = NoCheckpoint
        /\ snap[w] \in {NoCheckpoint, Legacy}
    BY <2>1 DEF Init
  <2> QED
    BY <2>2 DEF Bootable, Saved, Exists, NoJail, NoCheckpoint, Legacy
<1>2. [w \in Durable |-> Bootable(w)] \in [Durable -> Nat \cup {None}]
  BY <1>1
<1>3. /\ [w \in Durable |-> kept[w]] = [w \in Durable |-> Bootable(w)]
      /\ [w \in Durable |-> synced[w]] = [w \in Durable |-> Bootable(w)]
  BY <1>1
<1>4. [w \in Durable |-> marker[w]] = [w \in Durable |-> FALSE]
  BY Sets DEF Init
<1>5. (exits > 0) = FALSE /\ (faults > 0) = FALSE
  BY DEF Init
<1>6. [w \in Durable |-> Unsaved(w)] = [w \in Durable |-> 0]
  BY Sets DEF Init, Unsaved
<1>7. Stopping = {}
  BY DEF Init, NoJob, Stopping
<1> QED
  BY <1>2, <1>3, <1>4, <1>5, <1>6, <1>7 DEF Owners!Init, Owners!Works

LEMMA ExitMoves ==
    ASSUME Next, exits' # exits
    PROVE  \E m \in Machines : GuestExits(m)
<1> SUFFICES ASSUME \A m \in Machines : ~GuestExits(m) PROVE exits' = exits
  OBVIOUS
<1>1. ASSUME NEW w \in Workspaces, Begins(w) PROVE exits' = exits
  BY <1>1 DEF Begins, CreateExisting, BeginCreate, BeginDestroy, BeginReap, Park,
     DiscardSnapshot, ShutdownNext
<1>2. CASE Boots \/ Rotates \/ TakesDown
  BY <1>2 DEF Boots, Rotates, TakesDown, Recover, Choose, Prepare, Launch, Restored, Ready,
     WriteMeta, WriteMarker, Insert, DropPrevious, Demote, Promote, LoadPolls, CountReferences,
     Flush, Pause, Stage, Sweep, Kill, Erase, Unmap
<1>3. CASE Fails
  BY <1>3 DEF Fails, FailPlainly, FailFlush, FailRestore, FailReady, FailPersist, FailErase,
     HangUp, Crash, Gone
<1>4. CASE BeginHostShutdown \/ CancelHostShutdown \/ PowerOff \/ BeginShutdown \/ Restart
  BY <1>4 DEF BeginHostShutdown, CancelHostShutdown, PowerOff, BeginShutdown, Restart, Gone
<1>5. ASSUME NEW r \in Requests, Asks(r) PROVE exits' = exits
  BY <1>5 DEF Asks, Arrive, CheckFlag, FindsItUp, FindsItDead, Evict, Clean, Work, Resume, Done
<1>6. ASSUME NEW m \in Machines, TimePasses(m) \/ WriteBack(m) PROVE exits' = exits
  BY <1>6 DEF TimePasses, WriteBack
<1> QED
  BY <1>1, <1>2, <1>3, <1>4, <1>5, <1>6 DEF Next

\* What holds before a step when at most one thing went wrong.
LEMMA CauseFacts ==
    ASSUME WorkInv, OneCause
    PROVE  /\ Typed /\ PastType /\ MarkType /\ CountType /\ faults \in Nat /\ exits \in Nat
           /\ Sound /\ Drained /\ Flushed /\ ServedIntact /\ Reserved
           /\ \A w \in Durable : Jailed(w)
<1>1. TypeOK /\ Shape
  BY DEF WorkInv, HostInv
<1>2. Typed /\ PastType /\ MarkType /\ CountType
  BY <1>1, TypedAll, TypeParts
<1> QED
  BY <1>2 DEF CountType, Sound, OneCause, WorkInv, HostInv, Alone

LEMMA UntouchedAll ==
    ASSUME UNCHANGED <<jail, snap, prev, kept, synced, marker>>
    PROVE  AllRest
BY UntouchedRests DEF Untouched, AllRest

\* A step by which no guest's memory is lost and nobody begins or ends a stop.
LEMMA DiskMaps ==
    ASSUME WorkInv, WorkInv', OneCause, Next, Steady,
           exits' = exits, faults' = faults, \A w \in Durable : ~Wrote(w)
    PROVE  Owners!Next \/ UNCHANGED Owners!work
<1>1. /\ Typed /\ PastType /\ MarkType /\ CountType /\ faults \in Nat /\ exits \in Nat
      /\ Sound /\ \A w \in Durable : Jailed(w)
  BY CauseFacts
<1>2. ~LateRequests /\ faults <= 1 /\ (faults = 0 \/ exits = 0)
  BY DEF OneCause
<1>3. PICK v : \A w \in Durable : w # v => Untouched(w)
  BY <1>1, OneAtATime
<1>4. \A w \in Durable : w # v => Rests(w)
  BY <1>3, UntouchedRests
<1>5. SnapType' /\ JailType' /\ PastType'
  BY DEF WorkInv, HostInv, TypeOK, SnapType, JailType, PastType
<1>6. ASSUME NEW w \in Durable
      PROVE  Bootable(w)' \in Nat \cup {None} /\ kept'[w] \in Nat \cup {None}
  BY <1>5, BootableType, Sets DEF PastType
<1>7. CASE AllRest
  BY <1>7, RestingMaps
<1>8. CASE ~AllRest
  <2>1. v \in Durable /\ ~Rests(v) /\ ~Wrote(v)
    BY <1>4, <1>8 DEF AllRest
  <2>2. Promised(v)
    <3>1. CASE faults = 0
      BY <1>1, <1>2, <2>1, <3>1, FinePromised
      DEF Fine, Unfailed, WorkInv, Flawless, Calm
    <3>2. CASE faults = 1
      BY <1>1, <1>2, <2>1, <3>2, AfterPromised DEF After, WorkInv, Calm
    <3> QED
      BY <1>1, <1>2, <3>1, <3>2
  <2>3. CASE Dropped(v)
    BY <1>1, <1>4, <1>6, <2>1, <2>3, DroppedMaps
  <2>4. CASE ~Dropped(v)
    BY <1>4, <1>6, <2>1, <2>2, <2>4, PromisedMaps
  <2> QED
    BY <2>3, <2>4
<1> QED
  BY <1>7, <1>8

\* The step of a failure.
LEMMA FailureMaps ==
    ASSUME WorkInv, WorkInv', OneCause, OneCause', Next, faults' = faults + 1, exits' = exits
    PROVE  Owners!Next
<1>1. /\ Typed /\ PastType /\ MarkType /\ CountType /\ faults \in Nat /\ exits \in Nat
      /\ Sound /\ \A w \in Durable : Jailed(w)
  BY CauseFacts
<1>2. ~LateRequests /\ faults = 0 /\ faults' = 1 /\ exits = 0
  BY <1>1 DEF OneCause
<1>3. /\ Fails \/ \E u \in Workspaces : DiscardSnapshot(u)
      /\ \A r \in Requests : ~Work(r)
      /\ \A w \in Durable : ~Wrote(w)
  BY <1>1, FailureMoves DEF Wrote
<1>4. PICK v : \A w \in Durable : w # v => Untouched(w)
  BY <1>1, OneAtATime
<1>5. \A w \in Durable : w # v => Rests(w)
  BY <1>4, UntouchedRests
<1>6. CASE v \in Durable /\ DiscardSnapshot(v)
  <2>1. Steady
    BY <1>6 DEF DiscardSnapshot, Steady, Stopping, Unsaved
  <2>2. Dropped(v)
    BY <1>1, <1>6, DiscardDrops
  <2>3. JailType' /\ SnapType'
    BY DEF WorkInv, HostInv, TypeOK, SnapType, JailType
  <2>4. Bootable(v)' \in Nat \cup {None}
    BY <1>6, <2>3, BootableType
  <2> QED
    BY <1>1, <1>2, <1>5, <1>6, <2>1, <2>2, <2>4, DroppedMaps
<1>7. CASE ~(v \in Durable /\ DiscardSnapshot(v))
  <2>1. AllRest
    <3>1. CASE v \in Durable
      <4>1. Failing(v)
        BY <1>1, <1>2, <1>7, <3>1 DEF Failing, WorkInv, Flawless, Calm
      <4> QED
        BY <1>5, <3>1, <4>1, FailingRests DEF AllRest
    <3> QED
      BY <1>5, <3>1 DEF AllRest
  <2>2. Loses
    <3>1. CASE Gone
      BY <3>1, Sets DEF Loses, Unsaved, Gone
    <3>2. CASE ~Gone
      BY <1>1, <1>3, <3>2, UnsavedStays DEF Loses
    <3> QED
      BY <3>1, <3>2
  <2>3. Stopping' \subseteq Stopping
    <3>1. \A u \in Workspaces : ~BeginDestroy(u)
      BY <1>1 DEF BeginDestroy
    <3> QED
      BY <1>1, <3>1, StoppingMoves
  <2> QED
    BY <1>2, <2>1, <2>2, <2>3, FailMaps
<1> QED
  BY <1>6, <1>7

\* The end of the service that no job's failure causes.
LEMMA GoneMaps ==
    ASSUME WorkInv, OneCause, Next, Gone, exits' = exits, faults' = faults
    PROVE  Owners!Next \/ UNCHANGED Owners!work
<1>1. /\ Typed /\ CountType /\ faults \in Nat /\ exits \in Nat
      /\ Sound /\ Drained /\ ServedIntact /\ Reserved
  BY CauseFacts
<1>2. AllRest
  BY UntouchedAll DEF Gone, files, progress
<1>3. \A w \in Durable : Unsaved(w)' = 0
  BY Sets DEF Gone, Unsaved
<1>4. Stopping' = {}
  BY DEF Gone, NoJob, Stopping
<1>5. CASE faults > 0
  BY <1>1, <1>2, <1>3, <1>4, <1>5, FailMaps DEF Loses
<1>6. CASE \A w \in Durable : Unsaved(w) = 0
  BY <1>2, <1>3, <1>6, StopMaps
<1>7. ASSUME faults = 0, NEW w \in Durable, Unsaved(w) # 0 PROVE Owners!Next
  <2>1. ~LateRequests /\ (exits = 0 => OnlyInHand)
    BY <1>7 DEF OneCause, WorkInv, Flawless
  <2>2. Up(w) /\ w \in Workspaces /\ Mapped # {}
    BY <1>7, Sets DEF Unsaved, Up, Mapped
  <2>3. running'[w] # running[w]
    BY <2>2 DEF Up, Gone
  <2>4. ~PowerOff /\ ~Restart
    BY <1>1, <2>2 DEF PowerOff, Restart, Reserved, Idle
  <2>5. Crash
    BY <1>1, <2>2, <2>3, <2>4, UpStaysMapped
  <2>6. job.op = "shutdown" /\ job.at = "flush" /\ ~Answers(job.m)
    BY <1>1, <2>5 DEF Crash, Counted
  <2>7. exits > 0 /\ Stopping = {}
    BY <1>1, <2>1, <2>6, ShutdownAnswers DEF Stopping
  <2> QED
    BY <1>2, <1>3, <1>4, <2>7, ForgetMaps DEF Loses
<1> QED
  BY <1>1, <1>5, <1>6, <1>7

\* The kinds of steps: of a guest that exits, of the one failure, or neither.
LEMMA KeepsNext ==
    WorkInv /\ WorkInv' /\ OneCause /\ OneCause' /\ [Next]_vars
        => Owners!Next \/ UNCHANGED Owners!work
<1> SUFFICES ASSUME WorkInv, WorkInv', OneCause, OneCause', [Next]_vars
             PROVE  Owners!Next \/ UNCHANGED Owners!work
  OBVIOUS
<1>1. /\ Typed /\ CountType /\ faults \in Nat /\ exits \in Nat
      /\ Sound /\ Flushed /\ \A w \in Durable : Jailed(w)
  BY CauseFacts
<1>2. CASE UNCHANGED vars
  <2>1. AllRest /\ Steady
    BY <1>2, UntouchedAll DEF vars, Steady, Stopping, Unsaved
  <2> QED
    BY <1>2, <2>1, RestingMaps DEF vars
<1>3. CASE Next /\ exits' # exits
  <2>1. PICK m \in Machines : GuestExits(m)
    BY <1>3, ExitMoves
  <2>2. /\ AllRest /\ faults' = faults /\ exits' = exits + 1 /\ UNCHANGED Stopping
        /\ ~Gone /\ (\A r \in Requests : ~Work(r)) /\ \A w \in Durable : ~Wrote(w)
    <3>1. UNCHANGED <<files, progress, faults, job>> /\ exits' = exits + 1
      BY <2>1 DEF GuestExits
    <3>2. exits' # exits
      BY <1>1, <3>1
    <3> QED
      BY <3>1, <3>2, UntouchedAll
      DEF files, progress, Stopping, Gone, Work, Wrote, Writes, Flush, WriteBack
  <2>3. Loses
    BY <1>1, <1>3, <2>2, UnsavedStays DEF Loses
  <2> QED
    BY <1>1, <2>2, <2>3, ExitMaps
<1>4. CASE Next /\ exits' = exits /\ faults' # faults
  BY <1>1, <1>4, CountMoves, FailureMaps
<1>5. ASSUME Next, exits' = exits, faults' = faults, ~Gone,
             \A r \in Requests : ~Work(r), \A w \in Durable : ~Wrote(w)
      PROVE  Owners!Next \/ UNCHANGED Owners!work
  <2>1. \A m \in Machines : ~GuestExits(m)
    BY <1>1, <1>5, CountMoves
  <2>2. \A w \in Durable :
          \/ Unsaved(w)' = Unsaved(w)
          \/ Unsaved(w)' = 0 /\ Up(w) /\ Kill /\ Takes(w, {"kill"})
    BY <1>1, <1>5, <2>1, UnsavedStays
  <2>3. CASE Kill
    <3>1. AllRest
      BY <2>3, UntouchedAll DEF Kill, files, progress
    <3>2. UNCHANGED Stopping
      BY <1>1, <2>3, PlainSteps DEF Typed, Goes, Stopping
    <3>3. \A w \in Durable : Unsaved(w)' # Unsaved(w) => w \in Stopping
      BY <1>1, <2>2, KillForgets
    <3>4. Loses
      BY <2>2 DEF Loses
    <3> QED
      BY <1>5, <3>1, <3>2, <3>3, <3>4, ForgetMaps
  <2>4. CASE ~Kill /\ UNCHANGED Stopping
    BY <1>5, <2>2, <2>4, DiskMaps DEF Steady
  <2>5. CASE ~Kill /\ Stopping' # Stopping
    <3>1. \/ \E v \in Workspaces : BeginDestroy(v)
          \/ Unmap \/ Fails
      BY <1>1, <1>5, <2>5, StoppingMoves
    <3>2. Fails => FailFlush
      BY <1>1, <1>5 DEF Fails, FailPlainly, FailRestore, FailReady, FailPersist,
         FailErase, HangUp, Crash, Counted
    <3>4. UNCHANGED <<files, progress>>
      BY <3>1, <3>2 DEF BeginDestroy, Unmap, FailFlush
    <3>3. AllRest
      BY <3>4, UntouchedAll DEF files, progress
    <3> QED
      BY <1>5, <2>2, <2>5, <3>3, StopMaps
  <2> QED
    BY <2>3, <2>4, <2>5
<1>6. CASE Next /\ exits' = exits /\ faults' = faults /\ Gone
  BY <1>6, GoneMaps
<1>7. ASSUME NEW r \in Requests, Work(r) PROVE Owners!Next
  BY <1>1, <1>7, WorkMaps
<1>8. ASSUME NEW v \in Durable, Wrote(v) PROVE Owners!Next
  <2>1. PICK m : Writes(m) /\ vm[m].ws = v
    BY <1>8 DEF Wrote
  <2>2. \A w \in Durable : w # v => Rests(w)
    <3>1. Typed /\ PastType /\ JailType
      BY <1>1 DEF Sound, Typed
    <3>2. \A w \in Durable : w # v => Untouched(w)
      BY <2>1, <3>1, WritesOne
    <3> QED
      BY <3>2, UntouchedRests
  <2>3. UNCHANGED Stopping
    BY <1>1, <2>1, PlainSteps DEF Typed, Goes, Stopping, Writes, WriteBack
  <2> QED
    BY <1>1, <2>1, <2>2, <2>3, WriteMaps
<1> QED
  BY <1>2, <1>3, <1>4, <1>5, <1>6, <1>7, <1>8

\* The host keeps what it promises to the owners of durable workspaces, through
\* one failure, hang-up or crash at any step, or through any number of guests
\* that exit on their own: every step of firecracker.rs is a step of DurableWork
\* (recover_interrupted_workspace, hibernate_machine, remove_snapshot).
THEOREM KeepsWorkHolds == Spec /\ []OneCause => KeepsWork
<1>1. WorkInv /\ WorkInv' /\ OneCause /\ OneCause' /\ [Next]_vars => [Owners!Next]_(Owners!work)
  BY KeepsNext
<1> QED
  BY <1>1, KeepsInit, WorkInvariantHolds, PTL DEF Spec, KeepsWork, Owners!Spec

=============================================================================
