------------------------- MODULE ArmLifecycleProofs -------------------------
(* Proofs about ArmLifecycle for every number of requests, generations,    *)
(* operations, handoffs and faults.                                        *)
EXTENDS ArmInvariant, TLAPS

USE ArmConstants

LEMMA NoneIsNew == None \notin OpIds /\ None \notin Kinds /\ None \notin Generations
BY DEF OpIds, Generations

LEMMA IdleValues ==
    FreshRow \in Rows /\ NoRun \in Runs /\ NoCall \in Calls
    /\ NoScan \in [pc : {"idle", "scanned", "recreate"}, seen : Rows]
<1>1. FreshRow \in Rows
  BY DEF FreshRow, Rows, Statuses, RuntimeStatuses, Active, Generations
<1>2. NoRun \in Runs
  BY DEF NoRun, NoInput, Runs, Inputs, Steps, HandoffPoints, Terminal, Kinds,
         Generations, RuntimeStatuses
<1>3. NoCall \in Calls
  BY <1>1 DEF NoCall, Calls, Kinds
<1>4. NoScan \in [pc : {"idle", "scanned", "recreate"}, seen : Rows]
  BY <1>1 DEF NoScan
<1> QED
  BY <1>1, <1>2, <1>3, <1>4

LEMMA InitType == Init => TypeInv
<1> SUFFICES ASSUME Init PROVE TypeInv
  OBVIOUS
<1>1. row \in Rows /\ (row.op = None <=> row.kind = None)
  BY IdleValues DEF Init, FreshRow
<1>2. wf \in [OpIds -> Runs] /\ req \in [Requests -> Calls]
  BY IdleValues DEF Init
<1>3. vm \in [Generations -> {"absent", "on", "off"}]
  BY DEF Init
<1>4. JobsOK
  BY DEF Init, JobsOK, NoCall, NoScan
<1>5. cron \in [pc : {"idle", "scanned", "recreate"}, seen : Rows]
  BY IdleValues DEF Init
<1>6. nextOp \in Nat \ {0} /\ faults \in Nat
  BY DEF Init
<1>7. disk \in BOOLEAN /\ claim \in BOOLEAN /\ session \in BOOLEAN
  BY Zenon DEF Init
<1> QED
  BY <1>1, <1>2, <1>3, <1>4, <1>5, <1>6, <1>7 DEF TypeInv, TypeOK

\* Goto keeps the instances well-formed.
LEMMA GotoType ==
    ASSUME wf \in [OpIds -> Runs], NEW o \in OpIds, NEW pc \in Steps, Goto(o, pc)
    PROVE  wf' \in [OpIds -> Runs]
<1>1. wf[o] \in Runs
  OBVIOUS
<1>2. [wf[o] EXCEPT !.pc = pc] \in Runs
  BY <1>1 DEF Runs
<1>3. [NoRun EXCEPT !.pc = pc] \in Runs
  BY IdleValues DEF Runs
<1> QED
  BY <1>2, <1>3 DEF Goto

LEMMA JobType ==
    ASSUME NEW s \in Rows PROVE Job(s) \in Rows
BY IdleValues DEF Job, Rows

LEMMA QueuedType ==
    ASSUME wf \in [OpIds -> Runs], NEW s \in Rows, s.kind \in Kinds,
           Queued(s) \/ NotQueued(s), faults \in Nat
    PROVE  wf' \in [OpIds -> Runs] /\ faults' \in Nat
<1>1. NewRun(s) \in Runs
  BY IdleValues DEF NewRun, Runs, Rows, Steps
<1>2. wf' \in [OpIds -> Runs]
  BY <1>1 DEF Queued, NotQueued
<1>3. faults' \in Nat
  BY DEF Queued, NotQueued, Fault, NoFault
<1> QED
  BY <1>2, <1>3

-----------------------------------------------------------------------------
(* Type correctness, one lemma for each group of actions.                  *)

\* A row whose fields a step rewrote is still a row.
LEMMA RowUpdates ==
    ASSUME row \in Rows
    PROVE  /\ \A l \in {"none", "held", "expired"} :
                [row EXCEPT !.lease = l] \in Rows
           /\ Renewed \in Rows /\ Released \in Rows
           /\ Renewed.op = row.op /\ Renewed.kind = row.kind
           /\ Released.op = None /\ Released.kind = None
BY DEF Rows, Renewed, Released

\* Steps that leave the row, the requests and the cron alone.
LEMMA QuietType ==
    ASSUME TypeInv, UNCHANGED <<row, req, cron, nextOp>>,
           wf' \in [OpIds -> Runs], vm' \in [Generations -> {"absent", "on", "off"}],
           disk' \in BOOLEAN, claim' \in BOOLEAN, session' \in BOOLEAN,
           faults' \in Nat
    PROVE  TypeInv'
<1>1. JobsOK'
  BY DEF TypeInv, JobsOK
<1> QED
  BY <1>1 DEF TypeInv, TypeOK

LEMMA TearDownType ==
    ASSUME vm \in [Generations -> {"absent", "on", "off"}], NEW gs, NEW gone,
           TearDown(gs, gone)
    PROVE  vm' \in [Generations -> {"absent", "on", "off"}]
BY DEF TearDown

LEMMA FaultType ==
    ASSUME faults \in Nat, Fault \/ NoFault PROVE faults' \in Nat
BY DEF Fault, NoFault

LEMMA InputType ==
    ASSUME TypeInv, NEW o \in OpIds, Input(o) PROVE TypeInv'
<1>1. row \in Rows /\ wf \in [OpIds -> Runs] /\ faults \in Nat
  BY DEF TypeInv, TypeOK
<1>2. faults' \in Nat
  BY <1>1, FaultType DEF Input
<1>3. wf' \in [OpIds -> Runs]
  <2> DEFINE snapshot == [rs |-> row.rs, vm |-> row.vm, disk |-> row.disk]
  <2>1. snapshot \in Inputs /\ wf[o] \in Runs
    BY <1>1 DEF Inputs, Rows
  <2>2. \A pc \in Steps : [wf[o] EXCEPT !.pc = pc, !.in = snapshot] \in Runs
    <3> HIDE DEF snapshot
    <3> QED
      BY <2>1 DEF Runs
  <2>3. CASE Fails(o)
    BY <1>1, <2>3, GotoType DEF Fails, Steps
  <2>4. CASE ~Fails(o)
    <3> DEFINE pc == FirstStep(wf[o])
    <3>1. wf' = [wf EXCEPT ![o].pc = pc, ![o].in = snapshot]
      BY <2>4 DEF Input
    <3>2. pc \in Steps
      BY DEF Steps, HandoffPoints, FirstStep
    <3> HIDE DEF pc
    <3>3. wf' = [wf EXCEPT ![o] = [wf[o] EXCEPT !.pc = pc, !.in = snapshot]]
      BY <1>1, <3>1
    <3> QED
      BY <1>1, <2>2, <3>2, <3>3
  <2> QED
    BY <2>3, <2>4
<1> QED
  BY <1>2, <1>3, QuietType DEF Input, azure, accounts, TypeInv, TypeOK

\* The steps of a start that leave the row alone.
LEMMA StartType ==
    ASSUME TypeInv, NEW o \in OpIds,
           \/ Cleanup(o) \/ PrepareDisk(o) \/ Deploy(o) \/ Session(o)
           \/ Health(o) \/ Policy(o) \/ Initialize(o)
    PROVE  TypeInv'
<1>1. /\ wf \in [OpIds -> Runs] /\ vm \in [Generations -> {"absent", "on", "off"}]
      /\ faults \in Nat
      /\ disk \in BOOLEAN /\ claim \in BOOLEAN /\ session \in BOOLEAN
  BY DEF TypeInv, TypeOK
<1>2. UNCHANGED <<row, req, cron, nextOp>>
  BY DEF Cleanup, PrepareDisk, Deploy, Session, Health, Policy, Initialize,
         azure, accounts
<1>3. faults' \in Nat
  BY <1>1, FaultType DEF Cleanup, PrepareDisk, Deploy, Session, Health, Policy,
         Initialize
<1>4. wf' \in [OpIds -> Runs]
  <2>1. PICK pc \in Steps : Goto(o, pc)
    BY DEF Cleanup, PrepareDisk, Deploy, Session, Health, Policy, Initialize,
           Fails, Steps, HandoffPoints, Terminal
  <2> QED
    BY <1>1, <2>1, GotoType
<1>5. vm' \in [Generations -> {"absent", "on", "off"}]
  BY <1>1, TearDownType DEF Cleanup, PrepareDisk, Deploy, Session, Health,
         Policy, Initialize, azure
<1>6. disk' \in BOOLEAN /\ claim' \in BOOLEAN /\ session' \in BOOLEAN
  <2>1. CASE PrepareDisk(o)
    BY <1>1, <2>1, Zenon DEF PrepareDisk, accounts
  <2>2. CASE Session(o)
    BY <1>1, <2>2, Zenon DEF Session, azure
  <2>3. CASE ~PrepareDisk(o) /\ ~Session(o)
    BY <1>1, <2>3, Zenon DEF Cleanup, Deploy, Health, Policy, Initialize, azure,
       accounts
  <2> QED
    BY <2>1, <2>2, <2>3
<1> QED
  BY <1>2, <1>3, <1>4, <1>5, <1>6, QuietType

\* The steps of a stop, a delete and a failure that leave the row alone.
LEMMA StopType ==
    ASSUME TypeInv, NEW o \in OpIds,
           Teardown(o) \/ DeleteDisk(o) \/ Failed(o) \/ Undo(o) \/ Release(o)
    PROVE  TypeInv'
<1>1. /\ wf \in [OpIds -> Runs] /\ vm \in [Generations -> {"absent", "on", "off"}]
      /\ faults \in Nat
      /\ disk \in BOOLEAN /\ claim \in BOOLEAN /\ session \in BOOLEAN
  BY DEF TypeInv, TypeOK
<1>2. UNCHANGED <<row, req, cron, nextOp>>
  BY DEF Teardown, DeleteDisk, Failed, Undo, Release
<1>3. faults' \in Nat
  BY <1>1, FaultType DEF Teardown, DeleteDisk, Failed, Undo, Release
<1>4. wf' \in [OpIds -> Runs]
  <2>1. CASE wf' = [wf EXCEPT ![o].pc = "mark", ![o].undone = TRUE]
    <3>1. [wf[o] EXCEPT !.pc = "mark", !.undone = TRUE] \in Runs
      <4>1. wf[o] \in Runs /\ "mark" \in Steps
        BY <1>1 DEF Steps
      <4> QED
        BY <4>1 DEF Runs
    <3>2. wf' = [wf EXCEPT ![o] = [wf[o] EXCEPT !.pc = "mark", !.undone = TRUE]]
      BY <1>1, <2>1
    <3> QED
      BY <1>1, <3>1, <3>2
  <2>2. CASE \E pc \in Steps : Goto(o, pc)
    BY <1>1, <2>2, GotoType
  <2> QED
    BY <2>1, <2>2 DEF Teardown, DeleteDisk, Failed, Undo, Release, Fails, Steps,
       HandoffPoints, Terminal
<1>5. vm' \in [Generations -> {"absent", "on", "off"}]
  BY <1>1, TearDownType DEF Teardown, DeleteDisk, Failed, Undo, Release, azure
<1>6. disk' \in BOOLEAN /\ claim' \in BOOLEAN /\ session' \in BOOLEAN
  BY <1>1, Zenon DEF Teardown, DeleteDisk, Failed, Undo, Release, azure, accounts
<1> QED
  BY <1>2, <1>3, <1>4, <1>5, <1>6, QuietType

LEMMA ContinuationType ==
    ASSUME TypeInv, NEW o \in OpIds,
           Activate(o) \/ Signal(o) \/ WaitTimesOut(o)
    PROVE  TypeInv'
<1>1. /\ wf \in [OpIds -> Runs] /\ faults \in Nat /\ wf[o] \in Runs
      /\ NoRun \in Runs
  BY IdleValues DEF TypeInv, TypeOK
<1>2. /\ UNCHANGED <<row, req, cron, nextOp>>
      /\ UNCHANGED <<vm, disk, claim, session>>
  BY DEF Activate, Signal, WaitTimesOut, azure, accounts
<1>3. faults' \in Nat
  BY <1>1, FaultType DEF Activate, Signal, WaitTimesOut
<1>4. wf' \in [OpIds -> Runs]
  <2> DEFINE child == NextId(o)
  <2>1. CASE \E pc \in Steps : Goto(o, pc)
    BY <1>1, <2>1, GotoType
  <2>2. CASE wf' = [wf EXCEPT ![o].pc = "signal",
                             ![child] = [wf[o] EXCEPT !.pc = "waiting",
                                                      !.undone = FALSE]]
    <3>1. /\ [wf[o] EXCEPT !.pc = "signal"] \in Runs
          /\ [wf[o] EXCEPT !.pc = "waiting", !.undone = FALSE] \in Runs
      BY <1>1 DEF Runs, Steps
    <3> QED
      BY <1>1, <2>2, <3>1
  <2>3. CASE wf' = [wf EXCEPT ![o] = [NoRun EXCEPT !.pc = "done"],
                             ![child].pc = IF @ = "waiting"
                                           THEN wf[child].resume ELSE @]
    <3>1. [NoRun EXCEPT !.pc = "done"] \in Runs
      BY <1>1 DEF Runs, Steps, Terminal
    <3>2. \A c \in OpIds : [wf[c] EXCEPT !.pc = wf[c].resume] \in Runs
      BY <1>1 DEF Runs
    <3>3. child # o
      BY DEF NextId, OpIds
    <3>4. \A c \in OpIds : wf'[c] \in {wf[c], [NoRun EXCEPT !.pc = "done"],
                                       [wf[c] EXCEPT !.pc = wf[c].resume]}
      BY <1>1, <2>3, <3>3 DEF Runs
    <3>5. wf' = [c \in OpIds |-> wf'[c]]
      BY <1>1, <2>3
    <3> QED
      BY <1>1, <3>1, <3>2, <3>4, <3>5
  <2>4. CASE Activate(o)
    BY <2>1, <2>2, <2>4 DEF Activate, Steps, Terminal
  <2>5. CASE Signal(o)
    BY <2>1, <2>3, <2>5 DEF Signal, Steps, Terminal
  <2>6. CASE WaitTimesOut(o)
    BY <2>1, <2>6 DEF WaitTimesOut, Fails, Steps
  <2> QED
    BY <2>4, <2>5, <2>6
<1> QED
  BY <1>2, <1>3, <1>4, QuietType DEF TypeInv, TypeOK

LEMMA PowerOffType == ASSUME TypeInv, PowerOff PROVE TypeInv'
<1>1. vm' \in [Generations -> {"absent", "on", "off"}]
  BY DEF PowerOff, TypeInv, TypeOK
<1>2. faults' \in Nat
  BY FaultType DEF PowerOff, TypeInv, TypeOK
<1>3. UNCHANGED <<row, wf, req, cron, nextOp, disk, claim, session>>
  BY DEF PowerOff, accounts
<1> QED
  BY <1>1, <1>2, <1>3, QuietType DEF TypeInv, TypeOK

\* Steps that write the row but leave requests and cron alone.
LEMMA WriterType ==
    ASSUME TypeInv, UNCHANGED <<req, cron, nextOp, vm, disk>>,
           row' \in Rows, row'.op = None <=> row'.kind = None,
           wf' \in [OpIds -> Runs],
           claim' \in BOOLEAN, session' \in BOOLEAN, faults' \in Nat
    PROVE  TypeInv'
<1>1. JobsOK'
  BY DEF TypeInv, JobsOK
<1> QED
  BY <1>1 DEF TypeInv, TypeOK

\* The steps of a run that write the row it owns.
LEMMA ProgressType ==
    ASSUME TypeInv, NEW o \in OpIds,
           Record(o) \/ Provision(o) \/ Boot(o) \/ Heartbeat(o)
    PROVE  TypeInv'
<1>1. /\ wf \in [OpIds -> Runs] /\ row \in Rows /\ faults \in Nat
      /\ (row.op = None <=> row.kind = None)
      /\ claim \in BOOLEAN /\ session \in BOOLEAN /\ wf[o] \in Runs
  BY DEF TypeInv, TypeOK
<1>2. UNCHANGED <<req, cron, nextOp, vm, disk>>
  BY DEF Record, Provision, Boot, Heartbeat, azure
<1>3. faults' \in Nat
  BY <1>1, FaultType DEF Record, Provision, Boot, Heartbeat
<1>4. wf' \in [OpIds -> Runs]
  <2>1. CASE \E pc \in Steps : Goto(o, pc)
    BY <1>1, <2>1, GotoType
  <2>2. CASE Heartbeat(o)
    BY <1>1, <2>2 DEF Heartbeat
  <2> QED
    BY <2>1, <2>2 DEF Record, Provision, Boot, Fails, Steps, HandoffPoints
<1>5. row' \in Rows /\ (row'.op = None <=> row'.kind = None)
  <2>1. CASE UNCHANGED row
    BY <1>1, <2>1
  <2>2. CASE row' = [row EXCEPT !.cleanup = None]
    BY <1>1, <2>2 DEF Rows
  <2>3. CASE row' = [Renewed EXCEPT !.rs = "provisioning", !.disk = TRUE]
    BY <1>1, <2>3 DEF Renewed, Rows, RuntimeStatuses, Active
  <2>4. CASE row' = [Renewed EXCEPT !.rs = "booting", !.vm = wf[o].gen]
    BY <1>1, <2>4 DEF Renewed, Rows, RuntimeStatuses, Active, Runs
  <2>5. CASE row' = Renewed
    BY <1>1, <2>5, RowUpdates
  <2> QED
    BY <2>1, <2>2, <2>3, <2>4, <2>5 DEF Record, Provision, Boot, Heartbeat
<1>6. claim' \in BOOLEAN /\ session' \in BOOLEAN
  BY <1>1, Zenon DEF Record, Provision, Boot, Heartbeat, accounts
<1> QED
  BY <1>2, <1>3, <1>4, <1>5, <1>6, WriterType

\* The steps that end an operation.
LEMMA EndType ==
    ASSUME TypeInv, NEW o \in OpIds,
           Complete(o) \/ Finish(o) \/ Erase(o) \/ Mark(o)
    PROVE  TypeInv'
<1>1. /\ wf \in [OpIds -> Runs] /\ row \in Rows /\ faults \in Nat
      /\ (row.op = None <=> row.kind = None)
      /\ claim \in BOOLEAN /\ session \in BOOLEAN /\ wf[o] \in Runs
  BY DEF TypeInv, TypeOK
<1>2. UNCHANGED <<req, cron, nextOp, vm, disk>>
  BY DEF Complete, Finish, Erase, Mark, azure
<1>3. faults' \in Nat
  BY <1>1, FaultType DEF Complete, Finish, Erase, Mark, Again, Fault, NoFault
<1>4. wf' \in [OpIds -> Runs]
  <2>1. CASE \E pc \in Steps : Goto(o, pc)
    BY <1>1, <2>1, GotoType
  <2>2. CASE UNCHANGED wf
    BY <1>1, <2>2
  <2> QED
    BY <2>1, <2>2 DEF Complete, Finish, Erase, Mark, Again, Fails, Steps, Terminal
<1>5. row' \in Rows /\ (row'.op = None <=> row'.kind = None)
  <2>1. CASE UNCHANGED row
    BY <1>1, <2>1
  <2>2. CASE row' = [Released EXCEPT !.status = "ready", !.rs = "ready",
                                    !.vm = wf[o].gen, !.disk = TRUE]
    BY <1>1, <2>2 DEF Released, Rows, Statuses, RuntimeStatuses, Runs
  <2>3. CASE row' = [Released EXCEPT !.status = "stopped", !.rs = "stopped",
                                    !.vm = None]
    BY <1>1, <2>3 DEF Released, Rows, Statuses, RuntimeStatuses
  <2>4. CASE row' = [FreshRow EXCEPT !.status = "gone", !.gen = row.gen]
    BY <1>1, <2>4 DEF FreshRow, Rows, Statuses, RuntimeStatuses
  <2>5. CASE Mark(o) /\ ~UNCHANGED row
    <3> DEFINE u == IF wf[o].undone THEN None ELSE row.vm
               c == IF wf[o].undone THEN None ELSE row.cleanup
               s == FailedStatus(wf[o].kind)
    <3>1. row' = [row EXCEPT !.status = s, !.rs = "failed", !.lease = "none",
                             !.vm = u, !.cleanup = c]
      BY <2>5 DEF Mark
    <3>2. /\ u \in Generations \cup {None} /\ c \in Generations \cup {None}
          /\ s \in Statuses
      BY <1>1 DEF Rows, Statuses, FailedStatus
    <3> HIDE DEF u, c, s
    <3> QED
      BY <1>1, <3>1, <3>2 DEF Rows, RuntimeStatuses
  <2> QED
    BY <2>1, <2>2, <2>3, <2>4, <2>5 DEF Complete, Finish, Erase, Mark
<1>6. claim' \in BOOLEAN /\ session' \in BOOLEAN
  BY <1>1, Zenon DEF Complete, Finish, Erase, Mark, accounts
<1> QED
  BY <1>2, <1>3, <1>4, <1>5, <1>6, WriterType

LEMMA HandoffType == ASSUME TypeInv, NEW o \in OpIds, Handoff(o) PROVE TypeInv'
<1>1. /\ wf \in [OpIds -> Runs] /\ row \in Rows /\ faults \in Nat
      /\ (row.op = None <=> row.kind = None)
      /\ claim \in BOOLEAN /\ session \in BOOLEAN /\ wf[o] \in Runs
  BY DEF TypeInv, TypeOK
<1>2. UNCHANGED <<req, cron, nextOp, vm, disk, claim, session, faults>>
  BY DEF Handoff, azure, accounts
<1>3. CASE ~Current(o)
  <2>1. Goto(o, "errored") /\ UNCHANGED row
    BY <1>3 DEF Handoff
  <2>2. wf' \in [OpIds -> Runs]
    BY <1>1, <2>1, GotoType DEF Steps, Terminal
  <2> QED
    BY <1>1, <1>2, <2>1, <2>2, WriterType
<1>4. CASE Current(o)
  <2>1. row.op = o /\ row' = [Renewed EXCEPT !.op = NextId(o)] /\ o[2] < MaxParts
    BY <1>4 DEF Handoff, Current
  <2>2. NextId(o) \in OpIds /\ None \notin OpIds
    BY <2>1, NoneIsNew DEF NextId, OpIds
  <2>3. row' \in Rows
    BY <1>1, <2>1, <2>2, RowUpdates DEF Rows
  <2>4. row'.op # None /\ row'.kind # None
    BY <1>1, <2>1, <2>2 DEF Renewed, Rows
  <2>5. PICK c \in Generations \cup {None}, s \in Steps :
          wf' = [wf EXCEPT ![o].pc = "activate", ![o].cleanup = c, ![o].resume = s]
    <3>1. \A compact : HandedCleanup(o, compact) \in Generations \cup {None}
      BY <1>1 DEF HandedCleanup, Rows, Runs
    <3>2. wf[o].pc \in Steps
      BY <1>1 DEF Runs
    <3> QED
      BY <1>4, <3>1, <3>2 DEF Handoff, Steps
  <2>6. [wf[o] EXCEPT !.pc = "activate", !.cleanup = c, !.resume = s] \in Runs
    BY <1>1 DEF Runs, Steps
  <2>7. wf' \in [OpIds -> Runs]
    BY <1>1, <2>5, <2>6
  <2> QED
    BY <1>1, <1>2, <2>3, <2>4, <2>7, WriterType
<1> QED
  BY <1>3, <1>4

-----------------------------------------------------------------------------
(* Type correctness: requests and the cron.                                *)

\* Steps of a request that change nothing but its own state and the accounts.
LEMMA RequestType ==
    ASSUME TypeInv, NEW r \in Requests,
           \/ Reserve(r) \/ Ask(r) \/ LoadRow(r) \/ Cancel(r) \/ Decline(r)
           \/ Reopen(r) \/ RequestDies(r)
    PROVE  TypeInv'
<1>1. /\ req \in [Requests -> Calls] /\ row \in Rows /\ NoCall \in Calls
      /\ req[r] \in Calls /\ faults \in Nat
      /\ claim \in BOOLEAN /\ session \in BOOLEAN
  BY IdleValues DEF TypeInv, TypeOK
<1>2. UNCHANGED <<row, wf, cron, vm, disk, nextOp>>
  BY DEF Reserve, Ask, LoadRow, Cancel, Decline, Reopen, RequestDies, azure,
         accounts
<1>3. faults' \in Nat
  BY <1>1, FaultType DEF Reserve, Ask, LoadRow, Cancel, Decline, Reopen,
         RequestDies, Fault
<1>4. claim' \in BOOLEAN /\ session' \in BOOLEAN
  BY <1>1, Zenon DEF Reserve, Ask, LoadRow, Cancel, Decline, Reopen,
         RequestDies, accounts
<1>5. PICK c \in Calls : /\ c.pc \notin {"claimed", "unqueued"}
                         /\ req' = [req EXCEPT ![r] = c]
  <2>1. /\ NoCall.pc = "idle"
        /\ \A pc \in {"load", "reopen"} :
             [NoCall EXCEPT !.pc = pc] \in Calls
             /\ [NoCall EXCEPT !.pc = pc].pc = pc
    BY <1>1 DEF NoCall, Calls
  <2>2. \A kind \in {"stop", "delete"} :
          [pc |-> "loaded", kind |-> kind, seen |-> row] \in Calls
    BY <1>1 DEF Calls, Kinds
  <2>3. [req[r] EXCEPT !.pc = "loaded", !.seen = row] \in Calls
    BY <1>1 DEF Calls
  <2>4. CASE Ask(r)
    BY <2>2, <2>4 DEF Ask
  <2>5. CASE LoadRow(r)
    BY <1>1, <2>1, <2>3, <2>5 DEF LoadRow, Calls
  <2>6. CASE Reserve(r) \/ Cancel(r) \/ Decline(r) \/ Reopen(r) \/ RequestDies(r)
    BY <1>1, <2>1, <2>6 DEF Reserve, Cancel, Decline, Reopen, RequestDies
  <2> QED
    BY <2>4, <2>5, <2>6
<1>6. req' \in [Requests -> Calls]
  BY <1>1, <1>5
<1>7. JobsOK'
  BY <1>1, <1>2, <1>5 DEF TypeInv, JobsOK
<1> QED
  BY <1>2, <1>3, <1>4, <1>6, <1>7 DEF TypeInv, TypeOK

\* Steps of a request that create a workflow, or record that none was created.
LEMMA DispatchType ==
    ASSUME TypeInv, NEW r \in Requests,
           Join(r) \/ Dispatch(r) \/ MarkQueueFailure(r)
    PROVE  TypeInv'
<1>1. /\ req \in [Requests -> Calls] /\ row \in Rows /\ NoCall \in Calls
      /\ req[r] \in Calls /\ faults \in Nat /\ wf \in [OpIds -> Runs]
      /\ (row.op = None <=> row.kind = None)
  BY IdleValues DEF TypeInv, TypeOK
<1>2. UNCHANGED <<cron, vm, disk, claim, session, nextOp>>
  BY DEF Join, Dispatch, MarkQueueFailure, azure, accounts
<1>3. row' \in Rows /\ (row'.op = None <=> row'.kind = None)
  <2>1. CASE UNCHANGED row
    BY <1>1, <2>1
  <2>2. CASE row' = [row EXCEPT !.lease = "held"]
    BY <1>1, <2>2 DEF Rows
  <2>3. CASE row' = [row EXCEPT !.status = "failed", !.rs = "failed",
                               !.lease = "none"]
    BY <1>1, <2>3 DEF Rows, Statuses, RuntimeStatuses
  <2> QED
    BY <2>1, <2>2, <2>3 DEF Join, Dispatch, MarkQueueFailure
<1>4. req' \in [Requests -> Calls] /\ JobsOK'
  <2>1. CASE req' = [req EXCEPT ![r] = NoCall]
    <3>1. NoCall.pc = "idle"
      BY DEF NoCall
    <3> QED
      BY <1>1, <1>2, <2>1, <3>1 DEF TypeInv, JobsOK
  <2>2. CASE Dispatch(r) /\ req' = [req EXCEPT ![r].pc = "unqueued"]
    <3>1. req[r].seen.op \in OpIds /\ req[r].seen.kind \in Kinds
      BY <2>2 DEF Dispatch, TypeInv, JobsOK
    <3>2. [req[r] EXCEPT !.pc = "unqueued"] \in Calls
      BY <1>1 DEF Calls
    <3>3. req' \in [Requests -> Calls]
      BY <1>1, <2>2, <3>2
    <3>4. \A q \in Requests :
            /\ req'[q].seen = req[q].seen
            /\ q # r => req'[q].pc = req[q].pc
      BY <1>1, <2>2 DEF Calls
    <3> QED
      BY <1>2, <3>1, <3>3, <3>4 DEF TypeInv, JobsOK
  <2> QED
    BY <2>1, <2>2 DEF Join, Dispatch, MarkQueueFailure
<1>5. wf' \in [OpIds -> Runs] /\ faults' \in Nat
  <2>1. CASE MarkQueueFailure(r)
    BY <1>1, <2>1 DEF MarkQueueFailure
  <2>2. CASE Join(r)
    <3>1. req[r].seen \in Rows /\ req[r].seen.kind \in Kinds
      BY <1>1, <2>2 DEF Join, Joins, Calls
    <3> QED
      BY <1>1, <2>2, <3>1, QueuedType DEF Join
  <2>3. CASE Dispatch(r)
    <3>1. req[r].seen \in Rows /\ req[r].seen.kind \in Kinds
      BY <1>1, <2>3 DEF Dispatch, TypeInv, JobsOK, Calls
    <3> QED
      BY <1>1, <2>3, <3>1, QueuedType DEF Dispatch
  <2> QED
    BY <2>1, <2>2, <2>3
<1> QED
  BY <1>2, <1>3, <1>4, <1>5 DEF TypeInv, TypeOK

\* The row that a claim writes.
LEMMA ClaimedRowType ==
    ASSUME TypeInv, NEW kind \in Kinds, NEW s \in Rows, WithinBounds(kind, s)
    PROVE  /\ ClaimedRow(kind, s) \in Rows
           /\ <<nextOp, 0>> \in OpIds
           /\ ClaimedRow(kind, s).op = <<nextOp, 0>>
           /\ ClaimedRow(kind, s).kind = kind
<1>1. row \in Rows /\ nextOp \in Nat \ {0} /\ <<nextOp, 0>> \in OpIds
  BY DEF TypeInv, TypeOK, WithinBounds, OpIds
<1>2. /\ ClaimedGeneration(kind, s) \in Generations
      /\ CleanupFor(s) \in Generations \cup {None}
      /\ s.cleanup \in Generations \cup {None}
  BY DEF ClaimedGeneration, CleanupFor, WithinBounds, Rows, Generations
<1> DEFINE a == IF kind = "delete" THEN "deleting" ELSE "provisioning"
           b == IF kind = "start" THEN "queued" ELSE "stopping"
           c == IF kind = "start" THEN CleanupFor(s) ELSE s.cleanup
           g == ClaimedGeneration(kind, s)
<1>3. /\ a \in Statuses /\ b \in RuntimeStatuses
      /\ c \in Generations \cup {None} /\ g \in Generations
  BY <1>2 DEF Statuses, RuntimeStatuses, Active
<1>4. ClaimedRow(kind, s) =
        [row EXCEPT !.status = a, !.rs = b, !.gen = g, !.cleanup = c,
                    !.op = <<nextOp, 0>>, !.kind = kind, !.lease = "held"]
  BY DEF ClaimedRow
<1> HIDE DEF a, b, c, g
<1>5. ClaimedRow(kind, s).op = <<nextOp, 0>> /\ ClaimedRow(kind, s).kind = kind
  BY <1>1, <1>4 DEF Rows
<1>6. [row EXCEPT !.status = a, !.rs = b, !.gen = g, !.cleanup = c] \in Rows
  BY <1>1, <1>3 DEF Rows
<1>7. ClaimedRow(kind, s) \in Rows
  <2> DEFINE q == [row EXCEPT !.status = a, !.rs = b, !.gen = g, !.cleanup = c]
  <2>1. ClaimedRow(kind, s) =
          [q EXCEPT !.op = <<nextOp, 0>>, !.kind = kind, !.lease = "held"]
    BY <1>1, <1>4 DEF Rows
  <2>2. q \in Rows
    BY <1>6
  <2> HIDE DEF q
  <2> QED
    BY <1>1, <2>1, <2>2 DEF Rows
<1> QED
  BY <1>1, <1>5, <1>7

LEMMA ClaimType ==
    ASSUME TypeInv, NEW r \in Requests, ClaimOperation(r) PROVE TypeInv'
<1> DEFINE s == req[r].seen
           kind == req[r].kind
<1>1. /\ req \in [Requests -> Calls] /\ row \in Rows /\ NoCall \in Calls
      /\ req[r] \in Calls /\ nextOp \in Nat \ {0}
      /\ (row.op = None <=> row.kind = None) /\ s \in Rows /\ kind \in Kinds
  BY IdleValues DEF TypeInv, TypeOK, Calls
<1>2. UNCHANGED <<wf, cron, vm, disk, claim, session, faults>>
  BY DEF ClaimOperation, azure, accounts
<1>3. CASE ClaimMatches(s) /\ WithinBounds(kind, s)
  <2>1. /\ row' = ClaimedRow(kind, s) /\ nextOp' = nextOp + 1
        /\ req' = [req EXCEPT ![r].pc = "claimed", ![r].seen = Job(row')]
    BY <1>3 DEF ClaimOperation
  <2>2. /\ row' \in Rows /\ row'.op \in OpIds /\ row'.kind = kind
    BY <1>1, <1>3, <2>1, ClaimedRowType
  <2>3. Job(row') \in Rows /\ Job(row').op = row'.op /\ Job(row').kind = kind
    <3>1. Job(row') \in Rows
      BY <2>2, JobType
    <3> QED
      BY <2>2, <3>1 DEF Job, FreshRow
  <2>4. [req[r] EXCEPT !.pc = "claimed", !.seen = Job(row')] \in Calls
    BY <1>1, <2>3 DEF Calls
  <2>5. /\ req' \in [Requests -> Calls]
        /\ \A q \in Requests : q # r => req'[q] = req[q]
        /\ req'[r].seen = Job(row')
    BY <1>1, <2>1, <2>4 DEF Calls
  <2>6. JobsOK'
    BY <1>1, <1>2, <2>2, <2>3, <2>5 DEF TypeInv, JobsOK
  <2> QED
    BY <1>1, <1>2, <2>1, <2>2, <2>5, <2>6, NoneIsNew DEF TypeInv, TypeOK
<1>4. CASE ~(ClaimMatches(s) /\ WithinBounds(kind, s))
  <2>1. UNCHANGED <<row, nextOp>>
    BY <1>4 DEF ClaimOperation
  <2>2. PICK c \in Calls : /\ c.pc \in {"load", "idle"}
                           /\ req' = [req EXCEPT ![r] = c]
    <3>1. [req[r] EXCEPT !.pc = "load"] \in Calls /\ NoCall.pc = "idle"
          /\ [req[r] EXCEPT !.pc = "load"].pc = "load"
      BY <1>1 DEF Calls, NoCall
    <3> QED
      BY <1>1, <1>4, <3>1 DEF ClaimOperation
  <2>3. req' \in [Requests -> Calls] /\ JobsOK'
    BY <1>1, <1>2, <2>2 DEF TypeInv, JobsOK
  <2> QED
    BY <1>2, <2>1, <2>3 DEF TypeInv, TypeOK
<1> QED
  BY <1>3, <1>4

LEMMA CronType ==
    ASSUME TypeInv, LeaseExpires \/ CronStep PROVE TypeInv'
<1>1. /\ row \in Rows /\ (row.op = None <=> row.kind = None) /\ NoScan.pc = "idle"
      /\ cron \in [pc : {"idle", "scanned", "recreate"}, seen : Rows]
      /\ NoScan \in [pc : {"idle", "scanned", "recreate"}, seen : Rows]
      /\ cron.seen \in Rows /\ nextOp \in Nat \ {0} /\ faults \in Nat
      /\ wf \in [OpIds -> Runs]
  BY IdleValues DEF TypeInv, TypeOK, NoScan
<1>2. CASE LeaseExpires
  <2>1. row' \in Rows /\ (row'.op = None <=> row'.kind = None)
    BY <1>1, <1>2 DEF LeaseExpires, Rows
  <2>2. JobsOK'
    BY <1>2 DEF LeaseExpires, TypeInv, JobsOK
  <2> QED
    BY <1>2, <2>1, <2>2 DEF LeaseExpires, TypeInv, TypeOK, azure, accounts
<1>3. CASE Scan
  <2>1. /\ Job(row) \in Rows /\ Job(row).op = row.op /\ Job(row).kind = row.kind
        /\ row.op # None
    BY <1>1, <1>3, JobType DEF Scan, Job, FreshRow
  <2>2. row.op \in OpIds /\ row.kind \in Kinds
    BY <1>1, <2>1 DEF Rows
  <2>3. cron' \in [pc : {"idle", "scanned", "recreate"}, seen : Rows]
    BY <1>3, <2>1 DEF Scan
  <2>4. JobsOK'
    BY <1>3, <2>1, <2>2 DEF Scan, TypeInv, JobsOK
  <2> QED
    BY <1>3, <2>3, <2>4 DEF Scan, TypeInv, TypeOK, azure, accounts
<1>4. CASE Inspect
  <2>1. UNCHANGED <<wf, req, vm, disk, claim, session, faults>>
    BY <1>4 DEF Inspect, azure, accounts
  <2>2. cron.seen.op \in OpIds /\ cron.seen.kind \in Kinds
    BY <1>4 DEF Inspect, TypeInv, JobsOK
  <2>3. CASE UNCHANGED nextOp
    <3>1. row' \in Rows /\ (row'.op = None <=> row'.kind = None)
      <4>1. row' \in {row, [row EXCEPT !.lease = "held"]}
        BY <1>1, <1>4, <2>3 DEF Inspect
      <4> QED
        BY <1>1, <4>1 DEF Rows
    <3>2. /\ cron' \in [pc : {"idle", "scanned", "recreate"}, seen : Rows]
          /\ cron'.pc # "idle" => cron'.seen = cron.seen
      BY <1>1, <1>4, <2>3 DEF Inspect
    <3>3. JobsOK'
      BY <2>1, <2>2, <3>2 DEF TypeInv, JobsOK
    <3> QED
      BY <2>1, <2>3, <3>1, <3>2, <3>3 DEF TypeInv, TypeOK
  <2>4. CASE nextOp' # nextOp
    <3>1. /\ nextOp <= MaxOps /\ nextOp' = nextOp + 1 /\ StillOwned(cron.seen)
          /\ row' = [row EXCEPT !.op = <<nextOp, 0>>, !.lease = "held"]
          /\ cron' = [pc |-> "recreate",
                      seen |-> [cron.seen EXCEPT !.op = <<nextOp, 0>>]]
      BY <1>4, <2>4 DEF Inspect
    <3>2. <<nextOp, 0>> \in OpIds /\ None \notin OpIds
      BY <1>1, <3>1, NoneIsNew DEF OpIds
    <3>3. row.op # None
      BY <2>2, <3>1, <3>2 DEF StillOwned
    <3>4. row' \in Rows /\ (row'.op = None <=> row'.kind = None)
      BY <1>1, <3>1, <3>2, <3>3 DEF Rows
    <3>5. /\ [cron.seen EXCEPT !.op = <<nextOp, 0>>] \in Rows
          /\ [cron.seen EXCEPT !.op = <<nextOp, 0>>].op = <<nextOp, 0>>
          /\ [cron.seen EXCEPT !.op = <<nextOp, 0>>].kind = cron.seen.kind
      BY <1>1, <3>2 DEF Rows
    <3>6. cron' \in [pc : {"idle", "scanned", "recreate"}, seen : Rows] /\ JobsOK'
      BY <2>1, <2>2, <3>1, <3>2, <3>5 DEF TypeInv, JobsOK
    <3> QED
      BY <1>1, <2>1, <3>1, <3>4, <3>6 DEF TypeInv, TypeOK
  <2> QED
    BY <2>3, <2>4
<1>5. CASE Recreate
  <2>1. cron.seen \in Rows /\ cron.seen.kind \in Kinds
    BY <1>1, <1>5 DEF Recreate, TypeInv, JobsOK
  <2>2. wf' \in [OpIds -> Runs] /\ faults' \in Nat
    BY <1>1, <1>5, <2>1, QueuedType DEF Recreate
  <2>3. JobsOK'
    BY <1>1, <1>5 DEF Recreate, TypeInv, JobsOK
  <2> QED
    BY <1>1, <1>5, <2>2, <2>3 DEF Recreate, TypeInv, TypeOK, azure, accounts
<1> QED
  BY <1>2, <1>3, <1>4, <1>5 DEF CronStep

-----------------------------------------------------------------------------
LEMMA StepType == TypeInv /\ [Next]_vars => TypeInv'
<1> SUFFICES ASSUME TypeInv, [Next]_vars PROVE TypeInv'
  OBVIOUS
<1>1. CASE UNCHANGED vars
  BY <1>1 DEF vars, TypeInv, TypeOK, JobsOK
<1>2. ASSUME NEW r \in Requests,
             Reserve(r) \/ Ask(r) \/ Cancel(r) \/ RequestStep(r) \/ RequestDies(r)
      PROVE  TypeInv'
  BY <1>2, RequestType, DispatchType, ClaimType DEF RequestStep
<1>3. CASE LeaseExpires \/ CronStep
  BY <1>3, CronType
<1>4. CASE PowerOff
  BY <1>4, PowerOffType
<1>5. ASSUME NEW o \in OpIds, RunStep(o) \/ Heartbeat(o) \/ Handoff(o)
      PROVE  TypeInv'
  BY <1>5, InputType, StartType, StopType, ContinuationType, ProgressType,
     EndType, HandoffType
     DEF RunStep, StartStep, StopStep, FailureStep, ContinuationStep
<1> QED
  BY <1>1, <1>2, <1>3, <1>4, <1>5 DEF Next

\* Every reachable state is well-formed: an operation that is queued has an id
\* and a kind, and the row has both or neither.
THEOREM TypeCorrect == Spec => []TypeOK
<1>1. TypeInv => TypeOK
  BY DEF TypeInv
<1> QED
  BY <1>1, InitType, StepType, PTL DEF Spec

-----------------------------------------------------------------------------
(* The relations between the row, its copies and the runs.                 *)

LEMMA SnapshotsType ==
    ASSUME TypeInv
    PROVE  /\ \A s \in Snapshots :
                /\ s \in Rows
                /\ s = row \/ s = cron.seen \/ \E r \in Requests : s = req[r].seen
           /\ row \in Snapshots /\ cron.seen \in Snapshots
           /\ \A r \in Requests : req[r].seen \in Snapshots
<1>1. row \in Rows /\ cron.seen \in Rows /\ req \in [Requests -> Calls]
  BY DEF TypeInv, TypeOK
<1>2. \A r \in Requests : req[r].seen \in Rows
  BY <1>1 DEF Calls
<1> QED
  BY <1>1, <1>2 DEF Snapshots

LEMMA RunsType ==
    ASSUME TypeInv
    PROVE  \A o \in OpIds :
             /\ wf[o] \in Runs /\ o[1] \in 1..MaxOps /\ o[2] \in 0..MaxParts
             /\ wf[o].kind \in Kinds /\ wf[o].gen \in Generations
             /\ wf[o].cleanup \in Generations \cup {None}
<1>1. \A o \in OpIds : wf[o] \in Runs
  BY DEF TypeInv, TypeOK
<1> QED
  BY <1>1 DEF Runs, OpIds

\* s is no more than a copy of t, or names no operation.
Alike(s, t) ==
    /\ s.gen <= t.gen
    /\ s.cleanup = None \/ (s.cleanup = t.cleanup /\ s.gen = t.gen)
    /\ s.op = None \/ (s.op = t.op /\ s.kind = t.kind /\ s.gen = t.gen)
    /\ s.op = None <=> s.kind = None

\* A step in which the row keeps its generation, and its operation or none.
CalmRow ==
    /\ row'.gen = row.gen /\ row'.op \in {row.op, None}
    /\ Past => Past'
    /\ row'.rs = "ready" => row'.op = None
    /\ ~Exists' => Past'

\* A step after which run o is what it was, has ended, or is a new instance of
\* an operation that a copy of the row or a parent run names.
RunKept(o) ==
    \/ wf'[o] = wf[o]
    \/ /\ wf[o].pc # "none" /\ wf'[o].pc \in Terminal
       /\ wf'[o].gen = 0 /\ wf'[o].cleanup = None
    \/ /\ Live(o) /\ wf'[o].pc # "none"
       /\ wf'[o].kind = wf[o].kind /\ wf'[o].gen = wf[o].gen
       /\ wf'[o].cleanup = wf[o].cleanup
       /\ wf'[o].pc \in {"activate", "signal"} <=> wf[o].pc \in {"activate", "signal"}
       /\ wf'[o].pc = "activate" => wf[o].pc = "activate"
    \/ \E s \in Snapshots :
         /\ wf[o].pc = "none" /\ s.op = o /\ s.kind \in Kinds /\ wf'[o].pc = "input"
         /\ wf'[o].kind = s.kind /\ wf'[o].gen = s.gen /\ wf'[o].cleanup = s.cleanup
    \/ \E p \in OpIds :
         /\ wf[o].pc = "none" /\ wf[p].pc = "activate" /\ o = NextId(p)
         /\ wf'[o].pc = "waiting"
         /\ wf'[o].kind = wf[p].kind /\ wf'[o].gen = wf[p].gen
         /\ wf'[o].cleanup = wf[p].cleanup

\* Such steps name nothing new.
LEMMA CalmMentions ==
    ASSUME TypeInv, TypeInv', \A s \in Snapshots' : \E t \in Snapshots : Alike(s, t),
           \A o \in OpIds : RunKept(o),
           NEW n, NEW k \in Kinds, NEW g, Mentioned(n, k, g)'
    PROVE  Mentioned(n, k, g)
<1>1. CASE \E s \in Snapshots' :
             s.op # None /\ s.op[1] = n /\ s.kind = k /\ s.gen = g
  BY <1>1 DEF Mentioned, Alike
<1>2. ASSUME NEW o \in OpIds, Live(o)', o[1] = n, wf'[o].kind = k, wf'[o].gen = g
      PROVE  Mentioned(n, k, g)
  <2>1. CASE wf'[o] = wf[o]
    BY <1>2, <2>1 DEF Live, Mentioned
  <2>2. CASE wf'[o].pc \in Terminal
    BY <1>2, <2>2 DEF Live
  <2>3. CASE Live(o) /\ wf'[o].kind = wf[o].kind /\ wf'[o].gen = wf[o].gen
    BY <1>2, <2>3 DEF Mentioned
  <2>4. ASSUME NEW s \in Snapshots, s.op = o, wf'[o].kind = s.kind, wf'[o].gen = s.gen
        PROVE  Mentioned(n, k, g)
    BY <1>2, <2>4, NoneIsNew DEF Mentioned
  <2>5. ASSUME NEW p \in OpIds, wf[p].pc = "activate", o = NextId(p),
               wf'[o].kind = wf[p].kind, wf'[o].gen = wf[p].gen
        PROVE  Mentioned(n, k, g)
    BY <1>2, <2>5 DEF Mentioned, Live, Terminal, NextId
  <2> QED
    BY <2>1, <2>2, <2>3, <2>4, <2>5 DEF RunKept
<1> QED
  BY <1>1, <1>2 DEF Mentioned

\* Nor do they let another id start a generation.
LEMMA CalmStarting ==
    ASSUME TypeInv, \A s \in Snapshots' : \E t \in Snapshots : Alike(s, t),
           \A o \in OpIds : RunKept(o),
           NEW o \in OpIds, NEW g, Starting(o, g)'
    PROVE  Starting(o, g)
<1>1. Named(o, g)' => Named(o, g)
  <2>1. ASSUME NEW s \in Snapshots', s.op = o, s.kind = "start", s.gen = g
        PROVE  Named(o, g)
    BY <2>1, NoneIsNew DEF Named, Alike
  <2>2. ASSUME NEW p \in OpIds, wf'[p].pc = "activate", NextId(p) = o,
               wf'[p].kind = "start", wf'[p].gen = g
        PROVE  Named(o, g)
    BY <2>2 DEF Named, RunKept, Terminal
  <2> QED
    BY <2>1, <2>2 DEF Named
<1>2. CASE Live(o)' /\ wf'[o].pc \notin Passing /\ wf'[o].kind = "start"
           /\ wf'[o].gen = g
  <2>1. CASE wf'[o] = wf[o]
    BY <1>2, <2>1 DEF Starting, Live
  <2>2. CASE wf'[o].pc \in Terminal
    BY <1>2, <2>2 DEF Live
  <2>3. CASE /\ Live(o) /\ wf'[o].kind = wf[o].kind /\ wf'[o].gen = wf[o].gen
             /\ wf'[o].pc \in Passing <=> wf[o].pc \in Passing
    BY <1>2, <2>3 DEF Starting
  <2>4. CASE wf[o].pc = "none" /\ Named(o, g)
    BY <2>4 DEF Starting
  <2> QED
    BY <1>2, <2>1, <2>2, <2>3, <2>4 DEF RunKept, Named, Passing
<1>3. CASE wf'[o].pc = "none" /\ Named(o, g)'
  <2>1. wf[o].pc = "none"
    BY <1>3 DEF RunKept, Terminal
  <2> QED
    BY <1>1, <1>3, <2>1 DEF Starting
<1> QED
  BY <1>2, <1>3 DEF Starting

LEMMA CalmRelated ==
    ASSUME TypeInv, TypeInv', Related, CalmRow, nextOp' = nextOp,
           \A s \in Snapshots' : \E t \in Snapshots : Alike(s, t),
           \A o \in OpIds : RunKept(o)
    PROVE  Related'
<1>1. \A n, g : \A k \in Kinds : Mentioned(n, k, g)' => Mentioned(n, k, g)
  BY CalmMentions
<1>2. OneMeaning'
  BY <1>1 DEF Related, OneMeaning
<1>3. FreshIds'
  <2>1. \A n \in 1..MaxOps, k \in Kinds, g \in Generations :
          Mentioned(n, k, g)' => n < nextOp'
    BY <1>1 DEF Related, FreshIds
  <2>2. ASSUME NEW o \in OpIds, wf'[o].pc # "none" PROVE o[1] < nextOp'
    <3>1. CASE wf[o].pc # "none"
      BY <3>1 DEF Related, FreshIds
    <3>2. ASSUME NEW s \in Snapshots, s.op = o, s.kind \in Kinds
          PROVE  o[1] < nextOp'
      <4>1. s.gen \in Generations /\ o[1] \in 1..MaxOps
        BY SnapshotsType DEF Rows, OpIds
      <4>2. Mentioned(o[1], s.kind, s.gen)
        BY <3>2, NoneIsNew DEF Mentioned
      <4> QED
        BY <3>2, <4>1, <4>2 DEF Related, FreshIds
    <3>3. ASSUME NEW p \in OpIds, wf[p].pc = "activate", o = NextId(p)
          PROVE  o[1] < nextOp'
      <4>1. p[1] < nextOp
        BY <3>3 DEF Related, FreshIds
      <4> QED
        BY <3>3, <4>1 DEF NextId
    <3> QED
      BY <2>2, <3>1, <3>2, <3>3 DEF RunKept, Live
  <2> QED
    BY <2>1, <2>2 DEF FreshIds
<1>4. GenerationOrder'
  <2>1. ASSUME NEW s \in Snapshots' PROVE s.gen <= row'.gen /\ Older(s.cleanup, s.gen)
    <3>1. PICK t \in Snapshots : Alike(s, t)
      OBVIOUS
    <3>2. t \in Rows /\ s \in Rows /\ row \in Rows
      <4>1. /\ row' \in Rows /\ cron'.seen \in Rows
            /\ \A r \in Requests : req'[r].seen \in Rows
        BY DEF TypeInv, TypeOK, Calls
      <4> QED
        BY <4>1, SnapshotsType DEF Snapshots
    <3>3. t.gen <= row.gen /\ Older(t.cleanup, t.gen)
      BY DEF Related, GenerationOrder
    <3> QED
      BY <3>1, <3>2, <3>3 DEF Alike, Older, CalmRow, Rows, Generations
  <2>2. ASSUME NEW o \in OpIds
        PROVE  wf'[o].gen <= row'.gen /\ Older(wf'[o].cleanup, wf'[o].gen)
    <3>1. row.gen \in Nat
      BY DEF TypeInv, TypeOK, Rows, Generations
    <3>2. \A p \in OpIds : wf[p].gen <= row.gen /\ Older(wf[p].cleanup, wf[p].gen)
      BY DEF Related, GenerationOrder
    <3>3. \A s \in Snapshots : s.gen <= row.gen /\ Older(s.cleanup, s.gen)
      BY DEF Related, GenerationOrder
    <3>4. row'.gen = row.gen
      BY DEF CalmRow
    <3> QED
      BY <3>1, <3>2, <3>3, <3>4 DEF RunKept, Older
  <2> QED
    BY <2>1, <2>2 DEF GenerationOrder
<1>5. StopIsFinal'
  BY <1>1 DEF Related, StopIsFinal, CalmRow
<1>6. RowShape'
  BY DEF Related, RowShape, CalmRow, Alike
<1>7. NobodyAhead'
  <2> SUFFICES ASSUME row'.op # None
               PROVE  /\ \A o \in OpIds :
                           o[1] = row'.op[1] =>
                              /\ o[2] > row'.op[2] => wf'[o].pc = "none"
                              /\ wf'[o].pc \in {"activate", "signal"} =>
                                   o[2] < row'.op[2]
                      /\ \A s \in Snapshots' :
                           s.op # None /\ s.op[1] = row'.op[1]
                              => s.op[2] <= row'.op[2]
    BY DEF NobodyAhead
  <2>1. row'.op = row.op /\ row.op # None /\ row.op \in OpIds
    BY DEF CalmRow, TypeInv, TypeOK, Rows
  <2>2. \A o \in OpIds :
          o[1] = row.op[1] =>
             /\ o[2] > row.op[2] => wf[o].pc = "none"
             /\ wf[o].pc \in {"activate", "signal"} => o[2] < row.op[2]
    BY <2>1 DEF Related, NobodyAhead
  <2>3. \A s \in Snapshots :
          s.op # None /\ s.op[1] = row.op[1] => s.op[2] <= row.op[2]
    BY <2>1 DEF Related, NobodyAhead
  <2>4. \A s \in Snapshots' :
          s.op # None /\ s.op[1] = row.op[1] => s.op[2] <= row.op[2]
    BY <2>3 DEF Alike
  <2>5. ASSUME NEW o \in OpIds, o[1] = row.op[1]
        PROVE  /\ o[2] > row.op[2] => wf'[o].pc = "none"
               /\ wf'[o].pc \in {"activate", "signal"} => o[2] < row.op[2]
    <3>1. /\ o[2] > row.op[2] => wf[o].pc = "none"
          /\ wf[o].pc \in {"activate", "signal"} => o[2] < row.op[2]
      BY <2>2, <2>5
    <3>2. o[2] \in Nat /\ row.op[2] \in Nat
      BY <2>1 DEF OpIds
    <3>3. CASE \E s \in Snapshots :
                 s.op = o /\ s.kind \in Kinds /\ wf'[o].pc = "input"
      BY <2>3, <2>5, <3>2, <3>3, NoneIsNew
    <3>4. ASSUME NEW p \in OpIds, wf[p].pc = "activate", o = NextId(p),
                 wf'[o].pc = "waiting"
          PROVE  ~(o[2] > row.op[2])
      <4>1. p[1] = row.op[1] /\ o[2] = p[2] + 1 /\ p[2] \in Nat
        BY <2>5, <3>4 DEF NextId, OpIds
      <4> QED
        BY <2>2, <3>2, <3>4, <4>1
    <3> QED
      BY <3>1, <3>2, <3>3, <3>4 DEF RunKept, Live, Terminal
  <2> QED
    BY <2>1, <2>4, <2>5
<1>8. \A o \in OpIds : \A g : Starting(o, g)' => Starting(o, g)
  BY CalmStarting
<1>9. OneStarter'
  BY <1>8 DEF Related, OneStarter
<1>10. OwnerStarts'
  BY <1>8 DEF Related, OwnerStarts, CalmRow
<1> QED
  BY <1>2, <1>3, <1>4, <1>5, <1>6, <1>7, <1>9, <1>10 DEF Related

LEMMA SelfAlike ==
    ASSUME TypeInv, Related PROVE \A s \in Snapshots : Alike(s, s)
<1>1. \A s \in Snapshots : s.gen \in Nat
  BY SnapshotsType DEF Rows, Generations
<1> QED
  BY <1>1 DEF Alike, Related, RowShape

LEMMA SameRowIsCalm == ASSUME Related, UNCHANGED row PROVE CalmRow
BY DEF Related, RowShape, CalmRow, Past, Exists

\* A step of runs only.
LEMMA QuietRelated ==
    ASSUME TypeInv, TypeInv', Related, UNCHANGED <<row, req, cron, nextOp>>,
           \A o \in OpIds : RunKept(o)
    PROVE  Related'
<1>1. Snapshots' = Snapshots
  BY DEF Snapshots
<1> QED
  BY <1>1, SelfAlike, SameRowIsCalm, CalmRelated

\* A step of runs and the row.
LEMMA WriterRelated ==
    ASSUME TypeInv, TypeInv', Related, UNCHANGED <<req, cron, nextOp>>,
           CalmRow, Alike(row', row), \A o \in OpIds : RunKept(o)
    PROVE  Related'
<1>1. \A s \in Snapshots' : s = row' \/ s \in Snapshots
  BY DEF Snapshots
<1>2. \A s \in Snapshots' : \E t \in Snapshots : Alike(s, t)
  BY <1>1, SelfAlike, SnapshotsType
<1> QED
  BY <1>2, CalmRelated

\* The run that owns the row does what the row says.
LEMMA OwnerAgrees ==
    ASSUME TypeInv, Related, NEW o \in OpIds, Live(o), row.op = o
    PROVE  row.kind = wf[o].kind /\ row.gen = wf[o].gen
<1>1. row.op # None /\ row.kind \in Kinds /\ row.gen \in Generations
      /\ o[1] \in 1..MaxOps /\ wf[o].kind \in Kinds /\ wf[o].gen \in Generations
  BY NoneIsNew, RunsType DEF TypeInv, TypeOK, Rows
<1>2. Mentioned(o[1], row.kind, row.gen)
  BY <1>1, SnapshotsType DEF Mentioned
<1>3. Mentioned(o[1], wf[o].kind, wf[o].gen)
  BY DEF Mentioned
<1> QED
  BY <1>1, <1>2, <1>3 DEF Related, OneMeaning

-----------------------------------------------------------------------------
(* How the steps of a run move it.                                         *)

LEMMA GotoKeeps ==
    ASSUME TypeInv, KindsOfSteps, NEW o \in OpIds, NEW pc \in Steps, Goto(o, pc),
           Live(o), pc \notin {"none", "activate", "waiting"},
           pc = "signal" => wf[o].pc = "activate",
           wf[o].pc \in {"activate", "signal"} => pc \in Terminal \cup {"signal"},
           KindOfStep(pc, wf[o].kind)
    PROVE  (\A p \in OpIds : RunKept(p)) /\ KindsOfSteps'
<1>1. wf \in [OpIds -> Runs] /\ wf[o] \in Runs
  BY DEF TypeInv, TypeOK
<1>2. \A p \in OpIds : p # o => wf'[p] = wf[p]
  BY <1>1 DEF Goto
<1>3. CASE pc \in Terminal
  <2>1. wf'[o] = [NoRun EXCEPT !.pc = pc]
    BY <1>1, <1>3 DEF Goto
  <2>2. /\ wf'[o].pc = pc /\ wf'[o].gen = 0 /\ wf'[o].cleanup = None
        /\ wf'[o].resume = "input"
    BY <2>1 DEF NoRun
  <2>3. \A p \in OpIds : RunKept(p)
    BY <1>2, <1>3, <2>2 DEF RunKept, Live
  <2>4. KindsOfSteps'
    BY <1>2, <1>3, <2>2 DEF KindsOfSteps, KindOfStep, Terminal, StartSteps,
       StopSteps, HandoffPoints
  <2> QED
    BY <2>3, <2>4
<1>4. CASE pc \notin Terminal
  <2>1. wf'[o] = [wf[o] EXCEPT !.pc = pc]
    BY <1>1, <1>4 DEF Goto
  <2>2. /\ wf'[o].pc = pc /\ wf'[o].kind = wf[o].kind /\ wf'[o].gen = wf[o].gen
        /\ wf'[o].cleanup = wf[o].cleanup /\ wf'[o].resume = wf[o].resume
    BY <1>1, <2>1 DEF Runs
  <2>3. \A p \in OpIds : RunKept(p)
    BY <1>2, <1>4, <2>2 DEF RunKept
  <2>4. KindsOfSteps'
    BY <1>2, <2>2 DEF KindsOfSteps
  <2> QED
    BY <2>3, <2>4
<1> QED
  BY <1>3, <1>4

LEMMA IdleKeeps ==
    ASSUME KindsOfSteps, UNCHANGED wf
    PROVE  (\A p \in OpIds : RunKept(p)) /\ KindsOfSteps'
BY DEF RunKept, KindsOfSteps

LEMMA StartKeeps ==
    ASSUME TypeInv, KindsOfSteps, NEW o \in OpIds, StartStep(o) \/ Heartbeat(o)
    PROVE  (\A p \in OpIds : RunKept(p)) /\ KindsOfSteps'
<1>1. wf[o].pc \in StartSteps
  BY DEF StartStep, Cleanup, Record, PrepareDisk, Provision, Deploy, Boot, Session,
         Health, Policy, Initialize, Complete, Heartbeat, StartSteps
<1>2. wf[o].kind = "start" /\ Live(o) /\ wf[o].pc \notin {"activate", "signal"}
  BY <1>1 DEF KindsOfSteps, KindOfStep, Live, StartSteps, Terminal
<1>3. UNCHANGED wf \/ \E pc \in StartSteps \cup {"failed", "done"} : Goto(o, pc)
  BY DEF StartStep, Cleanup, Record, PrepareDisk, Provision, Deploy, Boot, Session,
         Health, Policy, Initialize, Complete, Heartbeat, StartSteps, Fails, Again
<1>4. ASSUME NEW pc \in StartSteps \cup {"failed", "done"}
      PROVE  /\ pc \in Steps /\ pc \notin {"none", "activate", "waiting", "signal"}
             /\ KindOfStep(pc, "start")
  BY DEF StartSteps, StopSteps, Steps, HandoffPoints, Terminal, KindOfStep
<1> QED
  BY <1>2, <1>3, <1>4, GotoKeeps, IdleKeeps

LEMMA StopKeeps ==
    ASSUME TypeInv, KindsOfSteps, NEW o \in OpIds, StopStep(o)
    PROVE  (\A p \in OpIds : RunKept(p)) /\ KindsOfSteps'
<1>1. wf[o].pc \in StopSteps
  BY DEF StopStep, Teardown, Finish, DeleteDisk, Erase, StopSteps
<1>2. wf[o].kind # "start" /\ Live(o) /\ wf[o].pc \notin {"activate", "signal"}
  BY <1>1 DEF KindsOfSteps, KindOfStep, Live, StopSteps, Terminal
<1>3. UNCHANGED wf \/ \E pc \in StopSteps \cup {"failed", "done"} : Goto(o, pc)
  BY DEF StopStep, Teardown, Finish, DeleteDisk, Erase, StopSteps, Fails, Again
<1>4. ASSUME NEW pc \in StopSteps \cup {"failed", "done"}
      PROVE  /\ pc \in Steps /\ pc \notin {"none", "activate", "waiting", "signal"}
             /\ KindOfStep(pc, wf[o].kind)
  BY <1>2 DEF StartSteps, StopSteps, Steps, HandoffPoints, Terminal, KindOfStep
<1> QED
  BY <1>2, <1>3, <1>4, GotoKeeps, IdleKeeps

LEMMA FailureKeeps ==
    ASSUME TypeInv, KindsOfSteps, NEW o \in OpIds, FailureStep(o)
    PROVE  (\A p \in OpIds : RunKept(p)) /\ KindsOfSteps'
<1>1. Live(o) /\ wf[o].pc \notin {"activate", "signal"}
  BY DEF FailureStep, Failed, Undo, Mark, Release, Live, Terminal
<1>2. CASE Failed(o)
  <2>1. PICK pc \in {"done", "undo", "mark"} :
          Goto(o, pc) /\ (pc = "undo" => wf[o].kind = "start")
    BY <1>2 DEF Failed
  <2>2. pc \in Steps /\ KindOfStep(pc, wf[o].kind)
    BY <2>1 DEF Steps, HandoffPoints, Terminal, KindOfStep, StartSteps, StopSteps
  <2> QED
    BY <1>1, <2>1, <2>2, GotoKeeps
<1>3. CASE Mark(o) \/ Release(o)
  <2>1. PICK pc \in {"done", "release", "errored"} : Goto(o, pc)
    BY <1>3 DEF Mark, Release
  <2>2. pc \in Steps /\ KindOfStep(pc, wf[o].kind)
    BY DEF Steps, Terminal, KindOfStep, StartSteps, StopSteps
  <2> QED
    BY <1>1, <2>1, <2>2, GotoKeeps
<1>4. CASE Undo(o)
  <2>1. CASE Goto(o, "mark")
    BY <1>1, <2>1, GotoKeeps DEF Steps, KindOfStep, StartSteps, StopSteps
  <2>2. CASE wf' = [wf EXCEPT ![o].pc = "mark", ![o].undone = TRUE]
    <3>1. wf \in [OpIds -> Runs] /\ wf[o] \in Runs
      BY DEF TypeInv, TypeOK
    <3>2. \A p \in OpIds : p # o => wf'[p] = wf[p]
      BY <2>2, <3>1
    <3>3. /\ wf'[o].pc = "mark" /\ wf'[o].kind = wf[o].kind
          /\ wf'[o].gen = wf[o].gen /\ wf'[o].cleanup = wf[o].cleanup
          /\ wf'[o].resume = wf[o].resume
      BY <2>2, <3>1 DEF Runs
    <3>4. KindsOfSteps'
      BY <3>2, <3>3 DEF KindsOfSteps, KindOfStep, StartSteps, StopSteps
    <3> QED
      BY <1>1, <3>2, <3>3, <3>4 DEF RunKept
  <2> QED
    BY <1>4, <2>1, <2>2 DEF Undo
<1> QED
  BY <1>2, <1>3, <1>4 DEF FailureStep

LEMMA InputKeeps ==
    ASSUME TypeInv, KindsOfSteps, NEW o \in OpIds, Input(o)
    PROVE  (\A p \in OpIds : RunKept(p)) /\ KindsOfSteps'
<1>1. /\ Live(o) /\ wf \in [OpIds -> Runs] /\ wf[o] \in Runs
      /\ wf[o].pc \notin {"activate", "signal"}
  BY DEF Input, Live, Terminal, TypeInv, TypeOK
<1>2. CASE Fails(o)
  BY <1>1, <1>2, GotoKeeps DEF Fails, Steps, KindOfStep, StartSteps, StopSteps
<1>3. CASE ~Fails(o)
  <2> DEFINE snapshot == [rs |-> row.rs, vm |-> row.vm, disk |-> row.disk]
  <2> DEFINE pc == FirstStep(wf[o])
  <2>1. wf' = [wf EXCEPT ![o].pc = pc, ![o].in = snapshot]
    BY <1>3 DEF Input
  <2>2. \A p \in OpIds : p # o => wf'[p] = wf[p]
    BY <1>1, <2>1
  <2>3. /\ wf'[o].pc = pc /\ wf'[o].kind = wf[o].kind
        /\ wf'[o].gen = wf[o].gen /\ wf'[o].cleanup = wf[o].cleanup
        /\ wf'[o].resume = wf[o].resume
    BY <1>1, <2>1 DEF Runs
  <2>4. KindsOfSteps'
    BY <2>2, <2>3 DEF KindsOfSteps, KindOfStep, StartSteps, StopSteps, FirstStep
  <2> QED
    BY <1>1, <2>2, <2>3, <2>4 DEF RunKept, FirstStep
<1> QED
  BY <1>2, <1>3

LEMMA ContinuationKeeps ==
    ASSUME TypeInv, KindsOfSteps, NEW o \in OpIds, ContinuationStep(o)
    PROVE  (\A p \in OpIds : RunKept(p)) /\ KindsOfSteps'
<1>1. Live(o) /\ wf \in [OpIds -> Runs] /\ wf[o] \in Runs
  BY DEF ContinuationStep, Activate, Signal, WaitTimesOut, Live, Terminal,
         TypeInv, TypeOK
<1> DEFINE child == NextId(o)
<1>2. child # o
  BY DEF NextId, OpIds
<1>3. CASE WaitTimesOut(o)
  BY <1>1, <1>3, GotoKeeps DEF WaitTimesOut, Fails, Steps, KindOfStep, StartSteps,
     StopSteps
<1>4. CASE Activate(o)
  <2>1. CASE \E pc \in {"signal", "errored"} : Goto(o, pc)
    <3>1. PICK pc \in {"signal", "errored"} : Goto(o, pc)
      BY <2>1
    <3>2. /\ pc \in Steps /\ KindOfStep(pc, wf[o].kind) /\ wf[o].pc = "activate"
          /\ pc \in Terminal \cup {"signal"}
      BY <1>4 DEF Activate, Steps, Terminal, KindOfStep, StartSteps, StopSteps
    <3> QED
      BY <1>1, <3>1, <3>2, GotoKeeps
  <2>2. CASE wf[child].pc = "none" /\
             wf' = [wf EXCEPT ![o].pc = "signal",
                              ![child] = [wf[o] EXCEPT !.pc = "waiting",
                                                       !.undone = FALSE]]
    <3>1. \A p \in OpIds : p # o /\ p # child => wf'[p] = wf[p]
      BY <1>1, <2>2
    <3>2. /\ wf'[o].pc = "signal" /\ wf'[o].kind = wf[o].kind
          /\ wf'[o].gen = wf[o].gen /\ wf'[o].cleanup = wf[o].cleanup
          /\ wf'[o].resume = wf[o].resume
      BY <1>1, <1>2, <2>2 DEF Runs
    <3>3. child \in OpIds =>
             /\ wf'[child].pc = "waiting" /\ wf'[child].kind = wf[o].kind
             /\ wf'[child].gen = wf[o].gen /\ wf'[child].cleanup = wf[o].cleanup
             /\ wf'[child].resume = wf[o].resume
      BY <1>1, <1>2, <2>2 DEF Runs
    <3>4. wf[o].pc = "activate"
      BY <1>4 DEF Activate
    <3>5. KindsOfSteps'
      BY <3>1, <3>2, <3>3, <3>4 DEF KindsOfSteps, KindOfStep, StartSteps, StopSteps
    <3> QED
      BY <1>1, <2>2, <3>1, <3>2, <3>3, <3>4, <3>5 DEF RunKept
  <2> QED
    BY <1>4, <2>1, <2>2 DEF Activate
<1>5. CASE Signal(o)
  <2>1. CASE Goto(o, "errored")
    BY <1>1, <2>1, GotoKeeps DEF Steps, Terminal, KindOfStep, StartSteps, StopSteps
  <2>2. CASE wf' = [wf EXCEPT ![o] = [NoRun EXCEPT !.pc = "done"],
                             ![child].pc = IF @ = "waiting"
                                           THEN wf[child].resume ELSE @]
    <3>1. \A p \in OpIds : p # o /\ p # child => wf'[p] = wf[p]
      BY <1>1, <2>2
    <3>2. wf'[o] = [NoRun EXCEPT !.pc = "done"]
      BY <1>1, <1>2, <2>2
    <3>3. /\ wf'[o].pc = "done" /\ wf'[o].gen = 0 /\ wf'[o].cleanup = None
          /\ wf'[o].resume = "input"
      BY <3>2 DEF NoRun
    <3>4. ASSUME child \in OpIds
          PROVE  /\ wf'[child].pc = IF wf[child].pc = "waiting"
                                    THEN wf[child].resume ELSE wf[child].pc
                 /\ wf'[child].kind = wf[child].kind
                 /\ wf'[child].gen = wf[child].gen
                 /\ wf'[child].cleanup = wf[child].cleanup
                 /\ wf'[child].resume = wf[child].resume
                 /\ wf[child].pc # "waiting" => wf'[child] = wf[child]
      BY <1>1, <1>2, <2>2, <3>4 DEF Runs
    <3>5. KindsOfSteps'
      BY <3>1, <3>3, <3>4 DEF KindsOfSteps, KindOfStep, StartSteps, StopSteps,
         HandoffPoints
    <3>6. RunKept(o)
      BY <1>1, <3>3 DEF RunKept, Live, Terminal
    <3>7. child \in OpIds => RunKept(child)
      <4>1. CASE wf[child].pc # "waiting"
        BY <3>4, <4>1 DEF RunKept
      <4>2. CASE child \in OpIds /\ wf[child].pc = "waiting"
        <5>1. wf[child].resume \in ({"input", "failed"} \cup HandoffPoints) \ {"undo"}
          BY <4>2 DEF KindsOfSteps
        <5> QED
          BY <3>4, <4>2, <5>1 DEF RunKept, Live, Terminal, HandoffPoints
      <4> QED
        BY <4>1, <4>2
    <3> QED
      BY <3>1, <3>5, <3>6, <3>7 DEF RunKept
  <2> QED
    BY <1>5, <2>1, <2>2 DEF Signal
<1> QED
  BY <1>3, <1>4, <1>5 DEF ContinuationStep

\* A created instance starts as the job says; one that is live goes on.
LEMMA QueuedKeeps ==
    ASSUME TypeInv, KindsOfSteps, NEW s \in Snapshots, s.kind \in Kinds,
           Queued(s) \/ NotQueued(s)
    PROVE  (\A p \in OpIds : RunKept(p)) /\ KindsOfSteps'
<1>1. wf \in [OpIds -> Runs]
  BY DEF TypeInv, TypeOK
<1>2. CASE wf[s.op].pc = "none" /\ wf' = [wf EXCEPT ![s.op] = NewRun(s)]
  <2>1. /\ NewRun(s).pc = "input" /\ NewRun(s).kind = s.kind
        /\ NewRun(s).gen = s.gen /\ NewRun(s).cleanup = s.cleanup
        /\ NewRun(s).resume = "input"
    BY DEF NewRun, NoRun
  <2>2. \A p \in OpIds : wf'[p] = IF p = s.op THEN NewRun(s) ELSE wf[p]
    BY <1>1, <1>2
  <2>3. KindsOfSteps'
    BY <2>1, <2>2 DEF KindsOfSteps, KindOfStep, StartSteps, StopSteps
  <2> QED
    BY <1>2, <2>1, <2>2, <2>3 DEF RunKept
<1>3. CASE UNCHANGED wf
  BY <1>3, IdleKeeps
<1> QED
  BY <1>2, <1>3 DEF Queued, NotQueued
-----------------------------------------------------------------------------
(* Related, step by step.                                                  *)

\* Steps of a run that touch neither the row nor a copy of it.
RunOnlyStep(o) ==
    \/ Input(o) \/ Cleanup(o) \/ PrepareDisk(o) \/ Deploy(o) \/ Session(o)
    \/ Health(o) \/ Policy(o) \/ Initialize(o) \/ Teardown(o) \/ DeleteDisk(o)
    \/ Failed(o) \/ Undo(o) \/ Release(o) \/ ContinuationStep(o)
RowStep(o) ==
    \/ Record(o) \/ Provision(o) \/ Boot(o) \/ Heartbeat(o) \/ Complete(o)
    \/ Finish(o) \/ Erase(o) \/ Mark(o)

LEMMA StepsKeep ==
    ASSUME TypeInv, KindsOfSteps, NEW o \in OpIds, RunOnlyStep(o) \/ RowStep(o)
    PROVE  (\A p \in OpIds : RunKept(p)) /\ KindsOfSteps'
<1>1. \/ Input(o) \/ StartStep(o) \/ Heartbeat(o) \/ StopStep(o) \/ FailureStep(o)
      \/ ContinuationStep(o)
  BY DEF RunOnlyStep, RowStep, StartStep, StopStep, FailureStep
<1> QED
  BY <1>1, InputKeeps, StartKeeps, StopKeeps, FailureKeeps, ContinuationKeeps

LEMMA RunOnlyRelated ==
    ASSUME TypeInv, TypeInv', Related, KindsOfSteps, NEW o \in OpIds, RunOnlyStep(o)
    PROVE  Related'
<1>1. UNCHANGED <<row, req, cron, nextOp>>
  BY DEF RunOnlyStep, Input, Cleanup, PrepareDisk, Deploy, Session, Health, Policy,
         Initialize, Teardown, DeleteDisk, Failed, Undo, Release, ContinuationStep,
         Activate, Signal, WaitTimesOut
<1> QED
  BY <1>1, StepsKeep, QuietRelated

LEMMA RowStepCalm ==
    ASSUME TypeInv, Related, KindsOfSteps, NEW o \in OpIds, RowStep(o)
    PROVE  CalmRow /\ Alike(row', row)
<1>1. /\ row \in Rows /\ row.gen \in Nat /\ (row.op = None <=> row.kind = None)
      /\ RowShape
  BY DEF TypeInv, TypeOK, Rows, Generations, Related
<1>2. CASE UNCHANGED row
  BY <1>1, <1>2, SameRowIsCalm DEF Alike
<1>3. CASE Record(o) \/ Provision(o) \/ Boot(o) \/ Heartbeat(o)
  <2>1. UNCHANGED row \/ row' = [row EXCEPT !.cleanup = None] \/ row' = Renewed
        \/ row' = [Renewed EXCEPT !.rs = "provisioning", !.disk = TRUE]
        \/ row' = [Renewed EXCEPT !.rs = "booting", !.vm = wf[o].gen]
    BY <1>3 DEF Record, Provision, Boot, Heartbeat
  <2>2. /\ row'.gen = row.gen /\ row'.op = row.op /\ row'.kind = row.kind
        /\ row'.status = row.status /\ row'.cleanup \in {row.cleanup, None}
        /\ row'.rs \in {row.rs, "provisioning", "booting"}
    <3>1. CASE UNCHANGED row
      BY <3>1
    <3>2. CASE row' = [row EXCEPT !.cleanup = None]
      BY <1>1, <3>2 DEF Rows
    <3>3. CASE row' = Renewed
      BY <1>1, <3>3 DEF Renewed, Rows
    <3>4. CASE row' = [Renewed EXCEPT !.rs = "provisioning", !.disk = TRUE]
      BY <1>1, <3>4 DEF Renewed, Rows
    <3>5. CASE row' = [Renewed EXCEPT !.rs = "booting", !.vm = wf[o].gen]
      BY <1>1, <3>5 DEF Renewed, Rows
    <3> QED
      BY <2>1, <3>1, <3>2, <3>3, <3>4, <3>5
  <2>3. row'.rs = row.rs \/ Exists
    BY <1>1, <1>3 DEF Record, Provision, Boot, Heartbeat, Current, Renewed, Rows
  <2> QED
    BY <1>1, <2>2, <2>3 DEF CalmRow, Alike, Past, RowShape, Exists
<1>4. CASE Complete(o) /\ row' # row
  <2>1. /\ Current(o) /\ wf[o].pc = "complete"
        /\ row' = [Released EXCEPT !.status = "ready", !.rs = "ready",
                                   !.vm = wf[o].gen, !.disk = TRUE]
    BY <1>4 DEF Complete
  <2>2. Live(o) /\ row.op = o /\ wf[o].kind = "start"
    BY <2>1 DEF Live, Terminal, Current, KindsOfSteps, KindOfStep, StartSteps
  <2>3. row.kind = "start"
    BY <2>2, OwnerAgrees
  <2>4. /\ row'.gen = row.gen /\ row'.op = None /\ row'.kind = None
        /\ row'.status = "ready" /\ row'.cleanup = None
    BY <1>1, <2>1 DEF Released, Rows
  <2> QED
    BY <1>1, <2>3, <2>4 DEF CalmRow, Alike, Past, Exists
<1>5. CASE Finish(o) /\ row' # row
  <2>1. row' = [Released EXCEPT !.status = "stopped", !.rs = "stopped", !.vm = None]
    BY <1>5 DEF Finish
  <2>2. /\ row'.gen = row.gen /\ row'.op = None /\ row'.kind = None
        /\ row'.status = "stopped" /\ row'.rs = "stopped" /\ row'.cleanup = None
    BY <1>1, <2>1 DEF Released, Rows
  <2> QED
    BY <1>1, <2>2, NoneIsNew DEF CalmRow, Alike, Past, Exists, Kinds
<1>6. CASE Erase(o) /\ row' # row
  <2>1. row' = [FreshRow EXCEPT !.status = "gone", !.gen = row.gen]
    BY <1>6 DEF Erase
  <2>2. /\ row'.gen = row.gen /\ row'.op = None /\ row'.kind = None
        /\ row'.rs = "stopped" /\ row'.cleanup = None
    BY <2>1 DEF FreshRow
  <2> QED
    BY <1>1, <2>2, NoneIsNew DEF CalmRow, Alike, Past, Kinds
<1>7. CASE Mark(o) /\ row' # row
  <2> DEFINE status == FailedStatus(wf[o].kind)
             v == IF wf[o].undone THEN None ELSE row.vm
             c == IF wf[o].undone THEN None ELSE row.cleanup
  <2>1. row' = [row EXCEPT !.status = status, !.rs = "failed", !.lease = "none",
                           !.vm = v, !.cleanup = c]
    BY <1>7 DEF Mark
  <2>2. status # "gone" /\ c \in {row.cleanup, None}
    BY DEF FailedStatus
  <2> HIDE DEF status, v, c
  <2>3. /\ row'.gen = row.gen /\ row'.op = row.op /\ row'.kind = row.kind
        /\ row'.status = status /\ row'.rs = "failed" /\ row'.cleanup = c
    BY <1>1, <2>1 DEF Rows
  <2> QED
    BY <1>1, <2>2, <2>3 DEF CalmRow, Alike, Past, Exists
<1> QED
  BY <1>2, <1>3, <1>4, <1>5, <1>6, <1>7 DEF RowStep

LEMMA RowStepRelated ==
    ASSUME TypeInv, TypeInv', Related, KindsOfSteps, NEW o \in OpIds, RowStep(o)
    PROVE  Related'
<1>1. UNCHANGED <<req, cron, nextOp>>
  BY DEF RowStep, Record, Provision, Boot, Heartbeat, Complete, Finish, Erase, Mark
<1> QED
  BY <1>1, StepsKeep, RowStepCalm, WriterRelated

\* The child's id takes over the row, and the parent keeps only its parameters.
LEMMA HandoffRelated ==
    ASSUME TypeInv, TypeInv', Related, KindsOfSteps, NEW o \in OpIds, Handoff(o)
    PROVE  Related' /\ KindsOfSteps'
<1>1. /\ wf \in [OpIds -> Runs] /\ wf[o] \in Runs /\ row \in Rows
      /\ (row.op = None <=> row.kind = None)
  BY DEF TypeInv, TypeOK
<1>2. wf[o].pc \in HandoffPoints /\ Live(o) /\ UNCHANGED <<req, cron, nextOp>>
  BY DEF Handoff, HandoffPoints, Live, Terminal
<1>3. CASE Goto(o, "errored") /\ UNCHANGED row
  <2>1. /\ "errored" \in Steps /\ KindOfStep("errored", wf[o].kind)
        /\ "errored" \in Terminal
    BY DEF Steps, Terminal, KindOfStep, StartSteps, StopSteps
  <2> QED
    BY <1>2, <1>3, <2>1, GotoKeeps, QuietRelated
<1>4. CASE Current(o) /\ row' = [Renewed EXCEPT !.op = NextId(o)] /\
           \E compact \in Compacts(o) :
             wf' = [wf EXCEPT
               ![o].pc = "activate", ![o].cleanup = HandedCleanup(o, compact),
               ![o].resume = IF compact THEN "input"
                             ELSE IF wf[o].pc = "undo" THEN "failed" ELSE wf[o].pc]
  <2>0. PICK compact \in Compacts(o) :
             wf' = [wf EXCEPT
               ![o].pc = "activate", ![o].cleanup = HandedCleanup(o, compact),
               ![o].resume = IF compact THEN "input"
                             ELSE IF wf[o].pc = "undo" THEN "failed" ELSE wf[o].pc]
    BY <1>4, Zenon
  <2> DEFINE c == HandedCleanup(o, compact)
             back == IF compact THEN "input"
                     ELSE IF wf[o].pc = "undo" THEN "failed" ELSE wf[o].pc
  <2>1. /\ wf' = [wf EXCEPT ![o].pc = "activate", ![o].cleanup = c,
                            ![o].resume = back]
        /\ c \in {row.cleanup, wf[o].cleanup}
        /\ back \in {"input", "failed", wf[o].pc} \ {"undo"}
    <3>1. wf' = [wf EXCEPT ![o].pc = "activate", ![o].cleanup = c,
                           ![o].resume = back]
      BY <2>0, Zenon
    <3>2. c \in {row.cleanup, wf[o].cleanup}
      BY DEF HandedCleanup
    <3> QED
      BY <3>1, <3>2
  <2> HIDE DEF c, back
  <2>2. \A p \in OpIds : p # o => wf'[p] = wf[p]
    BY <1>1, <2>1
  <2>3. /\ wf'[o].pc = "activate" /\ wf'[o].kind = wf[o].kind
        /\ wf'[o].gen = wf[o].gen /\ wf'[o].cleanup = c /\ wf'[o].resume = back
    BY <1>1, <2>1 DEF Runs
  <2>4. /\ row.op = o /\ row.gen = wf[o].gen
        /\ row'.op = NextId(o) /\ row'.gen = row.gen /\ row'.kind = row.kind
        /\ row'.rs = row.rs /\ row'.cleanup = row.cleanup /\ row'.status = row.status
    BY <1>1, <1>4 DEF Current, Renewed, Rows
  <2>5. /\ o[1] \in Nat /\ o[2] \in Nat /\ NextId(o)[1] = o[1]
        /\ NextId(o)[2] = o[2] + 1 /\ row.op # None /\ row'.op # None
    BY <1>1, <2>4, NoneIsNew DEF NextId, OpIds, TypeInv, TypeOK
  <2>6. \A s \in Snapshots' : s = row' \/ s \in Snapshots
    BY <1>2 DEF Snapshots
  <2>7. \A n, k, g : Mentioned(n, k, g)' => Mentioned(n, k, g)
    <3> SUFFICES ASSUME NEW n, NEW k, NEW g, Mentioned(n, k, g)'
                 PROVE  Mentioned(n, k, g)
      OBVIOUS
    <3>1. CASE row'.op[1] = n /\ row'.kind = k /\ row'.gen = g
      BY <2>4, <2>5, <3>1, SnapshotsType DEF Mentioned
    <3>2. CASE \E s \in Snapshots :
                 s.op # None /\ s.op[1] = n /\ s.kind = k /\ s.gen = g
      BY <3>2 DEF Mentioned
    <3>3. CASE \E p \in OpIds :
                 Live(p)' /\ p[1] = n /\ wf'[p].kind = k /\ wf'[p].gen = g
      BY <1>2, <2>2, <2>3, <3>3 DEF Mentioned, Live
    <3> QED
      BY <2>6, <3>1, <3>2, <3>3 DEF Mentioned
  <2>8. Past' = Past /\ Exists' = Exists
    BY <2>4 DEF Past, Exists
  <2>9. OneMeaning' /\ StopIsFinal'
    BY <2>4, <2>7, <2>8 DEF Related, OneMeaning, StopIsFinal
  <2>10. FreshIds'
    <3>1. \A p \in OpIds : wf'[p].pc # "none" => wf[p].pc # "none"
      BY <1>2, <2>2, <2>3 DEF Live
    <3> QED
      BY <1>2, <2>7, <3>1 DEF Related, FreshIds
  <2>11. GenerationOrder'
    <3>1. /\ \A s \in Snapshots : s.gen <= row.gen /\ Older(s.cleanup, s.gen)
          /\ \A p \in OpIds :
               wf[p].gen <= row.gen /\ Older(wf[p].cleanup, wf[p].gen)
          /\ row \in Snapshots
      BY SnapshotsType DEF Related, GenerationOrder
    <3>2. \A s \in Snapshots' : s.gen <= row'.gen /\ Older(s.cleanup, s.gen)
      BY <2>4, <2>6, <3>1
    <3>3. \A p \in OpIds :
            wf'[p].gen <= row'.gen /\ Older(wf'[p].cleanup, wf'[p].gen)
      <4>1. Older(c, wf[o].gen)
        BY <2>1, <2>4, <3>1
      <4> QED
        BY <2>2, <2>3, <2>4, <3>1, <4>1
    <3> QED
      BY <3>2, <3>3 DEF GenerationOrder
  <2>12. RowShape'
    BY <1>1, <2>4, <2>5, <2>6, <2>8 DEF Related, RowShape
  <2>13. NobodyAhead'
    <3>1. \A p \in OpIds :
            p[1] = o[1] =>
               /\ p[2] > o[2] => wf[p].pc = "none"
               /\ wf[p].pc \in {"activate", "signal"} => p[2] < o[2]
      BY <2>4, <2>5 DEF Related, NobodyAhead
    <3>2. \A s \in Snapshots : s.op # None /\ s.op[1] = o[1] => s.op[2] <= o[2]
      BY <2>4, <2>5 DEF Related, NobodyAhead
    <3>3. \A p \in OpIds : p[2] \in Nat
      BY DEF OpIds
    <3>4. \A s \in Snapshots : s.op # None => s.op[2] \in Nat
      BY SnapshotsType, <3>3 DEF Rows
    <3>5. \A p \in OpIds :
            p[1] = row'.op[1] =>
               /\ p[2] > row'.op[2] => wf'[p].pc = "none"
               /\ wf'[p].pc \in {"activate", "signal"} => p[2] < row'.op[2]
      BY <2>2, <2>3, <2>4, <2>5, <3>1, <3>3
    <3>6. \A s \in Snapshots' :
            s.op # None /\ s.op[1] = row'.op[1] => s.op[2] <= row'.op[2]
      BY <2>4, <2>5, <2>6, <3>2, <3>4
    <3> QED
      BY <3>5, <3>6 DEF NobodyAhead
  <2>14. KindsOfSteps'
    <3>1. back \in {"input", "failed"} \cup HandoffPoints /\ back # "undo"
      BY <1>2, <2>1
    <3>2. KindOfStep(back, wf[o].kind)
      BY <3>1, <2>1 DEF KindsOfSteps, KindOfStep, StartSteps, StopSteps
    <3> QED
      BY <2>2, <2>3, <3>1, <3>2 DEF KindsOfSteps, KindOfStep, StartSteps, StopSteps
  <2> DEFINE child == NextId(o)
  <2>15. ASSUME NEW p \in OpIds, NEW g, Starting(p, g)'
         PROVE  /\ p # o
                /\ \/ Starting(p, g)
                   \/ p = child /\ g = row.gen /\ wf[o].kind = "start"
    <3>1. p # o
      <4>1. CASE p = o
        BY <2>3, <2>15, <4>1 DEF Starting, Passing
      <4> QED
        BY <4>1
    <3>2. wf'[p] = wf[p] /\ (Live(p)' <=> Live(p))
      BY <2>2, <3>1 DEF Live
    <3>3. CASE wf'[p].pc = "none" /\ Named(p, g)'
      <4>1. ASSUME NEW s \in Snapshots', s.op = p, s.kind = "start", s.gen = g
            PROVE  Named(p, g) \/ (p = child /\ g = row.gen /\ wf[o].kind = "start")
        <5>1. CASE s = row'
          BY <1>2, <2>4, <4>1, <5>1, OwnerAgrees
        <5>2. CASE s \in Snapshots
          BY <4>1, <5>2 DEF Named
        <5> QED
          BY <2>6, <5>1, <5>2
      <4>2. ASSUME NEW q \in OpIds, wf'[q].pc = "activate", NextId(q) = p,
                   wf'[q].kind = "start", wf'[q].gen = g
            PROVE  Named(p, g) \/ (p = child /\ g = row.gen /\ wf[o].kind = "start")
        <5>1. CASE q = o
          BY <2>3, <2>4, <4>2, <5>1
        <5>2. CASE q # o
          BY <2>2, <4>2, <5>2 DEF Named
        <5> QED
          BY <5>1, <5>2
      <4>3. Named(p, g) \/ (p = child /\ g = row.gen /\ wf[o].kind = "start")
        BY <3>3, <4>1, <4>2 DEF Named
      <4> QED
        BY <3>1, <3>2, <3>3, <4>3 DEF Starting
    <3> QED
      BY <2>15, <3>1, <3>2, <3>3 DEF Starting
  <2>16. ASSUME NEW p \in OpIds, NEW g, g = row.gen, Starting(p, g)',
                wf[o].kind = "start"
         PROVE  p = child
    <3>1. ~Past /\ row.op # None
      BY <1>2, <2>4, <2>5, <2>16, OwnerAgrees DEF Past
    <3>2. Starting(p, g) => p = o
      BY <2>4, <2>16, <3>1 DEF Related, OwnerStarts
    <3> QED
      BY <2>15, <2>16, <3>2
  <2>17. OneStarter'
    BY <2>15, <2>16 DEF Related, OneStarter
  <2>18. OwnerStarts'
    <3> SUFFICES ASSUME ~Past', NEW p \in OpIds, NEW g, g = row.gen, Starting(p, g)'
                 PROVE  p = row'.op
      BY <2>4 DEF OwnerStarts
    <3>1. ~Past /\ row.op # None
      BY <2>5, <2>8
    <3>2. p = child
      BY <2>4, <2>15, <3>1 DEF Related, OwnerStarts
    <3> QED
      BY <2>4, <3>2
  <2> QED
    BY <2>9, <2>10, <2>11, <2>12, <2>13, <2>14, <2>17, <2>18 DEF Related
<1> QED
  BY <1>3, <1>4 DEF Handoff
\* A step in which requests and the cron only copy the row, or forget.
LEMMA CopiesRelated ==
    ASSUME TypeInv, TypeInv', Related, nextOp' = nextOp,
           CalmRow, Alike(row', row), \A o \in OpIds : RunKept(o),
           cron'.seen \in {cron.seen, FreshRow, Job(row)},
           \A r \in Requests : req'[r].seen \in {req[r].seen, FreshRow, row}
    PROVE  Related'
<1>1. /\ row.gen \in Nat /\ row \in Snapshots /\ (row.op = None <=> row.kind = None)
      /\ cron.seen \in Snapshots /\ \A r \in Requests : req[r].seen \in Snapshots
  BY SnapshotsType DEF Rows, Generations, TypeInv, TypeOK
<1>2. Alike(FreshRow, row) /\ Alike(Job(row), row)
  BY <1>1 DEF Alike, FreshRow, Job
<1>3. \A s \in Snapshots :  Alike(s, s)
  BY SelfAlike
<1>4. \A s \in Snapshots' : \/ s = row' \/ s = cron'.seen
                            \/ \E r \in Requests : s = req'[r].seen
  BY DEF Snapshots
<1>5. \A s \in Snapshots' : \E t \in Snapshots : Alike(s, t)
  BY <1>1, <1>2, <1>3, <1>4
<1> QED
  BY <1>5, CalmRelated

\* Everything a request does except claiming an operation.
RequestCopies(r) ==
    \/ Reserve(r) \/ Ask(r) \/ LoadRow(r) \/ Cancel(r) \/ Join(r) \/ Decline(r)
    \/ Reopen(r) \/ Dispatch(r) \/ MarkQueueFailure(r) \/ RequestDies(r)

LEMMA RequestRelated ==
    ASSUME TypeInv, TypeInv', Related, KindsOfSteps, NEW r \in Requests,
           RequestCopies(r)
    PROVE  Related' /\ KindsOfSteps'
<1>1. /\ req \in [Requests -> Calls] /\ req[r] \in Calls /\ row \in Rows
      /\ row.gen \in Nat /\ (row.op = None <=> row.kind = None) /\ RowShape
      /\ req[r].seen \in Snapshots
  BY SnapshotsType DEF TypeInv, TypeOK, Rows, Generations, Related
<1>2. UNCHANGED <<cron, nextOp>>
  BY DEF RequestCopies, Reserve, Ask, LoadRow, Cancel, Join, Decline, Reopen, Dispatch,
         MarkQueueFailure, RequestDies
<1>3. \A q \in Requests : req'[q].seen \in {req[q].seen, FreshRow, row}
  <2>1. \A q \in Requests : q # r => req'[q] = req[q]
    BY <1>1 DEF RequestCopies, Reserve, Ask, LoadRow, Cancel, Join, Decline, Reopen,
                Dispatch, MarkQueueFailure, RequestDies
  <2>2. NoCall.seen = FreshRow /\ [NoCall EXCEPT !.pc = "load"].seen = FreshRow
        /\ [NoCall EXCEPT !.pc = "reopen"].seen = FreshRow
    BY DEF NoCall
  <2>3. CASE Reserve(r) \/ Cancel(r) \/ Reopen(r) \/ MarkQueueFailure(r)
             \/ RequestDies(r) \/ Join(r) \/ Decline(r)
    <3>1. req'[r] \in {NoCall, [NoCall EXCEPT !.pc = "load"],
                       [NoCall EXCEPT !.pc = "reopen"]}
      BY <1>1, <2>3 DEF Reserve, Cancel, Reopen, MarkQueueFailure, RequestDies, Join,
                        Decline
    <3> QED
      BY <2>1, <2>2, <3>1
  <2>4. CASE Ask(r)
    <3>1. req'[r].seen = row
      BY <1>1, <2>4 DEF Ask
    <3> QED
      BY <2>1, <3>1
  <2>5. CASE LoadRow(r)
    <3>1. \/ req'[r] = NoCall
          \/ req'[r] = [req[r] EXCEPT !.pc = "loaded", !.seen = row]
      BY <1>1, <2>5 DEF LoadRow
    <3>2. req'[r].seen \in {FreshRow, row}
      BY <1>1, <2>2, <3>1 DEF Calls
    <3> QED
      BY <2>1, <3>2
  <2>6. CASE Dispatch(r)
    <3>1. \/ req'[r] = NoCall \/ req'[r] = [req[r] EXCEPT !.pc = "unqueued"]
      BY <1>1, <2>6 DEF Dispatch
    <3>2. req'[r].seen \in {FreshRow, req[r].seen}
      BY <1>1, <2>2, <3>1 DEF Calls
    <3> QED
      BY <2>1, <3>2
  <2> QED
    BY <2>3, <2>4, <2>5, <2>6 DEF RequestCopies
<1>4. CalmRow /\ Alike(row', row)
  <2>1. CASE UNCHANGED row
    BY <1>1, <2>1, SameRowIsCalm DEF Alike
  <2>2. CASE Join(r) /\ row' = [row EXCEPT !.lease = "held"]
    <3>1. /\ row'.gen = row.gen /\ row'.op = row.op /\ row'.kind = row.kind
          /\ row'.status = row.status /\ row'.cleanup = row.cleanup /\ row'.rs = row.rs
      BY <1>1, <2>2 DEF Rows
    <3> QED
      BY <1>1, <3>1 DEF CalmRow, Alike, Past, RowShape, Exists
  <2>3. CASE MarkQueueFailure(r) /\ row' = [row EXCEPT !.status = "failed",
                                              !.rs = "failed", !.lease = "none"]
    <3>1. /\ row'.gen = row.gen /\ row'.op = row.op /\ row'.kind = row.kind
          /\ row'.status = "failed" /\ row'.cleanup = row.cleanup
          /\ row'.rs = "failed"
      BY <1>1, <2>3 DEF Rows
    <3> QED
      BY <1>1, <3>1 DEF CalmRow, Alike, Past, Exists
  <2> QED
    BY <2>1, <2>2, <2>3 DEF RequestCopies, Reserve, Ask, LoadRow, Cancel, Join, Decline,
       Reopen, Dispatch, MarkQueueFailure, RequestDies
<1>5. (\A p \in OpIds : RunKept(p)) /\ KindsOfSteps'
  <2>1. CASE UNCHANGED wf
    BY <2>1, IdleKeeps
  <2>2. CASE Dispatch(r)
    <3>1. req[r].seen.kind \in Kinds /\ (Queued(req[r].seen) \/ NotQueued(req[r].seen))
      BY <2>2 DEF Dispatch, TypeInv, JobsOK
    <3> QED
      BY <1>1, <3>1, QueuedKeeps
  <2>3. CASE Join(r)
    <3>1. /\ Queued(req[r].seen) \/ NotQueued(req[r].seen)
          /\ req[r].seen.op # None
      BY <2>3 DEF Join, Joins
    <3>2. req[r].seen.kind \in Kinds
      BY <1>1, <3>1, SnapshotsType DEF Related, RowShape, Rows
    <3> QED
      BY <1>1, <3>1, <3>2, QueuedKeeps
  <2> QED
    BY <2>1, <2>2, <2>3 DEF RequestCopies, Reserve, Ask, LoadRow, Cancel, Decline,
       Reopen, MarkQueueFailure, RequestDies
<1> QED
  BY <1>2, <1>3, <1>4, <1>5, CopiesRelated

\* The row takes a number nobody has used, for an operation of kind k.
LEMMA FreshRelated ==
    ASSUME TypeInv, TypeInv', Related, UNCHANGED wf, nextOp' = nextOp + 1,
           nextOp <= MaxOps, NEW k \in Kinds, row'.op = <<nextOp, 0>>, row'.kind = k,
           row.gen <= row'.gen, row'.gen # row.gen => k = "start",
           (row'.gen = row.gen /\ (Past \/ k # "start")) => Past',
           row'.gen = row.gen /\ k = "start" =>
              row.op # None /\ wf[row.op].pc \in Terminal,
           row'.rs # "ready", Exists',
           \A s \in Snapshots' :
              \/ s \in Snapshots
              \/ /\ s.op = <<nextOp, 0>> /\ s.kind = k /\ s.gen = row'.gen
                 /\ Older(s.cleanup, s.gen)
    PROVE  Related'
<1>1. /\ nextOp \in 1..MaxOps /\ row.gen \in Nat /\ row'.gen \in Generations
      /\ row'.gen \in Nat /\ <<nextOp, 0>> # None /\ k # None
  <2>1. <<nextOp, 0>> \in OpIds
    BY DEF TypeInv, TypeOK, OpIds
  <2> QED
    BY <2>1, NoneIsNew DEF TypeInv, TypeOK, Rows, Generations
<1>2. \A n, g : \A j \in Kinds :
        Mentioned(n, j, g)' => Mentioned(n, j, g) \/ (n = nextOp /\ j = k /\ g = row'.gen)
  BY DEF Mentioned, Live
<1>3. \A n \in 1..MaxOps, j \in Kinds, g \in Generations :
        Mentioned(n, j, g) => n < nextOp
  BY DEF Related, FreshIds
<1>4. \A o \in OpIds : wf[o].pc # "none" => o[1] < nextOp
  BY DEF Related, FreshIds
<1>5. ASSUME NEW s \in Snapshots, s.op # None PROVE s.op[1] < nextOp
  <2>1. /\ s \in Rows /\ s.op \in OpIds /\ s.kind \in Kinds /\ s.gen \in Generations
        /\ s.op[1] \in 1..MaxOps
    BY <1>5, SnapshotsType DEF Related, RowShape, Rows, OpIds
  <2>2. Mentioned(s.op[1], s.kind, s.gen)
    BY <1>5 DEF Mentioned
  <2> QED
    BY <1>3, <2>1, <2>2
<1>6. OneMeaning'
  <2> SUFFICES ASSUME NEW n \in 1..MaxOps, NEW k1 \in Kinds, NEW k2 \in Kinds,
                      NEW g1 \in Generations, NEW g2 \in Generations,
                      Mentioned(n, k1, g1)', Mentioned(n, k2, g2)'
               PROVE  k1 = k2 /\ g1 = g2
    BY DEF OneMeaning
  <2>1. CASE n = nextOp
    <3>1. ~Mentioned(n, k1, g1) /\ ~Mentioned(n, k2, g2)
      BY <1>1, <1>3, <2>1
    <3> QED
      BY <1>2, <3>1
  <2>2. CASE n # nextOp
    BY <1>2, <2>2 DEF Related, OneMeaning
  <2> QED
    BY <2>1, <2>2
<1>7. FreshIds'
  <2>1. ASSUME NEW n \in 1..MaxOps, NEW j \in Kinds, NEW g \in Generations,
               Mentioned(n, j, g)'
        PROVE  n < nextOp'
    <3>1. n < nextOp \/ n = nextOp
      BY <1>2, <1>3, <2>1
    <3> QED
      BY <1>1, <3>1
  <2>2. \A o \in OpIds : wf'[o].pc # "none" => o[1] < nextOp'
    BY <1>1, <1>4 DEF OpIds
  <2> QED
    BY <2>1, <2>2 DEF FreshIds
<1>8. GenerationOrder'
  <2>1. ASSUME NEW s \in Snapshots' PROVE s.gen <= row'.gen /\ Older(s.cleanup, s.gen)
    <3>1. CASE s \in Snapshots
      <4>1. s.gen <= row.gen /\ Older(s.cleanup, s.gen) /\ s.gen \in Nat
        BY <3>1, SnapshotsType DEF Related, GenerationOrder, Rows, Generations
      <4> QED
        BY <1>1, <4>1
    <3> QED
      BY <1>1, <3>1
  <2>2. ASSUME NEW o \in OpIds
        PROVE  wf'[o].gen <= row'.gen /\ Older(wf'[o].cleanup, wf'[o].gen)
    <3>1. /\ wf[o].gen <= row.gen /\ Older(wf[o].cleanup, wf[o].gen)
          /\ wf[o].gen \in Nat
      BY RunsType DEF Related, GenerationOrder, Generations
    <3> QED
      BY <1>1, <3>1
  <2> QED
    BY <2>1, <2>2 DEF GenerationOrder
<1>9. StopIsFinal'
  <2> SUFFICES ASSUME NEW n \in 1..MaxOps, NEW j \in Kinds,
                      Mentioned(n, j, row.gen)', j # "start"
               PROVE  Past'
    BY DEF StopIsFinal
  <2>1. CASE n = nextOp
    <3>1. j = k
      BY <1>1, <1>2, <1>3, <2>1
    <3> QED
      BY <3>1
  <2>2. CASE n # nextOp
    <3>1. Mentioned(n, j, row'.gen)
      BY <1>2, <2>2
    <3>2. CASE row'.gen = row.gen
      BY <3>1, <3>2 DEF Related, StopIsFinal
    <3>3. CASE row'.gen # row.gen
      <4>1. \A s \in Snapshots : s.gen <= row.gen /\ s.gen \in Nat
        BY SnapshotsType DEF Related, GenerationOrder, Rows, Generations
      <4>2. \A o \in OpIds : wf[o].gen <= row.gen /\ wf[o].gen \in Nat
        BY RunsType DEF Related, GenerationOrder, Generations
      <4> QED
        BY <1>1, <3>1, <3>3, <4>1, <4>2 DEF Mentioned
    <3> QED
      BY <3>2, <3>3
  <2> QED
    BY <2>1, <2>2
<1>10. RowShape'
  BY <1>1 DEF Related, RowShape
<1>11. NobodyAhead'
  <2>1. \A o \in OpIds : o[1] = nextOp => wf'[o].pc = "none"
    BY <1>1, <1>4
  <2>2. \A s \in Snapshots' :
          s.op # None /\ s.op[1] = nextOp => s.op[2] <= 0
    <3> SUFFICES ASSUME NEW s \in Snapshots', s.op # None, s.op[1] = nextOp
                 PROVE  s.op[2] <= 0
      OBVIOUS
    <3>1. s \notin Snapshots
      BY <1>1, <1>5
    <3> QED
      BY <3>1
  <2>3. row'.op[1] = nextOp /\ row'.op[2] = 0
    OBVIOUS
  <2> QED
    BY <2>1, <2>2, <2>3 DEF NobodyAhead
<1> DEFINE new == <<nextOp, 0>>
<1>12. ASSUME NEW o \in OpIds, NEW g, Starting(o, g)'
       PROVE  \/ Starting(o, g) /\ o # new
              \/ o = new /\ g = row'.gen /\ k = "start"
  <2>1. new \in OpIds /\ wf[new].pc = "none"
    BY <1>1, <1>4 DEF OpIds
  <2>2. ASSUME NEW s \in Snapshots', s.op = o, s.kind = "start", s.gen = g
        PROVE  (Named(o, g) /\ o # new) \/ (o = new /\ g = row'.gen /\ k = "start")
    <3>1. CASE s \in Snapshots
      BY <1>1, <1>5, <2>2, <3>1, NoneIsNew DEF Named
    <3>2. CASE s \notin Snapshots
      BY <2>2, <3>2
    <3> QED
      BY <3>1, <3>2
  <2>3. ASSUME NEW p \in OpIds, wf'[p].pc = "activate", NextId(p) = o,
               wf'[p].kind = "start", wf'[p].gen = g
        PROVE  Named(o, g) /\ o # new
    <3>1. p[2] \in Nat /\ o[2] = p[2] + 1
      BY <2>3 DEF NextId, OpIds
    <3> QED
      BY <2>3, <3>1 DEF Named
  <2>4. CASE Live(o)' /\ wf'[o].pc \notin Passing /\ wf'[o].kind = "start"
             /\ wf'[o].gen = g
    BY <2>1, <2>4 DEF Starting, Live
  <2>5. CASE wf'[o].pc = "none" /\ Named(o, g)'
    <3>1. (Named(o, g) /\ o # new) \/ (o = new /\ g = row'.gen /\ k = "start")
      BY <2>2, <2>3, <2>5 DEF Named
    <3> QED
      BY <2>5, <3>1 DEF Starting
  <2> QED
    BY <1>12, <2>4, <2>5 DEF Starting
<1>13. ASSUME NEW o \in OpIds, Starting(o, row'.gen), k = "start" PROVE FALSE
  <2>1. CASE row'.gen = row.gen
    <3>1. row.op # None /\ wf[row.op].pc \in Terminal /\ ~Past
      BY <1>13, <2>1 DEF Past
    <3>2. o = row.op
      BY <1>13, <2>1, <3>1 DEF Related, OwnerStarts
    <3> QED
      BY <1>13, <3>1, <3>2 DEF Starting, Live, Terminal
  <2>2. CASE row'.gen # row.gen
    <3>1. \A s \in Snapshots : s.gen <= row.gen /\ s.gen \in Nat
      BY SnapshotsType DEF Related, GenerationOrder, Rows, Generations
    <3>2. \A p \in OpIds : wf[p].gen <= row.gen /\ wf[p].gen \in Nat
      BY RunsType DEF Related, GenerationOrder, Generations
    <3> QED
      BY <1>1, <1>13, <2>2, <3>1, <3>2 DEF Starting, Named
  <2> QED
    BY <2>1, <2>2
<1>14. OneStarter'
  BY <1>12, <1>13 DEF Related, OneStarter
<1>15. OwnerStarts'
  <2> SUFFICES ASSUME ~Past', NEW o \in OpIds, NEW g, g = row'.gen, Starting(o, g)'
               PROVE  o = row'.op
    BY DEF OwnerStarts
  <2>1. k = "start"
    <3>1. CASE row'.gen = row.gen
      BY <3>1
    <3> QED
      BY <3>1
  <2> QED
    BY <1>12, <1>13, <2>1
<1> QED
  BY <1>6, <1>7, <1>8, <1>9, <1>10, <1>11, <1>14, <1>15 DEF Related
\* What a claim writes, field by field.
LEMMA ClaimedRowIs ==
    ASSUME TypeInv, NEW kind \in Kinds, NEW s \in Rows
    PROVE  /\ ClaimedRow(kind, s).gen = ClaimedGeneration(kind, s)
           /\ ClaimedRow(kind, s).cleanup =
                IF kind = "start" THEN CleanupFor(s) ELSE s.cleanup
           /\ ClaimedRow(kind, s).op = <<nextOp, 0>>
           /\ ClaimedRow(kind, s).kind = kind
           /\ ClaimedRow(kind, s).status # "gone"
           /\ ClaimedRow(kind, s).rs # "ready"
<1>1. row \in Rows
  BY DEF TypeInv, TypeOK
<1> DEFINE a == IF kind = "delete" THEN "deleting" ELSE "provisioning"
           b == IF kind = "start" THEN "queued" ELSE "stopping"
           c == IF kind = "start" THEN CleanupFor(s) ELSE s.cleanup
<1>2. ClaimedRow(kind, s) =
        [row EXCEPT !.status = a, !.rs = b, !.gen = ClaimedGeneration(kind, s),
                    !.cleanup = c, !.op = <<nextOp, 0>>, !.kind = kind,
                    !.lease = "held"]
  BY DEF ClaimedRow
<1>3. a # "gone" /\ b # "ready" /\ c = IF kind = "start" THEN CleanupFor(s) ELSE s.cleanup
  OBVIOUS
<1> HIDE DEF a, b, c
<1>4. /\ ClaimedRow(kind, s).gen = ClaimedGeneration(kind, s)
      /\ ClaimedRow(kind, s).cleanup = c /\ ClaimedRow(kind, s).op = <<nextOp, 0>>
      /\ ClaimedRow(kind, s).kind = kind /\ ClaimedRow(kind, s).status = a
      /\ ClaimedRow(kind, s).rs = b
  BY <1>1, <1>2 DEF Rows
<1> QED
  BY <1>3, <1>4

LEMMA ClaimRelated ==
    ASSUME TypeInv, TypeInv', Related, NEW r \in Requests, ClaimOperation(r)
    PROVE  Related'
<1> DEFINE s == req[r].seen
           kind == req[r].kind
<1>1. /\ req \in [Requests -> Calls] /\ req[r] \in Calls /\ s \in Rows /\ kind \in Kinds
      /\ s \in Snapshots /\ row \in Rows /\ row.gen \in Nat /\ nextOp \in Nat \ {0}
      /\ (row.op = None <=> row.kind = None)
  BY SnapshotsType DEF TypeInv, TypeOK, Calls, Rows, Generations
<1>2. UNCHANGED <<wf, cron>>
  BY DEF ClaimOperation
<1>3. CASE ClaimMatches(s) /\ WithinBounds(kind, s)
  <2>1. /\ row' = ClaimedRow(kind, s) /\ nextOp' = nextOp + 1
        /\ req' = [req EXCEPT ![r].pc = "claimed", ![r].seen = Job(row')]
    BY <1>3 DEF ClaimOperation
  <2>2. /\ row'.gen = ClaimedGeneration(kind, s)
        /\ row'.cleanup = IF kind = "start" THEN CleanupFor(s) ELSE s.cleanup
        /\ row'.op = <<nextOp, 0>> /\ row'.kind = kind
        /\ row'.status # "gone" /\ row'.rs # "ready"
    BY <1>1, <2>1, ClaimedRowIs
  <2>3. s.gen = row.gen /\ Older(s.cleanup, s.gen)
    BY <1>1, <1>3 DEF ClaimMatches, Related, GenerationOrder
  <2>4. row'.gen = IF kind = "start" THEN row.gen + 1 ELSE row.gen
    BY <2>2, <2>3 DEF ClaimedGeneration
  <2>5. Older(row'.cleanup, row'.gen)
    <3>1. s.cleanup # None => s.cleanup \in Nat
      BY <1>1 DEF Rows, Generations
    <3> QED
      BY <1>1, <2>2, <2>3, <2>4, <3>1 DEF Older, CleanupFor
  <2>6. /\ \A q \in Requests : q # r => req'[q] = req[q]
        /\ req'[r].seen = Job(row')
    BY <1>1, <2>1 DEF Calls
  <2>7. /\ Job(row').op = row'.op /\ Job(row').kind = row'.kind
        /\ Job(row').gen = row'.gen /\ Job(row').cleanup = row'.cleanup
    BY DEF Job, FreshRow
  <2>8. \A t \in Snapshots' :
          \/ t \in Snapshots
          \/ /\ t.op = <<nextOp, 0>> /\ t.kind = kind /\ t.gen = row'.gen
             /\ Older(t.cleanup, t.gen)
    BY <1>2, <2>2, <2>5, <2>6, <2>7 DEF Snapshots
  <2>9. kind # "start" => Past'
    BY <2>2 DEF Past
  <2>10. nextOp <= MaxOps
    BY <1>1, <1>3 DEF WithinBounds
  <2>11. row.gen <= row'.gen /\ (row'.gen # row.gen => kind = "start")
         /\ (row'.gen = row.gen => kind # "start") /\ Exists'
    BY <1>1, <2>2, <2>4 DEF Exists
  <2> HIDE DEF s, kind
  <2> QED
    BY <1>1, <1>2, <2>1, <2>2, <2>8, <2>9, <2>10, <2>11, FreshRelated
<1>4. CASE ~(ClaimMatches(s) /\ WithinBounds(kind, s))
  <2>1. UNCHANGED <<row, nextOp>> /\
        (req' = [req EXCEPT ![r].pc = "load"] \/ req' = [req EXCEPT ![r] = NoCall])
    BY <1>4 DEF ClaimOperation
  <2>2. \A q \in Requests : req'[q].seen \in {req[q].seen, FreshRow, row}
    BY <1>1, <2>1 DEF Calls, NoCall
  <2>3. (\A p \in OpIds : RunKept(p)) /\ Alike(row', row)
    BY <1>1, <1>2, <2>1 DEF RunKept, Alike
  <2> QED
    BY <1>2, <2>1, <2>2, <2>3, SameRowIsCalm, CopiesRelated
<1> QED
  BY <1>3, <1>4

LEMMA CronRelated ==
    ASSUME TypeInv, TypeInv', Related, KindsOfSteps, LeaseExpires \/ CronStep
    PROVE  Related' /\ KindsOfSteps'
<1>1. /\ row \in Rows /\ row.gen \in Nat /\ (row.op = None <=> row.kind = None)
      /\ cron \in [pc : {"idle", "scanned", "recreate"}, seen : Rows]
      /\ cron.seen \in Snapshots /\ row \in Snapshots /\ RowShape
      /\ nextOp \in Nat \ {0} /\ NoScan.seen = FreshRow
  BY SnapshotsType DEF TypeInv, TypeOK, Rows, Generations, Related, NoScan
<1>2. UNCHANGED req
  BY DEF LeaseExpires, CronStep, Scan, Inspect, Recreate
<1>3. ASSUME UNCHANGED nextOp, row' \in {row, [row EXCEPT !.lease = "held"],
                                         [row EXCEPT !.lease = "expired"]},
             cron'.seen \in {cron.seen, FreshRow, Job(row)},
             \A p \in OpIds : RunKept(p)
      PROVE  Related'
  <2>1. /\ row'.gen = row.gen /\ row'.op = row.op /\ row'.kind = row.kind
        /\ row'.status = row.status /\ row'.cleanup = row.cleanup /\ row'.rs = row.rs
    BY <1>1, <1>3 DEF Rows
  <2>2. CalmRow /\ Alike(row', row)
    BY <1>1, <2>1 DEF CalmRow, Alike, Past, RowShape, Exists
  <2> QED
    BY <1>2, <1>3, <2>2, CopiesRelated
<1>4. CASE LeaseExpires
  BY <1>3, <1>4, IdleKeeps DEF LeaseExpires
<1>5. CASE Scan
  BY <1>3, <1>5, IdleKeeps DEF Scan
<1>6. CASE Recreate
  <2>1. cron.seen.kind \in Kinds /\ (Queued(cron.seen) \/ NotQueued(cron.seen))
    BY <1>6 DEF Recreate, TypeInv, JobsOK
  <2> QED
    BY <1>1, <1>3, <1>6, <2>1, QueuedKeeps DEF Recreate
<1>7. CASE Inspect /\ UNCHANGED nextOp
  <2>1. UNCHANGED wf /\ cron.pc = "scanned"
    BY <1>7 DEF Inspect
  <2>2. /\ row' \in {row, [row EXCEPT !.lease = "held"]}
        /\ cron'.seen \in {cron.seen, FreshRow}
    BY <1>1, <1>7 DEF Inspect
  <2> QED
    BY <1>3, <1>7, <2>1, <2>2, IdleKeeps
<1>8. CASE Inspect /\ nextOp' # nextOp
  <2> DEFINE s == cron.seen
             k == cron.seen.kind
  <2>1. /\ nextOp <= MaxOps /\ nextOp' = nextOp + 1 /\ StillOwned(s) /\ UNCHANGED wf
        /\ row' = [row EXCEPT !.op = <<nextOp, 0>>, !.lease = "held"]
        /\ cron' = [pc |-> "recreate", seen |-> [s EXCEPT !.op = <<nextOp, 0>>]]
    BY <1>8 DEF Inspect
  <2>2. s.op \in OpIds /\ s \in Rows /\ k \in Kinds
    BY <1>1, <1>8 DEF Inspect, TypeInv, JobsOK
  <2>3. /\ row.op = s.op /\ row.gen = s.gen /\ row.op # None /\ s.op[1] \in 1..MaxOps
        /\ row.kind \in Kinds /\ row.gen \in Generations /\ Exists
    BY <1>1, <2>1, <2>2, NoneIsNew DEF StillOwned, Rows, OpIds
  <2>4. Mentioned(s.op[1], k, row.gen) /\ Mentioned(s.op[1], row.kind, row.gen)
    BY <1>1, <2>2, <2>3 DEF Mentioned
  <2>5. row.kind = k
    BY <2>2, <2>3, <2>4 DEF Related, OneMeaning
  <2>6. k # "start" => Past
    BY <2>2, <2>3, <2>4 DEF Related, StopIsFinal
  <2>7. /\ row'.gen = row.gen /\ row'.op = <<nextOp, 0>> /\ row'.kind = k
        /\ row'.status = row.status /\ row'.cleanup = row.cleanup /\ row'.rs = row.rs
    BY <1>1, <2>1, <2>5 DEF Rows
  <2>8. /\ cron'.seen.op = <<nextOp, 0>> /\ cron'.seen.kind = k
        /\ cron'.seen.gen = row.gen /\ cron'.seen.cleanup = s.cleanup
    BY <2>1, <2>2, <2>3 DEF Rows
  <2>9. Older(s.cleanup, row.gen) /\ Older(row.cleanup, row.gen)
    BY <1>1, <2>3 DEF Related, GenerationOrder
  <2>10. \A t \in Snapshots' :
           \/ t \in Snapshots
           \/ /\ t.op = <<nextOp, 0>> /\ t.kind = k /\ t.gen = row'.gen
              /\ Older(t.cleanup, t.gen)
    BY <1>2, <2>7, <2>8, <2>9 DEF Snapshots
  <2>11. ((Past \/ k # "start") => Past') /\ wf[row.op].pc \in Terminal
    BY <1>8, <2>3, <2>5, <2>6, <2>7 DEF Past, Inspect, Replaceable
  <2>12. row'.rs # "ready" /\ Exists'
    BY <1>1, <2>3, <2>7 DEF RowShape, Exists
  <2>13. Related'
    <3> HIDE DEF s, k
    <3> QED
      BY <1>1, <2>1, <2>2, <2>3, <2>7, <2>10, <2>11, <2>12, FreshRelated
  <2> QED
    BY <2>1, <2>13, IdleKeeps
<1> QED
  BY <1>4, <1>5, <1>6, <1>7, <1>8 DEF CronStep

LEMMA PowerOffRelated ==
    ASSUME TypeInv, TypeInv', Related, KindsOfSteps, PowerOff
    PROVE  Related' /\ KindsOfSteps'
BY IdleKeeps, QuietRelated DEF PowerOff

\* Every step keeps the relations.
LEMMA StepRelated ==
    ASSUME TypeInv, TypeInv', Related, KindsOfSteps, [Next]_vars
    PROVE  Related' /\ KindsOfSteps'
<1>1. CASE UNCHANGED vars
  BY <1>1, IdleKeeps, QuietRelated DEF vars
<1>2. ASSUME NEW r \in Requests,
             Reserve(r) \/ Ask(r) \/ Cancel(r) \/ RequestStep(r) \/ RequestDies(r)
      PROVE  Related' /\ KindsOfSteps'
  <2>1. CASE ClaimOperation(r)
    <3>1. UNCHANGED wf
      BY <2>1 DEF ClaimOperation
    <3> QED
      BY <2>1, <3>1, ClaimRelated, IdleKeeps
  <2>2. CASE RequestCopies(r)
    BY <2>2, RequestRelated
  <2> QED
    BY <1>2, <2>1, <2>2 DEF RequestStep, RequestCopies
<1>3. CASE LeaseExpires \/ CronStep
  BY <1>3, CronRelated
<1>4. CASE PowerOff
  BY <1>4, PowerOffRelated
<1>5. ASSUME NEW o \in OpIds, RunStep(o) \/ Heartbeat(o) \/ Handoff(o)
      PROVE  Related' /\ KindsOfSteps'
  <2>1. CASE Handoff(o)
    BY <2>1, HandoffRelated
  <2>2. CASE RunOnlyStep(o)
    BY <2>2, RunOnlyRelated, StepsKeep
  <2>3. CASE RowStep(o)
    BY <2>3, RowStepRelated, StepsKeep
  <2> QED
    BY <1>5, <2>1, <2>2, <2>3 DEF RunStep, StartStep, StopStep, FailureStep,
       RunOnlyStep, RowStep
<1> QED
  BY <1>1, <1>2, <1>3, <1>4, <1>5 DEF Next
-----------------------------------------------------------------------------
(* What a step may do to the row, to the runs at "undo" and "complete", and *)
(* to the VM of the row's generation.                                       *)

RowStays ==
    /\ row'.gen = row.gen /\ row'.op = row.op /\ (Past => Past')
    /\ row'.rs = "ready" => row.rs = "ready"
RowReleased ==
    \E o \in OpIds :
        /\ Current(o) /\ wf[o].pc \in {"complete", "finish", "erase"}
        /\ row'.gen = row.gen /\ row'.op = None /\ (Past => Past')
        /\ row'.rs = "ready" => wf[o].pc = "complete" /\ UNCHANGED vm
RowClaimed ==
    /\ row'.op = <<nextOp, 0>> /\ row'.rs # "ready" /\ UNCHANGED <<wf, vm>>
    /\ (row'.gen = row.gen /\ Past') \/ row'.gen = row.gen + 1
RowReplaced ==
    /\ row.op \in OpIds /\ wf[row.op].pc \in Terminal
    /\ row'.op = <<nextOp, 0>> /\ row'.rs # "ready" /\ UNCHANGED <<wf, vm>>
    /\ row'.gen = row.gen /\ (Past => Past')
RowHandedOver ==
    \E o \in OpIds :
        /\ Current(o) /\ row'.op = NextId(o) /\ row'.rs # "ready" /\ UNCHANGED vm
        /\ row'.gen = row.gen /\ (Past => Past') /\ wf'[o].pc = "activate"
        /\ \A p \in OpIds : p # o => wf'[p] = wf[p]

LEMMA RowMoves ==
    ASSUME TypeInv, Related, KindsOfSteps, [Next]_vars
    PROVE  RowStays \/ RowReleased \/ RowClaimed \/ RowReplaced \/ RowHandedOver
<1>1. /\ row \in Rows /\ wf \in [OpIds -> Runs] /\ req \in [Requests -> Calls]
      /\ RowShape /\ (row.op = None <=> row.kind = None)
  BY DEF TypeInv, TypeOK, Related
<1>2. ASSUME UNCHANGED row PROVE RowStays
  BY <1>2 DEF RowStays, Past
<1>3. ASSUME row' \in {[row EXCEPT !.lease = "held"], [row EXCEPT !.lease = "expired"],
                       [row EXCEPT !.cleanup = None],
                       [row EXCEPT !.status = "failed", !.rs = "failed",
                                   !.lease = "none"],
                       [Renewed EXCEPT !.rs = "provisioning", !.disk = TRUE]}
      PROVE  RowStays
  <2>1. /\ row'.gen = row.gen /\ row'.op = row.op /\ row'.kind = row.kind
        /\ row'.rs \in {row.rs, "failed", "provisioning"}
    BY <1>1, <1>3 DEF Rows, Renewed
  <2> QED
    BY <2>1 DEF RowStays, Past
<1>4. ASSUME NEW r \in Requests, RequestCopies(r) PROVE RowStays
  BY <1>2, <1>3, <1>4 DEF RequestCopies, Reserve, Ask, LoadRow, Cancel, Join, Decline,
     Reopen, Dispatch, MarkQueueFailure, RequestDies, RowStays, Past
<1>5. ASSUME NEW r \in Requests, ClaimOperation(r) PROVE RowStays \/ RowClaimed
  <2> DEFINE s == req[r].seen
             kind == req[r].kind
  <2>1. s \in Rows /\ kind \in Kinds
    BY <1>1 DEF Calls
  <2>2. CASE ClaimMatches(s) /\ WithinBounds(kind, s)
    <3>1. row' = ClaimedRow(kind, s) /\ UNCHANGED <<wf, vm>> /\ s.gen = row.gen
      BY <1>5, <2>2 DEF ClaimOperation, ClaimMatches, azure
    <3>2. /\ row'.gen = ClaimedGeneration(kind, s) /\ row'.op = <<nextOp, 0>>
          /\ row'.kind = kind /\ row'.rs # "ready"
      BY <2>1, <3>1, ClaimedRowIs
    <3> QED
      BY <3>1, <3>2 DEF RowClaimed, ClaimedGeneration, Past
  <2>3. CASE ~(ClaimMatches(s) /\ WithinBounds(kind, s))
    BY <1>2, <1>5, <2>3 DEF ClaimOperation, RowStays, Past
  <2> QED
    BY <2>2, <2>3
<1>6. CASE LeaseExpires \/ CronStep
  <2>1. CASE row' \in {row, [row EXCEPT !.lease = "held"], [row EXCEPT !.lease = "expired"]}
    BY <1>2, <1>3, <2>1
  <2>2. CASE /\ Inspect /\ Replaceable(cron.seen.op) /\ StillOwned(cron.seen)
             /\ row' = [row EXCEPT !.op = <<nextOp, 0>>, !.lease = "held"]
    <3>1. /\ row.op = cron.seen.op /\ cron.seen.op \in OpIds /\ UNCHANGED <<wf, vm>>
          /\ wf[row.op].pc \in Terminal
      BY <2>2 DEF Inspect, StillOwned, TypeInv, JobsOK, Replaceable, azure
    <3>2. /\ row'.gen = row.gen /\ row'.op = <<nextOp, 0>> /\ row'.kind = row.kind
          /\ row'.rs = row.rs
      BY <1>1, <2>2 DEF Rows
    <3>3. row.rs # "ready"
      BY <1>1, <3>1, NoneIsNew DEF RowShape
    <3> QED
      BY <3>1, <3>2, <3>3 DEF RowReplaced, Past
  <2> QED
    BY <1>6, <2>1, <2>2 DEF LeaseExpires, CronStep, Scan, Recreate, Inspect
<1>7. ASSUME NEW o \in OpIds, RowStep(o) PROVE RowStays \/ RowReleased
  <2>1. CASE Record(o) \/ Provision(o) \/ Heartbeat(o)
    <3>1. CASE Provision(o)
      <4>1. row' = row \/ row' = [Renewed EXCEPT !.rs = "provisioning", !.disk = TRUE]
        BY <3>1 DEF Provision
      <4> QED
        BY <1>2, <1>3, <4>1
    <3>2. CASE Record(o) \/ Heartbeat(o)
      BY <1>2, <1>3, <3>2 DEF Record, Heartbeat, Renewed
    <3> QED
      BY <2>1, <3>1, <3>2
  <2>2. CASE Boot(o) /\ row' # row
    <3>1. row' = [Renewed EXCEPT !.rs = "booting", !.vm = wf[o].gen]
      BY <2>2 DEF Boot
    <3>2. /\ row'.gen = row.gen /\ row'.op = row.op /\ row'.kind = row.kind
          /\ row'.rs = "booting"
      BY <1>1, <3>1 DEF Renewed, Rows
    <3> QED
      BY <3>2 DEF RowStays, Past
  <2>3. CASE Mark(o) /\ row' # row
    <3> DEFINE status == FailedStatus(wf[o].kind)
               v == IF wf[o].undone THEN None ELSE row.vm
               c == IF wf[o].undone THEN None ELSE row.cleanup
    <3>1. row' = [row EXCEPT !.status = status, !.rs = "failed", !.lease = "none",
                             !.vm = v, !.cleanup = c]
      BY <2>3 DEF Mark
    <3> HIDE DEF status, v, c
    <3>2. /\ row'.gen = row.gen /\ row'.op = row.op /\ row'.kind = row.kind
          /\ row'.rs = "failed"
      BY <1>1, <3>1 DEF Rows
    <3> QED
      BY <3>2 DEF RowStays, Past
  <2>4. CASE (Complete(o) \/ Finish(o) \/ Erase(o)) /\ row' # row
    <3>1. /\ Current(o) /\ wf[o].pc \in {"complete", "finish", "erase"} /\ UNCHANGED vm
      BY <2>4 DEF Complete, Finish, Erase, azure
    <3>2. /\ row'.gen = row.gen /\ row'.op = None
          /\ row'.rs = "ready" => wf[o].pc = "complete"
      <4>1. CASE Complete(o)
        BY <1>1, <2>4, <4>1 DEF Complete, Released, Rows
      <4>2. CASE Finish(o)
        <5>1. row' = [Released EXCEPT !.status = "stopped", !.rs = "stopped",
                                      !.vm = None]
          BY <2>4, <4>2 DEF Finish
        <5> QED
          BY <1>1, <5>1 DEF Released, Rows
      <4>3. CASE Erase(o)
        <5>1. row' = [FreshRow EXCEPT !.status = "gone", !.gen = row.gen]
          BY <2>4, <4>3 DEF Erase
        <5> QED
          BY <5>1 DEF FreshRow
      <4> QED
        BY <2>4, <4>1, <4>2, <4>3
    <3>3. Past => Past'
      BY <1>7, RowStepCalm DEF CalmRow
    <3> QED
      BY <3>1, <3>2, <3>3 DEF RowReleased
  <2> QED
    BY <1>2, <1>7, <2>1, <2>2, <2>3, <2>4 DEF RowStep, RowStays, Past
<1>8. ASSUME NEW o \in OpIds, Handoff(o) PROVE RowStays \/ RowHandedOver
  <2>1. CASE UNCHANGED row
    BY <2>1 DEF RowStays, Past
  <2>2. CASE row' # row
    <3>1. /\ Current(o) /\ row' = [Renewed EXCEPT !.op = NextId(o)] /\ UNCHANGED vm
      BY <1>8, <2>2 DEF Handoff, azure
    <3>2. PICK compact \in Compacts(o) :
             wf' = [wf EXCEPT
               ![o].pc = "activate", ![o].cleanup = HandedCleanup(o, compact),
               ![o].resume = IF compact THEN "input"
                             ELSE IF wf[o].pc = "undo" THEN "failed" ELSE wf[o].pc]
      BY <1>8, <2>2, Zenon DEF Handoff
    <3> DEFINE c == HandedCleanup(o, compact)
               back == IF compact THEN "input"
                       ELSE IF wf[o].pc = "undo" THEN "failed" ELSE wf[o].pc
    <3>3. wf' = [wf EXCEPT ![o].pc = "activate", ![o].cleanup = c, ![o].resume = back]
      BY <3>2, Zenon
    <3> HIDE DEF c, back
    <3>4. wf'[o].pc = "activate" /\ \A p \in OpIds : p # o => wf'[p] = wf[p]
      BY <1>1, <3>3 DEF Runs
    <3>5. /\ row'.gen = row.gen /\ row'.op = NextId(o) /\ row'.kind = row.kind
          /\ row'.rs = row.rs
      BY <1>1, <3>1 DEF Renewed, Rows
    <3>6. row.rs # "ready"
      BY <1>1, <3>1, NoneIsNew DEF RowShape, Current
    <3> QED
      BY <3>1, <3>4, <3>5, <3>6 DEF RowHandedOver, Past
  <2> QED
    BY <2>1, <2>2
<1>9. ASSUME NEW o \in OpIds, RunOnlyStep(o) PROVE UNCHANGED row
  BY <1>9 DEF RunOnlyStep, Input, Cleanup, PrepareDisk, Deploy, Session, Health, Policy,
         Initialize, Teardown, DeleteDisk, Failed, Undo, Release, ContinuationStep,
         Activate, Signal, WaitTimesOut
<1>10. PowerOff \/ UNCHANGED vars => UNCHANGED row
  BY DEF PowerOff, vars
<1>11. ASSUME NEW r \in Requests,
              Reserve(r) \/ Ask(r) \/ Cancel(r) \/ RequestStep(r) \/ RequestDies(r)
       PROVE  RowStays \/ RowClaimed
  BY <1>4, <1>5, <1>11 DEF RequestStep, RequestCopies
<1>12. ASSUME NEW o \in OpIds, RunStep(o) \/ Heartbeat(o) \/ Handoff(o)
       PROVE  RowStays \/ RowReleased \/ RowHandedOver
  <2>1. RunOnlyStep(o) \/ RowStep(o) \/ Handoff(o)
    BY <1>12 DEF RunStep, StartStep, StopStep, FailureStep, RunOnlyStep, RowStep
  <2>2. CASE RunOnlyStep(o)
    BY <1>9, <2>2 DEF RowStays, Past
  <2> QED
    BY <1>7, <1>8, <2>1, <2>2
<1> QED
  BY <1>2, <1>6, <1>10, <1>11, <1>12 DEF Next

\* Run o does not arrive at the two steps that matter to the VM.
NoArrival(o) ==
    wf'[o].pc \in {"complete", "undo"} =>
        wf'[o].pc = wf[o].pc /\ wf'[o].gen = wf[o].gen

\* It arrives at "complete" when the VM of its generation answered.
Answered(o) ==
    /\ wf'[o].pc = "complete" /\ wf'[o].gen = wf[o].gen
    /\ vm[wf[o].gen] = "on" /\ UNCHANGED <<row, vm>>

\* It arrives at "undo" when the row is not left to others.
TakesBlame(o) ==
    /\ wf'[o].pc = "undo" /\ wf'[o].gen = wf[o].gen
    /\ ~LeftToOthers(o) /\ UNCHANGED row

LEMMA GotoArrival ==
    ASSUME TypeInv, NEW o \in OpIds, NEW pc, Goto(o, pc), pc \notin {"complete", "undo"}
    PROVE  \A p \in OpIds : NoArrival(p)
<1>1. wf \in [OpIds -> Runs] /\ wf[o] \in Runs
  BY DEF TypeInv, TypeOK
<1>2. \A p \in OpIds : p # o => wf'[p] = wf[p]
  BY <1>1 DEF Goto
<1>3. CASE pc \in Terminal
  <2>1. wf'[o] = [NoRun EXCEPT !.pc = pc]
    BY <1>1, <1>3 DEF Goto
  <2> QED
    BY <1>2, <2>1 DEF NoArrival, NoRun
<1>4. CASE pc \notin Terminal
  <2>1. wf'[o] = [wf[o] EXCEPT !.pc = pc]
    BY <1>1, <1>4 DEF Goto
  <2>2. wf'[o].pc = pc
    BY <1>1, <2>1 DEF Runs
  <2> QED
    BY <1>2, <2>2 DEF NoArrival
<1> QED
  BY <1>3, <1>4

LEMMA RunMoves ==
    ASSUME TypeInv, KindsOfSteps, [Next]_vars, NEW p \in OpIds
    PROVE  NoArrival(p) \/ Answered(p) \/ TakesBlame(p)
<1>1. wf \in [OpIds -> Runs] /\ req \in [Requests -> Calls]
  BY DEF TypeInv, TypeOK
<1>2. ASSUME UNCHANGED wf PROVE NoArrival(p)
  BY <1>2 DEF NoArrival
<1>3. ASSUME NEW s, Queued(s) \/ NotQueued(s) PROVE NoArrival(p)
  <2>1. UNCHANGED wf \/ wf' = [wf EXCEPT ![s.op] = NewRun(s)]
    BY <1>3 DEF Queued, NotQueued
  <2>2. NewRun(s).pc = "input"
    BY DEF NewRun, NoRun
  <2>3. CASE wf' = [wf EXCEPT ![s.op] = NewRun(s)]
    BY <1>1, <2>2, <2>3 DEF NoArrival
  <2> QED
    BY <1>2, <2>1, <2>3
<1>4. ASSUME NEW r \in Requests,
             Reserve(r) \/ Ask(r) \/ Cancel(r) \/ RequestStep(r) \/ RequestDies(r)
      PROVE  NoArrival(p)
  <2>1. UNCHANGED wf \/ \E s : Queued(s) \/ NotQueued(s)
    BY <1>4 DEF Reserve, Ask, Cancel, RequestStep, RequestDies, LoadRow, Join, Decline,
       Reopen, ClaimOperation, Dispatch, MarkQueueFailure
  <2> QED
    BY <1>2, <1>3, <2>1
<1>5. CASE LeaseExpires \/ CronStep \/ PowerOff \/ UNCHANGED vars
  <2>1. UNCHANGED wf \/ \E s : Queued(s) \/ NotQueued(s)
    BY <1>5 DEF LeaseExpires, CronStep, Scan, Inspect, Recreate, PowerOff, vars
  <2> QED
    BY <1>2, <1>3, <2>1
<1>6. ASSUME NEW o \in OpIds, RunStep(o) \/ Heartbeat(o) \/ Handoff(o)
      PROVE  NoArrival(p) \/ Answered(p) \/ TakesBlame(p)
  <2>1. wf[o] \in Runs
    BY <1>1
  <2>2. ASSUME NEW pc \in Steps \ {"complete", "undo"}, Goto(o, pc) PROVE NoArrival(p)
    BY <2>2, GotoArrival
  <2>3. CASE Initialize(o)
    <3>1. CASE vm[wf[o].gen] = "on" /\ Goto(o, "complete")
      <4>1. wf' = [wf EXCEPT ![o] = [wf[o] EXCEPT !.pc = "complete"]]
        BY <3>1 DEF Goto, Terminal
      <4>2. /\ wf'[o].pc = "complete" /\ wf'[o].gen = wf[o].gen
            /\ \A q \in OpIds : q # o => wf'[q] = wf[q]
        BY <1>1, <2>1, <4>1 DEF Runs
      <4> QED
        BY <2>3, <3>1, <4>2 DEF Initialize, azure, Answered, NoArrival
    <3>2. CASE Goto(o, "failed")
      BY <2>2, <3>2 DEF Steps
    <3> QED
      BY <2>3, <3>1, <3>2 DEF Initialize, Fails
  <2>4. CASE Failed(o)
    <3>1. CASE Goto(o, "undo") /\ ~LeftToOthers(o)
      <4>1. wf' = [wf EXCEPT ![o] = [wf[o] EXCEPT !.pc = "undo"]]
        BY <3>1 DEF Goto, Terminal
      <4>2. /\ wf'[o].pc = "undo" /\ wf'[o].gen = wf[o].gen
            /\ \A q \in OpIds : q # o => wf'[q] = wf[q]
        BY <1>1, <2>1, <4>1 DEF Runs
      <4> QED
        BY <2>4, <3>1, <4>2 DEF Failed, TakesBlame, NoArrival
    <3>2. CASE Goto(o, "done") \/ Goto(o, "mark")
      BY <2>2, <3>2 DEF Steps, Terminal
    <3> QED
      BY <2>4, <3>1, <3>2 DEF Failed
  <2>5. CASE Input(o)
    <3>1. CASE Fails(o)
      BY <2>2, <3>1 DEF Fails, Steps
    <3>2. CASE ~Fails(o)
      <4> DEFINE snapshot == [rs |-> row.rs, vm |-> row.vm, disk |-> row.disk]
                 pc == FirstStep(wf[o])
      <4>1. wf' = [wf EXCEPT ![o].pc = pc, ![o].in = snapshot]
        BY <2>5, <3>2 DEF Input
      <4>2. pc \notin {"complete", "undo"}
        BY DEF FirstStep
      <4> HIDE DEF pc, snapshot
      <4>3. wf'[o].pc = pc /\ \A q \in OpIds : q # o => wf'[q] = wf[q]
        BY <1>1, <2>1, <4>1 DEF Runs
      <4> QED
        BY <4>2, <4>3 DEF NoArrival
    <3> QED
      BY <3>1, <3>2
  <2>6. CASE (StartStep(o) /\ ~Initialize(o)) \/ Heartbeat(o)
    <3>1. UNCHANGED wf \/ \E pc \in (StartSteps \cup {"failed", "done"})
                                     \ {"complete", "undo"} : Goto(o, pc)
      BY <2>6 DEF StartStep, Cleanup, Record, PrepareDisk, Provision, Deploy, Boot,
         Session, Health, Policy, Complete, Heartbeat, StartSteps, Fails, Again
    <3>2. StartSteps \cup {"failed", "done"} \subseteq Steps
      BY DEF StartSteps, Steps, HandoffPoints, Terminal
    <3> QED
      BY <1>2, <2>2, <3>1, <3>2
  <2>7. CASE StopStep(o)
    <3>1. UNCHANGED wf \/ \E pc \in StopSteps \cup {"failed", "done"} : Goto(o, pc)
      BY <2>7 DEF StopStep, Teardown, Finish, DeleteDisk, Erase, StopSteps, Fails, Again
    <3>2. StopSteps \cup {"failed", "done"} \subseteq Steps \ {"complete", "undo"}
      BY DEF StopSteps, Steps, HandoffPoints, Terminal
    <3> QED
      BY <1>2, <2>2, <3>1, <3>2
  <2>8. CASE Mark(o) \/ Release(o)
    <3>1. \E pc \in {"done", "release", "errored"} : Goto(o, pc)
      BY <2>8 DEF Mark, Release
    <3>2. {"done", "release", "errored"} \subseteq Steps \ {"complete", "undo"}
      BY DEF Steps, HandoffPoints, Terminal
    <3> QED
      BY <2>2, <3>1, <3>2
  <2>9. CASE Undo(o)
    <3>1. CASE Goto(o, "mark")
      BY <2>2, <3>1 DEF Steps
    <3>2. CASE wf' = [wf EXCEPT ![o].pc = "mark", ![o].undone = TRUE]
      <4>1. wf'[o].pc = "mark" /\ \A q \in OpIds : q # o => wf'[q] = wf[q]
        BY <1>1, <2>1, <3>2 DEF Runs
      <4> QED
        BY <4>1 DEF NoArrival
    <3> QED
      BY <2>9, <3>1, <3>2 DEF Undo
  <2>10. CASE ContinuationStep(o)
    <3> DEFINE child == NextId(o)
    <3>1. CASE \E pc \in {"failed", "signal", "errored"} : Goto(o, pc)
      <4>1. {"failed", "signal", "errored"} \subseteq Steps \ {"complete", "undo"}
        BY DEF Steps, HandoffPoints, Terminal
      <4> QED
        BY <2>2, <3>1, <4>1
    <3>2. child # o
      BY DEF NextId, OpIds
    <3>3. CASE Activate(o) /\
               wf' = [wf EXCEPT ![o].pc = "signal",
                                ![child] = [wf[o] EXCEPT !.pc = "waiting",
                                                         !.undone = FALSE]]
      <4>1. \A q \in OpIds : q # o /\ q # child => wf'[q] = wf[q]
        BY <1>1, <3>3
      <4>2. wf'[o].pc = "signal" /\ (child \in OpIds => wf'[child].pc = "waiting")
        BY <1>1, <2>1, <3>2, <3>3 DEF Runs
      <4> QED
        BY <4>1, <4>2 DEF NoArrival
    <3>4. CASE wf' = [wf EXCEPT ![o] = [NoRun EXCEPT !.pc = "done"],
                                ![child].pc = IF @ = "waiting"
                                              THEN wf[child].resume ELSE @]
      <4>1. \A q \in OpIds : q # o /\ q # child => wf'[q] = wf[q]
        BY <1>1, <3>4
      <4>2. wf'[o] = [NoRun EXCEPT !.pc = "done"]
        BY <1>1, <3>2, <3>4
      <4>3. wf'[o].pc = "done"
        BY <4>2 DEF NoRun
      <4>4. child \in OpIds =>
              /\ wf'[child].pc = IF wf[child].pc = "waiting"
                                 THEN wf[child].resume ELSE wf[child].pc
              /\ wf'[child].gen = wf[child].gen
        BY <1>1, <3>2, <3>4 DEF Runs
      <4>5. child \in OpIds => wf[child].resume \notin {"complete", "undo"}
        BY DEF KindsOfSteps, HandoffPoints
      <4> QED
        BY <4>1, <4>3, <4>4, <4>5 DEF NoArrival
    <3> QED
      BY <2>10, <3>1, <3>3, <3>4 DEF ContinuationStep, Activate, Signal, WaitTimesOut,
         Fails
  <2>11. CASE Handoff(o)
    <3>1. CASE Goto(o, "errored")
      BY <2>2, <3>1 DEF Steps, Terminal
    <3>2. CASE ~Goto(o, "errored")
      <4>1. PICK compact \in Compacts(o) :
             wf' = [wf EXCEPT
               ![o].pc = "activate", ![o].cleanup = HandedCleanup(o, compact),
               ![o].resume = IF compact THEN "input"
                             ELSE IF wf[o].pc = "undo" THEN "failed" ELSE wf[o].pc]
        BY <2>11, <3>2, Zenon DEF Handoff
      <4> DEFINE c == HandedCleanup(o, compact)
                 back == IF compact THEN "input"
                         ELSE IF wf[o].pc = "undo" THEN "failed" ELSE wf[o].pc
      <4>2. wf' = [wf EXCEPT ![o].pc = "activate", ![o].cleanup = c, ![o].resume = back]
        BY <4>1, Zenon
      <4> HIDE DEF c, back
      <4>3. wf'[o].pc = "activate" /\ \A q \in OpIds : q # o => wf'[q] = wf[q]
        BY <1>1, <2>1, <4>2 DEF Runs
      <4> QED
        BY <4>3 DEF NoArrival
    <3> QED
      BY <3>1, <3>2
  <2> QED
    BY <1>6, <2>3, <2>4, <2>5, <2>6, <2>7, <2>8, <2>9, <2>10, <2>11
       DEF RunStep, FailureStep
<1> QED
  BY <1>4, <1>5, <1>6 DEF Next

\* Whoever takes down the VM of the row's generation is the failing start that
\* owns the row, unless the generation was asked to stop.
LEMMA VmGone ==
    ASSUME TypeInv, Related, KindsOfSteps, UndoOwns, [Next]_vars,
           vm[row.gen] # "absent", vm'[row.gen] = "absent"
    PROVE  Past \/ (row.op \in OpIds /\ wf[row.op].pc = "undo")
<1>1. row.gen \in Generations /\ row.gen \in Nat /\ vm \in [Generations -> {"absent", "on", "off"}]
  BY DEF TypeInv, TypeOK, Rows, Generations
<1>2. ASSUME NEW gs, NEW gone, TearDown(gs, gone) PROVE row.gen \in gone
  BY <1>1, <1>2 DEF TearDown
<1>3. ASSUME NEW o \in OpIds, row.gen = wf[o].cleanup PROVE FALSE
  <2>1. wf[o].cleanup # None /\ wf[o].gen \in Nat
    BY <1>1, <1>3, NoneIsNew, RunsType DEF Generations
  <2>2. wf[o].cleanup < wf[o].gen /\ wf[o].gen <= row.gen
    BY <2>1 DEF Related, GenerationOrder, Older
  <2> QED
    BY <1>1, <1>3, <2>1, <2>2
<1>4. ASSUME NEW o \in OpIds, Cleanup(o) PROVE FALSE
  BY <1>2, <1>3, <1>4 DEF Cleanup
<1>5. ASSUME NEW o \in OpIds, Teardown(o) \/ Undo(o) PROVE row.gen = wf[o].gen
  <2>1. row.gen \in Targets(o)
    BY <1>2, <1>5 DEF Teardown, Undo
  <2> QED
    BY <1>3, <2>1 DEF Targets
<1>6. ASSUME NEW o \in OpIds, Teardown(o) PROVE Past
  <2>1. Live(o) /\ wf[o].kind # "start" /\ row.gen = wf[o].gen
    BY <1>5, <1>6 DEF Teardown, Live, Terminal, KindsOfSteps, KindOfStep, StopSteps
  <2>2. o[1] \in 1..MaxOps /\ wf[o].kind \in Kinds /\ Mentioned(o[1], wf[o].kind, row.gen)
    BY <2>1, RunsType DEF Mentioned
  <2> QED
    BY <2>1, <2>2 DEF Related, StopIsFinal
<1>7. ASSUME NEW o \in OpIds, Undo(o) PROVE Past \/ (row.op = o /\ wf[o].pc = "undo")
  BY <1>5, <1>7 DEF Undo, UndoOwns
<1>8. ASSUME NEW o \in OpIds, Deploy(o) PROVE FALSE
  BY <1>1, <1>8 DEF Deploy
<1>9. ~PowerOff
  BY <1>1 DEF PowerOff
<1>10. vm' # vm
  BY <1>1
<1>11. \E o \in OpIds : Cleanup(o) \/ Teardown(o) \/ Undo(o) \/ Deploy(o)
  <2>1. ASSUME NEW r \in Requests,
               Reserve(r) \/ Ask(r) \/ Cancel(r) \/ RequestStep(r) \/ RequestDies(r)
        PROVE  FALSE
    BY <1>10, <2>1 DEF Reserve, Ask, Cancel, RequestStep, RequestDies, LoadRow, Join,
       Decline, Reopen, ClaimOperation, Dispatch, MarkQueueFailure, azure
  <2>2. CASE LeaseExpires \/ CronStep \/ UNCHANGED vars
    BY <1>10, <2>2 DEF LeaseExpires, CronStep, Scan, Inspect, Recreate, vars, azure
  <2>3. ASSUME NEW o \in OpIds, RunStep(o) \/ Heartbeat(o) \/ Handoff(o)
        PROVE  Cleanup(o) \/ Teardown(o) \/ Undo(o) \/ Deploy(o)
    BY <1>10, <2>3 DEF RunStep, StartStep, StopStep, FailureStep, ContinuationStep,
       Input, Record, PrepareDisk, Provision, Boot, Session, Health, Policy, Initialize,
       Complete, Finish, DeleteDisk, Erase, Failed, Mark, Release, Activate, Signal,
       WaitTimesOut, Heartbeat, Handoff, azure
  <2> QED
    BY <1>9, <2>1, <2>2, <2>3 DEF Next
<1> QED
  BY <1>4, <1>6, <1>7, <1>8, <1>11
-----------------------------------------------------------------------------
(* The inductive invariant.                                                *)

LEMMA NewNumber ==
    ASSUME TypeInv, Related, NEW o \in OpIds, o = <<nextOp, 0>>
    PROVE  wf[o].pc = "none"
<1>1. nextOp \in Nat
  BY DEF TypeInv, TypeOK
<1> QED
  BY <1>1 DEF Related, FreshIds

LEMMA OwnerNotPast ==
    ASSUME TypeInv, Related, KindsOfSteps, NEW o \in OpIds, row.op = o,
           wf[o].pc \in StartSteps
    PROVE  ~Past /\ Exists
<1>1. Live(o) /\ wf[o].kind = "start"
  BY DEF Live, Terminal, StartSteps, KindsOfSteps, KindOfStep
<1>2. row.kind = "start"
  BY <1>1, OwnerAgrees
<1> QED
  BY <1>2 DEF Past, Related, RowShape

LEMMA UndoOwnsStep ==
    ASSUME TypeInv, TypeInv', Related, KindsOfSteps, UndoOwns, [Next]_vars
    PROVE  UndoOwns'
<1> SUFFICES ASSUME NEW o \in OpIds, wf'[o].pc = "undo", wf'[o].gen = row'.gen
             PROVE  row'.op = o \/ Past'
  BY DEF UndoOwns
<1>1. row.gen \in Nat /\ wf[o].gen \in Nat /\ wf[o].gen <= row.gen
  BY RunsType DEF TypeInv, TypeOK, Rows, Generations, Related, GenerationOrder
<1>2. CASE TakesBlame(o)
  BY <1>2 DEF TakesBlame, LeftToOthers, Related, RowShape, Past
<1>3. CASE wf[o].pc = "undo" /\ wf'[o].gen = wf[o].gen
  <2>1. CASE row'.gen = row.gen
    <3>1. row.op = o \/ Past
      BY <1>3, <2>1 DEF UndoOwns
    <3>2. CASE RowStays
      BY <3>1, <3>2 DEF RowStays
    <3>3. CASE RowReleased
      BY <1>3, <3>1, <3>3 DEF RowReleased, Current
    <3>4. CASE RowClaimed
      BY <1>1, <2>1, <3>4 DEF RowClaimed
    <3>5. CASE RowReplaced
      BY <1>3, <3>1, <3>5 DEF RowReplaced, Terminal
    <3>6. CASE RowHandedOver
      BY <3>1, <3>6 DEF RowHandedOver, Current
    <3> QED
      BY <3>2, <3>3, <3>4, <3>5, <3>6, RowMoves
  <2>2. CASE row'.gen # row.gen
    <3>1. row'.gen = row.gen + 1
      BY <2>2, RowMoves DEF RowStays, RowReleased, RowClaimed, RowReplaced,
         RowHandedOver
    <3>2. wf[o].gen = row.gen + 1
      BY <1>3, <3>1
    <3>3. ~(row.gen + 1 <= row.gen)
      BY <1>1
    <3> QED
      BY <1>1, <3>2, <3>3
  <2> QED
    BY <2>1, <2>2
<1> QED
  BY <1>2, <1>3, RunMoves DEF NoArrival, Answered

LEMMA CompleteHasVmStep ==
    ASSUME TypeInv, TypeInv', Related, KindsOfSteps, UndoOwns, CompleteHasVm, [Next]_vars
    PROVE  CompleteHasVm'
<1> SUFFICES ASSUME NEW o \in OpIds, wf'[o].pc = "complete", Current(o)'
             PROVE  vm'[row'.gen] # "absent"
  BY DEF CompleteHasVm
<1>1. row'.op = o /\ row'.gen = wf'[o].gen
  BY DEF Current
<1>2. CASE Answered(o)
  BY <1>1, <1>2 DEF Answered
<1>3. CASE wf[o].pc = "complete" /\ wf'[o].gen = wf[o].gen
  <2>1. row.op = o /\ row'.gen = row.gen
    <3>1. CASE RowStays
      BY <1>1, <3>1 DEF RowStays
    <3>2. CASE RowReleased
      BY <1>1, <3>2, NoneIsNew DEF RowReleased
    <3>3. CASE RowClaimed \/ RowReplaced
      <4>1. o = <<nextOp, 0>>
        BY <1>1, <3>3 DEF RowClaimed, RowReplaced
      <4>2. wf[o].pc = "none"
        BY <4>1, NewNumber
      <4> QED
        BY <1>3, <4>2
    <3>4. CASE RowHandedOver
      <4>1. PICK p \in OpIds : Current(p) /\ o = NextId(p)
        BY <1>1, <3>4 DEF RowHandedOver
      <4>2. row.op = p /\ p # None /\ o[1] = p[1] /\ o[2] > p[2]
        BY <4>1, NoneIsNew DEF Current, NextId, OpIds
      <4>3. wf[o].pc = "none"
        BY <4>2 DEF Related, NobodyAhead
      <4> QED
        BY <1>3, <4>3
    <3> QED
      BY <3>1, <3>2, <3>3, <3>4, RowMoves
  <2>2. ~Past /\ Exists
    BY <1>3, <2>1, OwnerNotPast DEF StartSteps
  <2>3. vm[row.gen] # "absent"
    BY <1>1, <1>3, <2>1, <2>2 DEF CompleteHasVm, Current
  <2>4. wf[row.op].pc # "undo"
    BY <1>3, <2>1
  <2> QED
    BY <2>1, <2>2, <2>3, <2>4, VmGone
<1> QED
  BY <1>2, <1>3, RunMoves DEF NoArrival, TakesBlame

LEMMA ReadyStep ==
    ASSUME TypeInv, TypeInv', Related, KindsOfSteps, UndoOwns, CompleteHasVm,
           ReadyHasVm, [Next]_vars
    PROVE  ReadyHasVm'
<1> SUFFICES ASSUME row'.rs = "ready" PROVE vm'[row'.gen] # "absent"
  BY DEF ReadyHasVm
<1>1. CASE RowStays
  <2>1. row.rs = "ready" /\ row'.gen = row.gen
    BY <1>1 DEF RowStays
  <2>2. ~Past /\ row.op = None /\ vm[row.gen] # "absent"
    BY <2>1 DEF Past, Related, RowShape, ReadyHasVm
  <2> QED
    BY <2>1, <2>2, VmGone, NoneIsNew
<1>2. CASE RowReleased
  <2>1. PICK o \in OpIds : /\ Current(o) /\ wf[o].pc = "complete" /\ UNCHANGED vm
                           /\ row'.gen = row.gen
    BY <1>2 DEF RowReleased
  <2> QED
    BY <2>1 DEF CompleteHasVm
<1>3. ~RowClaimed /\ ~RowReplaced /\ ~RowHandedOver
  BY DEF RowClaimed, RowReplaced, RowHandedOver
<1> QED
  BY <1>1, <1>2, <1>3, RowMoves

LEMMA InitInvariant == Init => IInv
<1> SUFFICES ASSUME Init PROVE IInv
  OBVIOUS
<1>1. TypeInv
  BY InitType
<1>2. /\ row = FreshRow /\ cron.seen = FreshRow
      /\ \A r \in Requests : req[r].seen = FreshRow
      /\ \A o \in OpIds : wf[o] = NoRun
  BY DEF Init, NoScan, NoCall
<1>3. /\ FreshRow.op = None /\ FreshRow.kind = None /\ FreshRow.gen = 0
      /\ FreshRow.cleanup = None /\ FreshRow.rs = "stopped"
      /\ FreshRow.status = "pending"
      /\ NoRun.pc = "none" /\ NoRun.gen = 0 /\ NoRun.cleanup = None
      /\ NoRun.resume = "input"
  BY DEF FreshRow, NoRun
<1>4. \A s \in Snapshots : s = FreshRow
  BY <1>2 DEF Snapshots
<1>5. \A n, k, g : ~Mentioned(n, k, g)
  BY <1>2, <1>3, <1>4 DEF Mentioned, Live
<1>6. OneMeaning /\ FreshIds /\ StopIsFinal
  BY <1>2, <1>3, <1>5 DEF OneMeaning, FreshIds, StopIsFinal
<1>7. GenerationOrder /\ RowShape /\ NobodyAhead
  BY <1>2, <1>3, <1>4 DEF GenerationOrder, Older, RowShape, NobodyAhead, Exists
<1>9. OneStarter /\ OwnerStarts
  BY <1>2, <1>3, <1>4 DEF OneStarter, OwnerStarts, Starting, Named, Live
<1>8. KindsOfSteps /\ UndoOwns /\ CompleteHasVm /\ ReadyHasVm
  BY <1>2, <1>3 DEF KindsOfSteps, KindOfStep, StartSteps, StopSteps, UndoOwns,
     CompleteHasVm, ReadyHasVm
<1> QED
  BY <1>1, <1>6, <1>7, <1>8, <1>9 DEF IInv, Related

LEMMA StepInvariant == IInv /\ [Next]_vars => IInv'
<1> SUFFICES ASSUME IInv, [Next]_vars PROVE IInv'
  OBVIOUS
<1>1. TypeInv /\ Related /\ KindsOfSteps /\ UndoOwns /\ CompleteHasVm /\ ReadyHasVm
  BY DEF IInv
<1>2. TypeInv'
  BY <1>1, StepType
<1>3. Related' /\ KindsOfSteps'
  BY <1>1, <1>2, StepRelated
<1>4. UndoOwns' /\ CompleteHasVm' /\ ReadyHasVm'
  BY <1>1, <1>2, UndoOwnsStep, CompleteHasVmStep, ReadyStep
<1> QED
  BY <1>2, <1>3, <1>4 DEF IInv

\* In every reachable state the invariant holds.
THEOREM InvariantHolds == Spec => []IInv
BY InitInvariant, StepInvariant, PTL DEF Spec

\* A workspace that is ready has the VM of its generation, whatever requests,
\* cron passes, retries, handoffs and failures came before.
THEOREM ReadyKeepsVm == Spec => []ReadyHasVm
<1>1. IInv => ReadyHasVm
  BY DEF IInv
<1> QED
  BY <1>1, InvariantHolds, PTL

\* The VM of a row that starts or is ready is taken down by nobody but the
\* failing start that owns the row.
THEOREM OwnerAloneTearsDown == Spec => OnlyOwnerTearsDown
<1> DEFINE Kept == (row.kind = "start" \/ row.rs = "ready")
                     /\ vm[row.gen] # "absent" /\ vm'[row.gen] = "absent"
                   => row.op \in OpIds /\ wf[row.op].pc = "undo"
<1>1. IInv /\ [Next]_vars => [Kept]_vars
  <2> SUFFICES ASSUME IInv, [Next]_vars, row.kind = "start" \/ row.rs = "ready",
                      vm[row.gen] # "absent", vm'[row.gen] = "absent"
               PROVE  row.op \in OpIds /\ wf[row.op].pc = "undo"
    OBVIOUS
  <2>1. ~Past
    BY DEF Past
  <2> QED
    BY <2>1, VmGone DEF IInv
<1> QED
  BY <1>1, InvariantHolds, PTL DEF Spec, OnlyOwnerTearsDown

\* No two runs work on one start at a time: a handoff passes the work on to its
\* child, and the cron replaces a run only when it has ended.
THEOREM OneStartHolds == Spec => []OneStartPerGeneration
<1>1. IInv => OneStartPerGeneration
  <2> SUFFICES ASSUME IInv, NEW o1 \in OpIds, NEW o2 \in OpIds,
                      Working(o1), Working(o2), wf[o1].gen = wf[o2].gen
               PROVE  o1 = o2
    BY DEF OneStartPerGeneration
  <2>1. Starting(o1, wf[o1].gen) /\ Starting(o2, wf[o1].gen)
    BY DEF Working, Starting, Passing
  <2>2. wf[o1].gen \in Generations
    BY RunsType DEF IInv
  <2> QED
    BY <2>1, <2>2 DEF IInv, Related, OneStarter
<1> QED
  BY <1>1, InvariantHolds, PTL
-----------------------------------------------------------------------------
(* What a step does to a run, field by field.                              *)

\* Run p takes over what run q is and knows.
Inherits(p, q) ==
    /\ wf'[p].kind = wf[q].kind /\ wf'[p].gen = wf[q].gen
    /\ wf'[p].cleanup = wf[q].cleanup /\ wf'[p].in = wf[q].in
    /\ wf'[p].resume = wf[q].resume
Blank(p) ==
    /\ wf'[p].in = NoInput /\ wf'[p].resume = "input" /\ ~wf'[p].undone

RunEnds(p) ==
    /\ wf'[p].pc \in Terminal /\ Blank(p)
    /\ wf'[p].kind = "start" /\ wf'[p].gen = 0 /\ wf'[p].cleanup = None
RunBorn(p) ==
    \E s \in Snapshots :
        /\ wf[p].pc = "none" /\ s.op = p /\ s.kind \in Kinds
        /\ wf'[p].pc = "input" /\ Blank(p)
        /\ wf'[p].kind = s.kind /\ wf'[p].gen = s.gen /\ wf'[p].cleanup = s.cleanup
RunHatches(p) ==
    \E q \in OpIds :
        /\ wf[p].pc = "none" /\ wf[q].pc = "activate" /\ p = NextId(q)
        /\ wf'[p].pc = "waiting" /\ Inherits(p, q) /\ ~wf'[p].undone
RunBegins(p) ==
    /\ wf[p].pc = "input" /\ Current(p) /\ UNCHANGED <<row, vm, disk>>
    /\ wf'[p].pc = FirstStep(wf[p]) /\ wf'[p].in.rs = row.rs
    /\ wf'[p].kind = wf[p].kind /\ wf'[p].gen = wf[p].gen
    /\ wf'[p].cleanup = wf[p].cleanup /\ wf'[p].resume = wf[p].resume
    /\ wf'[p].undone = wf[p].undone
RunUndone(p) ==
    /\ wf[p].pc = "undo" /\ wf'[p].pc = "mark" /\ Inherits(p, p)
    /\ TearDown(Targets(p), Targets(p)) /\ UNCHANGED row
RunHands(p) ==
    /\ wf[p].pc \in HandoffPoints /\ Current(p) /\ UNCHANGED <<vm, disk>>
    /\ wf'[p].pc = "activate"
    /\ wf'[p].kind = wf[p].kind /\ wf'[p].gen = wf[p].gen /\ wf'[p].in = wf[p].in
    /\ wf'[p].undone = wf[p].undone
    /\ row' = [Renewed EXCEPT !.op = NextId(p)]
    /\ \E compact \in Compacts(p) :
         /\ wf'[p].cleanup = HandedCleanup(p, compact)
         /\ wf'[p].resume = IF compact THEN "input"
                            ELSE IF wf[p].pc = "undo" THEN "failed" ELSE wf[p].pc
RunWakes(p) ==
    /\ wf[p].pc = "waiting" /\ wf'[p].pc = wf[p].resume /\ Inherits(p, p)
    /\ wf'[p].undone = wf[p].undone /\ UNCHANGED <<row, vm, disk>>

\* The ordinary steps, from one place of the program to the next.
Arrow(p, from, to) ==
    \/ to = "failed" /\ from \notin {"undo", "mark", "release"} /\ UNCHANGED row
    \/ from = "cleanup" /\ to = "record" /\ TearDown({wf[p].cleanup}, {wf[p].cleanup})
       /\ UNCHANGED row
    \/ from = "record" /\ to = "disk" /\ Current(p)
       /\ row' = [row EXCEPT !.cleanup = None]
    \/ from = "disk" /\ to = "provision" /\ disk' /\ UNCHANGED row
    \/ from = "disk" /\ to = "boot" /\ Resumes(p) /\ UNCHANGED <<row, disk>>
    \/ from = "provision" /\ to = "deploy" /\ Current(p) /\ UNCHANGED disk
       /\ row' = [Renewed EXCEPT !.rs = "provisioning", !.disk = TRUE]
    \/ from = "deploy" /\ to = "boot" /\ UNCHANGED <<row, disk>>
    \/ from = "boot" /\ to = "session" /\ Current(p) /\ UNCHANGED disk
       /\ row' = [Renewed EXCEPT !.rs = "booting", !.vm = wf[p].gen]
    \/ <<from, to>> \in {<<"session", "health">>, <<"health", "policy">>,
                         <<"policy", "init">>, <<"init", "complete">>}
       /\ UNCHANGED <<row, vm, disk>>
    \/ from = "teardown" /\ to \in {"finish", "deleteDisk"}
       /\ (to = "finish" <=> wf[p].kind = "stop")
       /\ TearDown(Targets(p), Targets(p)) /\ UNCHANGED row
    \/ from = "deleteDisk" /\ to = "erase" /\ UNCHANGED <<row, vm>>
    \/ from = "failed" /\ to \in {"undo", "mark"} /\ UNCHANGED <<row, vm, disk>>
    \/ from = "undo" /\ to = "mark" /\ UNCHANGED row
    \/ from = "mark" /\ to = "release" /\ wf[p].undone
    \/ from = "activate" /\ to = "signal" /\ UNCHANGED <<row, vm, disk>>
RunGoes(p) ==
    /\ Live(p) /\ Inherits(p, p) /\ wf'[p].undone = wf[p].undone
    /\ Arrow(p, wf[p].pc, wf'[p].pc)

RunChanges(p) ==
    \/ wf'[p] = wf[p] \/ RunEnds(p) \/ RunBorn(p) \/ RunHatches(p) \/ RunBegins(p)
    \/ RunUndone(p) \/ RunHands(p) \/ RunWakes(p) \/ RunGoes(p)

LEMMA GotoFields ==
    ASSUME TypeInv, NEW o \in OpIds, NEW pc, Goto(o, pc)
    PROVE  /\ \A p \in OpIds : p # o => wf'[p] = wf[p]
           /\ pc \in Terminal => RunEnds(o) /\ wf'[o].pc = pc
           /\ pc \notin Terminal =>
                wf'[o].pc = pc /\ Inherits(o, o) /\ wf'[o].undone = wf[o].undone
<1>1. wf \in [OpIds -> Runs] /\ wf[o] \in Runs
  BY DEF TypeInv, TypeOK
<1>2. \A p \in OpIds : p # o => wf'[p] = wf[p]
  BY <1>1 DEF Goto
<1>3. ASSUME pc \in Terminal PROVE RunEnds(o) /\ wf'[o].pc = pc
  <2>1. wf'[o] = [NoRun EXCEPT !.pc = pc]
    BY <1>1, <1>3 DEF Goto
  <2> QED
    BY <1>3, <2>1 DEF NoRun, RunEnds, Blank
<1>4. ASSUME pc \notin Terminal
      PROVE  wf'[o].pc = pc /\ Inherits(o, o) /\ wf'[o].undone = wf[o].undone
  <2>1. wf'[o] = [wf[o] EXCEPT !.pc = pc]
    BY <1>1, <1>4 DEF Goto
  <2> QED
    BY <1>1, <2>1 DEF Runs, Inherits
<1> QED
  BY <1>2, <1>3, <1>4

\* A run that went somewhere along an arrow, while the others stayed.
LEMMA GotoChanges ==
    ASSUME TypeInv, NEW o \in OpIds, Live(o),
           \/ UNCHANGED wf
           \/ \E pc : Goto(o, pc) /\ (pc \in Terminal \/ Arrow(o, wf[o].pc, pc))
    PROVE  \A p \in OpIds : RunChanges(p)
<1>1. CASE UNCHANGED wf
  BY <1>1 DEF RunChanges
<1>2. ASSUME NEW pc, Goto(o, pc), pc \in Terminal \/ Arrow(o, wf[o].pc, pc)
      PROVE  \A p \in OpIds : RunChanges(p)
  <2>1. CASE pc \in Terminal
    BY <1>2, <2>1, GotoFields DEF RunChanges
  <2>2. CASE pc \notin Terminal
    <3>1. RunGoes(o)
      BY <1>2, <2>2, GotoFields DEF RunGoes
    <3> QED
      BY <1>2, <3>1, GotoFields DEF RunChanges
  <2> QED
    BY <2>1, <2>2
<1> QED
  BY <1>1, <1>2

LEMMA OrdinaryChanges ==
    ASSUME TypeInv, NEW o \in OpIds,
           (StartStep(o) \/ Heartbeat(o) \/ StopStep(o) \/ Failed(o) \/ Mark(o)
            \/ Release(o) \/ WaitTimesOut(o))
    PROVE  \A p \in OpIds : RunChanges(p)
<1>1. Live(o)
  BY DEF Live, Terminal, StartStep, Cleanup, Record, PrepareDisk, Provision, Deploy,
     Boot, Session, Health, Policy, Initialize, Complete, Heartbeat, StopStep, Teardown,
     Finish, DeleteDisk, Erase, Failed, Mark, Release, WaitTimesOut
<1> DEFINE Follows ==
             \/ UNCHANGED wf
             \/ \E pc : Goto(o, pc) /\ (pc \in Terminal \/ Arrow(o, wf[o].pc, pc))
<1>2. ASSUME Fails(o), UNCHANGED row, wf[o].pc \notin {"undo", "mark", "release"}
      PROVE  Follows
  BY <1>2 DEF Fails, Arrow
<1>3. Cleanup(o) => Follows
  <2>1. ASSUME TearDown({wf[o].cleanup}, {wf[o].cleanup}), Goto(o, "record"),
               wf[o].pc = "cleanup", UNCHANGED row
        PROVE  Follows
    BY <2>1 DEF Arrow
  <2> QED
    BY <1>2, <2>1 DEF Cleanup
<1>4. Record(o) => Follows
  BY <1>2 DEF Record, Arrow
<1>5. PrepareDisk(o) => Follows
  <2>1. ASSUME wf[o].pc = "disk", UNCHANGED row, Goto(o, "boot"), Resumes(o), UNCHANGED disk
        PROVE  Follows
    BY <2>1 DEF Arrow
  <2>2. ASSUME wf[o].pc = "disk", UNCHANGED row, Goto(o, "provision"), disk' = TRUE
        PROVE  Follows
    BY <2>2 DEF Arrow
  <2> QED
    BY <1>2, <2>1, <2>2 DEF PrepareDisk
<1>6. Provision(o) => Follows
  BY <1>2 DEF Provision, Arrow, azure
<1>7. Deploy(o) => Follows
  BY <1>2 DEF Deploy, Arrow
<1>8. Boot(o) => Follows
  BY <1>2 DEF Boot, Arrow, azure
<1>9. Session(o) \/ Health(o) \/ Policy(o) \/ Initialize(o) => Follows
  BY <1>2 DEF Session, Health, Policy, Initialize, Arrow, azure
<1>10. Complete(o) \/ Finish(o) \/ Erase(o) => Follows
  BY <1>2 DEF Complete, Finish, Erase, Again, Terminal
<1>11. Heartbeat(o) => Follows
  BY DEF Heartbeat
<1>12. Teardown(o) => Follows
  <2>1. ASSUME wf[o].pc = "teardown", TearDown(Targets(o), Targets(o)), UNCHANGED row,
               Goto(o, IF wf[o].kind = "stop" THEN "finish" ELSE "deleteDisk")
        PROVE  Follows
    BY <2>1 DEF Arrow
  <2> QED
    BY <1>2, <2>1 DEF Teardown
<1>13. DeleteDisk(o) => Follows
  BY <1>2 DEF DeleteDisk, Arrow
<1>14. Failed(o) \/ Mark(o) \/ Release(o) => Follows
  BY DEF Failed, Mark, Release, Arrow, azure, Terminal
<1>15. WaitTimesOut(o) => Follows
  BY <1>2 DEF WaitTimesOut
<1>16. Follows
  BY <1>3, <1>4, <1>5, <1>6, <1>7, <1>8, <1>9, <1>10, <1>11, <1>12, <1>13, <1>14, <1>15
     DEF StartStep, StopStep
<1> QED
  BY <1>1, <1>16, GotoChanges

LEMMA InputChanges ==
    ASSUME TypeInv, NEW o \in OpIds, Input(o) PROVE \A p \in OpIds : RunChanges(p)
<1>1. /\ Live(o) /\ wf \in [OpIds -> Runs] /\ wf[o] \in Runs
      /\ UNCHANGED <<row, vm, disk>> /\ wf[o].pc = "input"
  BY DEF Input, Live, Terminal, TypeInv, TypeOK, azure
<1>2. CASE Fails(o)
  BY <1>1, <1>2, GotoChanges DEF Fails, Arrow
<1>3. CASE ~Fails(o)
  <2> DEFINE snapshot == [rs |-> row.rs, vm |-> row.vm, disk |-> row.disk]
             pc == FirstStep(wf[o])
  <2>1. wf' = [wf EXCEPT ![o].pc = pc, ![o].in = snapshot] /\ Current(o)
    BY <1>3 DEF Input
  <2>2. snapshot.rs = row.rs
    OBVIOUS
  <2> HIDE DEF snapshot, pc
  <2>3. \A p \in OpIds : p # o => wf'[p] = wf[p]
    BY <1>1, <2>1
  <2>4. /\ wf'[o].pc = pc /\ wf'[o].in = snapshot
        /\ wf'[o].kind = wf[o].kind /\ wf'[o].gen = wf[o].gen
        /\ wf'[o].cleanup = wf[o].cleanup /\ wf'[o].resume = wf[o].resume
        /\ wf'[o].undone = wf[o].undone
    BY <1>1, <2>1 DEF Runs
  <2>5. RunBegins(o)
    BY <1>1, <2>1, <2>2, <2>4 DEF RunBegins, pc
  <2> QED
    BY <2>3, <2>5 DEF RunChanges
<1> QED
  BY <1>2, <1>3

LEMMA UndoChanges ==
    ASSUME TypeInv, NEW o \in OpIds, Undo(o) PROVE \A p \in OpIds : RunChanges(p)
<1>1. /\ Live(o) /\ wf \in [OpIds -> Runs] /\ wf[o] \in Runs
      /\ UNCHANGED row /\ wf[o].pc = "undo"
  BY DEF Undo, Live, Terminal, TypeInv, TypeOK
<1>2. CASE Goto(o, "mark")
  BY <1>1, <1>2, GotoChanges DEF Arrow
<1>3. CASE /\ wf' = [wf EXCEPT ![o].pc = "mark", ![o].undone = TRUE]
           /\ TearDown(Targets(o), Targets(o))
  <2>1. \A p \in OpIds : p # o => wf'[p] = wf[p]
    BY <1>1, <1>3
  <2>2. wf'[o].pc = "mark" /\ Inherits(o, o)
    BY <1>1, <1>3 DEF Runs, Inherits
  <2>3. RunUndone(o)
    BY <1>1, <1>3, <2>2 DEF RunUndone
  <2> QED
    BY <2>1, <2>3 DEF RunChanges
<1> QED
  BY <1>2, <1>3 DEF Undo

LEMMA ActivateChanges ==
    ASSUME TypeInv, NEW o \in OpIds, Activate(o) PROVE \A p \in OpIds : RunChanges(p)
<1>1. /\ Live(o) /\ wf \in [OpIds -> Runs] /\ wf[o] \in Runs
      /\ UNCHANGED <<row, vm, disk>> /\ wf[o].pc = "activate"
  BY DEF Activate, Live, Terminal, TypeInv, TypeOK, azure
<1> DEFINE child == NextId(o)
<1>2. CASE Goto(o, "signal") \/ Goto(o, "errored")
  BY <1>1, <1>2, GotoChanges DEF Arrow, Terminal
<1>3. CASE wf[child].pc = "none" /\
           wf' = [wf EXCEPT ![o].pc = "signal",
                            ![child] = [wf[o] EXCEPT !.pc = "waiting",
                                                     !.undone = FALSE]]
  <2>1. child # o
    BY DEF NextId, OpIds
  <2>2. \A p \in OpIds : p # o /\ p # child => wf'[p] = wf[p]
    BY <1>1, <1>3
  <2>3. wf'[o].pc = "signal" /\ Inherits(o, o) /\ wf'[o].undone = wf[o].undone
    BY <1>1, <1>3, <2>1 DEF Runs, Inherits
  <2>4. RunGoes(o)
    BY <1>1, <2>3 DEF RunGoes, Arrow
  <2>5. ASSUME child \in OpIds PROVE RunHatches(child)
    <3>1. wf'[child] = [wf[o] EXCEPT !.pc = "waiting", !.undone = FALSE]
      BY <1>1, <1>3, <2>5
    <3>2. wf'[child].pc = "waiting" /\ Inherits(child, o) /\ ~wf'[child].undone
      BY <1>1, <3>1 DEF Runs, Inherits
    <3> QED
      BY <1>1, <1>3, <3>2 DEF RunHatches
  <2> QED
    BY <2>2, <2>4, <2>5 DEF RunChanges
<1> QED
  BY <1>2, <1>3 DEF Activate

LEMMA SignalChanges ==
    ASSUME TypeInv, NEW o \in OpIds, Signal(o) PROVE \A p \in OpIds : RunChanges(p)
<1>1. /\ Live(o) /\ wf \in [OpIds -> Runs] /\ wf[o] \in Runs
      /\ UNCHANGED <<row, vm, disk>> /\ wf[o].pc = "signal"
  BY DEF Signal, Live, Terminal, TypeInv, TypeOK, azure
<1> DEFINE child == NextId(o)
<1>2. CASE Goto(o, "errored")
  BY <1>1, <1>2, GotoChanges DEF Terminal
<1>3. CASE wf' = [wf EXCEPT ![o] = [NoRun EXCEPT !.pc = "done"],
                            ![child].pc = IF @ = "waiting"
                                          THEN wf[child].resume ELSE @]
  <2>1. child # o
    BY DEF NextId, OpIds
  <2>2. \A p \in OpIds : p # o /\ p # child => wf'[p] = wf[p]
    BY <1>1, <1>3
  <2>3. wf'[o] = [NoRun EXCEPT !.pc = "done"]
    BY <1>1, <1>3, <2>1
  <2>4. RunEnds(o)
    BY <2>3 DEF RunEnds, Blank, NoRun, Terminal
  <2>5. ASSUME child \in OpIds PROVE RunChanges(child)
    <3>1. wf'[child] = [wf[child] EXCEPT !.pc = IF @ = "waiting"
                                                THEN wf[child].resume ELSE @]
      BY <1>1, <1>3, <2>1, <2>5
    <3>2. wf[child] \in Runs
      BY <1>1, <2>5
    <3>3. CASE wf[child].pc = "waiting"
      <4>1. /\ wf'[child].pc = wf[child].resume /\ Inherits(child, child)
            /\ wf'[child].undone = wf[child].undone
        BY <3>1, <3>2, <3>3 DEF Runs, Inherits
      <4> QED
        BY <1>1, <3>3, <4>1 DEF RunWakes, RunChanges
    <3>4. CASE wf[child].pc # "waiting"
      BY <3>1, <3>2, <3>4 DEF Runs, RunChanges
    <3> QED
      BY <3>3, <3>4
  <2> QED
    BY <2>2, <2>4, <2>5 DEF RunChanges
<1> QED
  BY <1>2, <1>3 DEF Signal

LEMMA HandoffChanges ==
    ASSUME TypeInv, NEW o \in OpIds, Handoff(o) PROVE \A p \in OpIds : RunChanges(p)
<1>1. /\ wf \in [OpIds -> Runs] /\ wf[o] \in Runs
      /\ UNCHANGED <<vm, disk>> /\ wf[o].pc \in HandoffPoints
  BY DEF Handoff, TypeInv, TypeOK, azure
<1>2. CASE Goto(o, "errored")
  BY <1>1, <1>2, GotoChanges DEF Terminal, Live, HandoffPoints
<1>3. CASE ~Goto(o, "errored")
  <2>1. /\ Current(o) /\ row' = [Renewed EXCEPT !.op = NextId(o)]
        /\ \E compact \in Compacts(o) :
             wf' = [wf EXCEPT
               ![o].pc = "activate", ![o].cleanup = HandedCleanup(o, compact),
               ![o].resume = IF compact THEN "input"
                             ELSE IF wf[o].pc = "undo" THEN "failed" ELSE wf[o].pc]
    BY <1>3, Zenon DEF Handoff
  <2>2. PICK compact \in Compacts(o) :
             wf' = [wf EXCEPT
               ![o].pc = "activate", ![o].cleanup = HandedCleanup(o, compact),
               ![o].resume = IF compact THEN "input"
                             ELSE IF wf[o].pc = "undo" THEN "failed" ELSE wf[o].pc]
    BY <2>1, Zenon
  <2> DEFINE c == HandedCleanup(o, compact)
             back == IF compact THEN "input"
                     ELSE IF wf[o].pc = "undo" THEN "failed" ELSE wf[o].pc
  <2>3. wf' = [wf EXCEPT ![o].pc = "activate", ![o].cleanup = c, ![o].resume = back]
    BY <2>2, Zenon
  <2> HIDE DEF c, back
  <2>4. /\ wf'[o].pc = "activate" /\ wf'[o].kind = wf[o].kind /\ wf'[o].gen = wf[o].gen
        /\ wf'[o].in = wf[o].in /\ wf'[o].undone = wf[o].undone
        /\ wf'[o].cleanup = c /\ wf'[o].resume = back
        /\ \A p \in OpIds : p # o => wf'[p] = wf[p]
    BY <1>1, <2>3 DEF Runs
  <2>5. /\ wf'[o].cleanup = HandedCleanup(o, compact)
        /\ wf'[o].resume = IF compact THEN "input"
                           ELSE IF wf[o].pc = "undo" THEN "failed" ELSE wf[o].pc
    BY <2>4 DEF c, back
  <2>6. RunHands(o)
    BY <1>1, <2>1, <2>2, <2>4, <2>5 DEF RunHands
  <2> QED
    BY <2>4, <2>6 DEF RunChanges
<1> QED
  BY <1>2, <1>3

LEMMA CreationChanges ==
    ASSUME TypeInv, NEW s \in Snapshots, s.kind \in Kinds, Queued(s) \/ NotQueued(s)
    PROVE  \A p \in OpIds : RunChanges(p)
<1>1. wf \in [OpIds -> Runs]
  BY DEF TypeInv, TypeOK
<1>2. CASE UNCHANGED wf
  BY <1>2 DEF RunChanges
<1>3. CASE wf[s.op].pc = "none" /\ wf' = [wf EXCEPT ![s.op] = NewRun(s)]
  <2>1. \A p \in OpIds : wf'[p] = IF p = s.op THEN NewRun(s) ELSE wf[p]
    BY <1>1, <1>3
  <2>2. /\ NewRun(s).pc = "input" /\ NewRun(s).in = NoInput
        /\ NewRun(s).resume = "input" /\ ~NewRun(s).undone
        /\ NewRun(s).kind = s.kind /\ NewRun(s).gen = s.gen
        /\ NewRun(s).cleanup = s.cleanup
    BY DEF NewRun, NoRun
  <2>3. s.op \in OpIds => RunBorn(s.op)
    BY <1>3, <2>1, <2>2 DEF RunBorn, Blank
  <2> QED
    BY <2>1, <2>3 DEF RunChanges
<1> QED
  BY <1>2, <1>3 DEF Queued, NotQueued

LEMMA StepChanges ==
    ASSUME TypeInv, [Next]_vars PROVE \A p \in OpIds : RunChanges(p)
<1>1. ASSUME UNCHANGED wf PROVE \A p \in OpIds : RunChanges(p)
  BY <1>1 DEF RunChanges
<1>2. ASSUME NEW r \in Requests,
             Reserve(r) \/ Ask(r) \/ Cancel(r) \/ RequestStep(r) \/ RequestDies(r)
      PROVE  \A p \in OpIds : RunChanges(p)
  <2>1. /\ req[r].seen \in Snapshots /\ req[r].seen \in Rows /\ req[r].kind \in Kinds
    BY SnapshotsType DEF TypeInv, TypeOK, Calls
  <2>2. CASE Join(r)
    <3>1. req[r].seen.kind \in Kinds /\ (Queued(req[r].seen) \/ NotQueued(req[r].seen))
      BY <2>1, <2>2 DEF Join, Joins
    <3> QED
      BY <2>1, <3>1, CreationChanges
  <2>3. CASE Dispatch(r)
    <3>1. req[r].seen.kind \in Kinds /\ (Queued(req[r].seen) \/ NotQueued(req[r].seen))
      BY <2>3 DEF Dispatch, TypeInv, JobsOK
    <3> QED
      BY <2>1, <3>1, CreationChanges
  <2>4. CASE ~Join(r) /\ ~Dispatch(r)
    <3>1. UNCHANGED wf
      BY <1>2, <2>4 DEF RequestStep, Reserve, Ask, Cancel, RequestDies, LoadRow, Decline,
         Reopen, ClaimOperation, MarkQueueFailure
    <3> QED
      BY <1>1, <3>1
  <2> QED
    BY <2>2, <2>3, <2>4
<1>3. CASE Recreate
  <2>1. /\ cron.seen \in Snapshots /\ cron.seen.kind \in Kinds
        /\ Queued(cron.seen) \/ NotQueued(cron.seen)
    BY <1>3, SnapshotsType DEF Recreate, TypeInv, JobsOK
  <2> QED
    BY <2>1, CreationChanges
<1>4. CASE LeaseExpires \/ Scan \/ Inspect \/ PowerOff \/ UNCHANGED vars
  BY <1>1, <1>4 DEF LeaseExpires, Scan, Inspect, PowerOff, vars
<1>5. ASSUME NEW o \in OpIds, RunStep(o) \/ Heartbeat(o) \/ Handoff(o)
      PROVE  \A p \in OpIds : RunChanges(p)
  BY <1>5, OrdinaryChanges, InputChanges, UndoChanges, ActivateChanges, SignalChanges,
     HandoffChanges DEF RunStep, FailureStep, ContinuationStep
<1> QED
  BY <1>2, <1>3, <1>4, <1>5 DEF Next, CronStep
-----------------------------------------------------------------------------
(* What a step does to the row, field by field.                            *)

SameOwner == row'.gen = row.gen /\ row'.op = row.op /\ row'.kind = row.kind
SamePhase == row'.status = row.status /\ row'.rs = row.rs
SameData == row'.cleanup = row.cleanup /\ row'.disk = row.disk

RowSame == SameOwner /\ SamePhase /\ SameData
RowGivenUp ==
    \E r \in Requests :
        /\ req[r].pc = "unqueued" /\ Exists
        /\ row.op = req[r].seen.op /\ row.gen = req[r].seen.gen
        /\ SameOwner /\ SameData /\ row'.status = "failed" /\ row'.rs = "failed"
        /\ UNCHANGED <<wf, cron, vm, disk>>
RowTaken ==
    \E r \in Requests :
        LET s == req[r].seen
            kind == req[r].kind
        IN
        /\ req[r].pc = "loaded" /\ req'[r].pc = "claimed"
        /\ ClaimMatches(s) /\ s.status \in AcceptedStatuses(kind)
        /\ row'.status = IF kind = "delete" THEN "deleting" ELSE "provisioning"
        /\ row'.rs = IF kind = "start" THEN "queued" ELSE "stopping"
        /\ row'.gen = ClaimedGeneration(kind, s)
        /\ row'.cleanup = IF kind = "start" THEN CleanupFor(s) ELSE s.cleanup
        /\ row'.op = <<nextOp, 0>> /\ row'.kind = kind /\ row'.disk = row.disk
        /\ UNCHANGED <<wf, cron, vm, disk>>
RowPassedOn ==
    /\ cron.pc = "scanned" /\ cron'.pc = "recreate"
    /\ row.op = cron.seen.op /\ cron.seen.op \in OpIds /\ wf[row.op].pc \in Terminal
    /\ row'.op = <<nextOp, 0>> /\ row'.gen = row.gen /\ row'.kind = row.kind
    /\ SamePhase /\ SameData /\ UNCHANGED <<wf, vm, disk>>
RowWritten(o) ==
    /\ Current(o) /\ UNCHANGED <<vm, disk, cron>>
    /\ \A p \in OpIds : p # o => wf'[p] = wf[p]
    /\ \/ /\ wf[o].pc = "record" /\ SameOwner /\ SamePhase
          /\ row'.cleanup = None /\ row'.disk = row.disk
       \/ /\ wf[o].pc = "provision" /\ SameOwner /\ row'.status = row.status
          /\ row'.rs = "provisioning" /\ row'.cleanup = row.cleanup /\ row'.disk
       \/ /\ wf[o].pc = "boot" /\ SameOwner /\ row'.status = row.status
          /\ row'.rs = "booting" /\ SameData
       \/ /\ wf[o].pc = "complete" /\ row'.status = "ready" /\ row'.rs = "ready"
          /\ row'.gen = row.gen /\ row'.op = None /\ row'.kind = None
          /\ row'.cleanup = None
       \/ /\ wf[o].pc = "finish" /\ row'.status = "stopped" /\ row'.rs = "stopped"
          /\ row'.gen = row.gen /\ row'.op = None /\ row'.kind = None
          /\ row'.cleanup = None /\ row'.disk = row.disk
       \/ /\ wf[o].pc = "erase" /\ row'.status = "gone" /\ row'.rs = "stopped"
          /\ row'.gen = row.gen /\ row'.op = None /\ row'.kind = None
          /\ row'.cleanup = None /\ ~row'.disk
       \/ /\ wf[o].pc = "mark" /\ wf'[o].pc \in {"release", "done"} /\ SameOwner
          /\ row'.status = FailedStatus(wf[o].kind) /\ row'.rs = "failed"
          /\ row'.cleanup = IF wf[o].undone THEN None ELSE row.cleanup
          /\ row'.disk = row.disk
       \/ /\ wf[o].pc \in HandoffPoints /\ wf'[o].pc = "activate"
          /\ row'.gen = row.gen /\ row'.op = NextId(o) /\ row'.kind = row.kind
          /\ SamePhase /\ SameData

RowChanges ==
    \/ RowSame \/ RowGivenUp \/ RowTaken \/ RowPassedOn
    \/ \E o \in OpIds : RowWritten(o)

LEMMA LeaseChanges ==
    ASSUME TypeInv,
           \/ UNCHANGED row
           \/ \E l \in {"none", "held", "expired"} : row' = [row EXCEPT !.lease = l]
    PROVE  RowSame
<1>1. row \in Rows
  BY DEF TypeInv, TypeOK
<1> QED
  BY <1>1 DEF Rows, RowSame, SameOwner, SamePhase, SameData

LEMMA RequestWrites ==
    ASSUME TypeInv, NEW r \in Requests,
           Reserve(r) \/ Ask(r) \/ Cancel(r) \/ RequestStep(r) \/ RequestDies(r)
    PROVE  RowSame \/ RowGivenUp \/ RowTaken
<1> DEFINE s == req[r].seen
           kind == req[r].kind
<1>1. /\ row \in Rows /\ req \in [Requests -> Calls] /\ s \in Rows /\ kind \in Kinds
  BY DEF TypeInv, TypeOK, Calls
<1>2. CASE MarkQueueFailure(r)
  <2>1. CASE UNCHANGED row
    BY <2>1, LeaseChanges
  <2>2. CASE row' # row
    <3>1. /\ row' = [row EXCEPT !.status = "failed", !.rs = "failed", !.lease = "none"]
          /\ Exists /\ row.op = s.op /\ row.gen = s.gen /\ req[r].pc = "unqueued"
          /\ UNCHANGED <<wf, cron, vm, disk>>
      BY <1>2, <2>2 DEF MarkQueueFailure, azure
    <3>2. SameOwner /\ SameData /\ row'.status = "failed" /\ row'.rs = "failed"
      BY <1>1, <3>1 DEF Rows, SameOwner, SameData
    <3> QED
      BY <3>1, <3>2 DEF RowGivenUp
  <2> QED
    BY <2>1, <2>2
<1>3. CASE ClaimOperation(r)
  <2>1. CASE UNCHANGED row
    BY <2>1, LeaseChanges
  <2>2. CASE row' # row
    <3>1. /\ ClaimMatches(s) /\ row' = ClaimedRow(kind, s)
          /\ req[r].pc = "loaded" /\ s.status \in AcceptedStatuses(kind)
          /\ req' = [req EXCEPT ![r].pc = "claimed", ![r].seen = Job(row')]
          /\ UNCHANGED <<wf, cron, vm, disk>>
      BY <1>3, <2>2 DEF ClaimOperation, azure
    <3>2. req'[r].pc = "claimed"
      BY <1>1, <3>1 DEF Calls
    <3> DEFINE a == IF kind = "delete" THEN "deleting" ELSE "provisioning"
               b == IF kind = "start" THEN "queued" ELSE "stopping"
               g == ClaimedGeneration(kind, s)
               c == IF kind = "start" THEN CleanupFor(s) ELSE s.cleanup
    <3>3. row' = [row EXCEPT !.status = a, !.rs = b, !.gen = g, !.cleanup = c,
                             !.op = <<nextOp, 0>>, !.kind = kind, !.lease = "held"]
      BY <3>1 DEF ClaimedRow
    <3> HIDE DEF a, b, c, g
    <3>4. /\ row'.status = a /\ row'.rs = b /\ row'.gen = g /\ row'.cleanup = c
          /\ row'.op = <<nextOp, 0>> /\ row'.kind = kind /\ row'.disk = row.disk
      BY <1>1, <3>3 DEF Rows
    <3> QED
      BY <3>1, <3>2, <3>4 DEF RowTaken, a, b, c, g
  <2> QED
    BY <2>1, <2>2
<1>4. CASE Join(r)
  BY <1>4, LeaseChanges DEF Join
<1>5. CASE ~MarkQueueFailure(r) /\ ~ClaimOperation(r) /\ ~Join(r)
  <2>1. UNCHANGED row
    BY <1>5 DEF RequestStep, Reserve, Ask, Cancel, RequestDies, LoadRow, Decline,
       Reopen, Dispatch
  <2> QED
    BY <2>1, LeaseChanges
<1> QED
  BY <1>2, <1>3, <1>4, <1>5

LEMMA CronWrites ==
    ASSUME TypeInv, LeaseExpires \/ CronStep PROVE RowSame \/ RowPassedOn
<1>1. row \in Rows
  BY DEF TypeInv, TypeOK
<1>2. CASE \/ UNCHANGED row
           \/ \E l \in {"none", "held", "expired"} : row' = [row EXCEPT !.lease = l]
  BY <1>2, LeaseChanges
<1>3. CASE /\ Inspect /\ Replaceable(cron.seen.op) /\ StillOwned(cron.seen)
           /\ row' = [row EXCEPT !.op = <<nextOp, 0>>, !.lease = "held"]
  <2>1. /\ cron.pc = "scanned" /\ row.op = cron.seen.op /\ cron.seen.op \in OpIds
        /\ wf[row.op].pc \in Terminal /\ UNCHANGED <<wf, vm, disk>>
    BY <1>3 DEF Inspect, StillOwned, Replaceable, azure, TypeInv, JobsOK
  <2>2. cron'.pc = "recreate"
    BY <1>3 DEF Inspect, Replaceable, Terminal
  <2>3. /\ row'.op = <<nextOp, 0>> /\ row'.gen = row.gen /\ row'.kind = row.kind
        /\ SamePhase /\ SameData
    BY <1>1, <1>3 DEF Rows, SamePhase, SameData
  <2> QED
    BY <2>1, <2>2, <2>3 DEF RowPassedOn
<1> QED
  BY <1>2, <1>3 DEF LeaseExpires, CronStep, Scan, Recreate, Inspect

LEMMA RunWrites ==
    ASSUME TypeInv, NEW o \in OpIds, RunStep(o) \/ Heartbeat(o) \/ Handoff(o)
    PROVE  RowSame \/ RowWritten(o)
<1>1. /\ row \in Rows /\ wf \in [OpIds -> Runs] /\ wf[o] \in Runs
  BY DEF TypeInv, TypeOK
<1>2. CASE UNCHANGED row \/ row' = Renewed
  BY <1>2, LeaseChanges DEF Renewed
<1>3. ASSUME NEW pc, Goto(o, pc) PROVE \A p \in OpIds : p # o => wf'[p] = wf[p]
  BY <1>3, GotoFields
<1>4. ASSUME UNCHANGED wf PROVE \A p \in OpIds : p # o => wf'[p] = wf[p]
  BY <1>4
<1> DEFINE Basic == Current(o) /\ UNCHANGED <<vm, disk, cron>>
                      /\ \A p \in OpIds : p # o => wf'[p] = wf[p]
<1>5. CASE Record(o) /\ ~UNCHANGED row
  <2>1. Basic /\ wf[o].pc = "record" /\ row' = [row EXCEPT !.cleanup = None]
    BY <1>3, <1>5 DEF Record, azure
  <2>2. SameOwner /\ SamePhase /\ row'.cleanup = None /\ row'.disk = row.disk
    BY <1>1, <2>1 DEF Rows, SameOwner, SamePhase
  <2> QED
    BY <2>1, <2>2 DEF RowWritten
<1>6. CASE Provision(o) /\ ~UNCHANGED row
  <2>1. /\ Basic /\ wf[o].pc = "provision"
        /\ row' = [Renewed EXCEPT !.rs = "provisioning", !.disk = TRUE]
    BY <1>3, <1>6 DEF Provision, azure
  <2>2. /\ SameOwner /\ row'.status = row.status /\ row'.rs = "provisioning"
        /\ row'.cleanup = row.cleanup /\ row'.disk
    BY <1>1, <2>1 DEF Rows, SameOwner, Renewed
  <2> QED
    BY <2>1, <2>2 DEF RowWritten
<1>7. CASE Boot(o) /\ ~UNCHANGED row
  <2>1. /\ Basic /\ wf[o].pc = "boot"
        /\ row' = [Renewed EXCEPT !.rs = "booting", !.vm = wf[o].gen]
    BY <1>3, <1>7 DEF Boot, azure
  <2>2. /\ SameOwner /\ row'.status = row.status /\ row'.rs = "booting" /\ SameData
    BY <1>1, <2>1 DEF Rows, SameOwner, SameData, Renewed
  <2> QED
    BY <2>1, <2>2 DEF RowWritten
<1>8. CASE Complete(o) /\ ~UNCHANGED row
  <2>1. /\ Basic /\ wf[o].pc = "complete"
        /\ row' = [Released EXCEPT !.status = "ready", !.rs = "ready",
                                   !.vm = wf[o].gen, !.disk = TRUE]
    BY <1>3, <1>4, <1>8 DEF Complete, Again, azure
  <2>2. /\ row'.status = "ready" /\ row'.rs = "ready" /\ row'.gen = row.gen
        /\ row'.op = None /\ row'.kind = None /\ row'.cleanup = None
    BY <1>1, <2>1 DEF Rows, Released
  <2> QED
    BY <2>1, <2>2 DEF RowWritten
<1>9. CASE Finish(o) /\ ~UNCHANGED row
  <2>1. /\ Basic /\ wf[o].pc = "finish"
        /\ row' = [Released EXCEPT !.status = "stopped", !.rs = "stopped", !.vm = None]
    BY <1>3, <1>4, <1>9 DEF Finish, Again, azure
  <2>2. /\ row'.status = "stopped" /\ row'.rs = "stopped" /\ row'.gen = row.gen
        /\ row'.op = None /\ row'.kind = None /\ row'.cleanup = None
        /\ row'.disk = row.disk
    BY <1>1, <2>1 DEF Rows, Released
  <2> QED
    BY <2>1, <2>2 DEF RowWritten
<1>10. CASE Erase(o) /\ ~UNCHANGED row
  <2>1. /\ Basic /\ wf[o].pc = "erase"
        /\ row' = [FreshRow EXCEPT !.status = "gone", !.gen = row.gen]
    BY <1>3, <1>4, <1>10 DEF Erase, Again, azure
  <2>2. /\ row'.status = "gone" /\ row'.rs = "stopped" /\ row'.gen = row.gen
        /\ row'.op = None /\ row'.kind = None /\ row'.cleanup = None /\ ~row'.disk
    BY <2>1 DEF FreshRow
  <2> QED
    BY <2>1, <2>2 DEF RowWritten
<1>11. CASE Mark(o) /\ ~UNCHANGED row
  <2> DEFINE status == FailedStatus(wf[o].kind)
             v == IF wf[o].undone THEN None ELSE row.vm
             c == IF wf[o].undone THEN None ELSE row.cleanup
             next == IF wf[o].undone THEN "release" ELSE "done"
  <2>1. /\ Basic /\ wf[o].pc = "mark" /\ Goto(o, next)
        /\ row' = [row EXCEPT !.status = status, !.rs = "failed", !.lease = "none",
                              !.vm = v, !.cleanup = c]
    BY <1>3, <1>11 DEF Mark, azure
  <2>2. next \in {"release", "done"}
    OBVIOUS
  <2> HIDE DEF status, v, c, next
  <2>3. /\ SameOwner /\ row'.status = status /\ row'.rs = "failed" /\ row'.cleanup = c
        /\ row'.disk = row.disk
    BY <1>1, <2>1 DEF Rows, SameOwner
  <2>4. wf'[o].pc = next
    BY <2>1, GotoFields
  <2> QED
    BY <2>1, <2>2, <2>3, <2>4 DEF RowWritten, status, c
<1>12. CASE Handoff(o) /\ ~UNCHANGED row
  <2>1. Current(o) /\ UNCHANGED <<vm, disk, cron>> /\ wf[o].pc \in HandoffPoints
        /\ row' = [Renewed EXCEPT !.op = NextId(o)]
    BY <1>12, Zenon DEF Handoff, azure
  <2>2. PICK compact \in Compacts(o) :
             wf' = [wf EXCEPT
               ![o].pc = "activate", ![o].cleanup = HandedCleanup(o, compact),
               ![o].resume = IF compact THEN "input"
                             ELSE IF wf[o].pc = "undo" THEN "failed" ELSE wf[o].pc]
    BY <1>12, Zenon DEF Handoff
  <2> DEFINE c == HandedCleanup(o, compact)
             back == IF compact THEN "input"
                     ELSE IF wf[o].pc = "undo" THEN "failed" ELSE wf[o].pc
  <2>3. wf' = [wf EXCEPT ![o].pc = "activate", ![o].cleanup = c, ![o].resume = back]
    BY <2>2, Zenon
  <2> HIDE DEF c, back
  <2>4. wf'[o].pc = "activate" /\ \A p \in OpIds : p # o => wf'[p] = wf[p]
    BY <1>1, <2>3 DEF Runs
  <2>5. /\ row'.gen = row.gen /\ row'.op = NextId(o) /\ row'.kind = row.kind
        /\ SamePhase /\ SameData
    BY <1>1, <2>1 DEF Rows, Renewed, SamePhase, SameData
  <2> QED
    BY <2>1, <2>4, <2>5 DEF RowWritten
<1>13. CASE Heartbeat(o)
  BY <1>2, <1>13 DEF Heartbeat
<1>14. CASE RunOnlyStep(o)
  BY <1>2, <1>14 DEF RunOnlyStep, Input, Cleanup, PrepareDisk, Deploy, Session, Health,
     Policy, Initialize, Teardown, DeleteDisk, Failed, Undo, Release, ContinuationStep,
     Activate, Signal, WaitTimesOut
<1>15. RunOnlyStep(o) \/ RowStep(o) \/ Handoff(o)
  BY DEF RunStep, StartStep, StopStep, FailureStep, RunOnlyStep, RowStep
<1> QED
  BY <1>2, <1>5, <1>6, <1>7, <1>8, <1>9, <1>10, <1>11, <1>12, <1>13, <1>14, <1>15
     DEF RowStep

LEMMA StepWrites ==
    ASSUME TypeInv, [Next]_vars PROVE RowChanges
<1>1. CASE PowerOff \/ UNCHANGED vars
  BY <1>1, LeaseChanges DEF PowerOff, vars, RowChanges
<1> QED
  BY <1>1, RequestWrites, CronWrites, RunWrites DEF Next, RowChanges
-----------------------------------------------------------------------------
(* What a step does to the copies of the row.                              *)

CallChanges(q) ==
    \/ req'[q] = req[q]
    \/ /\ req'[q].pc \in {"idle", "load", "reopen"}
       /\ req'[q].seen \in {FreshRow, req[q].seen}
    \/ /\ req'[q].pc = "loaded" /\ req'[q].seen = row
       /\ UNCHANGED <<row, wf, cron, vm, disk>>
    \/ /\ req[q].pc = "loaded" /\ req'[q].pc = "claimed"
       /\ req'[q].seen = Job(row') /\ row'.op = <<nextOp, 0>> /\ row'.lease = "held"
       /\ UNCHANGED <<wf, cron>>
    \/ /\ req[q].pc = "claimed" /\ req'[q].pc = "unqueued"
       /\ req'[q].seen = req[q].seen /\ NotQueued(req[q].seen) /\ UNCHANGED row
ScanChanges ==
    \/ UNCHANGED cron
    \/ cron'.pc = "idle" /\ cron'.seen = FreshRow
    \/ /\ cron'.pc = "scanned" /\ cron'.seen = Job(row) /\ Due
       /\ row.lease # "held" /\ UNCHANGED <<row, wf>>
    \/ /\ cron.pc = "scanned" /\ cron'.pc = "recreate" /\ cron'.seen = cron.seen
    \/ /\ cron.pc = "scanned" /\ cron'.pc = "recreate"
       /\ cron'.seen = [cron.seen EXCEPT !.op = <<nextOp, 0>>]
       /\ wf[cron.seen.op].pc \in Terminal /\ row.op = cron.seen.op
       /\ row'.op = <<nextOp, 0>>
       /\ row'.gen = row.gen /\ row'.kind = row.kind /\ row'.cleanup = row.cleanup

LEMMA StepCopies ==
    ASSUME TypeInv, [Next]_vars
    PROVE  ScanChanges /\ \A q \in Requests : CallChanges(q)
<1>1. /\ row \in Rows /\ req \in [Requests -> Calls] /\ cron.seen \in Rows
      /\ cron \in [pc : {"idle", "scanned", "recreate"}, seen : Rows]
  BY DEF TypeInv, TypeOK
<1>2. /\ NoCall.seen = FreshRow /\ NoCall.pc = "idle"
      /\ \A x : [NoCall EXCEPT !.pc = x].seen = FreshRow
      /\ \A x : [NoCall EXCEPT !.pc = x].pc = x
      /\ NoScan.pc = "idle" /\ NoScan.seen = FreshRow
  BY DEF NoCall, NoScan
<1>3. UNCHANGED cron => ScanChanges
  BY DEF ScanChanges
<1>4. UNCHANGED req => \A q \in Requests : CallChanges(q)
  BY DEF CallChanges
<1>5. ASSUME NEW r \in Requests,
             Reserve(r) \/ Ask(r) \/ Cancel(r) \/ RequestStep(r) \/ RequestDies(r)
      PROVE  UNCHANGED cron /\ \A q \in Requests : CallChanges(q)
  <2>1. UNCHANGED cron /\ \A q \in Requests : q # r => req'[q] = req[q]
    BY <1>1, <1>5 DEF RequestStep, Reserve, Ask, LoadRow, Cancel, Join, Decline, Reopen,
       ClaimOperation, Dispatch, MarkQueueFailure, RequestDies
  <2>2. CASE Reserve(r) \/ Cancel(r) \/ Reopen(r) \/ MarkQueueFailure(r)
             \/ RequestDies(r) \/ Join(r) \/ Decline(r)
    <3>1. req'[r] \in {NoCall, [NoCall EXCEPT !.pc = "load"],
                       [NoCall EXCEPT !.pc = "reopen"]}
      BY <1>1, <2>2 DEF Reserve, Cancel, Reopen, MarkQueueFailure, RequestDies, Join,
                        Decline
    <3>2. req'[r].pc \in {"idle", "load", "reopen"} /\ req'[r].seen = FreshRow
      BY <1>2, <3>1
    <3> QED
      BY <2>1, <3>2 DEF CallChanges
  <2>3. CASE Ask(r)
    <3>1. PICK kind \in {"stop", "delete"} :
             req' = [req EXCEPT ![r] = [pc |-> "loaded", kind |-> kind, seen |-> row]]
      BY <2>3 DEF Ask
    <3>2. req'[r].pc = "loaded" /\ req'[r].seen = row
      BY <1>1, <3>1
    <3> QED
      BY <2>1, <2>3, <3>2 DEF Ask, azure, CallChanges
  <2>4. CASE LoadRow(r)
    <3>1. CASE Exists
      <4>1. req'[r] = [req[r] EXCEPT !.pc = "loaded", !.seen = row]
        BY <1>1, <2>4, <3>1 DEF LoadRow
      <4>2. req'[r].pc = "loaded" /\ req'[r].seen = row
        BY <1>1, <4>1 DEF Calls
      <4> QED
        BY <2>1, <2>4, <4>2 DEF LoadRow, azure, CallChanges
    <3>2. CASE ~Exists
      <4>1. req'[r] = NoCall
        BY <1>1, <2>4, <3>2 DEF LoadRow
      <4> QED
        BY <1>2, <2>1, <4>1 DEF CallChanges
    <3> QED
      BY <3>1, <3>2
  <2>5. CASE ClaimOperation(r)
    <3>1. CASE req' = [req EXCEPT ![r].pc = "load"]
      <4>1. req'[r].pc = "load" /\ req'[r].seen = req[r].seen
        BY <1>1, <3>1 DEF Calls
      <4> QED
        BY <2>1, <4>1 DEF CallChanges
    <3>2. CASE req' = [req EXCEPT ![r] = NoCall]
      <4>1. req'[r] = NoCall
        BY <1>1, <3>2
      <4> QED
        BY <1>2, <2>1, <4>1 DEF CallChanges
    <3>3. CASE /\ req' = [req EXCEPT ![r].pc = "claimed", ![r].seen = Job(row')]
               /\ row' = ClaimedRow(req[r].kind, req[r].seen)
      <4> DEFINE job == Job(row')
      <4>1. req' = [req EXCEPT ![r].pc = "claimed", ![r].seen = job]
        BY <3>3
      <4> HIDE DEF job
      <4>2. req'[r].pc = "claimed" /\ req'[r].seen = job
        BY <1>1, <4>1 DEF Calls
      <4> DEFINE kind == req[r].kind
                 s == req[r].seen
                 a == IF kind = "delete" THEN "deleting" ELSE "provisioning"
                 b == IF kind = "start" THEN "queued" ELSE "stopping"
                 g == ClaimedGeneration(kind, s)
                 c == IF kind = "start" THEN CleanupFor(s) ELSE s.cleanup
      <4>3. row' = [row EXCEPT !.status = a, !.rs = b, !.gen = g, !.cleanup = c,
                               !.op = <<nextOp, 0>>, !.kind = kind, !.lease = "held"]
        BY <3>3 DEF ClaimedRow
      <4> HIDE DEF a, b, c, g, kind
      <4>4. row'.op = <<nextOp, 0>> /\ row'.lease = "held"
        BY <1>1, <4>3 DEF Rows
      <4>5. req[r].pc = "loaded" /\ UNCHANGED <<wf, cron>>
        BY <2>5 DEF ClaimOperation
      <4> QED
        BY <2>1, <4>2, <4>4, <4>5 DEF CallChanges, job
    <3> QED
      BY <2>5, <3>1, <3>2, <3>3 DEF ClaimOperation
  <2>6. CASE Dispatch(r)
    <3>1. CASE req' = [req EXCEPT ![r] = NoCall]
      <4>1. req'[r] = NoCall
        BY <1>1, <3>1
      <4> QED
        BY <1>2, <2>1, <4>1 DEF CallChanges
    <3>2. CASE req' = [req EXCEPT ![r].pc = "unqueued"] /\ NotQueued(req[r].seen)
      <4>1. req'[r].pc = "unqueued" /\ req'[r].seen = req[r].seen
        BY <1>1, <3>2 DEF Calls
      <4> QED
        BY <2>1, <2>6, <3>2, <4>1 DEF Dispatch, CallChanges
    <3> QED
      BY <2>6, <3>1, <3>2 DEF Dispatch
  <2> QED
    BY <1>5, <2>1, <2>2, <2>3, <2>4, <2>5, <2>6 DEF RequestStep
<1>6. CASE CronStep
  <2>1. UNCHANGED req
    BY <1>6 DEF CronStep, Scan, Inspect, Recreate
  <2>2. Scan => ScanChanges
    <3> SUFFICES ASSUME Scan PROVE ScanChanges
      OBVIOUS
    <3>1. cron' = [pc |-> "scanned", seen |-> Job(row)]
      BY DEF Scan
    <3>2. cron'.pc = "scanned" /\ cron'.seen = Job(row)
      BY <3>1
    <3> QED
      BY <3>2 DEF Scan, ScanChanges
  <2>3. Recreate => ScanChanges
    BY <1>2 DEF Recreate, ScanChanges
  <2>4. Inspect /\ cron' = NoScan => ScanChanges
    BY <1>2 DEF ScanChanges
  <2>5. ASSUME Inspect, cron' = [cron EXCEPT !.pc = "recreate"]
        PROVE ScanChanges
    <3>1. cron'.pc = "recreate" /\ cron'.seen = cron.seen
      BY <1>1, <2>5
    <3> QED
      BY <2>5, <3>1 DEF Inspect, ScanChanges
  <2>6. ASSUME
             /\ Inspect /\ Replaceable(cron.seen.op) /\ StillOwned(cron.seen)
             /\ row' = [row EXCEPT !.op = <<nextOp, 0>>, !.lease = "held"]
             /\ cron' = [pc |-> "recreate",
                         seen |-> [cron.seen EXCEPT !.op = <<nextOp, 0>>]]
        PROVE ScanChanges
    <3>1. /\ row'.op = <<nextOp, 0>> /\ row'.gen = row.gen /\ row'.kind = row.kind
          /\ row'.cleanup = row.cleanup
      BY <1>1, <2>6 DEF Rows
    <3>2. cron'.pc = "recreate" /\ cron'.seen = [cron.seen EXCEPT !.op = <<nextOp, 0>>]
      BY <2>6
    <3> QED
      BY <2>6, <3>1, <3>2 DEF Inspect, ScanChanges, StillOwned, Replaceable
  <2>7. Inspect => \/ cron' = NoScan
                   \/ cron' = [cron EXCEPT !.pc = "recreate"]
                   \/ /\ Replaceable(cron.seen.op) /\ StillOwned(cron.seen)
                      /\ row' = [row EXCEPT !.op = <<nextOp, 0>>, !.lease = "held"]
                      /\ cron' = [pc |-> "recreate",
                                  seen |-> [cron.seen EXCEPT !.op = <<nextOp, 0>>]]
    BY DEF Inspect
  <2> QED
    BY <1>4, <1>6, <2>1, <2>2, <2>3, <2>4, <2>5, <2>6, <2>7 DEF CronStep
<1>7. CASE LeaseExpires \/ PowerOff \/ UNCHANGED vars
  BY <1>3, <1>4, <1>7 DEF LeaseExpires, PowerOff, vars
<1>8. ASSUME NEW o \in OpIds, RunStep(o) \/ Heartbeat(o) \/ Handoff(o)
      PROVE  UNCHANGED <<req, cron>>
  BY <1>8 DEF RunStep, StartStep, StopStep, FailureStep, ContinuationStep,
     Input, Cleanup, PrepareDisk, Deploy, Teardown, Undo, Record, Provision, Boot, Session,
     Health, Policy, Initialize, Complete, Finish, DeleteDisk, Erase, Failed, Mark, Release,
     Activate, Signal, WaitTimesOut, Heartbeat, Handoff
<1> QED
  BY <1>3, <1>4, <1>5, <1>6, <1>7, <1>8 DEF Next
-----------------------------------------------------------------------------
(* The disk.                                                               *)

\* Only a run at "deleteDisk" deletes the disk.
LEMMA DiskGone ==
    ASSUME [Next]_vars, disk, ~disk'
    PROVE  \E o \in OpIds : wf[o].pc = "deleteDisk"
<1>1. ASSUME NEW o \in OpIds, RunStep(o) \/ Heartbeat(o) \/ Handoff(o)
      PROVE  wf[o].pc = "deleteDisk"
  <2>1. ~PrepareDisk(o)
    BY DEF PrepareDisk
  <2> QED
    BY <1>1, <2>1 DEF RunStep, StartStep, StopStep, FailureStep, ContinuationStep, azure,
       Input, Cleanup, Deploy, Teardown, Undo, Record, Provision, Boot, Session,
       Health, Policy, Initialize, Complete, Finish, DeleteDisk, Erase, Failed, Mark,
       Release, Activate, Signal, WaitTimesOut, Heartbeat, Handoff
<1>2. ASSUME NEW r \in Requests,
             Reserve(r) \/ Ask(r) \/ Cancel(r) \/ RequestStep(r) \/ RequestDies(r)
      PROVE  FALSE
  BY <1>2 DEF RequestStep, Reserve, Ask, LoadRow, Cancel, Join, Decline, Reopen,
     ClaimOperation, Dispatch, MarkQueueFailure, RequestDies, azure
<1>3. ~(LeaseExpires \/ CronStep \/ PowerOff \/ UNCHANGED vars)
  BY DEF LeaseExpires, CronStep, Scan, Inspect, Recreate, PowerOff, azure, vars
<1> QED
  BY <1>1, <1>2, <1>3 DEF Next

\* What a request could not queue is the operation of the row that it gives up.
LEMMA GivenUpKind ==
    ASSUME TypeInv, Related, NEW r \in Requests,
           req[r].pc = "unqueued", row.op = req[r].seen.op
    PROVE  row.kind = req[r].seen.kind /\ row.gen = req[r].seen.gen
<1> DEFINE s == req[r].seen
<1>1. s.op \in OpIds /\ s.kind \in Kinds
  BY DEF TypeInv, JobsOK
<1>2. row \in Snapshots /\ s \in Snapshots
  BY DEF Snapshots
<1>3. row \in Rows /\ s \in Rows
  BY <1>2, SnapshotsType
<1>4. row.op = s.op
  OBVIOUS
<1> HIDE DEF s
<1>5. row.kind \in Kinds
  BY <1>1, <1>3, <1>4, NoneIsNew DEF Rows, TypeInv, TypeOK
<1>6. s.op # None /\ s.op[1] \in 1..MaxOps
  BY <1>1, NoneIsNew DEF OpIds
<1>7. Mentioned(s.op[1], s.kind, s.gen) /\ Mentioned(s.op[1], row.kind, row.gen)
  BY <1>2, <1>4, <1>6 DEF Mentioned
<1>8. row.gen \in Generations /\ s.gen \in Generations
  BY <1>3 DEF Rows
<1> QED
  BY <1>1, <1>5, <1>6, <1>7, <1>8 DEF Related, OneMeaning, s

LEMMA DeletingStays ==
    ASSUME TypeInv, Related, KindsOfSteps, DiskInv, DeletesQueued, [Next]_vars,
           Deleting
    PROVE  Deleting'
<1>1. RowSame \/ RowPassedOn => Deleting'
  BY DEF RowSame, RowPassedOn, SamePhase, Deleting
<1>2. ~Exists => row.status = "gone"
  BY DEF Exists
<1>3. Exists => row.status = "deleting" /\ row.kind = "delete"
  BY DEF Exists, Deleting, DiskInv, DeleteIsFinal
<1>4. ~RowGivenUp
  BY <1>3, GivenUpKind DEF RowGivenUp, DeletesQueued
<1>5. ASSUME RowTaken PROVE Deleting'
  <2>1. PICK r \in Requests :
           /\ ClaimMatches(req[r].seen)
           /\ req[r].seen.status \in AcceptedStatuses(req[r].kind)
           /\ row'.status = IF req[r].kind = "delete" THEN "deleting" ELSE "provisioning"
    BY <1>5 DEF RowTaken
  <2>2. req[r].seen.status = "deleting" /\ req[r].kind \in Kinds
    BY <1>3, <2>1 DEF ClaimMatches, TypeInv, TypeOK, Calls
  <2>3. req[r].kind = "delete"
    BY <2>1, <2>2 DEF AcceptedStatuses, Kinds
  <2> QED
    BY <2>1, <2>3 DEF Deleting
<1>6. ASSUME NEW o \in OpIds, RowWritten(o) PROVE Deleting'
  <2>1. Current(o) /\ row.status = "deleting" /\ row.kind = "delete"
    BY <1>3, <1>6 DEF RowWritten, Current
  <2>3. wf[o].pc \in {"record", "provision", "boot", "complete", "finish", "erase", "mark"}
           \cup HandoffPoints
    BY <1>6 DEF RowWritten
  <2>4. Live(o)
    BY <2>3 DEF Live, HandoffPoints, Terminal
  <2>5. wf[o].kind = "delete"
    BY <2>1, <2>4, OwnerAgrees DEF Current
  <2>6. wf[o].pc \notin {"record", "provision", "boot", "complete"}
    BY <2>5 DEF KindsOfSteps, KindOfStep, StartSteps
  <2>7. wf[o].pc # "finish"
    BY <2>5 DEF DiskInv, DeleteSteps, At
  <2> QED
    BY <1>6, <2>1, <2>5, <2>6, <2>7 DEF RowWritten, Deleting, FailedStatus, SamePhase
<1> QED
  BY <1>1, <1>4, <1>5, <1>6, StepWrites DEF RowChanges

LEMMA DeleteIsFinalStep ==
    ASSUME TypeInv, TypeInv', Related, KindsOfSteps, DiskInv, DeletesQueued, [Next]_vars
    PROVE  DeleteIsFinal'
<1>1. Deleting => Deleting'
  BY DeletingStays
<1>2. /\ row.status = "deleting" => row.kind = "delete"
      /\ \A s \in Snapshots : s.kind = "delete" => Deleting
      /\ \A o \in OpIds : Live(o) /\ wf[o].kind = "delete" => Deleting
  BY DEF DiskInv, DeleteIsFinal
<1>3. \A r \in Requests : req[r].kind \in Kinds
  BY DEF TypeInv, TypeOK, Calls
<1>4. ASSUME NEW o \in OpIds, RowWritten(o)
      PROVE  row'.status = "deleting" => row'.kind = "delete"
  <2>1. CASE wf[o].pc = "mark"
    <3>1. Live(o) /\ row.op = o
      BY <1>4, <2>1 DEF Live, Terminal, RowWritten, Current
    <3>2. row.kind = wf[o].kind
      BY <3>1, OwnerAgrees
    <3> QED
      BY <1>4, <2>1, <3>2 DEF RowWritten, HandoffPoints, FailedStatus, SameOwner
  <2>2. CASE wf[o].pc # "mark"
    BY <1>2, <1>4, <2>2 DEF RowWritten, SameOwner, SamePhase
  <2> QED
    BY <2>1, <2>2
<1>5. row'.status = "deleting" => row'.kind = "delete"
  BY <1>2, <1>4, StepWrites DEF RowChanges, RowSame, RowGivenUp, RowTaken, RowPassedOn,
     SamePhase, SameOwner
<1>6. row'.kind = "delete" => row.kind = "delete" \/ Deleting'
  BY StepWrites, NoneIsNew DEF RowChanges, RowSame, RowGivenUp, RowTaken, RowPassedOn,
     RowWritten, SameOwner, Deleting, Kinds
<1>7. row'.kind = "delete" => Deleting'
  BY <1>1, <1>2, <1>6, SnapshotsType
<1>8. FreshRow.kind # "delete" /\ \A s : Job(s).kind = s.kind
  BY NoneIsNew DEF FreshRow, Job, Kinds
<1>9. ASSUME NEW q \in Requests, req'[q].seen.kind = "delete" PROVE Deleting'
  <2>1. CallChanges(q)
    BY StepCopies
  <2> QED
    BY <1>1, <1>2, <1>7, <1>8, <1>9, <2>1, SnapshotsType DEF CallChanges
<1>10. ASSUME cron'.seen.kind = "delete" PROVE Deleting'
  <2>1. ScanChanges
    BY StepCopies
  <2>2. CASE cron'.seen = [cron.seen EXCEPT !.op = <<nextOp, 0>>]
    <3>1. cron'.seen.kind = cron.seen.kind
      BY <2>2, SnapshotsType DEF Rows
    <3> QED
      BY <1>1, <1>2, <1>10, <3>1, SnapshotsType
  <2> QED
    BY <1>1, <1>2, <1>8, <1>10, <2>1, <2>2, SnapshotsType DEF ScanChanges
<1>11. \A s \in Snapshots' : s.kind = "delete" => Deleting'
  BY <1>7, <1>9, <1>10 DEF Snapshots
<1>12. ASSUME NEW p \in OpIds, Live(p)', wf'[p].kind = "delete" PROVE Deleting'
  <2>1. RunChanges(p)
    BY StepChanges
  <2>2. CASE RunHatches(p)
    BY <1>1, <1>2, <1>12, <2>2 DEF RunHatches, Inherits, Live, Terminal
  <2>3. CASE RunBorn(p)
    BY <1>1, <1>2, <1>12, <2>3 DEF RunBorn
  <2>4. ~RunEnds(p)
    BY <1>12 DEF RunEnds, Live
  <2>5. CASE \/ wf'[p] = wf[p] \/ RunBegins(p) \/ RunUndone(p) \/ RunHands(p)
             \/ RunWakes(p) \/ RunGoes(p)
    <3>1. Live(p) /\ wf'[p].kind = wf[p].kind
      BY <1>12, <2>5 DEF RunBegins, RunUndone, RunHands, RunWakes, RunGoes, Inherits, Live,
         Terminal, HandoffPoints
    <3> QED
      BY <1>1, <1>2, <1>12, <3>1
  <2> QED
    BY <2>1, <2>2, <2>3, <2>4, <2>5 DEF RunChanges
<1> QED
  BY <1>5, <1>11, <1>12 DEF DeleteIsFinal

\* Where a run is after a step, it or its parent was before, or it has just come.
LEMMA StepFrom ==
    ASSUME TypeInv, KindsOfSteps, NEW p \in OpIds, NEW pcs, At(p, pcs)', [Next]_vars,
           pcs \cap ({"none", "input", "failed", "waiting", "activate"} \cup Terminal) = {}
    PROVE  \/ \E q \in OpIds :
                /\ At(q, pcs) /\ wf'[p].kind = wf[q].kind
                /\ wf'[p].gen = wf[q].gen /\ wf'[p].cleanup = wf[q].cleanup
                /\ (q = p \/ (wf[q].pc = "activate" /\ p = NextId(q)))
           \/ RunBegins(p) /\ wf'[p].pc \in pcs
           \/ RunUndone(p) /\ wf'[p].pc \in pcs
           \/ RunGoes(p) /\ wf'[p].pc \in pcs
<1>1. RunChanges(p)
  BY StepChanges
<1>2. CASE wf'[p] = wf[p]
  BY <1>2 DEF At
<1>3. ~RunEnds(p) /\ ~RunBorn(p)
  BY DEF RunEnds, RunBorn, At, Terminal
<1>4. CASE RunHatches(p)
  <2>1. PICK q \in OpIds : /\ wf[q].pc = "activate" /\ p = NextId(q)
                           /\ wf'[p].pc = "waiting" /\ Inherits(p, q)
    BY <1>4 DEF RunHatches
  <2> QED
    BY <2>1 DEF At, Inherits
<1>5. CASE RunBegins(p)
  <2>1. wf'[p].pc \notin {"activate", "waiting"}
    BY <1>5 DEF RunBegins, FirstStep
  <2> QED
    BY <1>5, <2>1 DEF At
<1>6. CASE RunUndone(p)
  BY <1>6 DEF At, RunUndone
<1>7. CASE RunHands(p)
  <2>1. PICK compact \in Compacts(p) :
          /\ wf'[p].cleanup = HandedCleanup(p, compact)
          /\ wf'[p].resume = IF compact THEN "input"
                             ELSE IF wf[p].pc = "undo" THEN "failed" ELSE wf[p].pc
    BY <1>7 DEF RunHands
  <2>2. ~compact /\ wf[p].pc # "undo" /\ wf'[p].pc = "activate"
    BY <1>7, <2>1 DEF At, RunHands
  <2> QED
    BY <1>7, <2>1, <2>2 DEF At, RunHands, HandedCleanup
<1>8. CASE RunWakes(p)
  <2>1. wf[p].resume \notin {"activate", "waiting"}
    BY <1>8 DEF KindsOfSteps, RunWakes, HandoffPoints
  <2> QED
    BY <1>8, <2>1 DEF At, RunWakes, Inherits
<1>9. CASE RunGoes(p)
  <2>1. wf'[p].pc \notin {"activate", "waiting"}
    BY <1>9 DEF RunGoes, Arrow
  <2> QED
    BY <1>9, <2>1 DEF At
<1> QED
  BY <1>1, <1>2, <1>3, <1>4, <1>5, <1>6, <1>7, <1>8, <1>9 DEF RunChanges

LEMMA DeleteStepsStep ==
    ASSUME TypeInv, KindsOfSteps, DiskInv, [Next]_vars
    PROVE  DeleteSteps'
<1> SUFFICES ASSUME NEW p \in OpIds
             PROVE  /\ At(p, {"deleteDisk", "erase"})' => wf'[p].kind = "delete"
                    /\ At(p, {"finish"})' => wf'[p].kind = "stop"
  BY DEF DeleteSteps
<1>1. \A q \in OpIds : /\ At(q, {"deleteDisk", "erase"}) => wf[q].kind = "delete"
                       /\ At(q, {"finish"}) => wf[q].kind = "stop"
  BY DEF DiskInv, DeleteSteps
<1>2. RunBegins(p) \/ RunUndone(p) => wf'[p].pc \notin {"deleteDisk", "erase", "finish"}
  BY DEF RunBegins, RunUndone, FirstStep
<1>3. ASSUME RunGoes(p), wf'[p].pc \in {"deleteDisk", "erase", "finish"}
      PROVE  IF wf'[p].pc = "finish" THEN wf'[p].kind = "stop" ELSE wf'[p].kind = "delete"
  <2>1. wf'[p].kind = wf[p].kind /\ wf[p].kind \in Kinds
    BY <1>3, RunsType DEF RunGoes, Inherits
  <2>2. CASE wf[p].pc = "teardown"
    <3>1. wf[p].kind # "start"
      BY <2>2 DEF KindsOfSteps, KindOfStep, StopSteps
    <3>2. wf'[p].pc = "finish" <=> wf[p].kind = "stop"
      BY <1>3, <2>2 DEF RunGoes, Arrow
    <3> QED
      BY <2>1, <3>1, <3>2 DEF Kinds
  <2>3. CASE wf[p].pc = "deleteDisk" /\ wf'[p].pc = "erase"
    BY <1>1, <2>1, <2>3 DEF At
  <2> QED
    BY <1>3, <2>2, <2>3 DEF RunGoes, Arrow
<1>4. ASSUME At(p, {"deleteDisk", "erase"})' PROVE wf'[p].kind = "delete"
  <2>1. {"deleteDisk", "erase"}
          \cap ({"none", "input", "failed", "waiting", "activate"} \cup Terminal) = {}
    BY DEF Terminal
  <2> QED
    BY <1>1, <1>2, <1>3, <1>4, <2>1, StepFrom
<1>5. ASSUME At(p, {"finish"})' PROVE wf'[p].kind = "stop"
  <2>1. {"finish"}
          \cap ({"none", "input", "failed", "waiting", "activate"} \cup Terminal) = {}
    BY DEF Terminal
  <2> QED
    BY <1>1, <1>2, <1>3, <1>5, <2>1, StepFrom
<1> QED
  BY <1>4, <1>5

LEMMA DiskMadeStep ==
    ASSUME TypeInv, KindsOfSteps, [Next]_vars, DiskMade'
    PROVE  DiskMade \/ disk'
<1>1. ASSUME NEW o \in OpIds, RowWritten(o), row'.disk \/ row'.rs = "booting"
      PROVE  DiskMade
  <2>1. wf[o].pc \in {"provision", "boot", "complete"} => At(o, AfterDisk)
    BY DEF At, AfterDisk
  <2>2. wf[o].pc \notin {"provision", "boot", "complete"} => row.disk \/ row.rs = "booting"
    BY <1>1 DEF RowWritten, SamePhase, SameData
  <2> QED
    BY <2>1, <2>2 DEF DiskMade
<1>2. CASE row'.disk \/ row'.rs = "booting"
  BY <1>1, <1>2, StepWrites DEF RowChanges, RowSame, RowGivenUp, RowTaken, RowPassedOn,
     SamePhase, SameData, DiskMade
<1>3. ASSUME NEW p \in OpIds, At(p, AfterDisk)' PROVE DiskMade \/ disk'
  <2>1. AfterDisk
          \cap ({"none", "input", "failed", "waiting", "activate"} \cup Terminal) = {}
    BY DEF Terminal, AfterDisk
  <2>2. RunBegins(p) \/ RunUndone(p) => wf'[p].pc \notin AfterDisk
    BY DEF RunBegins, RunUndone, FirstStep, AfterDisk
  <2>3. ASSUME RunGoes(p), wf'[p].pc \in AfterDisk
        PROVE  wf[p].pc \in AfterDisk \/ disk' \/ wf[p].in.rs = "booting"
    BY <2>3 DEF RunGoes, Arrow, AfterDisk, Resumes
  <2> QED
    BY <1>3, <2>1, <2>2, <2>3, StepFrom DEF DiskMade, At
<1>4. ASSUME NEW p \in OpIds, wf'[p].in.rs = "booting" PROVE DiskMade
  <2>1. RunChanges(p)
    BY StepChanges
  <2>2. ~RunEnds(p) /\ ~RunBorn(p)
    BY <1>4 DEF RunEnds, RunBorn, Blank, NoInput
  <2>3. RunBegins(p) => row.rs = "booting"
    BY <1>4 DEF RunBegins
  <2>4. RunHatches(p) => \E q \in OpIds : wf[q].in.rs = "booting"
    BY <1>4 DEF RunHatches, Inherits
  <2>5. RunUndone(p) \/ RunHands(p) \/ RunWakes(p) \/ RunGoes(p) => wf[p].in.rs = "booting"
    BY <1>4 DEF RunUndone, RunHands, RunWakes, RunGoes, Inherits
  <2> QED
    BY <1>4, <2>1, <2>2, <2>3, <2>4, <2>5 DEF RunChanges, DiskMade
<1> QED
  BY <1>2, <1>3, <1>4 DEF DiskMade

LEMMA DiskStep ==
    ASSUME TypeInv, TypeInv', Related, KindsOfSteps, DiskInv, DeletesQueued, [Next]_vars
    PROVE  DiskInv'
<1>1. DeleteIsFinal' /\ DeleteSteps'
  BY DeleteIsFinalStep, DeleteStepsStep
<1>2. Deleting => Deleting'
  BY DeletingStays
<1>3. ASSUME NEW o \in OpIds, wf[o].pc = "deleteDisk" PROVE Deleting
  BY <1>3 DEF DiskInv, DeleteSteps, DeleteIsFinal, At, Live, Terminal
<1>4. disk => disk' \/ Deleting
  BY <1>3, DiskGone
<1>5. DiskMade' => disk' \/ Deleting'
  BY <1>2, <1>4, DiskMadeStep DEF DiskInv
<1> QED
  BY <1>1, <1>5 DEF DiskInv

LEMMA DiskInit == Init => DiskInv
<1> SUFFICES ASSUME Init PROVE DiskInv
  OBVIOUS
<1>1. /\ row = FreshRow /\ cron.seen = FreshRow
      /\ \A r \in Requests : req[r].seen = FreshRow
      /\ \A o \in OpIds : wf[o] = NoRun
  BY DEF Init, NoScan, NoCall
<1>2. /\ FreshRow.kind # "delete" /\ FreshRow.status = "pending"
      /\ ~FreshRow.disk /\ FreshRow.rs = "stopped"
      /\ NoRun.pc = "none" /\ NoRun.in.rs = "stopped"
  BY NoneIsNew DEF FreshRow, NoRun, NoInput, Kinds
<1>3. \A s \in Snapshots : s = FreshRow
  BY <1>1 DEF Snapshots
<1>4. \A o \in OpIds : \A pcs : "none" \notin pcs => ~At(o, pcs)
  BY <1>1, <1>2 DEF At
<1> QED
  BY <1>1, <1>2, <1>3, <1>4 DEF DiskInv, DeleteIsFinal, DeleteSteps, DiskMade, Live, AfterDisk

\* As long as every delete is queued, the disk of a workspace that was ever
\* provisioned stays until the workspace is deleted: no stop, failure, retry or
\* handoff takes the files (deleteDisk after claimOperation's `deleting`).
THEOREM DiskKeptHolds == Spec /\ []DeletesQueued => []DiskKept
<1>1. IInv /\ IInv' /\ DeletesQueued /\ DiskInv /\ [Next]_vars => DiskInv'
  BY DiskStep DEF IInv
<1>2. DiskInv => DiskKept
  BY DEF DiskInv, DiskKept, DiskMade, Deleting
<1> QED
  BY <1>1, <1>2, DiskInit, InvariantHolds, PTL DEF Spec
-----------------------------------------------------------------------------
(* The virtual machines.                                                   *)

\* Only a deploying run makes a VM: that of its generation.
LEMMA VmChanges ==
    ASSUME TypeInv, [Next]_vars
    PROVE  \/ Attached' \subseteq Attached
           \/ \E o \in OpIds :
                /\ wf[o].pc = "deploy" /\ UNCHANGED row
                /\ Attached' \subseteq Attached \cup {wf[o].gen}
<1>1. vm \in [Generations -> {"absent", "on", "off"}]
  BY DEF TypeInv, TypeOK
<1>2. ASSUME NEW gs, NEW gone, TearDown(gs, gone) PROVE Attached' \subseteq Attached
  <2>1. ASSUME NEW g \in Generations, vm'[g] # "absent" PROVE vm[g] # "absent"
    BY <1>1, <1>2, <2>1 DEF TearDown
  <2> QED
    BY <2>1 DEF Attached
<1>3. UNCHANGED vm => Attached' \subseteq Attached
  BY DEF Attached
<1>4. PowerOff => Attached' \subseteq Attached
  BY <1>1 DEF PowerOff, Attached
<1>5. ASSUME NEW o \in OpIds, Deploy(o)
      PROVE  /\ wf[o].pc = "deploy" /\ UNCHANGED row
             /\ Attached' \subseteq Attached \cup {wf[o].gen}
  BY <1>1, <1>5 DEF Deploy, Attached
<1>6. ASSUME NEW o \in OpIds, Cleanup(o) \/ Teardown(o) \/ Undo(o)
      PROVE  Attached' \subseteq Attached
  BY <1>2, <1>6 DEF Cleanup, Teardown, Undo
<1>7. ASSUME NEW o \in OpIds, RunStep(o) \/ Heartbeat(o) \/ Handoff(o)
      PROVE  UNCHANGED vm \/ Cleanup(o) \/ Teardown(o) \/ Undo(o) \/ Deploy(o)
  BY <1>7 DEF RunStep, StartStep, StopStep, FailureStep, ContinuationStep,
     Input, Record, PrepareDisk, Provision, Boot, Session, Health, Policy, Initialize,
     Complete, Finish, DeleteDisk, Erase, Failed, Mark, Release, Activate, Signal,
     WaitTimesOut, Heartbeat, Handoff, azure
<1>8. ASSUME NEW r \in Requests,
             Reserve(r) \/ Ask(r) \/ Cancel(r) \/ RequestStep(r) \/ RequestDies(r)
      PROVE  UNCHANGED vm
  BY <1>8 DEF Reserve, Ask, Cancel, RequestStep, RequestDies, LoadRow, Join,
     Decline, Reopen, ClaimOperation, Dispatch, MarkQueueFailure, azure
<1>9. LeaseExpires \/ CronStep \/ UNCHANGED vars => UNCHANGED vm
  BY DEF LeaseExpires, CronStep, Scan, Inspect, Recreate, vars, azure
<1> QED
  BY <1>3, <1>4, <1>5, <1>6, <1>7, <1>8, <1>9 DEF Next

\* The deploying run owns the row, which has cleaned up.
LEMMA DeployOwns ==
    ASSUME TypeInv, KindsOfSteps, VmInv, NEW o \in OpIds, wf[o].pc = "deploy"
    PROVE  row.op = o /\ row.gen = wf[o].gen /\ Busy /\ row.cleanup = None
<1>1. Live(o) /\ wf[o].kind = "start" /\ wf[o].gen \in Generations
  BY RunsType DEF Live, Terminal, KindsOfSteps, KindOfStep, StartSteps
<1>2. Starting(o, wf[o].gen)
  BY <1>1 DEF Starting, Passing
<1>3. row.op = o /\ row.gen = wf[o].gen /\ Busy
  BY <1>1, <1>2 DEF VmInv, StarterOwns, Ending
<1>4. row.cleanup = None
  BY <1>3 DEF VmInv, CleanupOver, At, AfterDisk, Owns
<1> QED
  BY <1>3, <1>4

\* After the step there is no VM of generation g.
Gone(g) == g # None => vm'[g] = "absent"

\* What is absent stays so, unless the row's own start deploys it.
LEMMA AbsentStays ==
    ASSUME TypeInv, KindsOfSteps, VmInv, [Next]_vars,
           NEW g \in Generations \cup {None}, Absent(g), ~Gone(g)
    PROVE  /\ g = row.gen /\ Busy /\ row.cleanup = None /\ UNCHANGED row
           /\ \E o \in OpIds : wf[o].pc = "deploy" /\ wf[o].gen = g
<1>1. g \in Generations /\ g \notin Attached /\ g \in Attached'
  BY NoneIsNew DEF Absent, Gone, Attached
<1>2. PICK o \in OpIds : /\ wf[o].pc = "deploy" /\ UNCHANGED row
                         /\ Attached' \subseteq Attached \cup {wf[o].gen}
  BY <1>1, VmChanges
<1>3. g = wf[o].gen
  BY <1>1, <1>2
<1> QED
  BY <1>2, <1>3, DeployOwns

\* Nobody has heard of the next operation number.
LEMMA NumberUnheard ==
    ASSUME TypeInv, Related
    PROVE  /\ \A s \in Snapshots : s.op # None => s.op # <<nextOp, 0>>
           /\ \A o \in OpIds : wf[o].pc # "none" => o # <<nextOp, 0>>
<1>1. nextOp \in Nat
  BY DEF TypeInv, TypeOK
<1>2. ASSUME NEW s \in Snapshots, s.op # None PROVE s.op # <<nextOp, 0>>
  <2>1. s \in Rows /\ s.kind # None
    BY <1>2, SnapshotsType DEF Related, RowShape
  <2>2. s.op[1] \in 1..MaxOps /\ s.kind \in Kinds /\ s.gen \in Generations
    BY <1>2, <2>1 DEF Rows, OpIds
  <2>3. s.op[1] < nextOp
    BY <1>2, <2>2 DEF Mentioned, Related, FreshIds
  <2> QED
    BY <1>1, <2>3
<1> QED
  BY <1>1, <1>2, NewNumber

\* How the row comes to name another operation.
PassesOn(p) ==
    /\ Current(p) /\ wf[p].pc \in HandoffPoints /\ wf'[p].pc = "activate"
    /\ row'.op = NextId(p) /\ row'.gen = row.gen /\ row'.kind = row.kind
    /\ SamePhase /\ SameData
    /\ \A q \in OpIds : q # p => wf'[q] = wf[q]

LEMMA OwnerChanges ==
    ASSUME TypeInv, Related, [Next]_vars, row'.op # None
    PROVE  \/ row'.op = row.op /\ row'.cleanup \in {row.cleanup, None}
           \/ row'.op = <<nextOp, 0>> /\ UNCHANGED wf
           \/ \E p \in OpIds : PassesOn(p)
<1>1. ASSUME NEW o \in OpIds, RowWritten(o)
      PROVE  \/ row'.op = row.op /\ row'.cleanup \in {row.cleanup, None}
             \/ PassesOn(o)
  BY <1>1 DEF RowWritten, SameOwner, SameData, PassesOn
<1>2. RowSame \/ RowGivenUp => row'.op = row.op /\ row'.cleanup = row.cleanup
  BY DEF RowSame, RowGivenUp, SameOwner, SameData
<1>3. RowTaken \/ RowPassedOn => row'.op = <<nextOp, 0>> /\ UNCHANGED wf
  BY DEF RowTaken, RowPassedOn
<1> QED
  BY <1>1, <1>2, <1>3, StepWrites DEF RowChanges

\* A live run that owns the row after a step owned it before, or has just got it
\* from its parent.
LEMMA OwnsFrom ==
    ASSUME TypeInv, Related, [Next]_vars, NEW o \in OpIds, Live(o), row'.op = o
    PROVE  row.op = o /\ row'.cleanup \in {row.cleanup, None}
<1>1. row'.op # None /\ o # <<nextOp, 0>>
  BY NoneIsNew, NumberUnheard DEF Live
<1>2. ASSUME NEW p \in OpIds, PassesOn(p) PROVE FALSE
  <2>1. row.op = p /\ o = NextId(p)
    BY <1>2 DEF PassesOn, Current
  <2>2. o[1] = p[1] /\ o[2] > p[2]
    BY <2>1 DEF NextId, OpIds
  <2>3. wf[o].pc = "none"
    BY <2>1, <2>2, NoneIsNew DEF Related, NobodyAhead
  <2> QED
    BY <2>3 DEF Live
<1> QED
  BY <1>1, <1>2, OwnerChanges

\* A start that still owns the row is under way.
LEMMA OwnerBusy ==
    ASSUME TypeInv, Related, KindsOfSteps, VmInv, NEW o \in OpIds, row.op = o,
           wf[o].pc \in StartSteps
    PROVE  Busy /\ wf[o].kind = "start"
<1>1. Live(o) /\ wf[o].kind = "start" /\ wf[o].pc # "release"
  BY DEF Live, Terminal, KindsOfSteps, KindOfStep, StartSteps
<1> QED
  BY <1>1 DEF VmInv, StarterOwns

LEMMA RowPhasesStep ==
    ASSUME TypeInv, TypeInv', Related, KindsOfSteps, VmInv, [Next]_vars
    PROVE  RowPhases'
<1>1. /\ row.status = "provisioning" => row.kind \in {"start", "stop"}
      /\ row.status = "failed" => row.rs = "failed"
      /\ row.status \in {"pending", "stopped", "gone"} => row.op = None
      /\ row.status = "ready" => row.rs = "ready" /\ row.cleanup = None
      /\ row.status = "deleting" => row.kind = "delete"
      /\ row.kind = "start" /\ row.rs \in Active => Busy
      /\ row.rs = "booting" => Busy
      /\ row.rs = "failed" => row.op # None
  BY DEF VmInv, RowPhases
<1>2. row'.op = None <=> row'.kind = None
  BY DEF TypeInv, TypeOK
<1>3. RowSame => RowPhases'
  BY <1>1 DEF RowSame, SameOwner, SamePhase, SameData, RowPhases, Busy
<1>4. ASSUME RowGivenUp PROVE RowPhases'
  <2>1. PICK r \in Requests : req[r].pc = "unqueued" /\ row.op = req[r].seen.op
    BY <1>4 DEF RowGivenUp
  <2>2. row.op # None
    BY <2>1, NoneIsNew DEF TypeInv, JobsOK
  <2> QED
    BY <1>4, <2>2 DEF RowGivenUp, SameOwner, SameData, RowPhases, Active
<1>5. ASSUME RowTaken PROVE RowPhases'
  <2>1. PICK r \in Requests :
          /\ row'.status = IF req[r].kind = "delete" THEN "deleting" ELSE "provisioning"
          /\ row'.rs = IF req[r].kind = "start" THEN "queued" ELSE "stopping"
          /\ row'.kind = req[r].kind
    BY <1>5 DEF RowTaken
  <2>2. req[r].kind \in Kinds
    BY DEF TypeInv, TypeOK, Calls
  <2> QED
    BY <1>2, <2>1, <2>2, NoneIsNew DEF RowPhases, Busy, Kinds
<1>6. ASSUME RowPassedOn PROVE RowPhases'
  <2>1. row.op # None
    BY <1>6, NoneIsNew DEF RowPassedOn
  <2>2. row'.op # None
    BY <1>2, <1>6, <2>1 DEF RowPassedOn, TypeInv, TypeOK
  <2> QED
    BY <1>1, <1>6, <2>1, <2>2 DEF RowPassedOn, SamePhase, SameData, RowPhases, Busy
<1>7. ASSUME NEW o \in OpIds, RowWritten(o) PROVE RowPhases'
  <2>1. row.op = o /\ o # None
    BY <1>7, NoneIsNew DEF RowWritten, Current
  <2>2. CASE /\ wf[o].pc \in {"record", "provision", "boot"}
             /\ SameOwner /\ row'.status = row.status
    <3>1. Busy
      BY <2>1, <2>2, OwnerBusy DEF StartSteps
    <3>2. row'.op = row.op /\ row'.kind = row.kind /\ row'.status = row.status
      BY <2>2 DEF SameOwner
    <3>3. row.status = "provisioning" /\ row.kind = "start" /\ row.op # None
      BY <2>1, <3>1 DEF Busy
    <3> QED
      BY <3>2, <3>3 DEF RowPhases, Busy
  <2>3. CASE wf[o].pc \in {"complete", "finish", "erase"}
    BY <1>7, <2>3, NoneIsNew DEF RowWritten, RowPhases, HandoffPoints, Kinds
  <2>4. CASE wf[o].pc = "mark"
    <3>1. row.kind = wf[o].kind
      BY <2>1, <2>4, OwnerAgrees DEF Live, Terminal
    <3> QED
      BY <1>7, <2>1, <2>4, <3>1 DEF RowWritten, RowPhases, HandoffPoints, SameOwner,
         FailedStatus, Active
  <2>5. CASE row'.op = NextId(o) /\ row'.kind = row.kind /\ SamePhase /\ SameData
    <3>1. row'.op # None
      BY <1>2, <2>1, <2>5 DEF TypeInv, TypeOK
    <3> QED
      BY <1>1, <2>1, <2>5, <3>1 DEF SamePhase, SameData, RowPhases, Busy
  <2> QED
    BY <1>7, <2>2, <2>3, <2>4, <2>5 DEF RowWritten, SamePhase
<1> QED
  BY <1>3, <1>4, <1>5, <1>6, <1>7, StepWrites DEF RowChanges

LEMMA LoadedSoundStep ==
    ASSUME TypeInv, TypeInv', Related, KindsOfSteps, VmInv, [Next]_vars
    PROVE  LoadedSound'
<1> SUFFICES ASSUME NEW r \in Requests, req'[r].pc = "loaded",
                    req'[r].seen.gen = row'.gen
             PROVE  LET s == req'[r].seen IN
                    /\ Attached' \subseteq {s.gen, s.cleanup}
                    /\ s.status # "provisioning" =>
                         ~Busy' /\ (s.cleanup # None => Gone(s.gen))
                    /\ s.status = "failed" => s.rs = "failed" /\ s.op # None
                    /\ s.status = "ready" => s.cleanup = None
  BY DEF LoadedSound, Absent, Gone
<1> DEFINE s == req[r].seen
<1>1. CASE req'[r].seen = row /\ UNCHANGED <<row, vm>>
  BY <1>1 DEF VmInv, VmKnown, RowPhases, Busy, Attached, Absent, Gone
<1>2. CASE req'[r] = req[r]
  <2>1. s \in Snapshots /\ s \in Rows /\ row \in Rows
    BY SnapshotsType
  <2>2. s.gen <= row.gen /\ s.gen \in Nat /\ row.gen \in Nat
    BY <2>1 DEF Related, GenerationOrder, Rows, Generations
  <2>3. row'.gen = row.gen
    <3>1. ASSUME RowTaken, row'.gen # row.gen PROVE row'.gen = row.gen + 1
      BY <3>1 DEF RowTaken, ClaimMatches, ClaimedGeneration
    <3>2. ~RowTaken => row'.gen = row.gen
      BY StepWrites DEF RowChanges, RowSame, RowGivenUp, RowPassedOn, RowWritten, SameOwner
    <3> QED
      BY <1>2, <2>2, <3>1, <3>2
  <2>4. /\ Attached \subseteq {s.gen, s.cleanup}
        /\ s.status # "provisioning" =>
             ~Busy /\ (s.cleanup # None => Absent(s.gen))
        /\ s.status = "failed" => s.rs = "failed" /\ s.op # None
        /\ s.status = "ready" => s.cleanup = None
    BY <1>2, <2>3 DEF VmInv, LoadedSound
  <2>5. Attached' \subseteq {s.gen, s.cleanup}
    BY <1>2, <2>3, <2>4, VmChanges, DeployOwns
  <2>6. ASSUME ~Busy PROVE ~Busy'
    <3>1. ASSUME RowTaken PROVE ~Busy'
      BY <2>2, <2>3, <3>1 DEF RowTaken, ClaimMatches, ClaimedGeneration, Busy
    <3>2. ASSUME NEW o \in OpIds, RowWritten(o) PROVE ~Busy'
      BY <2>6, <3>2 DEF RowWritten, SameOwner, SamePhase, FailedStatus, Busy
    <3> QED
      BY <2>6, <3>1, <3>2, StepWrites DEF RowChanges, RowSame, RowGivenUp, RowPassedOn,
         SameOwner, SamePhase, Busy
  <2>7. ASSUME ~Busy, Absent(s.gen) PROVE Gone(s.gen)
    <3>1. s.gen \in Generations \cup {None}
      BY <2>1 DEF Rows
    <3> QED
      BY <2>7, <3>1, AbsentStays
  <2> QED
    BY <1>2, <2>4, <2>5, <2>6, <2>7
<1> QED
  BY <1>1, <1>2, StepCopies DEF CallChanges

\* A claim names every VM that there is.
LEMMA ClaimKnows ==
    ASSUME TypeInv, Related, VmInv, StopsRetriedFirst, RowTaken
    PROVE  /\ Attached \subseteq {row'.gen, row'.cleanup}
           /\ row'.cleanup # None => row'.gen \notin Attached
           /\ row'.status \in {"provisioning", "deleting"}
<1>1. PICK r \in Requests :
        LET s == req[r].seen
            kind == req[r].kind
        IN
        /\ req[r].pc = "loaded" /\ req'[r].pc = "claimed"
        /\ ClaimMatches(s) /\ s.status \in AcceptedStatuses(kind)
        /\ row'.status = IF kind = "delete" THEN "deleting" ELSE "provisioning"
        /\ row'.gen = ClaimedGeneration(kind, s)
        /\ row'.cleanup = IF kind = "start" THEN CleanupFor(s) ELSE s.cleanup
  BY DEF RowTaken
<1> DEFINE s == req[r].seen
           kind == req[r].kind
<1>2. s \in Snapshots /\ s \in Rows /\ kind \in Kinds
  BY SnapshotsType DEF TypeInv, TypeOK, Calls
<1>3. s.gen \in Nat /\ s.gen \in Generations /\ s.cleanup \in Generations \cup {None}
  BY <1>2 DEF Rows, Generations
<1>4. Older(s.cleanup, s.gen) /\ (s.op = None <=> s.kind = None)
  BY <1>2 DEF Related, GenerationOrder, RowShape
<1>5. s.gen = row.gen /\ s.status = row.status
  BY <1>1 DEF ClaimMatches
<1>6. s.status \in {"pending", "ready", "stopped", "failed", "deleting"}
  BY <1>1, <1>2 DEF AcceptedStatuses, Kinds
<1>7. /\ Attached \subseteq {s.gen, s.cleanup}
      /\ s.cleanup # None => Absent(s.gen)
      /\ s.status = "failed" => s.rs = "failed" /\ s.op # None
  BY <1>1, <1>5, <1>6 DEF VmInv, LoadedSound
<1>8. Absent(s.gen) <=> s.gen \notin Attached
  BY <1>3, NoneIsNew DEF Absent, Attached
<1>9. None \notin Attached /\ Attached \subseteq Generations
  BY NoneIsNew DEF Attached
<1>10. CASE kind # "start"
  BY <1>1, <1>7, <1>8, <1>10 DEF ClaimedGeneration
<1>11. CASE kind = "start"
  <2>1. row'.gen = s.gen + 1 /\ row'.cleanup = CleanupFor(s)
    BY <1>1, <1>11 DEF ClaimedGeneration
  <2>2. s.gen + 1 \notin Attached
    BY <1>3, <1>4, <1>7, <1>9 DEF Older, Generations
  <2>3. CASE s.cleanup # None
    BY <1>1, <1>7, <1>8, <2>1, <2>2, <2>3 DEF CleanupFor
  <2>4. CASE s.cleanup = None /\ MayHaveVm(s)
    BY <1>1, <1>7, <1>9, <2>1, <2>2, <2>4 DEF CleanupFor
  <2>5. CASE s.cleanup = None /\ ~MayHaveVm(s)
    <3>1. row.status \in {"pending", "stopped", "failed"}
      BY <1>1, <1>5, <1>11, <2>5 DEF AcceptedStatuses, MayHaveVm
    <3>2. CASE row.status \in {"pending", "stopped"}
      BY <1>1, <2>1, <2>5, <3>2 DEF VmInv, VmKnown, CleanupFor
    <3>3. CASE row.status = "failed"
      <4>1. s.rs = "failed" /\ s.kind \in Kinds
        BY <1>2, <1>4, <1>5, <1>7, <3>3 DEF Rows
      <4>2. s.kind # "start"
        BY <2>5, <4>1 DEF MayHaveVm
      <4>3. s.kind \notin {"stop", "delete"}
        BY <1>1, <1>11, <4>1 DEF StopsRetriedFirst
      <4> QED
        BY <4>1, <4>2, <4>3 DEF Kinds
    <3> QED
      BY <3>1, <3>2, <3>3
  <2> QED
    BY <2>3, <2>4, <2>5
<1> QED
  BY <1>10, <1>11

\* What a run writes leaves no VM unnamed.
LEMMA WriterKnows ==
    ASSUME TypeInv, Related, KindsOfSteps, VmInv, NEW o \in OpIds, RowWritten(o)
    PROVE  /\ Attached \subseteq {row'.gen, row'.cleanup}
           /\ row'.cleanup # None => row'.cleanup = row.cleanup
           /\ row'.gen = row.gen
           /\ row'.status \in {"pending", "stopped", "gone"} => Attached = {}
<1>1. /\ Attached \subseteq {row.gen, row.cleanup}
      /\ row.status \in {"pending", "stopped", "gone"} => Attached = {}
  BY DEF VmInv, VmKnown
<1>2. Owns(o) /\ Current(o)
  BY DEF RowWritten, Owns, Current
<1>3. Live(o) /\ row.cleanup # None => wf[o].cleanup = row.cleanup
  BY <1>2 DEF VmInv, CleanupAgrees
<1>4. Live(o)
  BY DEF Live, RowWritten, Terminal, HandoffPoints
<1>5. ASSUME NEW g \in Generations \cup {None}, Absent(g) PROVE g \notin Attached
  BY <1>5, NoneIsNew DEF Absent, Attached
<1>6. ASSUME Absent(wf[o].cleanup) PROVE row.cleanup \notin Attached
  BY <1>3, <1>4, <1>5, <1>6, RunsType, NoneIsNew DEF Attached
<1>7. ASSUME Absent(wf[o].gen), Absent(wf[o].cleanup) PROVE Attached = {}
  BY <1>1, <1>2, <1>5, <1>6, <1>7, RunsType DEF Current
<1>8. CASE wf[o].pc = "record" /\ SameOwner /\ SamePhase /\ row'.cleanup = None
  <2>1. row.cleanup \notin Attached
    BY <1>6, <1>8 DEF VmInv, TornDown
  <2> QED
    BY <1>1, <1>8, <2>1 DEF SameOwner, SamePhase
<1>9. CASE SameOwner /\ row'.status = row.status /\ row'.cleanup = row.cleanup
  BY <1>1, <1>9 DEF SameOwner
<1>10. CASE wf[o].pc = "complete" /\ row'.status = "ready" /\ row'.gen = row.gen
            /\ row'.cleanup = None
  <2>1. row.cleanup = None
    BY <1>2, <1>10 DEF VmInv, CleanupOver, At, AfterDisk
  <2> QED
    BY <1>1, <1>10, <2>1
<1>11. CASE wf[o].pc \in {"finish", "erase"} /\ row'.gen = row.gen /\ row'.cleanup = None
  <2>1. Attached = {}
    BY <1>7, <1>11 DEF VmInv, TornDown, At
  <2> QED
    BY <1>11, <2>1
<1>12. CASE /\ wf[o].pc = "mark" /\ SameOwner
            /\ row'.status = FailedStatus(wf[o].kind)
            /\ row'.cleanup = IF wf[o].undone THEN None ELSE row.cleanup
  <2>1. wf[o].undone => Attached = {}
    BY <1>7 DEF VmInv, TornDown
  <2> QED
    BY <1>1, <1>12, <2>1 DEF SameOwner, FailedStatus
<1>13. CASE row'.gen = row.gen /\ SamePhase /\ SameData
  BY <1>1, <1>13 DEF SamePhase, SameData
<1>14. CASE SameOwner /\ row'.status = row.status /\ SameData
  BY <1>9, <1>14 DEF SameData
<1> QED
  BY <1>8, <1>9, <1>10, <1>11, <1>12, <1>13, <1>14 DEF RowWritten

LEMMA VmKnownStep ==
    ASSUME TypeInv, TypeInv', Related, KindsOfSteps, VmInv, StopsRetriedFirst, [Next]_vars
    PROVE  VmKnown'
<1> SUFFICES /\ Attached' \subseteq {row'.gen, row'.cleanup}
             /\ row'.status \in {"pending", "stopped", "gone"} => Attached' = {}
             /\ row'.cleanup # None => row'.gen \notin Attached'
  <2>1. row'.gen \in Generations
    BY DEF TypeInv, TypeOK, Rows
  <2> QED
    BY <2>1 DEF VmKnown, Absent, Attached
<1>1. /\ Attached \subseteq {row.gen, row.cleanup}
      /\ row.status \in {"pending", "stopped", "gone"} => Attached = {}
      /\ row.cleanup # None => row.gen \notin Attached
  <2>1. Absent(row.gen) => row.gen \notin Attached
    BY NoneIsNew DEF Absent, Attached
  <2> QED
    BY <2>1 DEF VmInv, VmKnown
<1>2. CASE ~(Attached' \subseteq Attached)
  <2>1. PICK o \in OpIds : /\ wf[o].pc = "deploy" /\ UNCHANGED row
                           /\ Attached' \subseteq Attached \cup {wf[o].gen}
    BY <1>2, VmChanges
  <2> QED
    BY <1>1, <2>1, DeployOwns DEF Busy
<1>3. ASSUME Attached' \subseteq Attached, RowSame \/ RowGivenUp \/ RowPassedOn
      PROVE  /\ Attached' \subseteq {row'.gen, row'.cleanup}
             /\ row'.status \in {"pending", "stopped", "gone"} => Attached' = {}
             /\ row'.cleanup # None => row'.gen \notin Attached'
  BY <1>1, <1>3 DEF RowSame, RowGivenUp, RowPassedOn, SameOwner, SamePhase, SameData
<1>4. CASE Attached' \subseteq Attached /\ RowTaken
  BY <1>4, ClaimKnows
<1>5. CASE Attached' \subseteq Attached /\ \E o \in OpIds : RowWritten(o)
  BY <1>1, <1>5, WriterKnows
<1> QED
  BY <1>2, <1>3, <1>4, <1>5, StepWrites DEF RowChanges

\* A generation to be cleaned up is older than the row's.
LEMMA CleanupIsOld ==
    ASSUME TypeInv, Related, NEW o \in OpIds
    PROVE  wf[o].cleanup # row.gen
<1>1. SUFFICES ASSUME wf[o].cleanup = row.gen PROVE FALSE
  OBVIOUS
<1>2. row.gen \in Generations /\ row.gen \in Nat /\ wf[o].gen \in Nat
  BY RunsType DEF TypeInv, TypeOK, Rows, Generations
<1>3. wf[o].cleanup # None
  BY <1>1, <1>2, NoneIsNew
<1>4. wf[o].cleanup < wf[o].gen /\ wf[o].gen <= row.gen
  BY <1>3 DEF Related, GenerationOrder, Older
<1> QED
  BY <1>1, <1>2, <1>4

\* What a run has torn down stays down in the next step.
LEMMA StaysDown ==
    ASSUME TypeInv, Related, KindsOfSteps, VmInv, [Next]_vars, NEW o \in OpIds
    PROVE  /\ Absent(wf[o].cleanup) => Gone(wf[o].cleanup)
           /\ At(o, {"finish", "deleteDisk", "erase"}) \/ wf[o].undone
                => Gone(wf[o].gen) /\ Gone(wf[o].cleanup)
<1>1. /\ wf[o].gen \in Generations /\ wf[o].cleanup \in Generations \cup {None}
      /\ wf[o].kind \in Kinds /\ o[1] \in 1..MaxOps
  BY RunsType
<1>2. Absent(wf[o].cleanup) => Gone(wf[o].cleanup)
  BY <1>1, AbsentStays, CleanupIsOld
<1>3. ASSUME At(o, {"finish", "deleteDisk", "erase"}), Absent(wf[o].gen)
      PROVE  Gone(wf[o].gen)
  <2>1. Live(o) /\ wf[o].kind # "start"
    BY <1>3 DEF At, Live, Terminal, KindsOfSteps, KindOfStep, StopSteps
  <2>2. wf[o].gen = row.gen => row.kind # "start"
    BY <1>1, <2>1 DEF Mentioned, Related, StopIsFinal, Past
  <2> QED
    BY <1>1, <1>3, <2>2, AbsentStays DEF Busy
<1>4. ASSUME wf[o].undone, Absent(wf[o].gen) PROVE Gone(wf[o].gen)
  <2>1. SUFFICES ASSUME ~Gone(wf[o].gen) PROVE FALSE
    OBVIOUS
  <2>2. PICK d \in OpIds : wf[d].pc = "deploy" /\ wf[d].gen = wf[o].gen
    BY <1>1, <1>4, <2>1, AbsentStays
  <2>3. wf[o].pc \in {"mark", "release"} /\ wf[o].kind = "start"
    BY <1>4 DEF VmInv, TornDown
  <2>4. Starting(o, wf[o].gen)
    BY <2>3 DEF Starting, Live, Terminal, Passing
  <2>5. Starting(d, wf[o].gen)
    BY <2>2 DEF Starting, Live, Terminal, Passing, KindsOfSteps, KindOfStep, StartSteps
  <2>6. o = d
    BY <1>1, <2>4, <2>5 DEF Related, OneStarter
  <2> QED
    BY <2>2, <2>3, <2>6
<1> QED
  BY <1>2, <1>3, <1>4 DEF VmInv, TornDown

LEMMA TornDownStep ==
    ASSUME TypeInv, Related, KindsOfSteps, VmInv, [Next]_vars
    PROVE  TornDown'
<1> SUFFICES ASSUME NEW p \in OpIds
             PROVE  /\ At(p, {"finish", "deleteDisk", "erase"})' \/ wf'[p].undone
                         => Gone(wf'[p].gen) /\ Gone(wf'[p].cleanup)
                    /\ wf'[p].pc = "record" => Gone(wf'[p].cleanup)
                    /\ wf'[p].undone => wf'[p].pc \in {"mark", "release"}
                                        /\ wf'[p].kind = "start"
  BY DEF TornDown, Absent, Gone
<1>1. RunChanges(p)
  BY StepChanges
<1>2. wf[p].gen \in Generations /\ wf[p].cleanup \in Generations \cup {None}
  BY RunsType
<1>3. ASSUME NEW g \in Generations \cup {None}, NEW gs, NEW gone, TearDown(gs, gone),
             g = None \/ g \in gone
      PROVE  Gone(g)
  BY <1>3 DEF TearDown, Gone
<1>4. ASSUME TearDown(Targets(p), Targets(p)) PROVE Gone(wf[p].gen) /\ Gone(wf[p].cleanup)
  <2>1. wf[p].gen \in Targets(p)
    BY <1>2, NoneIsNew DEF Targets
  <2>2. wf[p].cleanup = None \/ wf[p].cleanup \in Targets(p)
    BY <1>2 DEF Targets
  <2> QED
    BY <1>2, <1>3, <1>4, <2>1, <2>2
<1>5. /\ wf[p].undone => wf[p].pc \in {"mark", "release"} /\ wf[p].kind = "start"
      /\ wf[p].pc = "record" => Absent(wf[p].cleanup)
  BY DEF VmInv, TornDown
<1>6. ASSUME At(p, {"finish", "deleteDisk", "erase"})'
      PROVE  Gone(wf'[p].gen) /\ Gone(wf'[p].cleanup)
  <2>1. {"finish", "deleteDisk", "erase"}
          \cap ({"none", "input", "failed", "waiting", "activate"} \cup Terminal) = {}
    BY DEF Terminal
  <2>2. RunBegins(p) \/ RunUndone(p) => wf'[p].pc \notin {"deleteDisk", "erase", "finish"}
    BY DEF RunBegins, RunUndone, FirstStep
  <2>3. ASSUME RunGoes(p), wf'[p].pc \in {"deleteDisk", "erase", "finish"}
        PROVE  Gone(wf'[p].gen) /\ Gone(wf'[p].cleanup)
    <3>1. wf'[p].gen = wf[p].gen /\ wf'[p].cleanup = wf[p].cleanup
      BY <2>3 DEF RunGoes, Inherits
    <3>2. CASE wf[p].pc = "teardown" /\ TearDown(Targets(p), Targets(p))
      BY <1>4, <3>1, <3>2
    <3>3. CASE wf[p].pc = "deleteDisk"
      BY <3>1, <3>3, StaysDown DEF At
    <3> QED
      BY <2>3, <3>2, <3>3 DEF RunGoes, Arrow
  <2> QED
    BY <1>6, <2>1, <2>2, <2>3, StepFrom, StaysDown
<1>7. ASSUME wf'[p].undone
      PROVE  /\ Gone(wf'[p].gen) /\ Gone(wf'[p].cleanup)
             /\ wf'[p].pc \in {"mark", "release"} /\ wf'[p].kind = "start"
  <2>1. CASE wf'[p] = wf[p]
    BY <1>5, <1>7, <2>1, StaysDown
  <2>2. CASE RunUndone(p)
    <3>1. wf[p].kind = "start"
      BY <2>2 DEF RunUndone, KindsOfSteps, KindOfStep, StartSteps
    <3> QED
      BY <1>4, <2>2, <3>1 DEF RunUndone, Inherits
  <2>3. CASE RunGoes(p)
    <3>1. /\ wf[p].undone /\ wf'[p].gen = wf[p].gen /\ wf'[p].cleanup = wf[p].cleanup
          /\ wf'[p].kind = wf[p].kind
      BY <1>7, <2>3 DEF RunGoes, Inherits
    <3>2. wf[p].pc \in {"mark", "release"} /\ wf[p].kind = "start"
      BY <1>5, <3>1
    <3>3. wf'[p].pc = "release"
      BY <2>3, <3>2 DEF RunGoes, Arrow
    <3> QED
      BY <3>1, <3>2, <3>3, StaysDown
  <2>4. ~RunEnds(p) /\ ~RunBorn(p) /\ ~RunHatches(p)
    BY <1>7 DEF RunEnds, RunBorn, RunHatches, Blank
  <2>5. ~RunBegins(p) /\ ~RunHands(p) /\ ~RunWakes(p)
    BY <1>5, <1>7 DEF RunBegins, RunHands, RunWakes, HandoffPoints
  <2> QED
    BY <1>1, <2>1, <2>2, <2>3, <2>4, <2>5 DEF RunChanges
<1>8. ASSUME wf'[p].pc = "record" PROVE Gone(wf'[p].cleanup)
  <2>1. CASE wf'[p] = wf[p]
    BY <1>5, <1>8, <2>1, StaysDown
  <2>2. CASE RunGoes(p)
    <3>1. /\ TearDown({wf[p].cleanup}, {wf[p].cleanup})
          /\ wf'[p].cleanup = wf[p].cleanup
      BY <1>8, <2>2 DEF RunGoes, Arrow, Inherits
    <3> QED
      BY <1>2, <1>3, <3>1
  <2>3. ~RunWakes(p)
    BY <1>8 DEF RunWakes, KindsOfSteps, HandoffPoints
  <2> QED
    BY <1>1, <1>8, <2>1, <2>2, <2>3 DEF RunChanges, RunEnds, RunBorn, RunHatches,
       RunBegins, RunUndone, RunHands, FirstStep, Terminal
<1> QED
  BY <1>6, <1>7, <1>8

LEMMA CleanupOverStep ==
    ASSUME TypeInv, Related, KindsOfSteps, VmInv, [Next]_vars
    PROVE  CleanupOver'
<1> DEFINE pcs == AfterDisk \cup {"disk"}
<1> SUFFICES ASSUME NEW o \in OpIds, At(o, pcs)', Owns(o)' PROVE row'.cleanup = None
  BY DEF CleanupOver
<1>1. RunChanges(o)
  BY StepChanges
<1>2. \A q \in OpIds : At(q, pcs) /\ Owns(q) => row.cleanup = None
  BY DEF VmInv, CleanupOver
<1>3. row'.op = o \/ (wf'[o].pc = "activate" /\ row'.op = NextId(o))
  BY DEF Owns, NextId
<1>4. row'.op # None /\ NextId(o) # <<nextOp, 0>>
  <2>1. NextId(o) \in Nat \X Nat /\ NextId(o)[2] # 0
    BY ArmConstants DEF NextId, OpIds
  <2>2. o # None /\ NextId(o) # None
    BY <2>1, NoneIsNew, ArmConstants
  <2> QED
    BY <1>3, <2>1, <2>2
<1>5. Live(o)'
  BY DEF At, Live, AfterDisk, Terminal
<1>6. CASE wf'[o] = wf[o]
  <2>1. Live(o) /\ At(o, pcs)
    BY <1>5, <1>6 DEF Live, At
  <2>2. ASSUME row'.op = NextId(o), wf[o].pc = "activate"
        PROVE  row.op = NextId(o) /\ row'.cleanup \in {row.cleanup, None}
    <3>1. ASSUME NEW p \in OpIds, PassesOn(p) PROVE FALSE
      <4>1. NextId(p) = NextId(o) /\ wf[p].pc # "activate"
        BY <2>2, <3>1 DEF PassesOn, HandoffPoints
      <4>2. p = o
        BY <4>1 DEF NextId, OpIds
      <4> QED
        BY <2>2, <4>1, <4>2
    <3> QED
      BY <1>4, <2>2, <3>1, OwnerChanges
  <2> QED
    BY <1>2, <1>3, <1>6, <2>1, <2>2, OwnsFrom DEF Owns
<1>7. CASE RunHatches(o)
  <2>1. PICK q \in OpIds :
          /\ wf[o].pc = "none" /\ wf[q].pc = "activate" /\ o = NextId(q)
          /\ wf'[o].pc = "waiting" /\ Inherits(o, q)
    BY <1>7 DEF RunHatches
  <2>2. At(q, pcs) /\ row'.op = o
    BY <1>3, <2>1 DEF At, Inherits, AfterDisk
  <2>3. ASSUME NEW p \in OpIds, PassesOn(p) PROVE FALSE
    BY <2>1, <2>3 DEF PassesOn, HandoffPoints
  <2>4. row.op = o /\ row'.cleanup \in {row.cleanup, None}
    BY <1>4, <2>1, <2>2, <2>3, OwnerChanges
  <2> QED
    BY <1>2, <2>1, <2>2, <2>4 DEF Owns
<1>8. CASE RunBegins(o)
  <2>1. wf[o].pc = "input" /\ Current(o) /\ UNCHANGED row /\ wf'[o].pc = FirstStep(wf[o])
    BY <1>8 DEF RunBegins
  <2>2. wf[o].cleanup = None
    BY <2>1 DEF At, FirstStep, AfterDisk
  <2>3. Live(o) /\ Owns(o)
    BY <2>1 DEF Live, Terminal, Owns, Current
  <2> QED
    BY <2>1, <2>2, <2>3 DEF VmInv, CleanupAgrees
<1>9. CASE RunHands(o)
  <2>1. /\ wf[o].pc \in HandoffPoints /\ Current(o) /\ wf'[o].pc = "activate"
        /\ row' = [Renewed EXCEPT !.op = NextId(o)]
        /\ wf'[o].resume \in {"input", "failed", wf[o].pc}
    BY <1>9 DEF RunHands
  <2>2. wf[o].pc \in pcs
    BY <2>1 DEF At, AfterDisk
  <2>3. row'.cleanup = row.cleanup
    BY <2>1 DEF Renewed, TypeInv, TypeOK, Rows
  <2> QED
    BY <1>2, <2>1, <2>2, <2>3 DEF At, Owns, Current
<1>10. CASE RunWakes(o)
  <2>1. At(o, pcs) /\ UNCHANGED row /\ wf'[o].pc # "activate"
    BY <1>10 DEF RunWakes, At, KindsOfSteps, HandoffPoints, Inherits
  <2> QED
    BY <1>2, <1>3, <2>1 DEF Owns
<1>11. CASE RunGoes(o)
  <2>1. wf'[o].pc \in pcs /\ wf'[o].pc # "activate"
    BY <1>11 DEF RunGoes, Arrow, At
  <2>2. row.op = o /\ row'.cleanup \in {row.cleanup, None}
    BY <1>3, <1>11, <2>1, OwnsFrom DEF RunGoes
  <2>3. CASE wf[o].pc = "record" /\ row' = [row EXCEPT !.cleanup = None]
    BY <2>3 DEF TypeInv, TypeOK, Rows
  <2>4. CASE wf[o].pc \in pcs
    BY <1>2, <2>2, <2>4 DEF At, Owns
  <2> QED
    BY <1>11, <2>1, <2>3, <2>4 DEF RunGoes, Arrow, AfterDisk
<1>12. ~RunEnds(o) /\ ~RunBorn(o) /\ ~RunUndone(o)
  BY DEF RunEnds, RunBorn, RunUndone, At, AfterDisk, Terminal
<1> QED
  BY <1>1, <1>6, <1>7, <1>8, <1>9, <1>10, <1>11, <1>12 DEF RunChanges

LEMMA CopiesAgree ==
    ASSUME TypeInv, Related, VmInv, [Next]_vars, row'.cleanup # None, row'.op # None,
           ~RowTaken
    PROVE  \A s \in Snapshots : s.op = row'.op => s.cleanup = row'.cleanup
<1> SUFFICES ASSUME NEW s \in Snapshots, s.op = row'.op
             PROVE  s.cleanup = row'.cleanup
  OBVIOUS
<1>1. s.op # <<nextOp, 0>> /\ s.op # None
  BY NumberUnheard
<1>2. ASSUME NEW p \in OpIds, PassesOn(p) PROVE FALSE
  <2>1. row.op = p /\ s.op = NextId(p)
    BY <1>2 DEF PassesOn, Current
  <2>2. s.op[1] = p[1] /\ s.op[2] = p[2] + 1 /\ p[2] \in Nat
    BY <2>1 DEF NextId, OpIds
  <2>3. s.op[2] <= p[2]
    BY <1>1, <2>1, <2>2, NoneIsNew DEF Related, NobodyAhead
  <2> QED
    BY <2>2, <2>3
<1>3. row'.op = row.op /\ row'.cleanup = row.cleanup
  BY <1>1, <1>2, OwnerChanges
<1> QED
  BY <1>1, <1>3 DEF VmInv, CleanupAgrees

LEMMA NewCopiesAgree ==
    ASSUME TypeInv, Related, VmInv, [Next]_vars, FreshReplacement,
           row'.cleanup # None, row'.op # None
    PROVE  \A s \in Snapshots' : s.op = row'.op => s.cleanup = row'.cleanup
<1>1. ASSUME NEW s \in Snapshots, s.op = row'.op PROVE s.cleanup = row'.cleanup
  <2>1. ~RowTaken
    BY <1>1, NumberUnheard DEF RowTaken
  <2> QED
    BY <1>1, <2>1, CopiesAgree
<1>2. FreshRow.op = None /\ \A s : Job(s).op = s.op /\ Job(s).cleanup = s.cleanup
  BY DEF FreshRow, Job
<1>3. /\ row \in Snapshots /\ cron.seen \in Snapshots
      /\ \A q \in Requests : req[q].seen \in Snapshots
  BY SnapshotsType
<1>4. ASSUME NEW q \in Requests, req'[q].seen.op = row'.op
      PROVE  req'[q].seen.cleanup = row'.cleanup
  <2>1. CallChanges(q)
    BY StepCopies
  <2>2. CASE req'[q].seen \in {req[q].seen, row}
    BY <1>1, <1>3, <1>4, <2>2
  <2>3. CASE req'[q].seen = Job(row')
    BY <1>2, <2>3
  <2> QED
    BY <1>2, <1>4, <2>1, <2>2, <2>3 DEF CallChanges
<1>5. ASSUME cron'.seen.op = row'.op PROVE cron'.seen.cleanup = row'.cleanup
  <2>1. ScanChanges
    BY StepCopies
  <2>2. CASE cron'.seen = cron.seen
    BY <1>1, <1>3, <1>5, <2>2
  <2>3. CASE cron'.seen = Job(row) /\ UNCHANGED row
    BY <1>2, <2>3
  <2>4. CASE /\ cron.pc = "scanned" /\ cron'.pc = "recreate"
             /\ cron'.seen = [cron.seen EXCEPT !.op = <<nextOp, 0>>]
             /\ row.op = cron.seen.op /\ row'.op = <<nextOp, 0>>
             /\ row'.cleanup = row.cleanup
    <3>1. cron.seen = Job(row)
      <4>1. row.op # None
        BY <2>4, NoneIsNew DEF TypeInv, JobsOK
      <4> QED
        BY <1>3, <2>4, <4>1, NumberUnheard DEF FreshReplacement
    <3>2. cron'.seen.cleanup = cron.seen.cleanup
      BY <1>3, <2>4, SnapshotsType DEF Rows
    <3> QED
      BY <1>2, <2>4, <3>1, <3>2
  <2> QED
    BY <1>2, <1>5, <2>1, <2>2, <2>3, <2>4 DEF ScanChanges
<1> QED
  BY <1>4, <1>5 DEF Snapshots

LEMMA RunsAgree ==
    ASSUME TypeInv, Related, KindsOfSteps, VmInv, [Next]_vars, row'.cleanup # None,
           NEW o \in OpIds, Live(o)', Owns(o)'
    PROVE  wf'[o].cleanup = row'.cleanup
<1>1. RunChanges(o)
  BY StepChanges
<1>2. row'.op = o \/ (wf'[o].pc = "activate" /\ row'.op = NextId(o))
  BY DEF Owns, NextId
<1>3. row'.op # None /\ NextId(o) # <<nextOp, 0>> /\ o # None
  <2>1. NextId(o) \in Nat \X Nat /\ NextId(o)[2] # 0
    BY ArmConstants DEF NextId, OpIds
  <2>2. o # None /\ NextId(o) # None
    BY <2>1, NoneIsNew, ArmConstants
  <2> QED
    BY <1>2, <2>1, <2>2
<1>4. \A p \in OpIds : Live(p) /\ Owns(p) /\ row.cleanup # None
                         => wf[p].cleanup = row.cleanup
  BY DEF VmInv, CleanupAgrees
<1>5. CASE wf'[o] = wf[o]
  <2>1. Live(o)
    BY <1>5 DEF Live
  <2>2. ASSUME row'.op = NextId(o), wf[o].pc = "activate"
        PROVE  row.op = NextId(o) /\ row'.cleanup \in {row.cleanup, None}
    <3>1. ASSUME NEW p \in OpIds, PassesOn(p) PROVE FALSE
      <4>1. NextId(p) = NextId(o) /\ wf[p].pc # "activate"
        BY <2>2, <3>1 DEF PassesOn, HandoffPoints
      <4>2. p = o
        BY <4>1 DEF NextId, OpIds
      <4> QED
        BY <2>2, <4>1, <4>2
    <3> QED
      BY <1>3, <2>2, <3>1, OwnerChanges
  <2> QED
    BY <1>2, <1>4, <1>5, <2>1, <2>2, OwnsFrom DEF Owns
<1>6. CASE wf[o].pc = "none" /\ wf'[o].pc \in {"input", "waiting"}
  <2>1. row'.op = o
    BY <1>2, <1>6
  <2>2. ASSUME NEW p \in OpIds, PassesOn(p) PROVE FALSE
    BY <1>6, <2>2 DEF PassesOn, HandoffPoints
  <2>3. row.op = o /\ row'.cleanup = row.cleanup
    BY <1>3, <1>6, <2>1, <2>2, OwnerChanges
  <2>4. CASE RunBorn(o)
    <3>1. PICK s \in Snapshots : s.op = o /\ wf'[o].cleanup = s.cleanup
      BY <2>4 DEF RunBorn
    <3> QED
      BY <1>3, <2>3, <3>1 DEF VmInv, CleanupAgrees
  <2>5. CASE RunHatches(o)
    <3>1. PICK q \in OpIds : /\ wf[q].pc = "activate" /\ o = NextId(q)
                             /\ wf'[o].cleanup = wf[q].cleanup
      BY <2>5 DEF RunHatches, Inherits
    <3>2. Live(q) /\ Owns(q)
      BY <2>3, <3>1 DEF Live, Terminal, Owns
    <3> QED
      BY <1>4, <2>3, <3>1, <3>2
  <2> QED
    BY <1>1, <1>6, <2>4, <2>5 DEF RunChanges, RunEnds, RunBegins, RunUndone, RunHands,
       RunWakes, RunGoes, Live, Terminal, HandoffPoints
<1>7. CASE RunBegins(o) \/ RunUndone(o) \/ RunWakes(o)
  <2>1. /\ UNCHANGED row /\ Live(o) /\ wf'[o].pc # "activate"
        /\ wf'[o].cleanup = wf[o].cleanup
    BY <1>7 DEF RunBegins, RunUndone, RunWakes, Inherits, Live, Terminal, FirstStep,
       KindsOfSteps, HandoffPoints
  <2> QED
    BY <1>2, <1>4, <2>1 DEF Owns
<1>8. CASE RunHands(o)
  <2>1. PICK compact \in Compacts(o) : wf'[o].cleanup = HandedCleanup(o, compact)
    BY <1>8 DEF RunHands
  <2>2. row' = [Renewed EXCEPT !.op = NextId(o)] /\ Live(o) /\ Owns(o)
    BY <1>8 DEF RunHands, Live, Terminal, HandoffPoints, Owns, Current
  <2>3. row'.cleanup = row.cleanup
    BY <2>2 DEF Renewed, TypeInv, TypeOK, Rows
  <2> QED
    BY <1>4, <2>1, <2>2, <2>3 DEF HandedCleanup
<1>9. CASE RunGoes(o)
  <2>1. Live(o) /\ wf'[o].cleanup = wf[o].cleanup /\ wf'[o].pc # "activate"
    BY <1>9 DEF RunGoes, Arrow, Inherits
  <2>2. row.op = o /\ row'.cleanup = row.cleanup
    BY <1>2, <2>1, OwnsFrom
  <2> QED
    BY <1>4, <2>1, <2>2 DEF Owns
<1>10. ~RunEnds(o)
  BY DEF RunEnds, Live
<1> QED
  BY <1>1, <1>5, <1>6, <1>7, <1>8, <1>9, <1>10 DEF RunChanges, RunBorn, RunHatches

LEMMA CleanupAgreesStep ==
    ASSUME TypeInv, Related, KindsOfSteps, VmInv, [Next]_vars, FreshReplacement
    PROVE  CleanupAgrees'
<1>1. CASE row'.op # None
  BY <1>1, NewCopiesAgree, RunsAgree DEF CleanupAgrees
<1>2. CASE row'.op = None
  <2>1. \A o \in OpIds : ~Owns(o)'
    <3>1. \A o \in OpIds : NextId(o) \in Nat \X Nat
      BY ArmConstants DEF NextId, OpIds
    <3> QED
      BY <1>2, <3>1, ArmConstants, NoneIsNew DEF Owns, NextId
  <2> QED
    BY <1>2, <2>1 DEF CleanupAgrees
<1> QED
  BY <1>1, <1>2

Begun(o, g) == row.op = o /\ row.gen = g /\ Busy

\* A start that has the row keeps it while it neither ends nor is handed over.
LEMMA StartKeepsRow ==
    ASSUME TypeInv, Related, KindsOfSteps, VmInv, [Next]_vars, StartsQueued,
           NEW o \in OpIds, NEW g \in Generations, Begun(o, g),
           wf[o].pc \notin Ending, Live(o) => wf[o].kind = "start",
           wf'[o].pc \notin Terminal \cup {"activate"}
    PROVE  row'.op = o /\ row'.gen = g /\ Busy'
<1>1. row.op = o /\ row.gen = g /\ row.status = "provisioning" /\ row.kind = "start"
  BY DEF Begun, Busy
<1>2. RowSame => row'.op = o /\ row'.gen = g /\ Busy'
  BY <1>1 DEF RowSame, SameOwner, SamePhase, Busy
<1>3. ~RowGivenUp
  <2>1. ASSUME NEW r \in Requests, req[r].pc = "unqueued", row.op = req[r].seen.op
        PROVE  wf[o].pc \in Terminal
    BY <1>1, <2>1, GivenUpKind DEF StartsQueued
  <2> QED
    BY <2>1 DEF RowGivenUp
<1>4. ~RowTaken
  BY <1>1 DEF RowTaken, ClaimMatches, AcceptedStatuses, TypeInv, TypeOK, Calls, Kinds
<1>5. ~RowPassedOn
  BY <1>1 DEF RowPassedOn
<1>6. ASSUME NEW p \in OpIds, RowWritten(p)
      PROVE  row'.op = o /\ row'.gen = g /\ Busy'
  <2>1. p = o
    BY <1>1, <1>6 DEF RowWritten, Current
  <2>2. wf[o].pc \notin {"finish", "erase"}
    BY DEF Live, Terminal, KindsOfSteps, KindOfStep, StopSteps
  <2>3. SameOwner /\ row'.status = row.status
    BY <1>6, <2>1, <2>2 DEF RowWritten, Ending, SamePhase
  <2> QED
    BY <1>1, <2>3 DEF SameOwner, Busy
<1> QED
  BY <1>2, <1>3, <1>4, <1>5, <1>6, StepWrites DEF RowChanges

\* Whoever may start a generation after a step without being a new owner might
\* already do so before.
LEMMA NamedFrom ==
    ASSUME TypeInv, Related, KindsOfSteps, VmInv, [Next]_vars, FreshReplacement,
           NEW o \in OpIds, NEW g \in Generations, wf[o].pc = "none", wf'[o] = wf[o],
           Named(o, g)'
    PROVE  Named(o, g) \/ (row'.op = o /\ row'.kind = "start" /\ row'.gen = g)
<1>1. o # None
  BY NoneIsNew
<1>2. /\ row \in Snapshots /\ cron.seen \in Snapshots
      /\ \A q \in Requests : req[q].seen \in Snapshots
  BY SnapshotsType
<1>3. FreshRow.op = None
      /\ \A s : Job(s).op = s.op /\ Job(s).kind = s.kind /\ Job(s).gen = s.gen
  BY DEF FreshRow, Job
<1>4. ASSUME NEW s \in Snapshots, s.op = o, s.kind = "start", s.gen = g
      PROVE  Named(o, g)
  BY <1>4 DEF Named
<1>5. ASSUME NEW q \in Requests, req'[q].seen.op = o, req'[q].seen.kind = "start",
             req'[q].seen.gen = g
      PROVE  Named(o, g) \/ (row'.op = o /\ row'.kind = "start" /\ row'.gen = g)
  <2>1. CallChanges(q)
    BY StepCopies
  <2>2. CASE req'[q].seen \in {req[q].seen, row}
    BY <1>2, <1>4, <1>5, <2>2
  <2>3. CASE req'[q].seen = Job(row')
    BY <1>3, <1>5, <2>3
  <2> QED
    BY <1>1, <1>3, <1>5, <2>1, <2>2, <2>3 DEF CallChanges
<1>6. ASSUME cron'.seen.op = o, cron'.seen.kind = "start", cron'.seen.gen = g
      PROVE  Named(o, g) \/ (row'.op = o /\ row'.kind = "start" /\ row'.gen = g)
  <2>1. ScanChanges
    BY StepCopies
  <2>2. CASE cron'.seen = cron.seen
    BY <1>2, <1>4, <1>6, <2>2
  <2>3. CASE cron'.seen = Job(row)
    BY <1>2, <1>3, <1>4, <1>6, <2>3
  <2>4. CASE /\ cron.pc = "scanned" /\ cron'.pc = "recreate"
             /\ cron'.seen = [cron.seen EXCEPT !.op = <<nextOp, 0>>]
             /\ row.op = cron.seen.op /\ row'.op = <<nextOp, 0>>
             /\ row'.gen = row.gen /\ row'.kind = row.kind
    <3>1. cron.seen = Job(row)
      <4>1. row.op # None
        BY <2>4, NoneIsNew DEF TypeInv, JobsOK
      <4> QED
        BY <1>2, <2>4, <4>1, NumberUnheard DEF FreshReplacement
    <3>2. /\ cron'.seen.op = <<nextOp, 0>> /\ cron'.seen.kind = cron.seen.kind
          /\ cron'.seen.gen = cron.seen.gen
      BY <1>2, <2>4, SnapshotsType DEF Rows
    <3> QED
      BY <1>3, <1>6, <2>4, <3>1, <3>2
  <2> QED
    BY <1>1, <1>3, <1>6, <2>1, <2>2, <2>3, <2>4 DEF ScanChanges
<1>7. ASSUME NEW p \in OpIds, wf'[p].pc = "activate", NextId(p) = o,
             wf'[p].kind = "start", wf'[p].gen = g
      PROVE  Named(o, g) \/ (row'.op = o /\ row'.kind = "start" /\ row'.gen = g)
  <2>1. RunChanges(p)
    BY StepChanges
  <2>2. CASE wf'[p] = wf[p]
    BY <1>7, <2>2 DEF Named
  <2>3. CASE RunHands(p)
    <3>1. /\ Live(p) /\ row.op = p /\ row.gen = g /\ wf[p].kind = "start"
          /\ row' = [Renewed EXCEPT !.op = NextId(p)]
      BY <1>7, <2>3 DEF RunHands, Live, Terminal, HandoffPoints, Current
    <3>2. row.kind = "start"
      BY <3>1, OwnerAgrees
    <3>3. row'.op = NextId(p) /\ row'.kind = row.kind /\ row'.gen = row.gen
      BY <3>1 DEF Renewed, TypeInv, TypeOK, Rows
    <3> QED
      BY <1>7, <3>1, <3>2, <3>3
  <2> QED
    BY <1>7, <2>1, <2>2, <2>3 DEF RunChanges, RunEnds, RunBorn, RunHatches, RunBegins,
       RunUndone, RunWakes, RunGoes, Arrow, KindsOfSteps, HandoffPoints, FirstStep, Terminal
<1>8. /\ \A s \in Snapshots' : s.op = o /\ s.kind = "start" /\ s.gen = g =>
           Named(o, g) \/ (row'.op = o /\ row'.kind = "start" /\ row'.gen = g)
  BY <1>5, <1>6 DEF Snapshots
<1>9. \/ \E s \in Snapshots' : s.op = o /\ s.kind = "start" /\ s.gen = g
      \/ \E p \in OpIds : /\ wf'[p].pc = "activate" /\ NextId(p) = o
                          /\ wf'[p].kind = "start" /\ wf'[p].gen = g
  BY DEF Named, NextId
<1> QED
  BY <1>7, <1>8, <1>9

\* A row that belongs to a start no run of which exists is in its midst.
LEMMA NewOwnerBusy ==
    ASSUME TypeInv, TypeInv', Related, KindsOfSteps, VmInv, [Next]_vars,
           FreshReplacement, StartsQueued,
           NEW o \in OpIds, wf[o].pc = "none", wf'[o] = wf[o],
           row'.op = o, row'.kind = "start"
    PROVE  Busy'
<1>1. CASE row.op = o /\ row.kind = "start" /\ ~RowTaken
  <2>1. row.gen \in Generations /\ row \in Snapshots
    BY SnapshotsType DEF Rows
  <2>2. Starting(o, row.gen)
    BY <1>1, <2>1 DEF Starting, Named
  <2>3. Begun(o, row.gen)
    BY <2>1, <2>2 DEF VmInv, StarterOwns, Ending, Begun
  <2> QED
    BY <2>1, <2>3, StartKeepsRow DEF Live, Ending, Terminal
<1>2. RowTaken => Busy'
  BY DEF RowTaken, Busy
<1>3. RowSame \/ RowGivenUp => row.op = o /\ row.kind = "start"
  BY DEF RowSame, RowGivenUp, SameOwner
<1>4. ASSUME RowPassedOn PROVE Busy'
  <2>1. Due /\ row.kind = "start" /\ row'.status = row.status
    <3>1. row.op # <<nextOp, 0>>
      BY <1>4, NumberUnheard, SnapshotsType, NoneIsNew DEF RowPassedOn
    <3> QED
      BY <1>4, <3>1 DEF RowPassedOn, FreshReplacement, SamePhase
  <2>2. Busy
    BY <2>1 DEF Due, DueFailed, VmInv, RowPhases
  <2> QED
    BY <2>1, <2>2 DEF Busy
<1>5. ASSUME NEW p \in OpIds, RowWritten(p) PROVE Busy'
  <2>1. row.op = p
    BY <1>5 DEF RowWritten, Current
  <2>2. wf[p].pc \notin {"none", "release"} \cup Terminal
    BY <1>5 DEF RowWritten, HandoffPoints, Terminal
  <2>3. p # o
    BY <2>2
  <2>4. row'.op # row.op /\ row'.op # None
    BY <2>1, <2>3, NoneIsNew
  <2>5. row'.kind = row.kind /\ row'.status = row.status
    BY <1>5, <2>4 DEF RowWritten, SameOwner, SamePhase
  <2>6. Live(p) /\ wf[p].kind = "start"
    BY <2>1, <2>2, <2>5, OwnerAgrees DEF Live
  <2>7. Busy
    BY <2>1, <2>2, <2>6 DEF VmInv, StarterOwns
  <2> QED
    BY <2>5, <2>7 DEF Busy
<1> QED
  BY <1>1, <1>2, <1>3, <1>4, <1>5, StepWrites DEF RowChanges

LEMMA StartingStep ==
    ASSUME TypeInv, TypeInv', Related, KindsOfSteps, VmInv, [Next]_vars,
           FreshReplacement, StartsQueued,
           NEW o \in OpIds, NEW g \in Generations,
           Starting(o, g)', wf'[o].pc \notin Ending
    PROVE  row'.op = o /\ row'.gen = g /\ Busy'
<1>1. RunChanges(o)
  BY StepChanges
<1>2. ASSUME Starting(o, g), wf[o].pc \notin Ending,
             wf'[o].pc \notin Terminal \cup {"activate"}
      PROVE  row'.op = o /\ row'.gen = g /\ Busy'
  <2>1. Begun(o, g)
    BY <1>2 DEF VmInv, StarterOwns, Begun
  <2>2. Live(o) => wf[o].kind = "start"
    BY <1>2 DEF Starting, Live
  <2> QED
    BY <1>2, <2>1, <2>2, StartKeepsRow
<1>3. CASE wf'[o].pc = "none"
  <2>1. wf'[o] = wf[o] /\ wf[o].pc = "none"
    BY <1>1, <1>3 DEF RunChanges, RunEnds, RunBorn, RunHatches, RunBegins, RunUndone,
       RunHands, RunWakes, RunGoes, Arrow, KindsOfSteps, HandoffPoints, FirstStep, Terminal
  <2>2. Named(o, g)'
    BY <1>3 DEF Starting, Live
  <2>3. CASE Named(o, g)
    <3>1. Starting(o, g)
      BY <2>1, <2>3 DEF Starting
    <3> QED
      BY <1>2, <1>3, <2>1, <3>1 DEF Ending, Terminal
  <2>4. CASE row'.op = o /\ row'.kind = "start" /\ row'.gen = g
    BY <2>1, <2>4, NewOwnerBusy
  <2> QED
    BY <2>1, <2>2, <2>3, <2>4, NamedFrom
<1>4. CASE wf'[o].pc # "none"
  <2>1. /\ wf'[o].pc \notin Terminal \cup Passing /\ wf'[o].kind = "start"
        /\ wf'[o].gen = g
    BY <1>4 DEF Starting, Live
  <2>2. CASE wf'[o] = wf[o] \/ RunBegins(o) \/ RunWakes(o)
    <3>1. /\ Live(o) /\ wf[o].pc \notin Passing \cup Ending
          /\ wf[o].kind = "start" /\ wf[o].gen = g
      BY <1>4, <2>1, <2>2 DEF RunBegins, RunWakes, Inherits, Live, Terminal, Passing, Ending
    <3> QED
      BY <1>2, <2>1, <3>1 DEF Starting, Passing
  <2>3. CASE RunBorn(o)
    <3>1. wf[o].pc = "none" /\ Named(o, g)
      BY <2>1, <2>3 DEF RunBorn, Named
    <3> QED
      BY <1>2, <2>1, <3>1 DEF Starting, Passing, Ending
  <2>4. CASE RunHatches(o)
    <3>1. wf[o].pc = "none" /\ Named(o, g)
      BY <2>1, <2>4 DEF RunHatches, Inherits, Named
    <3> QED
      BY <1>2, <2>1, <3>1 DEF Starting, Passing, Ending
  <2>5. CASE RunGoes(o)
    <3>1. /\ Live(o) /\ wf[o].pc \notin Passing \cup Ending
          /\ wf[o].kind = "start" /\ wf[o].gen = g
      BY <2>1, <2>5 DEF RunGoes, Arrow, Inherits, Passing, Ending
    <3> QED
      BY <1>2, <2>1, <3>1 DEF Starting, Passing
  <2>6. ~RunEnds(o) /\ ~RunUndone(o) /\ ~RunHands(o)
    BY <2>1 DEF RunEnds, RunUndone, RunHands, Ending, Passing
  <2> QED
    BY <1>1, <2>2, <2>3, <2>4, <2>5, <2>6 DEF RunChanges
<1> QED
  BY <1>3, <1>4

LEMMA OwnerBusyStep ==
    ASSUME TypeInv, TypeInv', Related, KindsOfSteps, VmInv, [Next]_vars,
           FreshReplacement, StartsQueued,
           NEW o \in OpIds, Live(o)', wf'[o].kind = "start", row'.op = o,
           wf'[o].pc # "release"
    PROVE  Busy'
<1>1. RunChanges(o) /\ wf'[o].gen \in Generations
  BY StepChanges DEF TypeInv, TypeOK, Runs
<1>2. CASE wf'[o].pc \notin Ending \cup Passing
  BY <1>1, <1>2, StartingStep DEF Starting
<1>3. ASSUME Live(o), wf[o].kind = "start", row.op = o, wf[o].pc # "release" PROVE Busy
  BY <1>3 DEF VmInv, StarterOwns
<1>4. CASE wf'[o] = wf[o]
  <2>1. Live(o) /\ row.op = o
    BY <1>4, OwnsFrom DEF Live
  <2>2. Busy
    BY <1>3, <1>4, <2>1
  <2>3. ~RowGivenUp
    <3>1. ASSUME NEW r \in Requests, req[r].pc = "unqueued", row.op = req[r].seen.op
          PROVE  FALSE
      <4>1. row.kind = req[r].seen.kind
        BY <3>1, GivenUpKind
      <4> QED
        BY <2>1, <2>2, <3>1, <4>1 DEF Busy, StartsQueued, Live
    <3> QED
      BY <3>1 DEF RowGivenUp
  <2>4. ~RowTaken
    BY <2>2 DEF Busy, RowTaken, ClaimMatches, AcceptedStatuses, TypeInv, TypeOK, Calls, Kinds
  <2>5. ~RowPassedOn
    BY <2>1 DEF RowPassedOn, Live
  <2>6. ASSUME NEW p \in OpIds, RowWritten(p) PROVE Busy'
    <3>1. p = o /\ o # None /\ NextId(o) # o
      BY <2>1, <2>6, NoneIsNew DEF RowWritten, Current, NextId, OpIds
    <3>2. SameOwner /\ row'.status = row.status
      BY <1>4, <2>6, <3>1 DEF RowWritten, SamePhase, HandoffPoints
    <3> QED
      BY <2>2, <3>2 DEF SameOwner, Busy
  <2> QED
    BY <2>2, <2>3, <2>4, <2>5, <2>6, StepWrites
       DEF RowChanges, RowSame, SameOwner, SamePhase, Busy
<1>5. CASE RunUndone(o)
  <2>1. /\ Live(o) /\ wf[o].kind = "start" /\ UNCHANGED row /\ wf[o].pc # "release"
    BY <1>5 DEF RunUndone, Inherits, Live, Terminal
  <2> QED
    BY <1>3, <2>1 DEF Busy
<1>6. CASE RunWakes(o)
  <2>1. /\ Live(o) /\ wf[o].kind = "start" /\ UNCHANGED row /\ wf[o].pc # "release"
    BY <1>6 DEF RunWakes, Inherits, Live, Terminal
  <2> QED
    BY <1>3, <2>1 DEF Busy
<1>7. CASE RunGoes(o) /\ wf'[o].pc \in Ending \cup Passing
  <2>1. /\ Live(o) /\ wf[o].kind = "start" /\ UNCHANGED row /\ wf[o].pc # "release"
    BY <1>7 DEF RunGoes, Arrow, Inherits, Ending, Passing
  <2> QED
    BY <1>3, <2>1 DEF Busy
<1>8. ~RunEnds(o) /\ ~RunHands(o)
  <2>1. RunHands(o) => row'.op = NextId(o)
    BY DEF RunHands, Renewed, TypeInv, TypeOK, Rows
  <2>2. NextId(o) # o
    BY DEF NextId, OpIds
  <2> QED
    BY <2>1, <2>2 DEF RunEnds, Live
<1>9. RunBorn(o) \/ RunHatches(o) \/ RunBegins(o) => wf'[o].pc \notin Ending \cup Passing
  BY DEF RunBorn, RunHatches, RunBegins, FirstStep, Ending, Passing
<1> QED
  BY <1>1, <1>2, <1>4, <1>5, <1>6, <1>7, <1>8, <1>9 DEF RunChanges

LEMMA StarterOwnsStep ==
    ASSUME TypeInv, TypeInv', Related, KindsOfSteps, VmInv, [Next]_vars,
           FreshReplacement, StartsQueued
    PROVE  StarterOwns'
BY StartingStep, OwnerBusyStep DEF StarterOwns

LEMMA VmStep ==
    ASSUME TypeInv, TypeInv', Related, KindsOfSteps, VmInv, [Next]_vars,
           [FreshReplacement]_vars, [StopsRetriedFirst]_vars, StartsQueued
    PROVE  VmInv'
<1>1. FreshReplacement /\ StopsRetriedFirst
  <2>1. UNCHANGED vars => FreshReplacement /\ StopsRetriedFirst
    BY DEF vars, FreshReplacement, StopsRetriedFirst
  <2> QED
    BY <2>1
<1> QED
  BY <1>1, RowPhasesStep, StarterOwnsStep, CleanupAgreesStep, TornDownStep,
     CleanupOverStep, VmKnownStep, LoadedSoundStep DEF VmInv

LEMMA VmInit == Init => VmInv
<1> SUFFICES ASSUME Init PROVE VmInv
  OBVIOUS
<1>1. /\ row = FreshRow /\ cron.seen = FreshRow /\ cron.pc = "idle"
      /\ \A r \in Requests : req[r].seen = FreshRow /\ req[r].pc = "idle"
      /\ \A o \in OpIds : wf[o] = NoRun
      /\ \A g \in Generations : vm[g] = "absent"
  BY DEF Init, NoScan, NoCall
<1>2. /\ FreshRow.op = None /\ FreshRow.kind = None /\ FreshRow.cleanup = None
      /\ FreshRow.status = "pending" /\ FreshRow.rs = "stopped"
      /\ NoRun.pc = "none" /\ ~NoRun.undone
  BY DEF FreshRow, NoRun
<1>3. Attached = {}
  BY <1>1 DEF Attached
<1>4. \A o \in OpIds : \A pcs : "none" \notin pcs => ~At(o, pcs)
  BY <1>1, <1>2 DEF At
<1>5. \A s \in Snapshots : s.op = None
  BY <1>1, <1>2 DEF Snapshots
<1>6. \A o \in OpIds, g \in Generations : ~Starting(o, g)
  BY <1>1, <1>2, <1>5, NoneIsNew DEF Starting, Named, Live
<1>7. RowPhases /\ StarterOwns /\ CleanupAgrees
  BY <1>1, <1>2, <1>6, NoneIsNew DEF RowPhases, StarterOwns, CleanupAgrees, Live, Kinds, Active
<1>8. TornDown /\ CleanupOver
  BY <1>1, <1>2, <1>4 DEF TornDown, CleanupOver, AfterDisk
<1>9. VmKnown /\ LoadedSound
  BY <1>1, <1>2, <1>3 DEF VmKnown, LoadedSound
<1> QED
  BY <1>7, <1>8, <1>9 DEF VmInv

\* A VM is forgotten in three ways only: the cron replaces an operation on a row
\* that has changed since it was selected, a request gives up on a start whose run
\* may still make a VM, or somebody starts over a stop that failed.  As long as
\* none of them happens a run is responsible for every VM, or the row names it
\* until it is torn down, whatever fails, is retried, joined or handed over
\* (runtime_cleanup_generation, stopResourceGenerations).
THEOREM NoVmForgotten ==
    Spec /\ [][FreshReplacement]_vars /\ []StartsQueued /\ [][StopsRetriedFirst]_vars
      => []NoForgottenVm
<1>1. IInv /\ IInv' /\ VmInv /\ [Next]_vars
      /\ [FreshReplacement]_vars /\ StartsQueued /\ [StopsRetriedFirst]_vars => VmInv'
  <2> SUFFICES ASSUME IInv, IInv', VmInv, [Next]_vars, [FreshReplacement]_vars,
                      StartsQueued, [StopsRetriedFirst]_vars
               PROVE  VmInv'
    OBVIOUS
  <2>1. TypeInv /\ TypeInv' /\ Related /\ KindsOfSteps
    BY DEF IInv
  <2> QED
    BY <2>1, VmStep
<1>2. VmInv => NoForgottenVm
  BY DEF VmInv, VmKnown, NoForgottenVm
<1> QED
  BY <1>1, <1>2, VmInit, InvariantHolds, PTL DEF Spec
=============================================================================
