---------------------------- MODULE ArmInvariant ----------------------------
(* The inductive invariants behind what ArmProperties promises: IInv holds *)
(* of every behaviour, DiskInv and VmInv under the assumptions that        *)
(* ArmProperties names.                                                    *)
EXTENDS ArmProperties

\* What is about to be given to a workflow is an operation with a kind.
JobsOK ==
    /\ \A r \in Requests :
         req[r].pc \in {"claimed", "unqueued"} =>
             req[r].seen.op \in OpIds /\ req[r].seen.kind \in Kinds
    /\ cron.pc # "idle" => cron.seen.op \in OpIds /\ cron.seen.kind \in Kinds

TypeInv == TypeOK /\ JobsOK

\* Every copy of the row that somebody may act on, the row itself included.
Snapshots == {row, cron.seen} \cup {req[r].seen : r \in Requests}

\* Operation number n is, to somebody, an operation of kind k on generation g.
Mentioned(n, k, g) ==
    \/ \E s \in Snapshots : s.op # None /\ s.op[1] = n /\ s.kind = k /\ s.gen = g
    \/ \E o \in OpIds : Live(o) /\ o[1] = n /\ wf[o].kind = k /\ wf[o].gen = g

\* All who mention an operation agree on what it is: a handoff and the cron's
\* replacement keep the kind and the generation, and numbers are never reused.
OneMeaning ==
    \A n \in 1..MaxOps, k1, k2 \in Kinds, g1, g2 \in Generations :
        Mentioned(n, k1, g1) /\ Mentioned(n, k2, g2) => k1 = k2 /\ g1 = g2
FreshIds ==
    /\ \A n \in 1..MaxOps, k \in Kinds, g \in Generations :
         Mentioned(n, k, g) => n < nextOp
    /\ \A o \in OpIds : wf[o].pc # "none" => o[1] < nextOp

\* Generations only grow, and what is to be cleaned up is older.
Older(c, g) == c # None => c < g
GenerationOrder ==
    /\ \A s \in Snapshots : s.gen <= row.gen /\ Older(s.cleanup, s.gen)
    /\ \A o \in OpIds : wf[o].gen <= row.gen /\ Older(wf[o].cleanup, wf[o].gen)

\* The row's generation has been asked to stop, has stopped, or never started.
Past == row.rs # "ready" /\ row.kind # "start"
StopIsFinal ==
    \A n \in 1..MaxOps, k \in Kinds :
        Mentioned(n, k, row.gen) /\ k # "start" => Past

RowShape ==
    /\ row.rs = "ready" => row.op = None
    /\ ~Exists => Past
    /\ \A s \in Snapshots : s.op = None <=> s.kind = None

\* Nobody is ahead of the row in its operation's chain of continuations.
NobodyAhead ==
    row.op # None =>
        /\ \A o \in OpIds :
             o[1] = row.op[1] =>
                /\ o[2] > row.op[2] => wf[o].pc = "none"
                /\ wf[o].pc \in {"activate", "signal"} => o[2] < row.op[2]
        /\ \A s \in Snapshots :
             s.op # None /\ s.op[1] = row.op[1] => s.op[2] <= row.op[2]

\* Under the id o somebody works on the start of generation g, or still may: a
\* run that has not passed its work on, or a job for an id without a run.
Passing == {"activate", "signal"}
Named(o, g) ==
    \/ \E s \in Snapshots : s.op = o /\ s.kind = "start" /\ s.gen = g
    \/ \E p \in OpIds :
         /\ wf[p].pc = "activate" /\ NextId(p) = o
         /\ wf[p].kind = "start" /\ wf[p].gen = g
Starting(o, g) ==
    \/ Live(o) /\ wf[o].pc \notin Passing /\ wf[o].kind = "start" /\ wf[o].gen = g
    \/ wf[o].pc = "none" /\ Named(o, g)

\* A generation is started under one id at a time: the row's, while the row
\* belongs to that start.
OneStarter ==
    \A o1, o2 \in OpIds, g \in Generations :
        Starting(o1, g) /\ Starting(o2, g) => o1 = o2
OwnerStarts ==
    row.op # None /\ ~Past => \A o \in OpIds : Starting(o, row.gen) => o = row.op

Related ==
    /\ OneMeaning /\ FreshIds /\ GenerationOrder /\ StopIsFinal /\ RowShape
    /\ NobodyAhead /\ OneStarter /\ OwnerStarts

\* Which steps belong to which kind of operation.
StartSteps ==
    {"cleanup", "record", "disk", "provision", "deploy", "boot", "session",
     "health", "policy", "init", "complete", "undo"}
StopSteps == {"teardown", "finish", "deleteDisk", "erase"}
KindOfStep(pc, kind) ==
    /\ pc \in StartSteps => kind = "start"
    /\ pc \in StopSteps => kind # "start"
KindsOfSteps ==
    \A o \in OpIds :
        /\ KindOfStep(wf[o].pc, wf[o].kind)
        /\ wf[o].pc \in {"activate", "waiting"} => KindOfStep(wf[o].resume, wf[o].kind)
        /\ wf[o].resume \in ({"input", "failed"} \cup HandoffPoints) \ {"undo"}

\* A failing start of the row's generation owns the row, or the row moved on.
UndoOwns ==
    \A o \in OpIds :
        wf[o].pc = "undo" /\ wf[o].gen = row.gen => row.op = o \/ Past

CompleteHasVm ==
    \A o \in OpIds :
        wf[o].pc = "complete" /\ Current(o) => vm[row.gen] # "absent"

IInv ==
    /\ TypeInv /\ Related /\ KindsOfSteps
    /\ UndoOwns /\ CompleteHasVm /\ ReadyHasVm

-----------------------------------------------------------------------------
(* What DiskKept rests on, as long as every delete is queued.              *)

\* Run o is at one of the steps pcs, or will be when the work is taken up again.
At(o, pcs) ==
    \/ wf[o].pc \in pcs
    \/ wf[o].pc \in {"activate", "waiting"} /\ wf[o].resume \in pcs

\* A delete that somebody knows of has taken the row for good.
Deleting == row.status \in {"deleting", "gone"}
DeleteIsFinal ==
    /\ row.status = "deleting" => row.kind = "delete"
    /\ \A s \in Snapshots : s.kind = "delete" => Deleting
    /\ \A o \in OpIds : Live(o) /\ wf[o].kind = "delete" => Deleting
DeleteSteps ==
    \A o \in OpIds :
        /\ At(o, {"deleteDisk", "erase"}) => wf[o].kind = "delete"
        /\ At(o, {"finish"}) => wf[o].kind = "stop"

\* The disk was made: the row says so, or a run has passed the step that makes it.
AfterDisk ==
    {"provision", "deploy", "boot", "session", "health", "policy", "init", "complete"}
DiskMade ==
    \/ row.disk \/ row.rs = "booting"
    \/ \E o \in OpIds : At(o, AfterDisk) \/ wf[o].in.rs = "booting"

DiskInv == DeleteIsFinal /\ DeleteSteps /\ (DiskMade => disk \/ Deleting)

-----------------------------------------------------------------------------
(* What NoForgottenVm rests on.                                            *)

\* The row is in the middle of a start.
Busy == row.status = "provisioning" /\ row.kind = "start"

\* How the row's status, its runtime status and its operation go together.
RowPhases ==
    /\ row.status = "provisioning" => row.kind \in {"start", "stop"}
    /\ row.status = "failed" => row.rs = "failed"
    /\ row.status \in {"pending", "stopped", "gone"} => row.op = None
    /\ row.status = "ready" => row.rs = "ready" /\ row.cleanup = None
    /\ row.status = "deleting" => row.kind = "delete"
    /\ row.kind = "start" /\ row.rs \in Active => Busy
    /\ row.rs = "booting" => Busy
    /\ row.rs = "failed" => row.op # None

\* Whoever may still start a generation owns the row, and the row is in the
\* middle of that start.  The steps excepted are those of a start that is over.
Ending == {"complete", "failed", "undo", "mark", "release"}
StarterOwns ==
    \A o \in OpIds :
        /\ \A g \in Generations :
             Starting(o, g) /\ wf[o].pc \notin Ending
               => row.op = o /\ row.gen = g /\ Busy
        /\ Live(o) /\ wf[o].kind = "start" /\ row.op = o /\ wf[o].pc # "release"
             => Busy

\* What the row still has to clean up, those who work for it know.
Owns(o) == row.op = o \/ (wf[o].pc = "activate" /\ row.op = NextId(o))
CleanupAgrees ==
    row.cleanup # None =>
        /\ \A s \in Snapshots : s.op # None /\ s.op = row.op => s.cleanup = row.cleanup
        /\ \A o \in OpIds : Live(o) /\ Owns(o) => wf[o].cleanup = row.cleanup

\* A teardown that succeeded is not undone by anybody.
Absent(g) == g # None => vm[g] = "absent"
TornDown ==
    \A o \in OpIds :
        /\ At(o, {"finish", "deleteDisk", "erase"}) \/ wf[o].undone
             => Absent(wf[o].gen) /\ Absent(wf[o].cleanup)
        /\ wf[o].pc = "record" => Absent(wf[o].cleanup)
        /\ wf[o].undone => wf[o].pc \in {"mark", "release"} /\ wf[o].kind = "start"

\* A start prepares its own VM only after it has cleaned up.
CleanupOver ==
    \A o \in OpIds : At(o, AfterDisk \cup {"disk"}) /\ Owns(o) => row.cleanup = None

\* The row names every VM there is.
VmKnown ==
    /\ Attached \subseteq {row.gen, row.cleanup}
    /\ row.status \in {"pending", "stopped", "gone"} => Attached = {}
    /\ row.cleanup # None => Absent(row.gen)

\* So does a copy that a request claims from.
LoadedSound ==
    \A r \in Requests :
        LET s == req[r].seen IN
        req[r].pc = "loaded" /\ s.gen = row.gen =>
           /\ Attached \subseteq {s.gen, s.cleanup}
           /\ s.status # "provisioning" => ~Busy /\ (s.cleanup # None => Absent(s.gen))
           /\ s.status = "failed" => s.rs = "failed" /\ s.op # None
           /\ s.status = "ready" => s.cleanup = None

VmInv ==
    /\ RowPhases /\ StarterOwns /\ CleanupAgrees /\ TornDown /\ CleanupOver
    /\ VmKnown /\ LoadedSound
=============================================================================
