---------------------------- MODULE ArmProperties ----------------------------
(* What ArmLifecycle promises: the properties its runs check.              *)
EXTENDS ArmLifecycle

\* A ready row has its VM: no stale run, late cleanup or delayed retry takes
\* the VM of the row's generation away (claimOperation's new generation,
\* operationWhere, markOperationFailed's early return).
ReadyHasVm == row.rs = "ready" => vm[row.gen] # "absent"

\* The VM of a row that is starting or ready is only taken down by the failing
\* start that owns the row (markOperationFailed), whatever was queued before.
OnlyOwnerTearsDown ==
    [][(row.kind = "start" \/ row.rs = "ready")
        /\ vm[row.gen] # "absent" /\ vm'[row.gen] = "absent"
       => row.op \in OpIds /\ wf[row.op].pc = "undo"]_vars

\* Steps in which a run acts on the VM, the disk or the row.
Working(o) ==
    /\ Live(o) /\ wf[o].kind = "start"
    /\ wf[o].pc \notin {"waiting", "activate", "signal"}

\* One generation is never started twice at the same time, although requests,
\* the cron and a handoff may all create a workflow for it (createOrJoinWorkflow,
\* the cron's replacement ids, continuationId).
OneStartPerGeneration ==
    \A o1, o2 \in OpIds :
        Working(o1) /\ Working(o2) /\ wf[o1].gen = wf[o2].gen => o1 = o2

\* The saved disk survives as long as the workspace does: it only goes while
\* the row says `deleting` or is gone (deleteDisk after claimOperation's status).
DiskKept == row.disk /\ row.status \notin {"deleting", "gone"} => disk

\* No VM is forgotten: a VM that exists has a live run that is responsible for
\* its generation, or the row names the generation and can still be stopped,
\* deleted or restarted (runtime_cleanup_generation, stopResourceGenerations).
NoForgottenVm ==
    \A g \in Attached :
        \/ \E o \in OpIds : Live(o) /\ g \in Targets(o)
        \/ /\ row.status \notin {"pending", "stopped", "gone"}
           /\ g \in {row.gen, row.cleanup}

\* The cron asks after an instance before anything else happens to the row it
\* selected: the two calls follow each other in reconcileArmWorkspaceOperations.
PromptCron == cron.pc = "scanned" => cron' # cron
PromptSpec == Init /\ [][Next /\ PromptCron]_vars
FairPromptSpec == PromptSpec /\ Fairness

\* No request gives up on a delete whose workflow it could not create: it would
\* mark the row `failed` although the cron carries the delete out all the same
\* (markQueueFailure).
DeletesQueued ==
    \A r \in Requests : req[r].pc = "unqueued" => req[r].seen.kind # "delete"

\* The cron replaces an operation only on the row as it selected it.  The code
\* compares the operation and the generation, not the status it read: the row may
\* have been marked failed since (the WHERE clause in
\* reconcileArmWorkspaceOperations).
FreshReplacement ==
    cron.pc = "scanned" /\ cron'.pc = "recreate" /\ row'.op # row.op
      => cron.seen = Job(row) /\ Due

\* No request gives up on a start that owns the row before the start's run is
\* over: it would mark the row `failed` while the run goes on to make a VM
\* (markQueueFailure).
StartsQueued ==
    \A r \in Requests :
        LET s == req[r].seen IN
        req[r].pc = "unqueued" /\ s.kind = "start" /\ row.op = s.op
          => wf[s.op].pc \in Terminal

\* Nobody starts the workspace on a row whose stop has failed before that stop
\* was carried out after all (the cron queues it again after five minutes):
\* claimOperation suspects a VM behind a failed start, but none behind a failed
\* stop (cleanupCurrentGeneration).
StopsRetriedFirst ==
    \A r \in Requests :
        LET s == req[r].seen IN
        req[r].pc = "loaded" /\ req'[r].pc = "claimed" /\ req[r].kind = "start"
          => ~(s.rs = "failed" /\ s.kind \in {"stop", "delete"})

\* Every operation ends, whatever fails, hands over or dies: the cron and the
\* lease bring an abandoned one back (reconcileArmWorkspaceOperations).
OperationSettles == (row.rs \in Active) ~> (row.rs \notin Active)

\* A stop that failed is tried again until the workspace is stopped or somebody
\* asked for something else (the cron queues failed stops after five minutes).
FailedStopRetried ==
    (row.kind = "stop" /\ row.rs = "failed") ~> (row.kind # "stop")

\* A workspace being deleted is deleted in the end: a delete that fails stays
\* `deleting` and the cron queues it again (markOperationFailed, the cron).
DeletionCompletes == (row.status = "deleting") ~> (row.status = "gone")
=============================================================================
