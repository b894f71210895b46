----------------------------- MODULE ComputeCron -----------------------------
(***************************************************************************)
(* The compute cron's round over one workspace (compute-reconcile.ts), the *)
(* passing of time, and the composition with the members' requests.        *)
(***************************************************************************)
EXTENDS WorkspaceRows

\* reconcileComputeQuota asks Azure whether the host is stopped, once.
Begins ==
    /\ Free(Cron)
    /\ Goes(Cron, [At("bootstrap") EXCEPT !.was = host])
    /\ UNCHANGED <<row, session, guest, host, spent, mishap>>

\* variant: only rows that are being started are looked at
BootstrapsStarting ==
    /\ op[Cron].pc = "bootstrap"
    /\ Goes(Cron, IF row # None /\ row.status = "provisioning" /\ session = None
                     /\ op[Cron].was # "stopped"
                  THEN [For("probe", row.owner) EXCEPT !.was = op[Cron].was]
                  ELSE [op[Cron] EXCEPT !.pc = "select"])
    /\ UNCHANGED <<row, session, guest, host, spent, mishap>>

\* bootstrapActiveSessions: a ready row without a session is read ...
Bootstraps ==
    /\ op[Cron].pc = "bootstrap"
    /\ Goes(Cron, IF row # None /\ row.status = "ready" /\ session = None
                     /\ op[Cron].was # "stopped"
                  THEN [For("probe", row.owner) EXCEPT !.was = op[Cron].was]
                  ELSE [op[Cron] EXCEPT !.pc = "select"])
    /\ UNCHANGED <<row, session, guest, host, spent, mishap>>

\* ... the orchestrator asked for the guest ...
Probes ==
    /\ op[Cron].pc = "probe"
    /\ Goes(Cron, IF guest THEN [op[Cron] EXCEPT !.pc = "insert"]
                  ELSE [op[Cron] EXCEPT !.pc = "select", !.owner = None])
    /\ UNCHANGED <<row, session, guest, host, spent, mishap>>

\* ... and a session inserted for the row that was read.
Inserts ==
    /\ op[Cron].pc = "insert"
    /\ session' = Metered(op[Cron].owner)
    /\ Goes(Cron, [op[Cron] EXCEPT !.pc = "select", !.owner = None])
    /\ UNCHANGED <<row, guest, host, spent, mishap>>

\* The open sessions are read, joined to the rows they belong to.
Selects ==
    /\ op[Cron].pc = "select"
    /\ Goes(Cron, IF session = None \/ row = None THEN Idle
                  ELSE [op[Cron] EXCEPT !.pc = "observe", !.owner = session])
    /\ UNCHANGED <<row, session, guest, host, spent, mishap>>

\* variant: a stopped host is asked for the guest
ObservesGuestOnly ==
    /\ op[Cron].pc = "observe"
    /\ Goes(Cron, For(IF host = "up" /\ ~guest THEN "expire" ELSE "exhaust",
                      op[Cron].owner))
    /\ UNCHANGED <<row, session, guest, host, spent, mishap>>

\* observeSession: the session of a guest that is gone is to end; one whose
\* guest could not be asked for stays.
Observes ==
    /\ op[Cron].pc = "observe"
    /\ Goes(Cron, For(IF op[Cron].was = "stopped" \/ (host = "up" /\ ~guest)
                      THEN "expire" ELSE "exhaust", op[Cron].owner))
    /\ UNCHANGED <<row, session, guest, host, spent, mishap>>

ExpiresObserved ==
    /\ op[Cron].pc = "expire"
    /\ Trims
    /\ Goes(Cron, For("exhaust", op[Cron].owner))
    /\ UNCHANGED <<row, guest, host, mishap>>

\* variant: the comparison of the minutes is the wrong way round
ExhaustsUnspent ==
    /\ op[Cron].pc = "exhaust"
    /\ IF /\ op[Cron].owner \notin spent /\ session = op[Cron].owner
          /\ Stoppable /\ row.owner = op[Cron].owner
       THEN Reserves(Cron)
       ELSE row' = row /\ Goes(Cron, Idle)
    /\ UNCHANGED <<session, guest, host, spent, mishap>>

\* stopExhaustedOwner stops, as the owner of the session, what may be stopped.
Exhausts ==
    /\ op[Cron].pc = "exhaust"
    /\ IF /\ op[Cron].owner \in spent /\ session = op[Cron].owner
          /\ Stoppable /\ row.owner = op[Cron].owner
       THEN Reserves(Cron)
       ELSE row' = row /\ Goes(Cron, Idle)
    /\ UNCHANGED <<session, guest, host, spent, mishap>>

Round ==
    \/ Bootstraps \/ Probes \/ Inserts \/ Selects \/ Observes
    \/ ExpiresObserved \/ Exhausts \/ StopInstance(Cron)

-----------------------------------------------------------------------------
\* The orchestrator hibernates an idle guest; members keep one awake only
\* through a row that is ready.
Hibernates ==
    /\ host = "up" /\ guest /\ guest' = FALSE
    /\ UNCHANGED <<row, session, host, spent, op, mishap>>

\* The host is deallocated, and its guests with it.
Deallocates ==
    /\ host = "up" /\ host' = "stopped" /\ guest' = FALSE
    /\ UNCHANGED <<row, session, spent, op, mishap>>

\* A session uses its owner's minutes up, and a new month gives them back.
Spends ==
    /\ session # None /\ session \notin spent
    /\ spent' = spent \cup {session}
    /\ UNCHANGED <<row, session, guest, host, op, mishap>>

Renews(owner) ==
    /\ owner \in spent /\ spent' = spent \ {owner}
    /\ UNCHANGED <<row, session, guest, host, op, mishap>>

\* A lease outlasts the call it is for, unless that call is slow.
Ages ==
    /\ row # None /\ row.status = "provisioning" /\ ~row.stale
    /\ IF \E a \in Actors : op[a].pc \in Leasing
       THEN Mishap("slow") ELSE UNCHANGED mishap
    /\ row' = [row EXCEPT !.stale = TRUE]
    /\ UNCHANGED <<session, guest, host, spent, op>>

\* The platform ends a request or a cron run in the middle.
Dies(a) ==
    /\ op[a].pc # "idle" /\ Mishap("died")
    /\ Goes(a, Idle)
    /\ UNCHANGED <<row, session, guest, host, spent>>

Next ==
    \/ \E r \in Requests :
         Opens(r) \/ EnsureInstance(r) \/ Stops(r) \/ StopInstance(r)
           \/ Deletes(r) \/ DeleteWorkspace(r)
    \/ \E o \in Owners : Transfers(o) \/ Renews(o)
    \/ Begins \/ Round
    \/ \E a \in Actors : Dies(a)
    \/ Touches \/ Ages \/ Hibernates \/ Deallocates \/ Spends

Spec == Init /\ [][Next]_vars
=============================================================================
