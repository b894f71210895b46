------------------------------ MODULE SharedFile ------------------------------
(***************************************************************************)
(* One file of a workspace that several members edit at once, while agents *)
(* and terminals write it too: the row with the shared Yjs document, the   *)
(* file on the host, the Redis lock of the document, and each member's tab *)
(* with its socket.  Edits go to every tab at once and are then folded     *)
(* into the row; an autosave writes the row's text to the file if it still *)
(* has the revision the row knows; a subscription and the poll of an agent *)
(* turn bring changes of the file into the document; when both changed the *)
(* same lines, a member chooses.                                           *)
(*                                                                         *)
(* A job is a call on the server that waits for other services: a batch of *)
(* edits being persisted, an autosave, a subscription, a choice, or the    *)
(* poll of a turn.  A job that waits for the lock has done nothing yet, so *)
(* it begins here when it has it, and what it reads first (the row, then   *)
(* the file) is read with that step: the lock keeps the row, and nothing   *)
(* has come of the job before.  Its last write of the row releases the     *)
(* lock; what it then tells the room is a step of its own.                 *)
(*                                                                         *)
(* Left out: the other files and worktrees of a workspace, awareness,      *)
(* presence and focus, viewers, replay (no client asks for it), the PUT    *)
(* route for a file (no client calls it), the lock's 75 s, and the gap     *)
(* between the host's look at a revision and its rename.                   *)
(***************************************************************************)
EXTENDS SharedText, Sequences

CONSTANTS
    Tabs,        \* tabs that have the file open
    Edits,       \* edits members may type
    Author,      \* bound: the tab that each of them is typed in
    MaxOverlap,  \* bound: how many jobs are under way at one time
    MaxRare,     \* bound: how many kinds of rare events a behaviour may have
    None

VARIABLES
    row,      \* the row of gen2_yjs_documents, or None
    file,     \* the file on the host: its text and revision
    lock,     \* the job that holds the document's lock, Left or None
    tabs,     \* each tab's replica and what its socket has on the server
    jobs,     \* what each job is at
    turn,     \* what the agent of a turn wrote, and whether its poll took note
    made,     \* how many items each edit has had
    rare,     \* the kinds of rare events there have been
    taken     \* edits of the file that a save took for its own

vars == <<row, file, lock, tabs, jobs, turn, made, rare, taken>>

Writes == Pieces \ Edits
Turn == "turn"
Left == <<None, "request">>   \* the lock of a job that is no more
Jobs == (Tabs \X {"persist", "autosave", "request"}) \cup {<<Turn, "request">>}

ASSUME FileConstants ==
    /\ Edits \subseteq Pieces /\ Author \in [Edits -> Tabs]
    /\ Turn \notin Tabs
    /\ None \notin Jobs \cup Tabs \cup {Turn}
    /\ None \notin [doc : Docs, base : Texts, rev : Nat, conflict : BOOLEAN]

\* What happens seldom.  failed: a call fails, or the lock stays busy; lost: a
\* write is done, but its answer does not come; unrecorded: a save is not
\* recorded in the row; closed: a tab's socket closes; cut: with it, the Redis
\* client of its jobs; editor, workspace: a member chooses in a conflict.
Kinds == {"failed", "lost", "unrecorded", "closed", "cut", "editor", "workspace"}

Happens(kind) ==
    /\ kind \notin rare
    /\ kind = "cut" \/ Cardinality(rare \ {"cut"}) < MaxRare
    /\ rare' = rare \cup {kind}

Idle == [act |-> "none", pc |-> "idle", snap |-> None, next |-> None, seen |-> None,
         batch |-> {}, say |-> <<>>]

NewTab == [conn |-> "closed", synced |-> FALSE, conflict |-> FALSE, doc |-> NoDoc,
           subscribed |-> FALSE, queue |-> {}, timer |-> "none", feed |-> <<>>,
           dropped |-> {}, unsaved |-> {}]

Init ==
    /\ row = None
    /\ file = [text |-> NoText, rev |-> 0]
    /\ lock = None
    /\ tabs = [t \in Tabs |-> NewTab]
    /\ jobs = [j \in Jobs |-> Idle]
    /\ turn = [wrote |-> {}, told |-> TRUE]
    /\ made = [p \in Pieces |-> 0]
    /\ rare = {}
    /\ taken = {}

Overlap == Cardinality({i \in Jobs : jobs[i].pc # "idle"})

\* variant: the lock is not asked for
FreeUnlocked(j) == jobs[j].pc = "idle" /\ Overlap < MaxOverlap

\* A job begins: it takes the lock and reads the row.
Free(j) == jobs[j].pc = "idle" /\ lock = None /\ Overlap < MaxOverlap

Goes(j, next) == jobs' = [jobs EXCEPT ![j] = next]

Begins(j, act, pc) ==
    /\ Free(j)
    /\ lock' = j
    /\ Goes(j, [Idle EXCEPT !.act = act, !.pc = pc, !.snap = row, !.seen = file])

\* A message of the room goes to the sockets that are subscribed to the file;
\* the others are passed over (shouldReceive).
Message(kind, delta) == [kind |-> kind, delta |-> delta]
News(messages) == UNION {messages[i].delta.ins : i \in DOMAIN messages}
Sent(tab, messages) ==
    IF tab.subscribed THEN [tab EXCEPT !.feed = @ \o messages]
    ELSE [tab EXCEPT !.dropped = @ \cup News(messages)]

-----------------------------------------------------------------------------
(* The tab and its socket *)

\* A welcomed tab subscribes at once; a tab that reconnects keeps its replica.
Opens(t) ==
    /\ tabs[t].conn = "closed"
    /\ tabs[t].queue = {} /\ tabs[t].timer = "none"
    /\ \A kind \in {"persist", "autosave", "request"} : jobs[<<t, kind>>].pc = "idle"
    /\ tabs' = [tabs EXCEPT ![t].conn = "open"]
    /\ Begins(<<t, "request">>, "subscribe", IF row = None THEN "create" ELSE "save")
    /\ UNCHANGED <<row, file, turn, made, rare, taken>>

\* An edit reaches the server: it is fanned out to the other sockets and then
\* queued to be persisted (applyUpdate).
Received(ts, t, delta) ==
    [u \in Tabs |->
       IF u = t THEN [ts[u] EXCEPT !.queue = @ \cup {delta}]
       ELSE Sent(ts[u], <<Message("update", delta)>>)]

CanType(t, e) ==
    /\ e \in Edits /\ Author[e] = t /\ made[e] = 0
    /\ tabs[t].conn = "open" /\ tabs[t].synced /\ ~tabs[t].conflict

Edited(t, e) == Typed(tabs[t].doc, e, <<e, 1>>)

Types(t, e) ==
    /\ CanType(t, e)
    /\ made' = [made EXCEPT ![e] = 1]
    /\ LET delta == [ins |-> {<<e, 1>>}, del |-> Edited(t, e).del \ tabs[t].doc.del]
       IN  tabs' = Received([tabs EXCEPT ![t].doc = Edited(t, e)], t, delta)
    /\ UNCHANGED <<row, file, lock, jobs, turn, rare, taken>>

Closed(tab, doc) ==
    [tab EXCEPT !.conn = "closed", !.synced = FALSE, !.subscribed = FALSE, !.feed = <<>>,
                !.dropped = @ \cup News(tab.feed), !.doc = doc]

\* The socket closes, perhaps with an edit on the way.  The pending autosave is
\* then due at once (flushAutosaves).
Closes(t) ==
    /\ tabs[t].conn = "open"
    /\ Happens("closed")
    /\ \/ /\ tabs' = [tabs EXCEPT ![t] = Closed(@, @.doc)]
          /\ UNCHANGED made
       \/ \E e \in Edits :
            /\ CanType(t, e)
            /\ made' = [made EXCEPT ![e] = 1]
            /\ tabs' = [tabs EXCEPT ![t] = Closed(@, Edited(t, e))]
    /\ UNCHANGED <<row, file, lock, jobs, turn, taken>>

\* The next message; a tab that is sent the whole document answers with what
\* that lacks.
Delivers(t) ==
    /\ tabs[t].feed # <<>>
    /\ LET m == Head(tabs[t].feed)
           joined == [tabs EXCEPT ![t].feed = Tail(@), ![t].doc = Joined(@, m.delta)]
           back == Missing(tabs[t].doc, m.delta)
       IN  tabs' =
             CASE m.kind = "sync" ->
                    LET ts == [joined EXCEPT ![t].synced = TRUE,
                                             ![t].dropped = @ \ m.delta.ins]
                    IN  IF back = NoDoc THEN ts ELSE Received(ts, t, back)
               [] OTHER ->
                    [joined EXCEPT ![t].conflict =
                       IF m.kind = "update" THEN @ ELSE m.kind = "conflict"]
    /\ UNCHANGED <<row, file, lock, jobs, turn, made, rare, taken>>

-----------------------------------------------------------------------------
(* Jobs: under the lock *)

\* The queued edits are folded into the document as one batch (drain, persist).
BeginsPersist(t) ==
    LET j == <<t, "persist">>
        batch == tabs[t].queue
        folded == [ins |-> row.doc.ins \cup UNION {d.ins : d \in batch},
                   del |-> row.doc.del \cup UNION {d.del : d \in batch}]
    IN  /\ batch # {}
        /\ Free(j)
        /\ lock' = j
        /\ Goes(j, [Idle EXCEPT !.act = "persist", !.pc = "save", !.batch = batch,
                      !.next = [row EXCEPT !.doc = folded]])
        /\ UNCHANGED <<row, file, tabs, turn, made, rare, taken>>

\* variant: nothing is scheduled for a closed socket
ScheduledIfOpen(tab) == IF tab.conn = "open" THEN "set" ELSE tab.timer

\* scheduleAutosave sets the timer also when the socket has closed since.
Scheduled(tab) == IF tab.conn = "open" THEN "set" ELSE "late"

\* A batch is in the row: the write to the file is scheduled, and what came
\* meanwhile stays queued.
SavesBatch(t) ==
    LET j == <<t, "persist">>
    IN  /\ jobs[j].pc = "save"
        /\ row' = jobs[j].next
        /\ lock' = None
        /\ tabs' = [tabs EXCEPT ![t].queue = @ \ jobs[j].batch,
              ![t].timer = Scheduled(tabs[t])]
        /\ Goes(j, Idle)
        /\ UNCHANGED <<file, turn, made, rare, taken>>

\* The timer of a tab's pending write runs out, or its socket closes.  There
\* is nothing to write in a conflict, or when the file has the text already.
BeginsAutosave(t) ==
    LET j == <<t, "autosave">>
    IN  /\ tabs[t].timer # "none"
        /\ tabs' = [tabs EXCEPT ![t].timer = "none"]
        /\ IF row.conflict \/ TextOf(row.doc) = row.base
           THEN Free(j) /\ UNCHANGED <<lock, jobs>>
           ELSE Begins(j, "autosave", "write")
        /\ UNCHANGED <<row, file, turn, made, rare, taken>>

\* A member who sees the conflict keeps the editors' text or the file's.
Chooses(t, act) ==
    /\ tabs[t].conn = "open" /\ tabs[t].synced /\ tabs[t].conflict
    /\ Happens(act)
    /\ Begins(<<t, "request">>, act, IF act = "editor" THEN "write" ELSE "save")
    /\ UNCHANGED <<row, file, tabs, turn, made, taken>>

\* The poll of a turn learns that its agent wrote the file (syncAgentFiles).
BeginsReconcile ==
    /\ ~turn.told
    /\ turn' = [turn EXCEPT !.told = TRUE]
    /\ IF row = None THEN UNCHANGED <<lock, jobs>>
       ELSE Begins(<<Turn, "request">>, "turn", "save")
    /\ UNCHANGED <<row, file, tabs, made, rare, taken>>

Reconciling == {"subscribe", "turn"}

Fresh(doc, seen) == [doc |-> doc, base |-> seen.text, rev |-> seen.rev, conflict |-> FALSE]

\* The first subscription makes the row from the file (initializeGen2Document);
\* the file is then read again.
Creates(j) ==
    /\ jobs[j].pc = "create"
    /\ LET seen == jobs[j].seen
       IN  /\ row' = Fresh(ReplaceContents(NoDoc, seen.text, made), seen)
           /\ made' = MadeBy(NoText, seen.text, made)
    /\ Goes(j, [jobs[j] EXCEPT !.pc = "save", !.snap = row', !.seen = file])
    /\ UNCHANGED <<file, lock, tabs, turn, rare, taken>>

\* variant: the difference is taken when the change has been made
DeltaAfter(new, old) == [ins |-> {}, del |-> new.del]

\* What changed in the document is sent to those who have the rest.
Delta(new, old) == [ins |-> new.ins \ old.ins, del |-> new.del]

\* The file is brought into the document (reconcileGen2Document): as it is if
\* nobody edited since, merged if different lines changed, else as a conflict.
Reconciles(j) ==
    /\ jobs[j].pc = "save" /\ jobs[j].act \in Reconciling
    /\ LET snap == jobs[j].snap
           seen == jobs[j].seen
           ours == TextOf(snap.doc)
           clash == ours # snap.base /\ Collide(snap.base, ours, seen.text)
           doc == IF ours = snap.base THEN ReplaceContents(snap.doc, seen.text, made)
                  ELSE Brought(snap.doc, snap.base, seen.text, made)
           news == <<Message("reconciled", Delta(doc, snap.doc))>>
           Ends(next, say) ==
               /\ lock' = None
               /\ Goes(j, [Idle EXCEPT !.act = jobs[j].act, !.pc = "tell",
                             !.next = next, !.say = say])
       IN  CASE snap.conflict ->
                  /\ Ends(snap, <<Message("conflict", NoDoc)>>)
                  /\ UNCHANGED <<row, made>>
             [] ~snap.conflict /\ seen.rev = snap.rev ->
                  /\ Ends(snap, <<>>)
                  /\ UNCHANGED <<row, made>>
             [] ~snap.conflict /\ seen.rev # snap.rev /\ clash ->
                  /\ row' = [snap EXCEPT !.conflict = TRUE]
                  /\ Ends(snap, <<Message("conflict", NoDoc)>>)
                  /\ UNCHANGED made
             [] ~snap.conflict /\ seen.rev # snap.rev /\ ~clash ->
                  /\ row' = Fresh(doc, seen)
                  /\ made' = MadeBy(IF ours = snap.base THEN ours ELSE snap.base,
                                    seen.text, made)
                  /\ IF ours = snap.base \/ TextOf(doc) = seen.text THEN Ends(row', news)
                     ELSE /\ Goes(j, [jobs[j] EXCEPT !.pc = "write", !.snap = row',
                                        !.next = row', !.say = news])
                          /\ UNCHANGED lock
    /\ UNCHANGED <<file, tabs, turn, rare, taken>>

\* The file wins (keepWorkspace): its text becomes the document's.
TakesFile(j) ==
    /\ jobs[j].pc = "save" /\ jobs[j].act = "workspace"
    /\ LET seen == jobs[j].seen
           old == jobs[j].snap.doc
           doc == ReplaceContents(old, seen.text, made)
       IN  /\ row' = Fresh(doc, seen)
           /\ made' = MadeBy(TextOf(old), seen.text, made)
           /\ Goes(j, [Idle EXCEPT !.act = "workspace", !.pc = "tell",
                         !.say = <<Message("reconciled", Delta(doc, old))>>])
    /\ lock' = None
    /\ UNCHANGED <<file, tabs, turn, rare, taken>>

\* variant: whatever revision the file has now is expected
ExpectsPresent(j) == file.rev

\* The host writes the text if the file has the revision the job expects.  If
\* not, a choice fails, and any other job marks the document in conflict.
Expects(j) == IF jobs[j].act = "editor" THEN jobs[j].seen.rev ELSE jobs[j].snap.rev

WritesFile(j) ==
    /\ jobs[j].pc = "write" /\ file.rev = Expects(j)
    /\ file' = [text |-> TextOf(jobs[j].snap.doc), rev |-> file.rev + 1]
    /\ Goes(j, [jobs[j] EXCEPT !.pc = "readback"])
    /\ UNCHANGED <<row, lock, tabs, turn, made, rare, taken>>

IsRefused(j) ==
    /\ jobs[j].pc = "write" /\ file.rev # Expects(j)
    /\ IF jobs[j].act = "editor"
       THEN /\ Goes(j, Idle)
            /\ UNCHANGED row
       ELSE /\ row' = [jobs[j].snap EXCEPT !.conflict = TRUE]
            /\ Goes(j, [jobs[j] EXCEPT !.pc = "tell",
                          !.say = Append(@, Message("conflict", NoDoc))])
    /\ lock' = None
    /\ UNCHANGED <<file, tabs, turn, made, rare, taken>>

\* The host answers a write with what it then reads from the file, and that is
\* recorded as the row's base (recordGen2DocumentSave).  If it cannot be
\* recorded, the save is reported all the same.
Saved(j) ==
    /\ jobs[j].pc = "readback"
    /\ taken' = taken \cup Changed(TextOf(jobs[j].snap.doc), file.text)
    /\ Goes(j, [jobs[j] EXCEPT !.pc = "tell",
                  !.say = Append(@, Message("reconciled", NoDoc))])
    /\ lock' = None
    /\ UNCHANGED <<file, tabs, turn, made>>

\* variant: the revision is recorded, the text is not
RecordsRevision(j) ==
    /\ Saved(j)
    /\ row' = [row EXCEPT !.rev = file.rev, !.conflict = FALSE]
    /\ UNCHANGED rare

Records(j) ==
    /\ Saved(j)
    /\ row' = Fresh(row.doc, file)
    /\ UNCHANGED rare

IsUnrecorded(j) ==
    /\ Saved(j)
    /\ Happens("unrecorded")
    /\ UNCHANGED row

-----------------------------------------------------------------------------
(* Jobs: after the lock *)

\* The outcome is published to the room; a subscription first begins to take
\* part and is at last sent the document it loaded.
Tells(j) ==
    /\ jobs[j].pc = "tell"
    /\ Goes(j, Idle)
    /\ LET t == j[1]
           say == jobs[j].say
       IN  tabs' = [u \in Tabs |->
             IF jobs[j].act = "subscribe" /\ u = t /\ tabs[u].conn = "open"
             THEN Sent([tabs[u] EXCEPT !.subscribed = TRUE],
                       Append(say, Message("sync", jobs[j].next.doc)))
             ELSE Sent(tabs[u], say)]
    /\ UNCHANGED <<row, file, lock, turn, made, rare, taken>>

\* variant: an error keeps the lock
StillLocked(j) == lock

Unlocked(j) == IF lock = j THEN None ELSE lock

\* A job ends with an error, and what it had to tell is never told.  Edits that
\* could not be persisted are forgotten here: the tab sends them when it next
\* subscribes.  The poll of a turn may have another chance at the turn's end.
Errs(j, locked) ==
    /\ Goes(j, Idle)
    /\ lock' = locked
    /\ tabs' = [t \in Tabs |->
         IF jobs[j].act = "persist" /\ t = j[1]
         THEN [tabs[t] EXCEPT !.queue = {},
                              !.unsaved = @ \cup UNION {d.ins : d \in tabs[t].queue}]
         ELSE [tabs[t] EXCEPT !.dropped = @ \cup News(jobs[j].say)]]
    /\ IF jobs[j].act = "turn" THEN \E told \in BOOLEAN : turn' = [turn EXCEPT !.told = told]
       ELSE UNCHANGED turn
    /\ UNCHANGED <<row, file, made, taken>>

Fails(j) ==
    /\ jobs[j].pc \in {"create", "save", "write", "readback", "tell"}
    /\ Happens(IF jobs[j].pc = "readback" THEN "lost" ELSE "failed")
    /\ Errs(j, Unlocked(j))

\* Once a closed socket's pending writes are done, its Redis client goes. A job
\* of the socket fails when it next comes to a call of that client, and a lock it
\* holds is left to expire.
IsCut(t) ==
    /\ tabs[t].conn = "closed"
    /\ tabs[t].timer # "set" /\ jobs[<<t, "autosave">>].pc = "idle"
    /\ Happens("cut")
    /\ \/ \E kind \in {"persist", "request"} :
            /\ jobs[<<t, kind>>].pc # "idle"
            /\ Errs(<<t, kind>>, IF lock = <<t, kind>> THEN Left ELSE lock)
       \/ /\ tabs[t].timer = "late"
          /\ tabs' = [tabs EXCEPT ![t].timer = "none"]
          /\ UNCHANGED <<row, file, lock, jobs, turn, made, taken>>

LockExpires ==
    /\ lock = Left
    /\ lock' = None
    /\ UNCHANGED <<row, file, tabs, jobs, turn, made, rare, taken>>

-----------------------------------------------------------------------------
(* The agent, or a terminal, and the whole *)

AgentWrites(p) ==
    /\ p \in Writes \ turn.wrote
    /\ file' = [text |-> Written(file.text, p), rev |-> file.rev + 1]
    /\ turn' = [wrote |-> turn.wrote \cup {p}, told |-> FALSE]
    /\ UNCHANGED <<row, lock, tabs, jobs, made, rare, taken>>

Step(j) ==
    \/ Creates(j) \/ Reconciles(j) \/ TakesFile(j)
    \/ WritesFile(j) \/ IsRefused(j) \/ Records(j) \/ Tells(j)

Next ==
    \/ \E t \in Tabs :
         \/ Opens(t) \/ Closes(t) \/ Delivers(t)
         \/ \E e \in Edits : Types(t, e)
         \/ BeginsPersist(t) \/ SavesBatch(t) \/ BeginsAutosave(t)
         \/ \E act \in {"editor", "workspace"} : Chooses(t, act)
         \/ IsCut(t)
    \/ BeginsReconcile
    \/ \E j \in Jobs : Step(j) \/ Fails(j) \/ IsUnrecorded(j)
    \/ \E p \in Writes : AgentWrites(p)
    \/ LockExpires

Spec == Init /\ [][Next]_vars
=============================================================================
