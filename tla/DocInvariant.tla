----------------------------- MODULE DocInvariant -----------------------------
(***************************************************************************)
(* The inductive invariants that imply what DocProperties says of states.  *)
(***************************************************************************)
EXTENDS DocProperties

-----------------------------------------------------------------------------
(* Shapes *)

\* The items there have been, when `m` counts them.
Had(m) == UNION {{p} \X (1..m[p]) : p \in Pieces}

DocsIn(m) == [ins : SUBSET Had(m), del : SUBSET Had(m)]
RowsIn(m) == [doc : DocsIn(m), base : Texts, rev : Nat, conflict : BOOLEAN]
MessagesIn(m) == [kind : {"update", "reconciled", "conflict", "sync"}, delta : DocsIn(m)]

TabsIn(m) ==
    [conn : {"closed", "open"}, synced : BOOLEAN, conflict : BOOLEAN, doc : DocsIn(m),
     subscribed : BOOLEAN, queue : SUBSET DocsIn(m), timer : {"none", "set", "late"},
     feed : Seq(MessagesIn(m)), dropped : SUBSET Items, unsaved : SUBSET Items]

JobsIn(m) ==
    [act : Acts, pc : Locked \cup {"idle", "tell"}, snap : RowsIn(m) \cup {None},
     next : RowsIn(m) \cup {None}, seen : Files \cup {None}, batch : SUBSET DocsIn(m),
     say : Seq(MessagesIn(m))]

IsTab(x) ==
    x = [conn |-> x.conn, synced |-> x.synced, conflict |-> x.conflict, doc |-> x.doc,
         subscribed |-> x.subscribed, queue |-> x.queue, timer |-> x.timer,
         feed |-> x.feed, dropped |-> x.dropped, unsaved |-> x.unsaved]

Unused(x) ==
    IsTab(x) /\ x.queue = {} /\ x.timer = "none" /\ x.feed = <<>> /\ x.synced = FALSE

\* Before there is a row nobody has an edit to save.
Blank ==
    /\ row = None
    /\ \A j \in Jobs : jobs[j].pc \in {"idle", "create"}
    /\ tabs = [t \in Tabs |-> tabs[t]]
    /\ \A t \in Tabs : Unused(tabs[t])

Shaped ==
    /\ row \in RowsIn(made) \cup {None}
    /\ file \in Files
    /\ lock \in Jobs \cup {None, Left}
    /\ tabs \in [Tabs -> TabsIn(made)]
    /\ jobs \in [Jobs -> JobsIn(made)]
    /\ turn \in [wrote : SUBSET Writes, told : BOOLEAN]
    /\ made \in [Pieces -> Nat]
    /\ rare \subseteq Kinds
    /\ taken \subseteq Pieces

-----------------------------------------------------------------------------
(* The lock and the row *)

IsJob(x) ==
    x = [act |-> x.act, pc |-> x.pc, snap |-> x.snap, next |-> x.next,
         seen |-> x.seen, batch |-> x.batch, say |-> x.say]

IsRow(r) == r = [doc |-> r.doc, base |-> r.base, rev |-> r.rev, conflict |-> r.conflict]

Extends(r, s) == r.doc.ins \subseteq s.doc.ins /\ r.doc.del \subseteq s.doc.del

\* A job that holds the lock knows the row as it is: it has read it, and nobody
\* has written it since; what a batch will write extends it.
Fits(j, x, r, l) ==
    /\ IsJob(x)
    /\ x.pc \in Locked => l = j
    /\ x.pc = "create" => r = None /\ x.act = "subscribe" /\ j[2] # "persist"
    /\ x.pc \in {"save", "write", "readback"} => IsRow(r)
    /\ x.pc = "save" /\ x.act = "persist" => IsRow(x.next) /\ Extends(r, x.next)
    /\ (x.pc = "save" /\ x.act # "persist") \/ x.pc = "write" => x.snap = r
    /\ j[2] = "persist" /\ x.pc = "save" => x.act = "persist"

RowKnown == Blank \/ IsRow(row)

Inv ==
    /\ jobs = [j \in Jobs |-> jobs[j]]
    /\ \A j \in Jobs : Fits(j, jobs[j], row, lock)
    /\ RowKnown

-----------------------------------------------------------------------------
(* What a job knows *)

\* It has read the file, and the file has the text it read as long as it has
\* the same revision.
Seen(x, f) ==
    /\ x.seen \in Files
    /\ x.seen.rev <= f.rev
    /\ x.seen.rev = f.rev => x.seen.text = f.text

Folded(doc, batch) ==
    [ins |-> doc.ins \cup UNION {d.ins : d \in batch},
     del |-> doc.del \cup UNION {d.del : d \in batch}]

WillWrite == {"autosave", "editor"} \cup Reconciling

\* The job `j` is at `x`, with the row `r` and the file `f`.
At(j, x, r, f) ==
    /\ x.pc = "idle" => x = Idle
    /\ x.pc = "create" => x.act = "subscribe" /\ x.say = <<>> /\ Seen(x, f)
    /\ x.pc = "save" => x.act \in {"persist", "workspace"} \cup Reconciling
    /\ x.pc = "save" /\ x.act # "persist" => x.snap = r /\ x.say = <<>> /\ Seen(x, f)
    /\ x.pc = "save" /\ x.act = "persist" =>
         x.next = [r EXCEPT !.doc = Folded(r.doc, x.batch)]
    /\ x.pc = "write" => x.act \in WillWrite /\ x.snap = r
    /\ x.pc = "write" /\ x.act = "editor" => Seen(x, f) /\ x.say = <<>>
    /\ x.pc = "readback" => x.act \in WillWrite /\ x.snap = r
    /\ x.pc = "tell" => x.act # "persist"
    /\ x.act = "persist" => j[1] \in Tabs /\ j[2] = "persist" /\ x.say = <<>>
    /\ j[2] = "persist" => x.act \in {"none", "persist"}
    /\ x.act = "subscribe" => j[1] \in Tabs /\ j[2] = "request"
    /\ x.pc \in {"write", "readback", "tell"} /\ x.act = "subscribe" => x.next # None

Placed ==
    /\ lock \in Jobs => jobs[lock].pc \in Locked
    /\ \A j \in Jobs : At(j, jobs[j], row, file)

Core == Inv /\ Shaped /\ Placed /\ (row = None => Blank)

-----------------------------------------------------------------------------
(* The row and the file *)

\* The revision stands for the text, and the document has taken in what the
\* row's base has, but for what a save took for its own.
Based ==
    row # None =>
      /\ row.rev <= file.rev
      /\ row.rev = file.rev => row.base = file.text
      /\ \A p \in Pieces \ taken : row.base[p] > 0 => HasHad(row.doc, p)

\* A change of the document that the file lacks has a timer or a job to write it.
Due ==
    rare \subseteq {"closed", "editor", "workspace"} /\ row # None /\ ~row.conflict =>
      \/ Changed(TextOf(row.doc), row.base) \subseteq taken
      \/ \E t \in Tabs : tabs[t].timer # "none"
      \/ \E j \in Jobs : jobs[j].pc = "write" /\ jobs[j].act # "editor"
      \/ \E j \in Jobs : jobs[j].pc = "readback"

-----------------------------------------------------------------------------
(* No edit twice *)

\* An edit that the document has and its base lacks is not in the file `f`.
Ahead(r, text) == \A p \in Pieces : TextOf(r.doc)[p] > r.base[p] => text[p] = 0

\* An edit that no agent has written is nowhere; one that a member has typed,
\* and that has not come to the row, has its first item and is not in `text`.
Novel(text) ==
    /\ \A p \in Writes \ turn.wrote : text[p] = 0
    /\ \A e \in Edits : row = None \/ <<e, 1>> \notin row.doc.ins => text[e] = 0

Single(text) == \A p \in Pieces : text[p] <= 1

Reading(x) == x.pc = "create" \/ (x.pc = "save" /\ x.act # "persist")

AllRecorded == rare \cap {"lost", "unrecorded", "cut"} = {}

\* How often the row and the file have an edit.
Counts ==
    /\ Single(file.text) /\ Novel(file.text)
    /\ \A p \in Writes \ turn.wrote : made[p] = 0
    /\ row = None => \A p \in Pieces : made[p] = 0
    /\ row # None =>
         /\ Single(row.base) /\ Single(TextOf(row.doc)) /\ Novel(row.base)
         /\ Had(made) \ row.doc.ins \subseteq {<<e, 1>> : e \in Edits}
         /\ \A e \in Edits : <<e, 1>> \notin row.doc.ins => made[e] <= 1

\* What the file has of the editors, the base has too, once it is recorded.
Level == row # None => Ahead(row, file.text) \/ \E j \in Jobs : jobs[j].pc = "readback"

ReadOnce(text) ==
    /\ Single(text) /\ Novel(text)
    /\ row # None => Ahead(row, text)

Reads == \A j \in Jobs : Reading(jobs[j]) => ReadOnce(jobs[j].seen.text)

Once == AllRecorded => Counts /\ Level /\ Reads

-----------------------------------------------------------------------------
(* What the editors have *)

Waiting(tab) == UNION {d.ins : d \in tab.queue}
Queued == UNION {Waiting(tabs[t]) : t \in Tabs}
Unsaved == UNION {tabs[t].unsaved : t \in Tabs}
Coming == UNION {News(jobs[j].say) : j \in Jobs}

\* The row has it, it waits to be persisted, or it could not be.
Present == row.doc.ins \cup Queued \cup Unsaved

\* What a tab has, will be sent, or was left out of.
Has(tab) == tab.doc.ins \cup tab.dropped \cup News(tab.feed)
Heard(t) == Has(tabs[t]) \cup Coming

\* The whole documents that are on their way to a tab, and the one that its
\* subscription has loaded and will send.
Syncs(feed) == {feed[i].delta.ins : i \in {k \in DOMAIN feed : feed[k].kind = "sync"}}
Loading(x) == x.act = "subscribe" /\ x.pc \in {"write", "readback", "tell"}
Loads(x) == IF Loading(x) THEN {x.next.doc.ins} ELSE {}
Loaded(t) == Loads(jobs[<<t, "request">>])

\* What is sent comes from the row, or waits to be persisted, or could not be.
Sourced ==
    row # None =>
      /\ Coming \subseteq row.doc.ins
      /\ \A t \in Tabs :
           /\ News(tabs[t].feed) \subseteq Present
           /\ tabs[t].synced => tabs[t].doc.ins \subseteq Present
           /\ \A s \in Syncs(tabs[t].feed) \cup Loaded(t) : s \subseteq row.doc.ins

\* A tab that takes part hears everything; one that subscribes is about to be
\* sent what it has not heard.
Reached ==
    /\ row = None => \A t \in Tabs : ~tabs[t].subscribed
    /\ row # None => \A t \in Tabs :
         /\ tabs[t].feed # <<>> \/ tabs[t].synced => tabs[t].subscribed
         /\ Queued \subseteq Heard(t)
         /\ jobs[<<t, "persist">>].batch \subseteq tabs[t].queue
         /\ tabs[t].subscribed => row.doc.ins \subseteq Heard(t)
         /\ \A s \in Loaded(t) : row.doc.ins \subseteq Heard(t) \cup s
=============================================================================
