---------------------------- MODULE DocProperties ----------------------------
(***************************************************************************)
(* What the shared document of a file and the file must keep to.           *)
(***************************************************************************)
EXTENDS SharedFile

Acts == {"none", "persist", "autosave", "subscribe", "turn", "editor", "workspace"}
Locked == {"create", "save", "write", "readback"}
Rows == [doc : Docs, base : Texts, rev : Nat, conflict : BOOLEAN]
Files == [text : Texts, rev : Nat]

\* The state is well formed, and the lock is held by exactly the job that is
\* between its reads and its last write of the row (withDocumentLock).
TypeOK ==
    /\ row = None \/ row \in Rows
    /\ file \in Files
    /\ lock \in Jobs \cup {None, Left}
    /\ \A t \in Tabs :
         /\ tabs[t].doc \in Docs
         /\ \A d \in tabs[t].queue : d \in Docs
         /\ \A i \in 1..Len(tabs[t].feed) : tabs[t].feed[i].delta \in Docs
    /\ \A j \in Jobs :
         /\ jobs[j].act \in Acts /\ jobs[j].pc \in Locked \cup {"idle", "tell"}
         /\ jobs[j].pc \in Locked <=> lock = j
    /\ made \in [Pieces -> Nat]
    /\ rare \subseteq Kinds

\* An edit that is in the shared document is never lost from it: whoever saves
\* the row has loaded all that others saved (the load and the save of persist,
\* reconcileGen2Document, writeSharedFile and keepWorkspace under one lock).
EditsStay ==
    [][row # None => /\ row.doc.ins \subseteq row'.doc.ins
                     /\ row.doc.del \subseteq row'.doc.del]_vars

\* The row's document has had `p`, and every item of it has been deleted.
HasHad(doc, p) == \E i \in doc.ins : i[1] = p
Deleted(p) == HasHad(row.doc, p) /\ \A i \in row.doc.ins : i[1] = p => i \in row.doc.del

\* The server takes a line out of the file only if the document had taken the
\* line in from the file and an editor has deleted it since, or if a member
\* chose the editors' text: what an agent wrote meanwhile is never overwritten
\* (expectedRevision).  The one exception is an edit that a save's read-back
\* took for the save's own (`taken`).
NothingOverwritten ==
    [][\A p \in Pieces :
         file.text[p] > 0 /\ file'.text[p] = 0 =>
           \/ turn' # turn
           \/ p \in taken
           \/ \E j \in Jobs : jobs[j].act = "editor" /\ jobs[j].pc = "write"
           \/ row.base[p] > 0 /\ Deleted(p)]_vars

\* No edit comes to stand twice in the text or in the file, however often it is
\* written out, read back, merged and sent again, unless the record of a write
\* was lost (rebaseTextHunks, recordGen2DocumentSave).
NothingTwice ==
    rare \cap {"lost", "unrecorded", "cut"} = {} =>
      \A p \in Pieces : file.text[p] <= 1 /\ (row # None => TextOf(row.doc)[p] <= 1)

\* Nothing is on its way between the tabs and the row.
Quiet ==
    /\ \A j \in Jobs : jobs[j].pc = "idle"
    /\ \A t \in Tabs : tabs[t].queue = {} /\ tabs[t].feed = <<>>

\* When all is quiet, a synced tab and the row have the same edits, but for the
\* messages that were never sent to the tab, and the edits that could not be
\* persisted (publishStamped, shouldReceive, subscribe, persist).
EditorsAgree ==
    Quiet => \A t \in Tabs : tabs[t].conn = "open" /\ tabs[t].synced =>
      /\ row.doc.ins \ tabs[t].doc.ins \subseteq tabs[t].dropped
      /\ tabs[t].doc.ins \ row.doc.ins \subseteq UNION {tabs[u].unsaved : u \in Tabs}

\* A document falls into conflict only if it and the file have both changed the
\* same lines (rebaseTextHunks; docs/gen2-workspace.md says no other edits do).
OnlyCollisions ==
    [][row # None /\ ~row.conflict /\ row'.conflict =>
         Collide(row.base, TextOf(row.doc), file.text)]_vars

\* A job is under way, or one is due.
Pending ==
    \/ \E j \in Jobs : jobs[j].pc # "idle"
    \/ \E t \in Tabs : tabs[t].queue # {} \/ tabs[t].timer # "none"

\* Nobody presses Save: when nothing is pending, all edits are in the file or
\* the document is in conflict, also after a socket has closed
\* (scheduleAutosave, flushAutosaves), if no call failed.
AutosaveComes ==
    row # None /\ rare \subseteq {"closed", "editor", "workspace"} /\ ~Pending =>
      row.conflict \/ Changed(TextOf(row.doc), row.base) \subseteq taken
=============================================================================
