----------------------------- MODULE DurableWork -----------------------------
(***************************************************************************)
(* What the host promises to the owners of durable workspaces, with no     *)
(* machines, jails, checkpoints or locks.  A change is acknowledged as     *)
(* soon as the guest has it in memory, and is saved some time later; what  *)
(* is saved is all in the workspace's next boot.  Changes that are only    *)
(* acknowledged may be forgotten when a guest exits on its own, when       *)
(* something fails, and while a member is having the workspace stopped:    *)
(* at no other time, and so not when the host stops it by itself.  A guest *)
(* that exits may also cost what was saved since the last checkpoint.  A   *)
(* workspace that was started gets no fresh checkout again, until its      *)
(* owner deletes it.                                                       *)
(***************************************************************************)
EXTENDS Naturals

CONSTANTS Durable, None

VARIABLES
    content,   \* the work that the next boot of a workspace would have
    checked,   \* the work of its last checkpoint
    saved,     \* the work of members that was last saved
    unsaved,   \* how much more was acknowledged
    started,   \* whether it counts as initialized
    stopping,  \* the workspaces that a member is having stopped
    exited,    \* whether a guest has exited on its own
    failed     \* whether a job has failed or been cut short

disks == <<content, checked, saved, started>>
work == <<disks, unsaved, stopping, exited, failed>>

Works == Nat \cup {None}

Init ==
    /\ content \in [Durable -> Works] /\ checked = content /\ saved = content
    /\ unsaved = [w \in Durable |-> 0] /\ stopping = {}
    /\ started = [w \in Durable |-> FALSE] /\ exited = FALSE /\ failed = FALSE

Holds(w, c) == content' = [content EXCEPT ![w] = c]

\* A fresh checkout: only of a workspace that has nothing and never had.
FirstBoot(w) ==
    /\ content[w] = None /\ ~started[w]
    /\ Holds(w, 0)
    /\ UNCHANGED <<checked, saved, started, unsaved, stopping, exited, failed>>

Started(w) ==
    /\ content[w] # None
    /\ started' = [started EXCEPT ![w] = TRUE]
    /\ UNCHANGED <<content, checked, saved, unsaved, stopping, exited, failed>>

Acknowledge(w) ==
    /\ content[w] # None
    /\ unsaved' = [unsaved EXCEPT ![w] = @ + 1]
    /\ UNCHANGED <<disks, stopping, exited, failed>>

Save(w) ==
    /\ content[w] # None
    /\ \E n \in 0 .. unsaved[w] :
         /\ Holds(w, content[w] + n)
         /\ saved' = [saved EXCEPT ![w] = content[w] + n]
         /\ unsaved' = [unsaved EXCEPT ![w] = @ - n]
    /\ UNCHANGED <<checked, started, stopping, exited, failed>>

\* A checkpoint is of all the work; one that was under way when the guest
\* exited may still bring back what had been lost.
Checkpoint(w) ==
    /\ content'[w] # None /\ Holds(w, content'[w])
    /\ exited \/ UNCHANGED content
    /\ checked' = [checked EXCEPT ![w] = content'[w]]
    /\ UNCHANGED <<saved, started, unsaved, stopping, exited, failed>>

\* The memory of the guests of some workspaces is gone.
Forgets(lost) == unsaved' = [w \in Durable |-> IF w \in lost THEN 0 ELSE unsaved[w]]

Forget ==
    /\ \E lost \in SUBSET Durable : (exited \/ lost \subseteq stopping) /\ Forgets(lost)
    /\ UNCHANGED <<disks, stopping, exited, failed>>

\* A member has a workspace stopped, and that comes to an end.
Stop ==
    /\ stopping' \in SUBSET Durable
    /\ UNCHANGED <<disks, unsaved, exited, failed>>

Exit ==
    /\ exited' = TRUE
    /\ \E lost \in SUBSET Durable : Forgets(lost)
    /\ UNCHANGED <<disks, stopping, failed>>

\* A failure costs nothing that is saved.
Fail ==
    /\ failed' = TRUE
    /\ \E lost \in SUBSET Durable : Forgets(lost)
    /\ stopping' \in SUBSET stopping
    /\ UNCHANGED <<disks, exited>>

\* The last checkpoint is what an exit leaves.
Lose(w) ==
    /\ exited
    /\ Holds(w, checked[w])
    /\ UNCHANGED <<checked, saved, started, unsaved, stopping, exited, failed>>

\* The owner deletes the workspace: all of its state but what a running machine
\* has, or, after a failure, all but some.
Discard(w) ==
    /\ failed' \in {failed, TRUE}
    /\ content'[w] \in IF failed' THEN Works ELSE {None, content[w]}
    /\ Holds(w, content'[w])
    /\ checked' = [checked EXCEPT ![w] = None] /\ saved' = [saved EXCEPT ![w] = None]
    /\ started' \in {started, [started EXCEPT ![w] = FALSE]}
    /\ UNCHANGED <<unsaved, stopping, exited>>

\* After a failure, what nobody was told of, or what was discarded, may come back
\* or go.
Drift(w) ==
    /\ failed /\ saved[w] = None
    /\ content'[w] \in Works /\ Holds(w, content'[w])
    /\ checked'[w] \in Works /\ checked' = [checked EXCEPT ![w] = checked'[w]]
    /\ UNCHANGED <<saved, started, unsaved, stopping, exited, failed>>

Next ==
    \/ \E w \in Durable :
         \/ FirstBoot(w) \/ Started(w) \/ Acknowledge(w) \/ Save(w) \/ Checkpoint(w)
         \/ Lose(w) \/ Discard(w) \/ Drift(w)
    \/ Forget \/ Stop \/ Exit \/ Fail

Spec == Init /\ [][Next]_work
=============================================================================
