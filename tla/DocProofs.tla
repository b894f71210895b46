------------------------------ MODULE DocProofs ------------------------------
(***************************************************************************)
(* Proofs about SharedFile for every set of tabs, edits and pieces, and    *)
(* whatever overlaps or fails.                                             *)
(***************************************************************************)
EXTENDS DocInvariant, TLAPS, FiniteSetTheorems, FunctionTheorems

\* A step that loses nothing of the row.
Kept == row # None => Extends(row, row')

-----------------------------------------------------------------------------
(* Shapes *)

LEMMA Constants == None \notin Jobs /\ Left \notin Jobs /\ None # Turn /\ None \notin Tabs
BY FileConstants DEF Jobs, Left

LEMMA IdleFits ==
    ASSUME NEW j, NEW r, NEW l
    PROVE  IsJob(Idle) /\ Idle.pc = "idle" /\ Fits(j, Idle, r, l)
<1>1. IsJob(Idle) /\ Idle.pc = "idle"
  BY DEF Idle, IsJob
<1> QED
  BY <1>1 DEF Fits, Locked

LEMMA GoesOn ==
    ASSUME NEW x, IsJob(x), NEW pc, NEW r, NEW f,
           NEW y, y = [x EXCEPT !.pc = pc, !.snap = r, !.seen = f]
    PROVE  IsJob(y) /\ y.pc = pc /\ y.act = x.act /\ y.snap = r
BY DEF IsJob

LEMMA RowEdits ==
    ASSUME NEW r, IsRow(r), NEW d, NEW c
    PROVE  /\ IsRow([r EXCEPT !.doc = d]) /\ [r EXCEPT !.doc = d].doc = d
           /\ IsRow([r EXCEPT !.conflict = c]) /\ [r EXCEPT !.conflict = c].doc = r.doc
BY DEF IsRow

LEMMA TellFits ==
    ASSUME NEW j, NEW r, NEW l, NEW x, IsJob(x), x.pc = "tell"
    PROVE  Fits(j, x, r, l)
BY DEF Fits, Locked

\* A job that goes on under the lock, or changes neither the row nor the lock,
\* leaves the others as they are.
LEMMA GoesInv ==
    ASSUME Inv, NEW j \in Jobs, NEW x, Goes(j, x), Fits(j, x, row', lock'), RowKnown',
           \/ row' = row /\ lock' = lock
           \/ lock = j
           \/ lock \notin Jobs
    PROVE  Inv'
<1>1. jobs' = [i \in Jobs |-> jobs'[i]] /\ jobs'[j] = x
  BY DEF Inv, Goes
<1>2. ASSUME NEW i \in Jobs, i # j
      PROVE  Fits(i, jobs'[i], row', lock')
  <2>1. jobs'[i] = jobs[i]
    BY <1>2 DEF Inv, Goes
  <2>2. Fits(i, jobs[i], row, lock)
    BY DEF Inv
  <2>3. CASE row' = row /\ lock' = lock
    BY <2>1, <2>2, <2>3
  <2>4. CASE lock = j \/ lock \notin Jobs
    <3>1. jobs[i].pc \notin Locked
      BY <1>2, <2>2, <2>4 DEF Fits
    <3> QED
      BY <2>1, <2>2, <3>1 DEF Fits, Locked
  <2> QED
    BY <2>3, <2>4
<1> QED
  BY <1>1, <1>2 DEF Inv

LEMMA SameJobs ==
    ASSUME Inv, UNCHANGED <<jobs, row, lock>>, RowKnown'
    PROVE  Inv'
BY DEF Inv

LEMMA Initially == Init => Inv
<1> SUFFICES ASSUME Init PROVE Inv
  OBVIOUS
<1>1. \A j \in Jobs : jobs[j] = Idle
  BY DEF Init
<1>2. \A t \in Tabs : tabs[t] = NewTab
  BY DEF Init
<1>3. Unused(NewTab)
  BY DEF NewTab, IsTab, Unused
<1>4. Blank
  BY <1>1, <1>2, <1>3, IdleFits DEF Blank, Init
<1> QED
  BY <1>1, <1>4, IdleFits DEF Inv, RowKnown, Init
-----------------------------------------------------------------------------
(* One lemma for each action *)

LEMMA BeginsFits ==
    ASSUME Inv, NEW j \in Jobs, NEW act, NEW pc \in {"create", "save", "write"},
           pc = "create" => row = None /\ act = "subscribe" /\ j[2] # "persist",
           pc # "create" => IsRow(row) /\ act # "persist" /\ j[2] # "persist",
           NEW x, x = [Idle EXCEPT !.act = act, !.pc = pc, !.snap = row, !.seen = file]
    PROVE  Fits(j, x, row, j)
<1>1. IsJob(x) /\ x.pc = pc /\ x.act = act /\ x.snap = row
  BY DEF Idle, IsJob
<1>2. pc = "create" => Fits(j, x, row, j)
  BY <1>1, Zenon DEF Fits
<1>3. pc = "save" => Fits(j, x, row, j)
  BY <1>1, Zenon DEF Fits
<1>4. pc = "write" => Fits(j, x, row, j)
  BY <1>1, Zenon DEF Fits
<1> QED
  BY <1>2, <1>3, <1>4

\* A job that begins with the row as it is.
LEMMA BeginsInv ==
    ASSUME Inv, NEW j \in Jobs, NEW act, NEW pc \in {"create", "save", "write"},
           pc = "create" => row = None /\ act = "subscribe" /\ j[2] # "persist",
           pc # "create" => IsRow(row) /\ act # "persist" /\ j[2] # "persist",
           Begins(j, act, pc), UNCHANGED row, RowKnown'
    PROVE  Inv' /\ Kept
<1> DEFINE x == [Idle EXCEPT !.act = act, !.pc = pc, !.snap = row, !.seen = file]
<1>1. Fits(j, x, row', lock')
  BY BeginsFits DEF Begins
<1>2. Goes(j, x) /\ lock \notin Jobs
  BY Constants DEF Begins, Free
<1>3. Inv'
  BY <1>1, <1>2, GoesInv
<1> QED
  BY <1>3 DEF Kept, Extends

LEMMA ReadsRow ==
    ASSUME Inv, NEW j \in Jobs, jobs[j].pc \in {"save", "write", "readback"}
    PROVE  IsRow(row) /\ lock = j
BY DEF Inv, Fits, Locked

LEMMA BlankJobs ==
    ASSUME Inv, NEW j \in Jobs, jobs[j].pc \notin {"idle", "create"}
    PROVE  IsRow(row)
BY DEF Inv, RowKnown, Blank

LEMMA Creating ==
    ASSUME Inv, NEW j \in Jobs, Creates(j)
    PROVE  Inv' /\ Kept
<1> DEFINE x == [jobs[j] EXCEPT !.pc = "save", !.snap = row', !.seen = file]
<1>1. /\ Fits(j, jobs[j], row, lock) /\ lock = j /\ jobs[j].pc = "create"
      /\ row = None /\ IsRow(row') /\ lock' = lock /\ Goes(j, x)
  BY DEF Inv, Creates, Fits, Locked, Fresh, IsRow
<1>2. IsJob(x) /\ x.pc = "save" /\ x.act = "subscribe" /\ x.snap = row' /\ j[2] # "persist"
  <2>1. IsJob(jobs[j]) /\ jobs[j].act = "subscribe" /\ j[2] # "persist"
    BY <1>1 DEF Fits
  <2> DEFINE y == jobs[j]
  <2>2. IsJob(y) /\ y.act = "subscribe" /\ x = [y EXCEPT !.pc = "save", !.snap = row', !.seen = file]
    BY <2>1
  <2> HIDE DEF y, x
  <2> QED
    BY <2>1, <2>2 DEF IsJob
<1> HIDE DEF x
<1>3. Fits(j, x, row', lock')
  BY <1>1, <1>2, Zenon DEF Fits
<1>4. RowKnown'
  BY <1>1 DEF RowKnown
<1>5. Inv'
  BY <1>1, <1>3, <1>4, GoesInv
<1> QED
  BY <1>1, <1>5 DEF Kept

LEMMA BatchBegun ==
    ASSUME Inv, NEW t \in Tabs, BeginsPersist(t)
    PROVE  Inv' /\ Kept
<1> DEFINE j == <<t, "persist">>
           ins == UNION {d.ins : d \in tabs[t].queue}
           del == UNION {d.del : d \in tabs[t].queue}
           folded == [ins |-> row.doc.ins \cup ins, del |-> row.doc.del \cup del]
           next == [row EXCEPT !.doc = folded]
           x == [Idle EXCEPT !.act = "persist", !.pc = "save", !.batch = tabs[t].queue,
                      !.next = next]
<1>1. j \in Jobs /\ j[2] = "persist"
  BY DEF Jobs
<1>2. lock \notin Jobs /\ lock' = j /\ Goes(j, x) /\ UNCHANGED row
  BY Constants DEF BeginsPersist, Free
<1>3. IsRow(row)
  BY DEF Inv, RowKnown, Blank, Unused, BeginsPersist
<1>4. row.doc.ins \subseteq folded.ins /\ row.doc.del \subseteq folded.del
  <2> HIDE DEF ins, del
  <2> QED
    OBVIOUS
<1> HIDE DEF folded
<1>5. IsRow(next) /\ next.doc = folded
  BY <1>3, RowEdits
<1>6. Extends(row, next)
  BY <1>4, <1>5 DEF Extends
<1> HIDE DEF next
<1>7. IsJob(x) /\ x.pc = "save" /\ x.act = "persist" /\ x.next = next
  <2>1. \E b : x = [Idle EXCEPT !.act = "persist", !.pc = "save", !.batch = b, !.next = next]
    OBVIOUS
  <2> HIDE DEF x
  <2> QED
    BY <2>1 DEF Idle, IsJob
<1> HIDE DEF x, j
<1>8. Fits(j, x, row', lock')
  BY <1>1, <1>2, <1>3, <1>5, <1>6, <1>7 DEF Fits
<1>9. RowKnown'
  BY <1>2, <1>3 DEF RowKnown, IsRow
<1>10. Inv'
  BY <1>1, <1>2, <1>8, <1>9, GoesInv
<1> QED
  BY <1>2, <1>10 DEF Kept, Extends

LEMMA BatchSaved ==
    ASSUME Inv, NEW t \in Tabs, SavesBatch(t)
    PROVE  Inv' /\ Kept
<1> DEFINE j == <<t, "persist">>
<1>1. j \in Jobs /\ j[2] = "persist"
  BY DEF Jobs
<1>2. jobs[j].pc = "save" /\ row' = jobs[j].next /\ Goes(j, Idle)
  BY DEF SavesBatch
<1>3. Fits(j, jobs[j], row, lock)
  BY <1>1 DEF Inv
<1>4. IsRow(row') /\ Extends(row, row') /\ lock = j
  BY <1>1, <1>2, <1>3 DEF Fits, Locked
<1>5. Fits(j, Idle, row', lock')
  BY IdleFits
<1> HIDE DEF j
<1>6. Inv'
  BY <1>1, <1>2, <1>4, <1>5, GoesInv DEF RowKnown
<1> QED
  BY <1>4, <1>6 DEF Kept

\* A job that is done with the lock has only to tell or to end.
LEMMA LetsGo ==
    ASSUME Inv, NEW j \in Jobs, NEW x, Goes(j, x), lock = j, IsRow(row'),
           x = Idle \/ (IsJob(x) /\ x.pc = "tell")
    PROVE  Inv'
<1>1. Fits(j, x, row', lock')
  BY IdleFits, TellFits
<1> QED
  BY <1>1, GoesInv DEF RowKnown

LEMMA RowStands ==
    ASSUME IsRow(row')
    PROVE  RowKnown'
BY DEF RowKnown, IsRow

\* What needs a tab that has been sent the document needs a row.
LEMMA TabNeedsRow ==
    ASSUME Inv, NEW t \in Tabs,
           \/ tabs[t].synced = TRUE
           \/ tabs[t].timer # "none"
           \/ tabs[t].feed # <<>>
    PROVE  IsRow(row)
BY DEF Inv, RowKnown, Blank, Unused

LEMMA TabsOnly ==
    ASSUME Inv, IsRow(row), UNCHANGED <<jobs, row, lock>>
    PROVE  Inv' /\ Kept
BY SameJobs, RowStands DEF Kept, Extends

LEMMA Typing ==
    ASSUME Inv, NEW t \in Tabs, NEW e \in Edits, Types(t, e)
    PROVE  Inv' /\ Kept
<1>1. IsRow(row)
  BY TabNeedsRow DEF Types, CanType
<1> QED
  BY <1>1, TabsOnly DEF Types

LEMMA Delivering ==
    ASSUME Inv, NEW t \in Tabs, Delivers(t)
    PROVE  Inv' /\ Kept
<1>1. IsRow(row)
  BY TabNeedsRow DEF Delivers
<1> QED
  BY <1>1, TabsOnly DEF Delivers

LEMMA Writing ==
    ASSUME Inv, NEW p \in Writes, AgentWrites(p)
    PROVE  Inv' /\ Kept
<1>1. UNCHANGED <<row, lock, tabs, jobs>>
  BY DEF AgentWrites
<1>2. RowKnown'
  BY <1>1 DEF Inv, RowKnown, Blank
<1> QED
  BY <1>1, <1>2, SameJobs DEF Kept, Extends

LEMMA Autosaving ==
    ASSUME Inv, NEW t \in Tabs, BeginsAutosave(t)
    PROVE  Inv' /\ Kept
<1> DEFINE j == <<t, "autosave">>
<1>1. IsRow(row) /\ UNCHANGED row
  BY TabNeedsRow DEF BeginsAutosave
<1>2. j \in Jobs /\ j[2] # "persist"
  BY DEF Jobs
<1>3. CASE UNCHANGED <<lock, jobs>>
  BY <1>1, <1>3, TabsOnly
<1>4. CASE Begins(j, "autosave", "write")
  BY <1>1, <1>2, <1>4, BeginsInv, RowStands
<1> QED
  BY <1>3, <1>4 DEF BeginsAutosave

LEMMA Choosing ==
    ASSUME Inv, NEW t \in Tabs, NEW act \in {"editor", "workspace"}, Chooses(t, act)
    PROVE  Inv' /\ Kept
<1> DEFINE j == <<t, "request">>
           pc == IF act = "editor" THEN "write" ELSE "save"
<1>1. IsRow(row) /\ UNCHANGED row /\ Begins(j, act, pc)
  BY TabNeedsRow DEF Chooses
<1>2. j \in Jobs /\ j[2] # "persist"
  BY DEF Jobs
<1>3. pc \in {"create", "save", "write"} /\ pc # "create" /\ act # "persist"
  OBVIOUS
<1> HIDE DEF pc, j
<1> QED
  BY <1>1, <1>2, <1>3, BeginsInv, RowStands

LEMMA ReconcileBegun ==
    ASSUME Inv, BeginsReconcile
    PROVE  Inv' /\ Kept
<1> DEFINE j == <<Turn, "request">>
<1>1. j \in Jobs /\ j[2] # "persist" /\ UNCHANGED <<row, tabs>>
  BY DEF Jobs, BeginsReconcile
<1>2. CASE row = None
  <2>1. UNCHANGED <<lock, jobs>>
    BY <1>2 DEF BeginsReconcile
  <2>2. RowKnown'
    BY <1>1, <2>1 DEF Inv, RowKnown, Blank
  <2> QED
    BY <1>1, <2>1, <2>2, SameJobs DEF Kept, Extends
<1>3. CASE row # None
  <2>1. IsRow(row) /\ Begins(j, "turn", "save")
    BY <1>3 DEF Inv, RowKnown, Blank, BeginsReconcile
  <2> QED
    BY <1>1, <2>1, BeginsInv, RowStands
<1> QED
  BY <1>2, <1>3

LEMMA Expiring ==
    ASSUME Inv, LockExpires
    PROVE  Inv' /\ Kept
<1> DEFINE j == <<Turn, "request">>
<1>1. j \in Jobs /\ lock \notin Jobs /\ UNCHANGED <<row, tabs, jobs>>
  BY Constants DEF Jobs, LockExpires
<1>2. Goes(j, jobs[j])
  BY <1>1 DEF Inv, Goes
<1>3. Fits(j, jobs[j], row', lock')
  <2>1. Fits(j, jobs[j], row, lock) /\ lock # j
    BY <1>1 DEF Inv
  <2> HIDE DEF j
  <2> QED
    BY <1>1, <2>1 DEF Fits, Locked
<1>4. RowKnown'
  BY <1>1 DEF Inv, RowKnown, Blank
<1> HIDE DEF j
<1> QED
  BY <1>1, <1>2, <1>3, <1>4, GoesInv DEF Kept, Extends

LEMMA OpenBlank ==
    ASSUME Inv, Blank, NEW t \in Tabs, Opens(t)
    PROVE  Blank'
<1> DEFINE j == <<t, "request">>
           x == [Idle EXCEPT !.act = "subscribe", !.pc = "create", !.snap = row, !.seen = file]
<1>1. row' = None /\ jobs' = [jobs EXCEPT ![j] = x]
  BY DEF Opens, Blank, Begins, Goes
<1>2. tabs' = [u \in Tabs |-> IF u = t THEN [tabs[t] EXCEPT !.conn = "open"] ELSE tabs[u]]
  BY DEF Opens, Blank
<1>3. tabs' = [u \in Tabs |-> tabs'[u]]
  BY <1>2
<1>4. ASSUME NEW u \in Tabs PROVE Unused(tabs'[u])
  <2>1. CASE u = t
    <3>1. tabs'[u] = [tabs[u] EXCEPT !.conn = "open"] /\ Unused(tabs[u])
      BY <1>2, <2>1 DEF Blank
    <3> QED
      BY <3>1 DEF Unused, IsTab
  <2>2. CASE u # t
    BY <1>2, <2>2 DEF Blank
  <2> QED
    BY <2>1, <2>2
<1>5. x.pc = "create" /\ j \in Jobs
  BY DEF Idle, Jobs
<1> HIDE DEF x, j
<1>6. \A i \in Jobs : jobs'[i].pc \in {"idle", "create"}
  BY <1>1, <1>5 DEF Blank, Inv
<1> QED
  BY <1>1, <1>3, <1>4, <1>6 DEF Blank

LEMMA Opening ==
    ASSUME Inv, NEW t \in Tabs, Opens(t)
    PROVE  Inv' /\ Kept
<1> DEFINE j == <<t, "request">>
<1>1. j \in Jobs /\ j[2] # "persist" /\ UNCHANGED row
  BY DEF Jobs, Opens
<1>2. CASE IsRow(row)
  <2>1. row # None => Begins(j, "subscribe", "save")
    BY DEF Opens
  <2>2. row = None => Begins(j, "subscribe", "create")
    BY DEF Opens
  <2>3. CASE row # None
    BY <1>1, <1>2, <2>1, <2>3, BeginsInv, RowStands
  <2>4. CASE row = None
    BY <1>1, <1>2, <2>2, <2>4, BeginsInv, RowStands
  <2> QED
    BY <2>3, <2>4
<1>3. CASE Blank
  <2>1. row = None /\ Begins(j, "subscribe", "create")
    BY <1>3 DEF Opens, Blank
  <2> QED
    BY <1>1, <1>3, <2>1, OpenBlank, BeginsInv DEF RowKnown
<1> QED
  BY <1>2, <1>3 DEF Inv, RowKnown

LEMMA CloseBlank ==
    ASSUME Blank, NEW t \in Tabs, Closes(t)
    PROVE  Blank'
<1>1. UNCHANGED <<row, jobs>>
  BY DEF Closes
<1>2. PICK doc : tabs' = [tabs EXCEPT ![t] = Closed(tabs[t], doc)]
  BY DEF Closes, Blank
<1>3. ASSUME NEW u \in Tabs PROVE Unused(tabs'[u])
  <2>1. CASE u = t
    <3>1. Unused(tabs[u]) /\ tabs'[u] = Closed(tabs[u], doc)
      BY <1>2, <2>1 DEF Blank
    <3> QED
      BY <3>1 DEF Unused, IsTab, Closed
  <2>2. CASE u # t
    BY <1>2, <2>2 DEF Blank
  <2> QED
    BY <2>1, <2>2
<1>4. tabs' = [u \in Tabs |-> tabs'[u]]
  BY <1>2 DEF Blank
<1> QED
  BY <1>1, <1>3, <1>4 DEF Blank

LEMMA Closing ==
    ASSUME Inv, NEW t \in Tabs, Closes(t)
    PROVE  Inv' /\ Kept
<1>1. UNCHANGED <<row, lock, jobs>>
  BY DEF Closes
<1>2. CASE IsRow(row)
  BY <1>1, <1>2, TabsOnly
<1>3. CASE Blank
  BY <1>1, <1>3, CloseBlank, SameJobs DEF Kept, Extends, RowKnown
<1> QED
  BY <1>2, <1>3 DEF Inv, RowKnown

LEMMA ErrBlank ==
    ASSUME Inv, Blank, NEW j \in Jobs, jobs[j].pc # "idle", NEW l, Errs(j, l)
    PROVE  Blank'
<1>1. Goes(j, Idle) /\ UNCHANGED row
  BY DEF Errs
<1>2. jobs[j].act # "persist"
  BY DEF Blank, Inv, Fits
<1>3. tabs' = [u \in Tabs |-> [tabs[u] EXCEPT !.dropped = @ \cup News(jobs[j].say)]]
  BY <1>2 DEF Errs
<1>4. ASSUME NEW u \in Tabs PROVE Unused(tabs'[u])
  <2>1. PICK n : tabs'[u] = [tabs[u] EXCEPT !.dropped = n]
    BY <1>3
  <2> QED
    BY <2>1 DEF Blank, Unused, IsTab
<1>5. \A i \in Jobs : jobs'[i].pc \in {"idle", "create"}
  BY <1>1, IdleFits DEF Goes, Blank, Inv
<1>6. tabs' = [u \in Tabs |-> tabs'[u]]
  BY <1>3
<1> QED
  BY <1>1, <1>4, <1>5, <1>6 DEF Blank

\* A job that ends with an error has not touched the row.
LEMMA Erring ==
    ASSUME Inv, NEW j \in Jobs, jobs[j].pc # "idle", NEW l, Errs(j, l),
           l = lock \/ lock = j
    PROVE  Inv' /\ Kept
<1>1. Goes(j, Idle) /\ UNCHANGED row /\ lock' = l
  BY DEF Errs
<1>2. RowKnown'
  <2>1. CASE IsRow(row)
    BY <1>1, <2>1, RowStands
  <2>2. CASE Blank
    BY <2>2, ErrBlank DEF RowKnown
  <2> QED
    BY <2>1, <2>2 DEF Inv, RowKnown
<1>3. Inv'
  BY <1>1, <1>2, IdleFits, GoesInv
<1> QED
  BY <1>1, <1>3 DEF Kept, Extends

LEMMA Failing ==
    ASSUME Inv, NEW j \in Jobs, Fails(j)
    PROVE  Inv' /\ Kept
<1>1. jobs[j].pc # "idle" /\ Errs(j, Unlocked(j))
  BY DEF Fails
<1>2. Unlocked(j) = lock \/ lock = j
  BY DEF Unlocked
<1> QED
  BY <1>1, <1>2, Erring

LEMMA Cutting ==
    ASSUME Inv, NEW t \in Tabs, IsCut(t)
    PROVE  Inv' /\ Kept
<1>1. CASE tabs[t].timer = "late" /\ UNCHANGED <<row, lock, jobs>>
  BY <1>1, TabNeedsRow, TabsOnly
<1>2. ASSUME NEW kind \in {"persist", "request"}, jobs[<<t, kind>>].pc # "idle",
             Errs(<<t, kind>>, IF lock = <<t, kind>> THEN Left ELSE lock)
      PROVE  Inv' /\ Kept
  <2> DEFINE j == <<t, kind>>
             l == IF lock = j THEN Left ELSE lock
  <2>1. j \in Jobs
    BY DEF Jobs
  <2>2. l = lock \/ lock = j
    OBVIOUS
  <2>3. jobs[j].pc # "idle" /\ Errs(j, l)
    BY <1>2
  <2> HIDE DEF l, j
  <2> QED
    BY <2>1, <2>2, <2>3, Erring
<1> QED
  BY <1>1, <1>2 DEF IsCut

LEMMA Telling ==
    ASSUME Inv, NEW j \in Jobs, Tells(j)
    PROVE  Inv' /\ Kept
<1>1. IsRow(row) /\ Goes(j, Idle) /\ UNCHANGED <<row, lock>>
  BY BlankJobs DEF Tells
<1> QED
  BY <1>1, IdleFits, RowStands, GoesInv DEF Kept, Extends

\* Bringing a change of the file into a document only adds to it.
LEMMA BroughtExtends ==
    ASSUME NEW doc, NEW from, NEW to, NEW m
    PROVE  LET new == Brought(doc, from, to, m)
           IN  doc.ins \subseteq new.ins /\ doc.del \subseteq new.del
BY DEF Brought

LEMMA FreshRow ==
    ASSUME NEW doc, NEW seen
    PROVE  IsRow(Fresh(doc, seen)) /\ Fresh(doc, seen).doc = doc
BY DEF Fresh, IsRow

LEMMA FileWritten ==
    ASSUME Inv, NEW j \in Jobs, WritesFile(j)
    PROVE  Inv' /\ Kept
<1> DEFINE x == [jobs[j] EXCEPT !.pc = "readback"]
<1>1. /\ IsRow(row) /\ lock = j /\ UNCHANGED <<row, lock>> /\ Goes(j, x)
      /\ IsJob(jobs[j])
  BY ReadsRow DEF WritesFile, Inv, Fits
<1>2. IsJob(x) /\ x.pc = "readback"
  BY <1>1 DEF IsJob
<1> HIDE DEF x
<1>3. Fits(j, x, row', lock')
  BY <1>1, <1>2, Zenon DEF Fits
<1> QED
  BY <1>1, <1>3, GoesInv, RowStands DEF Kept, Extends

LEMMA Refusing ==
    ASSUME Inv, NEW j \in Jobs, IsRefused(j)
    PROVE  Inv' /\ Kept
<1>1. /\ IsRow(row) /\ lock = j /\ jobs[j].snap = row /\ IsJob(jobs[j])
  BY ReadsRow DEF IsRefused, Inv, Fits
<1>2. CASE Goes(j, Idle) /\ UNCHANGED row
  BY <1>1, <1>2, LetsGo DEF Kept, Extends
<1>3. ASSUME NEW x, x = [jobs[j] EXCEPT !.pc = "tell",
                           !.say = Append(@, Message("conflict", NoDoc))],
             Goes(j, x), row' = [jobs[j].snap EXCEPT !.conflict = TRUE]
      PROVE  Inv' /\ Kept
  <2>1. IsJob(x) /\ x.pc = "tell"
    BY <1>1, <1>3 DEF IsJob
  <2>2. IsRow(row') /\ row'.doc = row.doc
    BY <1>1, <1>3 DEF IsRow
  <2> QED
    BY <1>1, <1>3, <2>1, <2>2, LetsGo DEF Kept, Extends
<1> QED
  BY <1>2, <1>3 DEF IsRefused

LEMMA Saving ==
    ASSUME Inv, NEW j \in Jobs, Saved(j), IsRow(row'), Extends(row, row')
    PROVE  Inv' /\ Kept
<1> DEFINE x == [jobs[j] EXCEPT !.pc = "tell",
                   !.say = Append(@, Message("reconciled", NoDoc))]
<1>1. lock = j /\ Goes(j, x) /\ IsJob(jobs[j])
  BY ReadsRow DEF Saved, Inv, Fits
<1>2. IsJob(x) /\ x.pc = "tell"
  <2>1. IsJob(jobs[j]) /\ \E s : x = [jobs[j] EXCEPT !.pc = "tell", !.say = s]
    BY <1>1
  <2> HIDE DEF x
  <2> QED
    BY <2>1 DEF IsJob
<1> HIDE DEF x
<1> QED
  BY <1>1, <1>2, LetsGo DEF Kept

LEMMA Recording ==
    ASSUME Inv, NEW j \in Jobs, Records(j) \/ IsUnrecorded(j)
    PROVE  Inv' /\ Kept
<1>1. Saved(j) /\ IsRow(row)
  BY ReadsRow DEF Records, IsUnrecorded, Saved
<1>2. IsRow(row') /\ Extends(row, row')
  BY <1>1, FreshRow DEF Records, IsUnrecorded, Extends
<1> QED
  BY <1>1, <1>2, Saving

LEMMA Taking ==
    ASSUME Inv, NEW j \in Jobs, TakesFile(j)
    PROVE  Inv' /\ Kept
<1>1. /\ IsRow(row) /\ lock = j /\ jobs[j].snap = row
      /\ jobs[j].pc = "save" /\ jobs[j].act = "workspace"
  BY ReadsRow DEF TakesFile, Inv, Fits
<1>2. PICK doc, say :
        /\ doc = ReplaceContents(jobs[j].snap.doc, jobs[j].seen.text, made)
        /\ row' = Fresh(doc, jobs[j].seen)
        /\ Goes(j, [Idle EXCEPT !.act = "workspace", !.pc = "tell", !.say = say])
  BY DEF TakesFile
<1>3. IsRow(row') /\ Extends(row, row')
  BY <1>1, <1>2, FreshRow, BroughtExtends DEF ReplaceContents, Extends
<1>4. \E x : Goes(j, x) /\ IsJob(x) /\ x.pc = "tell"
  <2> DEFINE x == [Idle EXCEPT !.act = "workspace", !.pc = "tell", !.say = say]
  <2>1. \E s : x = [Idle EXCEPT !.act = "workspace", !.pc = "tell", !.say = s]
    OBVIOUS
  <2>2. Goes(j, x)
    BY <1>2
  <2> HIDE DEF x
  <2>3. IsJob(x) /\ x.pc = "tell"
    BY <2>1 DEF Idle, IsJob
  <2> QED
    BY <2>2, <2>3
<1> QED
  BY <1>1, <1>3, <1>4, LetsGo DEF Kept

LEMMA Reconciled ==
    ASSUME Inv, NEW j \in Jobs, Reconciles(j)
    PROVE  Inv' /\ Kept
<1> DEFINE Told(x) == \E act, next, say :
             x = [Idle EXCEPT !.act = act, !.pc = "tell", !.next = next, !.say = say]
           ToWrite(x) == \E say :
             x = [jobs[j] EXCEPT !.pc = "write", !.snap = row', !.next = row', !.say = say]
<1>1. /\ IsRow(row) /\ lock = j /\ jobs[j].snap = row /\ IsJob(jobs[j])
      /\ jobs[j].pc = "save" /\ jobs[j].act \in Reconciling
  BY ReadsRow DEF Reconciles, Reconciling, Inv, Fits
<1>2. \/ row' = row
      \/ row' = [row EXCEPT !.conflict = TRUE]
      \/ \E from, to : row' = Fresh(Brought(row.doc, from, to, made), jobs[j].seen)
  BY <1>1 DEF Reconciles, ReplaceContents
<1>3. IsRow(row') /\ Extends(row, row')
  <2>1. CASE row' = row
    BY <1>1, <2>1 DEF Extends
  <2>2. CASE row' = [row EXCEPT !.conflict = TRUE]
    BY <1>1, <2>2 DEF IsRow, Extends
  <2>3. ASSUME NEW from, NEW to, row' = Fresh(Brought(row.doc, from, to, made), jobs[j].seen)
        PROVE  IsRow(row') /\ Extends(row, row')
    BY <2>3, FreshRow, BroughtExtends DEF Extends
  <2> QED
    BY <1>2, <2>1, <2>2, <2>3
<1>4. PICK x : Goes(j, x) /\ (Told(x) \/ (ToWrite(x) /\ lock' = lock))
  <2>1. \/ \E act, next, say :
             Goes(j, [Idle EXCEPT !.act = act, !.pc = "tell", !.next = next, !.say = say])
        \/ /\ lock' = lock
           /\ \E say : Goes(j, [jobs[j] EXCEPT !.pc = "write", !.snap = row',
                                               !.next = row', !.say = say])
    BY Zenon DEF Reconciles
  <2> QED
    BY <2>1, Zenon
<1>5. CASE Told(x)
  <2>1. IsJob(x) /\ x.pc = "tell"
    BY <1>5 DEF Idle, IsJob
  <2> QED
    BY <1>1, <1>3, <1>4, <2>1, LetsGo DEF Kept
<1>6. CASE ToWrite(x) /\ lock' = lock
  <2>1. IsJob(x) /\ x.pc = "write" /\ x.snap = row'
    BY <1>1, <1>6 DEF IsJob
  <2>2. Fits(j, x, row', lock')
    BY <1>1, <1>3, <1>6, <2>1, Zenon DEF Fits
  <2> QED
    BY <1>1, <1>3, <1>4, <2>2, GoesInv, RowStands DEF Kept
<1> QED
  BY <1>4, <1>5, <1>6

-----------------------------------------------------------------------------
(* The whole: the lock and the row *)

LEMMA StepInv ==
    ASSUME Inv, NEW j \in Jobs, Step(j)
    PROVE  Inv' /\ Kept
BY Creating, Reconciled, Taking, FileWritten, Refusing, Recording, Telling DEF Step

LEMMA NextInv == Inv /\ [Next]_vars => Inv' /\ Kept
<1> SUFFICES ASSUME Inv, [Next]_vars PROVE Inv' /\ Kept
  OBVIOUS
<1>1. CASE UNCHANGED vars
  <2>1. UNCHANGED <<row, lock, tabs, jobs>>
    BY <1>1 DEF vars
  <2>2. RowKnown'
    BY <2>1 DEF Inv, RowKnown, Blank
  <2> QED
    BY <2>1, <2>2, SameJobs DEF Kept, Extends
<1>2. ASSUME NEW t \in Tabs,
             \/ Opens(t) \/ Closes(t) \/ Delivers(t)
             \/ \E e \in Edits : Types(t, e)
             \/ BeginsPersist(t) \/ SavesBatch(t) \/ BeginsAutosave(t)
             \/ \E act \in {"editor", "workspace"} : Chooses(t, act)
             \/ IsCut(t)
      PROVE  Inv' /\ Kept
  BY <1>2, Opening, Closing, Delivering, Typing, BatchBegun, BatchSaved, Autosaving,
     Choosing, Cutting
<1>3. CASE BeginsReconcile
  BY <1>3, ReconcileBegun
<1>4. ASSUME NEW j \in Jobs, Step(j) \/ Fails(j) \/ IsUnrecorded(j)
      PROVE  Inv' /\ Kept
  BY <1>4, StepInv, Failing, Recording
<1>5. ASSUME NEW p \in Writes, AgentWrites(p)
      PROVE  Inv' /\ Kept
  BY <1>5, Writing
<1>6. CASE LockExpires
  BY <1>6, Expiring
<1> QED
  BY <1>1, <1>2, <1>3, <1>4, <1>5, <1>6 DEF Next

\* Whatever overlaps, fails or is cut, whoever saves the row has read what all
\* the others saved: no edit in the shared document is lost from it (the load
\* and the save of every writer of gen2_yjs_documents under withDocumentLock).
THEOREM EditsAreKept == Spec => EditsStay
<1>1. Init => Inv
  BY Initially
<1>2. Inv /\ [Next]_vars => Inv'
  BY NextInv
<1>3. Inv /\ [Next]_vars =>
        [row # None => /\ row.doc.ins \subseteq row'.doc.ins
                       /\ row.doc.del \subseteq row'.doc.del]_vars
  BY NextInv DEF Kept, Extends
<1> QED
  BY <1>1, <1>2, <1>3, PTL DEF Spec, EditsStay

-----------------------------------------------------------------------------
(* Texts and documents *)

LEMMA HadMembers ==
    ASSUME NEW m \in [Pieces -> Nat]
    PROVE  /\ \A i \in Had(m) : i[1] \in Pieces /\ i[2] \in 1..m[i[1]] /\ i = <<i[1], i[2]>>
           /\ \A p \in Pieces : \A k \in 1..m[p] : <<p, k>> \in Had(m)
           /\ Had(m) \subseteq Items
<1>1. \A i \in Had(m) : \E p \in Pieces : \E k \in 1..m[p] : i = <<p, k>>
  BY DEF Had
<1>2. \A i \in Had(m) : i[1] \in Pieces /\ i[2] \in 1..m[i[1]] /\ i = <<i[1], i[2]>>
  BY <1>1
<1>3. \A p \in Pieces : \A k \in 1..m[p] : <<p, k>> \in Had(m)
  BY DEF Had
<1>4. Had(m) \subseteq Items
  BY <1>1 DEF Items
<1> QED
  BY <1>2, <1>3, <1>4

LEMMA HadGrows ==
    ASSUME NEW m \in [Pieces -> Nat], NEW n \in [Pieces -> Nat],
           \A p \in Pieces : m[p] <= n[p]
    PROVE  Had(m) \subseteq Had(n)
<1> SUFFICES ASSUME NEW i \in Had(m) PROVE i \in Had(n)
  OBVIOUS
<1>1. i[1] \in Pieces /\ i[2] \in 1..m[i[1]] /\ i = <<i[1], i[2]>>
  BY HadMembers
<1>2. i[2] \in 1..n[i[1]]
  BY <1>1
<1> QED
  BY <1>1, <1>2, HadMembers

LEMMA CopiesFinite ==
    ASSUME NEW m \in [Pieces -> Nat], NEW doc \in DocsIn(m), NEW p \in Pieces
    PROVE  /\ IsFiniteSet(Copies(doc, p))
           /\ Cardinality(Copies(doc, p)) \in Nat
           /\ Cardinality(Copies(doc, p)) = 0 <=> Copies(doc, p) = {}
<1>1. Copies(doc, p) \in SUBSET ({p} \X (1..m[p]))
  <2> SUFFICES ASSUME NEW i \in Copies(doc, p) PROVE i \in {p} \X (1..m[p])
    OBVIOUS
  <2>1. i \in Had(m) /\ i[1] = p
    BY DEF Copies, DocsIn
  <2>2. i[2] \in 1..m[p] /\ i = <<p, i[2]>>
    BY <2>1, HadMembers
  <2> QED
    BY <2>2
<1>2. IsFiniteSet(1..m[p]) /\ IsFiniteSet({p})
  <2>1. m[p] \in Int /\ 1 \in Int
    OBVIOUS
  <2> QED
    BY <2>1, FS_Interval, FS_Singleton
<1>3. IsFiniteSet({p} \X (1..m[p]))
  BY <1>2, FS_Product
<1>4. IsFiniteSet(Copies(doc, p))
  BY <1>1, <1>3, FS_Subset
<1> QED
  BY <1>4, FS_CardinalityType, FS_EmptySet

LEMMA TextTyped ==
    ASSUME NEW m \in [Pieces -> Nat], NEW doc \in DocsIn(m)
    PROVE  TextOf(doc) \in Texts /\ \A p \in Pieces : TextOf(doc)[p] = Cardinality(Copies(doc, p))
BY CopiesFinite DEF TextOf, Texts

LEMMA TextOfNone == TextOf(NoDoc) = NoText /\ NoText \in Texts
BY FS_EmptySet DEF TextOf, NoDoc, NoText, Copies, Texts

\* A finite set has a subset of every smaller size.
LEMMA SomeOf ==
    ASSUME NEW S, IsFiniteSet(S), NEW k \in Nat, k <= Cardinality(S)
    PROVE  \E s \in SUBSET S : Cardinality(s) = k
<1>1. Cardinality(S) \in Nat /\ ExistsBijection(1..Cardinality(S), S)
  BY FS_CardinalityType
<1>2. PICK f : f \in Bijection(1..Cardinality(S), S)
  BY <1>1, Fun_ExistsBij
<1> DEFINE s == {f[i] : i \in 1..k}
           g == [i \in 1..k |-> f[i]]
<1>3. /\ f \in [1..Cardinality(S) -> S]
      /\ \A a, b \in 1..Cardinality(S) : f[a] = f[b] => a = b
  <2>1. f \in Injection(1..Cardinality(S), S)
    BY <1>2 DEF Bijection
  <2> QED
    BY <2>1 DEF Injection, IsInjective
<1>4. 1..k \subseteq 1..Cardinality(S)
  BY <1>1
<1>5. s \in SUBSET S
  BY <1>3, <1>4
<1>6. g \in Bijection(1..k, s)
  <2>1. g \in [1..k -> s] /\ \A t \in s : \E i \in 1..k : g[i] = t
    OBVIOUS
  <2>2. \A a, b \in 1..k : g[a] = g[b] => a = b
    BY <1>3, <1>4
  <2> HIDE DEF g, s
  <2> QED
    BY <2>1, <2>2, Fun_IsBij
<1>7. ExistsBijection(1..k, s)
  BY <1>6, Fun_ExistsBij
<1>8. IsFiniteSet(1..k) /\ Cardinality(1..k) = k
  BY FS_Interval
<1> HIDE DEF s
<1>9. Cardinality(s) = k
  BY <1>7, <1>8, FS_Bijection
<1> QED
  BY <1>5, <1>9

LEMMA SizeOfRest ==
    ASSUME NEW S, IsFiniteSet(S), NEW T \in SUBSET S
    PROVE  Cardinality(S \ T) = Cardinality(S) - Cardinality(T)
<1>1. S \cap T = T
  OBVIOUS
<1> QED
  BY <1>1, FS_Difference

LEMMA SizeOfBoth ==
    ASSUME NEW S, IsFiniteSet(S), NEW T, IsFiniteSet(T), S \cap T = {}
    PROVE  Cardinality(S \cup T) = Cardinality(S) + Cardinality(T)
<1>1. Cardinality(S \cup T) = Cardinality(S) + Cardinality(T) - Cardinality(S \cap T)
  BY FS_Union
<1>2. Cardinality(S \cap T) = 0
  BY FS_EmptySet
<1>3. Cardinality(S) \in Nat /\ Cardinality(T) \in Nat
  BY FS_CardinalityType
<1> QED
  BY <1>1, <1>2, <1>3

\* `k` items of the piece `p` after the `a` first.
Span(p, a, k) == {p} \X (a + 1 .. a + k)

LEMMA SizeOfSpan ==
    ASSUME NEW p, NEW a \in Nat, NEW k \in Nat
    PROVE  IsFiniteSet(Span(p, a, k)) /\ Cardinality(Span(p, a, k)) = k
<1>1. a + 1 \in Int /\ a + k \in Int
  OBVIOUS
<1>2. /\ IsFiniteSet(a + 1 .. a + k)
      /\ Cardinality(a + 1 .. a + k) = IF a + 1 > a + k THEN 0 ELSE (a + k) - (a + 1) + 1
  BY <1>1, FS_Interval
<1>3. Cardinality(a + 1 .. a + k) = k
  BY <1>2
<1>4. IsFiniteSet({p}) /\ Cardinality({p}) = 1
  BY FS_Singleton
<1>5. /\ IsFiniteSet({p} \X (a + 1 .. a + k))
      /\ Cardinality({p} \X (a + 1 .. a + k)) = Cardinality({p}) * Cardinality(a + 1 .. a + k)
  BY <1>2, <1>4, FS_Product
<1> QED
  BY <1>3, <1>4, <1>5 DEF Span

\* The items of `p` that a change from `from` to `to` brings.
GainedItems(from, to, m, p) == Span(p, m[p], Gained(from, to, p))

LEMMA GainedTyped ==
    ASSUME NEW from \in Texts, NEW to \in Texts, NEW p \in Pieces
    PROVE  /\ Gained(from, to, p) \in Nat /\ Gained(to, from, p) \in Nat
           /\ to[p] > from[p] => Gained(from, to, p) = to[p] - from[p] /\ Gained(to, from, p) = 0
           /\ to[p] <= from[p] => Gained(from, to, p) = 0 /\ Gained(to, from, p) = from[p] - to[p]
BY DEF Gained, Texts

LEMMA MadeGrows ==
    ASSUME NEW from \in Texts, NEW to \in Texts, NEW m \in [Pieces -> Nat]
    PROVE  /\ MadeBy(from, to, m) \in [Pieces -> Nat]
           /\ \A p \in Pieces : MadeBy(from, to, m)[p] = m[p] + Gained(from, to, p)
           /\ \A p \in Pieces : m[p] <= MadeBy(from, to, m)[p]
           /\ Had(m) \subseteq Had(MadeBy(from, to, m))
<1>1. \A p \in Pieces : Gained(from, to, p) \in Nat
  BY GainedTyped
<1>2. MadeBy(from, to, m) \in [Pieces -> Nat] /\ \A p \in Pieces : m[p] <= MadeBy(from, to, m)[p]
  BY <1>1 DEF MadeBy
<1>3. \A p \in Pieces : MadeBy(from, to, m)[p] = m[p] + Gained(from, to, p)
  BY DEF MadeBy
<1> QED
  BY <1>2, <1>3, HadGrows

\* A change that takes away no more than there is.
Apt(doc, from, to) == \A p \in Pieces : to[p] < from[p] => Gained(to, from, p) <= TextOf(doc)[p]

\* The items of `p` that it takes away.
Dropped(doc, from, to, p) ==
    CHOOSE s \in SUBSET Copies(doc, p) : Cardinality(s) = Gained(to, from, p)

LEMMA DroppedSome ==
    ASSUME NEW m \in [Pieces -> Nat], NEW doc \in DocsIn(m), NEW from \in Texts, NEW to \in Texts,
           Apt(doc, from, to), NEW p \in Pieces, to[p] < from[p]
    PROVE  /\ Dropped(doc, from, to, p) \subseteq Copies(doc, p)
           /\ Cardinality(Dropped(doc, from, to, p)) = Gained(to, from, p)
<1>1. Gained(to, from, p) \in Nat /\ Gained(to, from, p) <= Cardinality(Copies(doc, p))
  BY GainedTyped, TextTyped DEF Apt
<1>2. \E s \in SUBSET Copies(doc, p) : Cardinality(s) = Gained(to, from, p)
  BY <1>1, CopiesFinite, SomeOf
<1> QED
  BY <1>2 DEF Dropped

LEMMA BroughtDoc ==
    ASSUME NEW m \in [Pieces -> Nat], NEW doc \in DocsIn(m), NEW from \in Texts, NEW to \in Texts,
           Apt(doc, from, to),
           NEW n, n = MadeBy(from, to, m), NEW new, new = Brought(doc, from, to, m)
    PROVE  /\ new \in DocsIn(n)
           /\ doc.ins \subseteq new.ins /\ doc.del \subseteq new.del
           /\ new.ins \ doc.ins = UNION {GainedItems(from, to, m, p) : p \in Pieces}
           /\ new.ins \ doc.ins = Had(n) \ Had(m)
           /\ new.del = doc.del \cup UNION {Dropped(doc, from, to, p) : p \in {q \in Pieces : to[q] < from[q]}}
<1> DEFINE added == UNION {GainedItems(from, to, m, p) : p \in Pieces}
           gone == UNION {Dropped(doc, from, to, p) : p \in {q \in Pieces : to[q] < from[q]}}
<1>1. new = [ins |-> doc.ins \cup added, del |-> doc.del \cup gone]
  BY DEF Brought, GainedItems, Span, Dropped
<1>2. /\ n \in [Pieces -> Nat] /\ Had(m) \subseteq Had(n)
      /\ \A p \in Pieces : n[p] = m[p] + Gained(from, to, p) /\ Gained(from, to, p) \in Nat
  BY MadeGrows, GainedTyped
<1>3. doc.ins \subseteq Had(m) /\ doc.del \subseteq Had(m)
  BY DEF DocsIn
<1>4. added = Had(n) \ Had(m)
  <2>1. ASSUME NEW i \in added PROVE i \in Had(n) /\ i \notin Had(m)
    <3>1. PICK p \in Pieces : i \in GainedItems(from, to, m, p)
      OBVIOUS
    <3>2. PICK k \in m[p] + 1 .. m[p] + Gained(from, to, p) : i = <<p, k>>
      BY <3>1 DEF GainedItems, Span
    <3>3. k \in 1..n[p] /\ k \notin 1..m[p]
      BY <1>2
    <3>4. i \in Had(n)
      BY <1>2, <3>2, <3>3, HadMembers
    <3>5. i[1] = p /\ i[2] = k
      BY <3>2
    <3> QED
      BY <3>3, <3>4, <3>5, HadMembers
  <2>2. ASSUME NEW i \in Had(n), i \notin Had(m) PROVE i \in added
    <3>1. i[1] \in Pieces /\ i[2] \in 1..n[i[1]] /\ i = <<i[1], i[2]>>
      BY <1>2, HadMembers
    <3>2. i[2] \notin 1..m[i[1]]
      BY <2>2, <3>1, HadMembers
    <3>3. i[2] \in m[i[1]] + 1 .. m[i[1]] + Gained(from, to, i[1])
      BY <1>2, <3>1, <3>2
    <3>4. i \in GainedItems(from, to, m, i[1])
      BY <3>1, <3>3 DEF GainedItems, Span
    <3> QED
      BY <3>1, <3>4
  <2> HIDE DEF added
  <2> QED
    BY <2>1, <2>2
<1>5. gone \subseteq doc.ins
  <2> SUFFICES ASSUME NEW p \in Pieces, to[p] < from[p]
               PROVE  Dropped(doc, from, to, p) \subseteq doc.ins
    OBVIOUS
  <2> QED
    BY DroppedSome DEF Copies
<1> HIDE DEF added, gone
<1>6. new.ins = doc.ins \cup added /\ new.del = doc.del \cup gone
  BY <1>1
<1>7. new \in DocsIn(n)
  BY <1>1, <1>2, <1>3, <1>4, <1>5 DEF DocsIn
<1>8. new.ins \ doc.ins = added
  BY <1>3, <1>4, <1>6
<1> QED
  BY <1>4, <1>6, <1>7, <1>8 DEF added, gone

LEMMA BroughtCopies ==
    ASSUME NEW m \in [Pieces -> Nat], NEW doc \in DocsIn(m), NEW from \in Texts, NEW to \in Texts,
           Apt(doc, from, to), NEW p \in Pieces
    PROVE  Copies(Brought(doc, from, to, m), p) =
             IF to[p] < from[p] THEN Copies(doc, p) \ Dropped(doc, from, to, p)
             ELSE Copies(doc, p) \cup GainedItems(from, to, m, p)
<1> DEFINE new == Brought(doc, from, to, m)
           n == MadeBy(from, to, m)
<1>1. /\ doc.ins \subseteq new.ins /\ doc.del \subseteq new.del
      /\ new.ins \ doc.ins = UNION {GainedItems(from, to, m, q) : q \in Pieces}
      /\ new.ins \ doc.ins = Had(n) \ Had(m)
      /\ new.del = doc.del \cup UNION {Dropped(doc, from, to, q) : q \in {q \in Pieces : to[q] < from[q]}}
  BY BroughtDoc
<1> HIDE DEF new
<1>2. \A q \in Pieces : \A i \in GainedItems(from, to, m, q) : i[1] = q
  BY DEF GainedItems, Span
<1>3. \A q \in Pieces : to[q] < from[q] =>
        \A i \in Dropped(doc, from, to, q) : i[1] = q /\ i \in doc.ins
  BY DroppedSome DEF Copies
<1>4. doc.del \subseteq Had(m) /\ doc.ins \subseteq Had(m)
  BY DEF DocsIn
<1>5. CASE to[p] < from[p]
  <2>1. GainedItems(from, to, m, p) = {}
    <3>1. Gained(from, to, p) = 0 /\ m[p] \in Nat
      BY <1>5, GainedTyped DEF Texts
    <3> QED
      BY <3>1 DEF GainedItems, Span
  <2>2. \A i : i \in new.ins /\ i[1] = p <=> i \in doc.ins /\ i[1] = p
    BY <1>1, <1>2, <2>1
  <2>3. \A i : i[1] = p => (i \in new.del <=> i \in doc.del \/ i \in Dropped(doc, from, to, p))
    BY <1>1, <1>3, <1>5
  <2> QED
    BY <1>5, <2>2, <2>3 DEF Copies, new
<1>6. CASE ~(to[p] < from[p])
  <2>1. \A i : i \in new.ins /\ i[1] = p <=> (i \in doc.ins /\ i[1] = p) \/ i \in GainedItems(from, to, m, p)
    BY <1>1, <1>2
  <2>2. \A i : i[1] = p => (i \in new.del <=> i \in doc.del)
    BY <1>1, <1>3, <1>6
  <2>3. \A i \in GainedItems(from, to, m, p) : i \notin doc.del
    BY <1>1, <1>4
  <2> QED
    BY <1>2, <1>6, <2>1, <2>2, <2>3 DEF Copies, new
<1> QED
  BY <1>5, <1>6

\* The document's text changes as the text did that the change is taken from.
LEMMA BroughtText ==
    ASSUME NEW m \in [Pieces -> Nat], NEW doc \in DocsIn(m), NEW from \in Texts, NEW to \in Texts,
           Apt(doc, from, to), NEW p \in Pieces
    PROVE  TextOf(Brought(doc, from, to, m))[p] = TextOf(doc)[p] + to[p] - from[p]
<1> DEFINE new == Brought(doc, from, to, m)
           n == MadeBy(from, to, m)
           c == Copies(doc, p)
           d == Dropped(doc, from, to, p)
           g == GainedItems(from, to, m, p)
<1>1. /\ TextOf(doc)[p] = Cardinality(c) /\ IsFiniteSet(c) /\ Cardinality(c) \in Nat
      /\ from[p] \in Nat /\ to[p] \in Nat /\ m[p] \in Nat
  BY TextTyped, CopiesFinite DEF Texts
<1>2. new \in DocsIn(n) /\ n \in [Pieces -> Nat]
  BY BroughtDoc, MadeGrows
<1>3. TextOf(new)[p] = Cardinality(Copies(new, p))
  BY <1>2, TextTyped
<1>4. CASE to[p] < from[p]
  <2>1. Copies(new, p) = c \ d /\ d \in SUBSET c /\ Cardinality(d) = from[p] - to[p]
    BY <1>4, BroughtCopies, DroppedSome, GainedTyped, <1>1
  <2>2. Cardinality(c \ d) = Cardinality(c) - Cardinality(d)
    BY <1>1, <2>1, SizeOfRest
  <2>3. TextOf(new)[p] = TextOf(doc)[p] - (from[p] - to[p])
    BY <1>1, <1>3, <2>1, <2>2, Zenon
  <2>4. TextOf(doc)[p] \in Nat
    BY <1>1
  <2> QED
    BY <1>1, <2>3, <2>4
<1>5. CASE ~(to[p] < from[p])
  <2>1. Copies(new, p) = c \cup g
    BY <1>5, BroughtCopies
  <2>2. Gained(from, to, p) = to[p] - from[p] /\ Gained(from, to, p) \in Nat
    <3>1. CASE to[p] > from[p]
      BY <3>1, GainedTyped
    <3>2. CASE to[p] = from[p]
      BY <1>1, <3>2, GainedTyped
    <3> QED
      BY <1>1, <1>5, <3>1, <3>2
  <2>3. IsFiniteSet(g) /\ Cardinality(g) = to[p] - from[p]
    <3>1. IsFiniteSet(g) /\ Cardinality(g) = Gained(from, to, p)
      BY <1>1, <2>2, SizeOfSpan DEF GainedItems
    <3> QED
      BY <2>2, <3>1, Zenon
  <2>4. c \cap g = {}
    <3>1. g \subseteq Had(n) \ Had(m)
      BY BroughtDoc
    <3>2. c \subseteq Had(m)
      BY DEF Copies, DocsIn
    <3> QED
      BY <3>1, <3>2
  <2>5. Cardinality(c \cup g) = Cardinality(c) + Cardinality(g)
    BY <1>1, <2>3, <2>4, SizeOfBoth
  <2>6. TextOf(new)[p] = TextOf(doc)[p] + (to[p] - from[p])
    BY <1>1, <1>3, <2>1, <2>3, <2>5, Zenon
  <2>7. TextOf(doc)[p] \in Nat
    BY <1>1
  <2> QED
    BY <1>1, <2>6, <2>7
<1> QED
  BY <1>4, <1>5

\* A document that is given a text has it.
LEMMA Replaced ==
    ASSUME NEW m \in [Pieces -> Nat], NEW doc \in DocsIn(m), NEW to \in Texts
    PROVE  Apt(doc, TextOf(doc), to) /\ TextOf(ReplaceContents(doc, to, m)) = to
<1>1. TextOf(doc) \in Texts
  BY TextTyped
<1>2. Apt(doc, TextOf(doc), to)
  BY <1>1 DEF Apt, Gained, Texts
<1> DEFINE from == TextOf(doc)
           new == ReplaceContents(doc, to, m)
<1>3. new = Brought(doc, from, to, m)
  BY DEF ReplaceContents
<1>4. new \in DocsIn(MadeBy(from, to, m)) /\ MadeBy(from, to, m) \in [Pieces -> Nat]
  BY <1>1, <1>2, <1>3, BroughtDoc, MadeGrows
<1>5. TextOf(new) \in Texts
  BY <1>4, TextTyped
<1>6. \A p \in Pieces : TextOf(new)[p] = from[p] + to[p] - from[p]
  BY <1>1, <1>2, <1>3, BroughtText
<1>7. \A p \in Pieces : TextOf(new)[p] = to[p]
  BY <1>1, <1>6 DEF Texts
<1> HIDE DEF new, from
<1>8. TextOf(new) = to
  BY <1>5, <1>7 DEF Texts
<1> QED
  BY <1>2, <1>8 DEF new

\* What two sides have changed apart can be brought from one to the other.
LEMMA ApartApt ==
    ASSUME NEW m \in [Pieces -> Nat], NEW doc \in DocsIn(m), NEW base \in Texts, NEW theirs \in Texts,
           ~Collide(base, TextOf(doc), theirs)
    PROVE  Apt(doc, base, theirs)
<1> SUFFICES ASSUME NEW p \in Pieces, theirs[p] < base[p]
             PROVE  Gained(theirs, base, p) <= TextOf(doc)[p]
  BY DEF Apt
<1>1. base[p] \in Nat /\ theirs[p] \in Nat /\ base[p] > 0 /\ base[p] # theirs[p]
  BY DEF Texts
<1>2. base[p] = TextOf(doc)[p]
  BY <1>1 DEF Collide, Changed
<1> QED
  BY <1>1, <1>2 DEF Gained

-----------------------------------------------------------------------------
(* Shapes of tabs, messages and jobs *)

LEMMA MoreIn ==
    ASSUME NEW m \in [Pieces -> Nat], NEW n \in [Pieces -> Nat], Had(m) \subseteq Had(n)
    PROVE  /\ DocsIn(m) \subseteq DocsIn(n) /\ RowsIn(m) \subseteq RowsIn(n)
           /\ MessagesIn(m) \subseteq MessagesIn(n)
           /\ TabsIn(m) \subseteq TabsIn(n) /\ JobsIn(m) \subseteq JobsIn(n)
<1>1. DocsIn(m) \subseteq DocsIn(n)
  BY DEF DocsIn
<1>2. RowsIn(m) \subseteq RowsIn(n)
  BY <1>1 DEF RowsIn
<1>3. MessagesIn(m) \subseteq MessagesIn(n)
  BY <1>1 DEF MessagesIn
<1>4. Seq(MessagesIn(m)) \subseteq Seq(MessagesIn(n))
  BY <1>3
<1>5. SUBSET DocsIn(m) \subseteq SUBSET DocsIn(n)
  BY <1>1
<1>6. TabsIn(m) \subseteq TabsIn(n)
  BY <1>1, <1>4, <1>5 DEF TabsIn
<1>7. JobsIn(m) \subseteq JobsIn(n)
  BY <1>2, <1>4, <1>5 DEF JobsIn
<1> QED
  BY <1>1, <1>2, <1>3, <1>6, <1>7

LEMMA RowsKnown ==
    ASSUME NEW m \in [Pieces -> Nat]
    PROVE  /\ RowsIn(m) \subseteq Rows /\ None \notin RowsIn(m)
           /\ DocsIn(m) \subseteq Docs /\ NoDoc \in DocsIn(m)
<1>1. Had(m) \subseteq Items
  BY HadMembers
<1>2. DocsIn(m) \subseteq Docs
  BY <1>1 DEF DocsIn, Docs
<1>3. RowsIn(m) \subseteq Rows
  BY <1>2 DEF RowsIn, Rows
<1> QED
  BY <1>2, <1>3, FileConstants DEF Rows, NoDoc, DocsIn

LEMMA MessageTyped ==
    ASSUME NEW m, NEW kind \in {"update", "reconciled", "conflict", "sync"}, NEW d \in DocsIn(m)
    PROVE  /\ Message(kind, d) \in MessagesIn(m) /\ Message(kind, d).delta = d
           /\ <<Message(kind, d)>> \in Seq(MessagesIn(m))
           /\ \A s \in Seq(MessagesIn(m)) : Append(s, Message(kind, d)) \in Seq(MessagesIn(m))
BY DEF Message, MessagesIn

LEMMA NewsTyped ==
    ASSUME NEW m \in [Pieces -> Nat], NEW s \in Seq(MessagesIn(m))
    PROVE  News(s) \subseteq Had(m) /\ News(s) \subseteq Items
<1>1. \A i \in DOMAIN s : s[i].delta.ins \subseteq Had(m)
  <2> SUFFICES ASSUME NEW i \in DOMAIN s PROVE s[i].delta.ins \subseteq Had(m)
    OBVIOUS
  <2>1. s[i] \in MessagesIn(m)
    OBVIOUS
  <2> QED
    BY <2>1 DEF MessagesIn, DocsIn
<1> QED
  BY <1>1, HadMembers DEF News

\* Tabs.
LEMMA TabParts ==
    ASSUME NEW m, NEW x \in TabsIn(m)
    PROVE  /\ x.conn \in {"closed", "open"} /\ x.synced \in BOOLEAN /\ x.conflict \in BOOLEAN
           /\ x.doc \in DocsIn(m) /\ x.subscribed \in BOOLEAN /\ x.queue \in SUBSET DocsIn(m)
           /\ x.timer \in {"none", "set", "late"} /\ x.feed \in Seq(MessagesIn(m))
           /\ x.dropped \in SUBSET Items /\ x.unsaved \in SUBSET Items
           /\ IsTab(x)
BY DEF TabsIn, IsTab

LEMMA TabDoc ==
    ASSUME NEW m, NEW x \in TabsIn(m), NEW d \in DocsIn(m)
    PROVE  [x EXCEPT !.doc = d] \in TabsIn(m)
BY DEF TabsIn

LEMMA TabFlags ==
    ASSUME NEW m, NEW x \in TabsIn(m), NEW b \in BOOLEAN
    PROVE  /\ [x EXCEPT !.synced = b] \in TabsIn(m)
           /\ [x EXCEPT !.conflict = b] \in TabsIn(m)
           /\ [x EXCEPT !.subscribed = b] \in TabsIn(m)
BY DEF TabsIn

LEMMA SentTab ==
    ASSUME NEW m \in [Pieces -> Nat], NEW x \in TabsIn(m), NEW s \in Seq(MessagesIn(m)),
           NEW y, y = Sent(x, s)
    PROVE  /\ y \in TabsIn(m)
           /\ y.conn = x.conn /\ y.synced = x.synced /\ y.conflict = x.conflict /\ y.doc = x.doc
           /\ y.subscribed = x.subscribed /\ y.queue = x.queue /\ y.timer = x.timer
           /\ y.unsaved = x.unsaved
           /\ y.feed = IF x.subscribed THEN x.feed \o s ELSE x.feed
           /\ y.dropped = IF x.subscribed THEN x.dropped ELSE x.dropped \cup News(s)
<1>1. /\ x.feed \o s \in Seq(MessagesIn(m))
      /\ x.dropped \cup News(s) \in SUBSET Items
  BY TabParts, NewsTyped
<1>2. CASE x.subscribed
  <2>1. y = [x EXCEPT !.feed = x.feed \o s]
    BY <1>2 DEF Sent
  <2> QED
    BY <1>1, <1>2, <2>1 DEF TabsIn
<1>3. CASE ~x.subscribed
  <2>1. y = [x EXCEPT !.dropped = x.dropped \cup News(s)]
    BY <1>3 DEF Sent
  <2> QED
    BY <1>1, <1>3, <2>1 DEF TabsIn
<1> QED
  BY <1>2, <1>3

\* Jobs.
LEMMA JobParts ==
    ASSUME NEW m, NEW x \in JobsIn(m)
    PROVE  /\ x.act \in Acts /\ x.pc \in Locked \cup {"idle", "tell"}
           /\ x.snap \in RowsIn(m) \cup {None} /\ x.next \in RowsIn(m) \cup {None}
           /\ x.seen \in Files \cup {None} /\ x.batch \in SUBSET DocsIn(m)
           /\ x.say \in Seq(MessagesIn(m))
           /\ x = [act |-> x.act, pc |-> x.pc, snap |-> x.snap, next |-> x.next,
                   seen |-> x.seen, batch |-> x.batch, say |-> x.say]
BY DEF JobsIn

LEMMA IdleJob ==
    ASSUME NEW m
    PROVE  /\ Idle \in JobsIn(m) /\ Idle.pc = "idle" /\ Idle.act = "none" /\ Idle.say = <<>>
           /\ \A j, r, f : At(j, Idle, r, f)
<1>1. Idle \in JobsIn(m) /\ Idle.pc = "idle" /\ Idle.act = "none" /\ Idle.say = <<>>
  BY DEF Idle, JobsIn, Acts
<1>2. \A j, r, f : At(j, Idle, r, f)
  BY <1>1 DEF At
<1> QED
  BY <1>1, <1>2

LEMMA JobRecord ==
    ASSUME NEW m, NEW act \in Acts, NEW pc \in Locked \cup {"idle", "tell"},
           NEW r \in RowsIn(m) \cup {None}, NEW n \in RowsIn(m) \cup {None},
           NEW f \in Files \cup {None}, NEW b \in SUBSET DocsIn(m), NEW s \in Seq(MessagesIn(m))
    PROVE  LET x == [act |-> act, pc |-> pc, snap |-> r, next |-> n, seen |-> f, batch |-> b, say |-> s]
           IN  /\ x \in JobsIn(m) /\ x.act = act /\ x.pc = pc /\ x.snap = r /\ x.next = n
               /\ x.seen = f /\ x.batch = b /\ x.say = s
BY DEF JobsIn

\* A job as it begins, saves a batch, or has something left to tell.
Begun(act, pc, r, f) == [Idle EXCEPT !.act = act, !.pc = pc, !.snap = r, !.seen = f]

LEMMA BegunJob ==
    ASSUME NEW m, NEW act \in Acts, NEW pc \in Locked, NEW r \in RowsIn(m) \cup {None},
           NEW f \in Files,
           NEW x, x = Begun(act, pc, r, f)
    PROVE  /\ x \in JobsIn(m) /\ x.act = act /\ x.pc = pc /\ x.snap = r /\ x.seen = f
           /\ x.say = <<>> /\ x.next = None
<1>1. PICK s, b : s = <<>> /\ b = {}
  OBVIOUS
<1>2. x = [act |-> act, pc |-> pc, snap |-> r, next |-> None, seen |-> f, batch |-> b, say |-> s]
  BY <1>1 DEF Idle, Begun
<1>3. s \in Seq(MessagesIn(m)) /\ b \in SUBSET DocsIn(m)
  BY <1>1
<1>4. [act |-> act, pc |-> pc, snap |-> r, next |-> None, seen |-> f, batch |-> b, say |-> s] \in JobsIn(m)
  BY ONLY <1>3, JobRecord
<1>5. x.act = act /\ x.pc = pc /\ x.snap = r /\ x.seen = f /\ x.say = s /\ x.next = None
  BY ONLY <1>2
<1>6. x \in JobsIn(m)
  BY ONLY <1>2, <1>4
<1>7. x.say = <<>>
  BY ONLY <1>1, <1>5
<1> QED
  BY <1>5, <1>6, <1>7, Zenon

Batched(b, r) == [Idle EXCEPT !.act = "persist", !.pc = "save", !.batch = b, !.next = r]

LEMMA BatchJob ==
    ASSUME NEW m, NEW b \in SUBSET DocsIn(m), NEW r \in RowsIn(m),
           NEW x, x = Batched(b, r)
    PROVE  /\ x \in JobsIn(m) /\ x.act = "persist" /\ x.pc = "save" /\ x.batch = b
           /\ x.next = r /\ x.say = <<>>
<1>1. PICK s : s = <<>>
  OBVIOUS
<1>2. x = [act |-> "persist", pc |-> "save", snap |-> None, next |-> r, seen |-> None, batch |-> b,
           say |-> s]
  BY <1>1 DEF Idle, Batched
<1>3. s \in Seq(MessagesIn(m)) /\ "persist" \in Acts /\ "save" \in Locked
  BY <1>1 DEF Acts, Locked
<1>4. [act |-> "persist", pc |-> "save", snap |-> None, next |-> r, seen |-> None, batch |-> b,
       say |-> s] \in JobsIn(m)
  BY ONLY <1>3, JobRecord
<1>5. x.act = "persist" /\ x.pc = "save" /\ x.batch = b /\ x.next = r /\ x.say = s
  BY ONLY <1>2
<1>6. x \in JobsIn(m)
  BY ONLY <1>2, <1>4
<1>7. x.say = <<>>
  BY ONLY <1>1, <1>5
<1> QED
  BY <1>5, <1>6, <1>7, Zenon

Ending(act, r, s) == [Idle EXCEPT !.act = act, !.pc = "tell", !.next = r, !.say = s]

LEMMA EndingJob ==
    ASSUME NEW m, NEW act \in Acts, NEW r \in RowsIn(m) \cup {None}, NEW s \in Seq(MessagesIn(m)),
           NEW x, x = Ending(act, r, s)
    PROVE  x \in JobsIn(m) /\ x.act = act /\ x.pc = "tell" /\ x.next = r /\ x.say = s
<1>1. x = [act |-> act, pc |-> "tell", snap |-> None, next |-> r, seen |-> None, batch |-> {}, say |-> s]
  BY DEF Idle, Ending
<1> QED
  BY <1>1 DEF JobsIn

LEMMA JobEdits ==
    ASSUME NEW m, NEW x \in JobsIn(m), NEW r \in RowsIn(m), NEW f \in Files,
           NEW s \in Seq(MessagesIn(m)), NEW y,
           \/ y = [x EXCEPT !.pc = "readback"] /\ r = x.snap /\ s = x.say
           \/ y = [x EXCEPT !.pc = "tell", !.say = s]
           \/ y = [x EXCEPT !.pc = "save", !.snap = r, !.seen = f] /\ s = x.say
           \/ y = [x EXCEPT !.pc = "write", !.snap = r, !.next = r, !.say = s]
    PROVE  /\ y \in JobsIn(m) /\ y.act = x.act /\ y.say = s
           /\ y.pc \in {"save", "write", "readback"} => y.snap = r
           /\ y.pc = "save" => y.seen = f
           /\ y.pc = "write" => y.next = r
           /\ y.pc \in {"readback", "tell"} => y.next = x.next
<1> USE JobParts
<1>1. CASE y = [x EXCEPT !.pc = "readback"] /\ r = x.snap /\ s = x.say
  BY <1>1 DEF JobsIn, Locked
<1>2. CASE y = [x EXCEPT !.pc = "tell", !.say = s]
  BY <1>2 DEF JobsIn
<1>3. CASE y = [x EXCEPT !.pc = "save", !.snap = r, !.seen = f] /\ s = x.say
  BY <1>3 DEF JobsIn, Locked
<1>4. CASE y = [x EXCEPT !.pc = "write", !.snap = r, !.next = r, !.say = s]
  BY <1>4 DEF JobsIn, Locked
<1> QED
  BY <1>1, <1>2, <1>3, <1>4

-----------------------------------------------------------------------------
(* Every step keeps the shapes and what the jobs know *)

\* A job that does not hold the lock depends on neither the row nor the file.
LEMMA AtRest ==
    ASSUME NEW j, NEW x, NEW r, NEW f, At(j, x, r, f), NEW r2, NEW f2, x.pc \notin Locked
    PROVE  At(j, x, r2, f2)
BY DEF At, Locked

LEMMA JobsGo ==
    ASSUME Core, NEW j \in Jobs, NEW x, Goes(j, x),
           made' \in [Pieces -> Nat], Had(made) \subseteq Had(made'),
           x \in JobsIn(made'), At(j, x, row', file'),
           \/ row' = row /\ file' = file
           \/ lock = j
           \/ lock \notin Jobs,
           lock' \in Jobs => (lock' = j /\ x.pc \in Locked) \/ (lock' = lock /\ lock # j)
    PROVE  jobs' \in [Jobs -> JobsIn(made')] /\ Placed'
<1>1. /\ jobs \in [Jobs -> JobsIn(made)] /\ made \in [Pieces -> Nat]
      /\ \A i \in Jobs : At(i, jobs[i], row, file) /\ Fits(i, jobs[i], row, lock)
      /\ lock \in Jobs => jobs[lock].pc \in Locked
  BY DEF Core, Inv, Shaped, Placed
<1>2. jobs' = [jobs EXCEPT ![j] = x]
  BY DEF Goes
<1>3. JobsIn(made) \subseteq JobsIn(made')
  BY <1>1, MoreIn
<1>4. jobs' \in [Jobs -> JobsIn(made')] /\ jobs'[j] = x
  BY <1>1, <1>2, <1>3
<1>5. ASSUME NEW i \in Jobs, i # j
      PROVE  At(i, jobs'[i], row', file')
  <2>1. jobs'[i] = jobs[i] /\ At(i, jobs[i], row, file)
    BY <1>1, <1>2, <1>5
  <2>2. CASE row' = row /\ file' = file
    BY <2>1, <2>2
  <2>3. CASE lock = j \/ lock \notin Jobs
    <3>1. jobs[i].pc \notin Locked
      BY <1>1, <1>5, <2>3 DEF Fits
    <3> QED
      BY <2>1, <3>1, AtRest
  <2> QED
    BY <2>2, <2>3
<1>6. \A i \in Jobs : At(i, jobs'[i], row', file')
  BY <1>4, <1>5
<1>7. lock' \in Jobs => jobs'[lock'].pc \in Locked
  BY <1>1, <1>2, <1>4
<1> QED
  BY <1>4, <1>6, <1>7 DEF Placed

LEMMA JobsRest ==
    ASSUME Core, UNCHANGED <<jobs, lock, row>>,
           made' \in [Pieces -> Nat], Had(made) \subseteq Had(made'),
           \/ file' = file
           \/ file.rev \in Nat /\ file'.rev = file.rev + 1
    PROVE  jobs' \in [Jobs -> JobsIn(made')] /\ Placed'
<1>1. /\ jobs \in [Jobs -> JobsIn(made)] /\ made \in [Pieces -> Nat]
      /\ \A i \in Jobs : At(i, jobs[i], row, file)
      /\ lock \in Jobs => jobs[lock].pc \in Locked
  BY DEF Core, Inv, Shaped, Placed
<1>2. jobs \in [Jobs -> JobsIn(made')]
  BY <1>1, MoreIn
<1>3. ASSUME NEW i \in Jobs PROVE At(i, jobs[i], row, file')
  <2>1. CASE file' = file
    BY <1>1, <2>1
  <2>2. CASE file.rev \in Nat /\ file'.rev = file.rev + 1
    <3>1. Seen(jobs[i], file) => Seen(jobs[i], file')
      BY <2>2 DEF Seen, Files
    <3> QED
      BY <1>1, <3>1 DEF At
  <2> QED
    BY <2>1, <2>2
<1> QED
  BY <1>1, <1>2, <1>3 DEF Placed

LEMMA SeenNow ==
    ASSUME Shaped, NEW x, x.seen = file
    PROVE  Seen(x, file)
<1>1. file \in Files /\ file.rev \in Nat
  BY DEF Shaped, Files
<1> QED
  BY <1>1 DEF Seen

LEMMA BegunCore ==
    ASSUME Core, NEW j \in Jobs, NEW act \in {"autosave", "subscribe", "editor", "workspace", "turn"},
           NEW pc \in {"create", "save", "write"},
           pc = "create" => act = "subscribe",
           pc = "save" => act \in {"workspace"} \cup Reconciling,
           pc = "write" => act \in {"autosave", "editor"},
           act = "subscribe" => j[1] \in Tabs /\ j[2] = "request",
           j[2] # "persist",
           Begins(j, act, pc), UNCHANGED <<row, file, made>>
    PROVE  jobs' \in [Jobs -> JobsIn(made)] /\ lock' \in Jobs /\ Placed'
<1> DEFINE x == Begun(act, pc, row, file)
<1>1. lock' = j /\ Goes(j, x) /\ lock \notin Jobs
  BY Constants DEF Begins, Free, Begun
<1>2. act \in Acts /\ pc \in Locked /\ row \in RowsIn(made) \cup {None} /\ file \in Files
  BY DEF Acts, Locked, Core, Shaped
<1>3. /\ x \in JobsIn(made) /\ x.act = act /\ x.pc = pc /\ x.snap = row /\ x.seen = file
      /\ x.say = <<>> /\ x.next = None
  BY <1>2, BegunJob
<1> HIDE DEF x
<1>4. Seen(x, file)
  BY <1>3, SeenNow DEF Core
<1>5. At(j, x, row', file')
  BY <1>3, <1>4 DEF At, WillWrite, Reconciling
<1>6. made' \in [Pieces -> Nat] /\ Had(made) \subseteq Had(made') /\ x \in JobsIn(made')
  BY <1>3 DEF Core, Shaped
<1>7. lock' \in Jobs => lock' = j /\ x.pc \in Locked
  BY <1>1, <1>2, <1>3
<1>8. jobs' \in [Jobs -> JobsIn(made')] /\ Placed'
  BY <1>1, <1>5, <1>6, <1>7, JobsGo
<1> QED
  BY <1>1, <1>8

\* A job that is done under the lock, or has nothing to do with it.
LEMMA DoneCore ==
    ASSUME Core, NEW j \in Jobs, NEW x, Goes(j, x),
           made' \in [Pieces -> Nat], Had(made) \subseteq Had(made'),
           x \in JobsIn(made'),
           \/ x = Idle
           \/ /\ x.pc = "tell" /\ x.act \in {"autosave", "editor", "workspace"} \cup Reconciling
              /\ j[2] # "persist"
              /\ x.act = "subscribe" => j[1] \in Tabs /\ j[2] = "request" /\ x.next # None,
           \/ row' = row /\ file' = file
           \/ lock = j,
           \/ lock' \notin Jobs
           \/ lock' = lock /\ lock # j
    PROVE  jobs' \in [Jobs -> JobsIn(made')] /\ Placed'
<1>1. At(j, x, row', file')
  <2>1. CASE x = Idle
    BY <2>1, IdleJob
  <2>2. CASE x # Idle
    BY <2>2 DEF At, Reconciling
  <2> QED
    BY <2>1, <2>2
<1> QED
  BY <1>1, JobsGo

LEMMA ReceivedTabs ==
    ASSUME NEW m \in [Pieces -> Nat], NEW ts \in [Tabs -> TabsIn(m)], NEW t \in Tabs,
           NEW d \in DocsIn(m)
    PROVE  /\ Received(ts, t, d) \in [Tabs -> TabsIn(m)]
           /\ Received(ts, t, d)[t] = [ts[t] EXCEPT !.queue = @ \cup {d}]
           /\ \A u \in Tabs : u # t =>
                Received(ts, t, d)[u] = Sent(ts[u], <<Message("update", d)>>)
<1>1. <<Message("update", d)>> \in Seq(MessagesIn(m))
  BY MessageTyped
<1>2. \A u \in Tabs : Sent(ts[u], <<Message("update", d)>>) \in TabsIn(m)
  BY <1>1, SentTab
<1>3. [ts[t] EXCEPT !.queue = @ \cup {d}] \in TabsIn(m)
  <2>1. ts[t].queue \cup {d} \in SUBSET DocsIn(m)
    BY TabParts
  <2> QED
    BY <2>1 DEF TabsIn
<1> QED
  BY <1>2, <1>3 DEF Received

LEMMA HappensTyped ==
    ASSUME Shaped, NEW kind \in Kinds, Happens(kind)
    PROVE  rare' \subseteq Kinds
BY DEF Happens, Shaped

LEMMA SameMade ==
    ASSUME Core, UNCHANGED made
    PROVE  made' \in [Pieces -> Nat] /\ Had(made) \subseteq Had(made')
BY DEF Core, Shaped

LEMMA OpensShaped ==
    ASSUME Core, NEW t \in Tabs, Opens(t)
    PROVE  Shaped' /\ Placed'
<1> DEFINE j == <<t, "request">>
           pc == IF row = None THEN "create" ELSE "save"
<1>1. j \in Jobs /\ j[1] = t /\ j[2] = "request" /\ "subscribe" \in Reconciling
  BY DEF Jobs, Reconciling
<1>2. Begins(j, "subscribe", pc) /\ UNCHANGED <<row, file, turn, made, rare, taken>>
  BY DEF Opens
<1>3. pc \in {"create", "save", "write"} /\ pc # "write"
  OBVIOUS
<1> HIDE DEF pc, j
<1>4. jobs' \in [Jobs -> JobsIn(made)] /\ lock' \in Jobs /\ Placed'
  BY <1>1, <1>2, <1>3, BegunCore
<1>5. tabs' \in [Tabs -> TabsIn(made)]
  <2>1. tabs' = [tabs EXCEPT ![t] = [tabs[t] EXCEPT !.conn = "open"]]
    BY DEF Opens
  <2>2. tabs \in [Tabs -> TabsIn(made)]
    BY DEF Core, Shaped
  <2>3. [tabs[t] EXCEPT !.conn = "open"] \in TabsIn(made)
    BY <2>2 DEF TabsIn
  <2> QED
    BY <2>1, <2>2, <2>3
<1> QED
  BY <1>2, <1>4, <1>5 DEF Core, Shaped

\* What a tab types adds to its document an item that is new.
LEMMA EditedDoc ==
    ASSUME Core, NEW t \in Tabs, NEW e \in Edits, made[e] = 0, made' = [made EXCEPT ![e] = 1]
    PROVE  /\ e \in Pieces /\ <<e, 1>> \notin Had(made) /\ <<e, 1>> \in Had(made')
           /\ made' \in [Pieces -> Nat] /\ Had(made') = Had(made) \cup {<<e, 1>>}
           /\ \A p \in Pieces : made[p] <= made'[p]
           /\ Edited(t, e) \in DocsIn(made')
           /\ Edited(t, e).ins = tabs[t].doc.ins \cup {<<e, 1>>}
           /\ Edited(t, e).del \subseteq Had(made)
<1>1. e \in Pieces /\ made \in [Pieces -> Nat] /\ tabs[t] \in TabsIn(made)
  BY FileConstants DEF Core, Shaped
<1>2. made' \in [Pieces -> Nat] /\ \A p \in Pieces : made[p] <= made'[p]
  BY <1>1
<1>3. <<e, 1>> \notin Had(made)
  BY <1>1, HadMembers
<1>4. <<e, 1>> \in Had(made')
  <2>1. 1 \in 1..made'[e]
    BY <1>1
  <2> QED
    BY <1>1, <1>2, <2>1, HadMembers
<1>5. Had(made') = Had(made) \cup {<<e, 1>>}
  <2>1. Had(made) \subseteq Had(made')
    BY <1>1, <1>2, HadGrows
  <2>2. ASSUME NEW i \in Had(made'), i # <<e, 1>> PROVE i \in Had(made)
    <3>1. i[1] \in Pieces /\ i[2] \in 1..made'[i[1]] /\ i = <<i[1], i[2]>>
      BY <1>2, HadMembers
    <3>2. i[1] # e
      <4>1. i[1] = e => i[2] \in 1..1
        BY <1>1, <3>1
      <4> QED
        BY <2>2, <3>1, <4>1
    <3>3. made'[i[1]] = made[i[1]]
      BY <1>1, <3>1, <3>2
    <3> QED
      BY <1>1, <3>1, <3>3, HadMembers
  <2> QED
    BY <1>4, <2>1, <2>2
<1>6. tabs[t].doc \in DocsIn(made)
  BY <1>1, TabParts
<1>7. Edited(t, e).ins = tabs[t].doc.ins \cup {<<e, 1>>}
  BY DEF Edited, Typed
<1>8. Edited(t, e).del \subseteq Had(made)
  <2>1. \A q : Copies(tabs[t].doc, q) \subseteq Had(made)
    BY <1>6 DEF Copies, DocsIn
  <2>2. Edited(t, e).del = tabs[t].doc.del \cup UNION {Copies(tabs[t].doc, q) : q \in ReplacedBy(e)}
    BY DEF Edited, Typed
  <2> QED
    BY <1>6, <2>1, <2>2 DEF DocsIn
<1>9. Edited(t, e) \in DocsIn(made')
  <2>1. Edited(t, e) = [ins |-> Edited(t, e).ins, del |-> Edited(t, e).del]
    BY DEF Edited, Typed
  <2> QED
    BY <1>5, <1>6, <1>7, <1>8, <2>1 DEF DocsIn
<1> QED
  BY <1>1, <1>2, <1>3, <1>4, <1>5, <1>7, <1>8, <1>9

LEMMA TypesShaped ==
    ASSUME Core, NEW t \in Tabs, NEW e \in Edits, Types(t, e)
    PROVE  Shaped' /\ Placed'
<1> DEFINE d == [ins |-> {<<e, 1>>}, del |-> Edited(t, e).del \ tabs[t].doc.del]
           ts == [tabs EXCEPT ![t].doc = Edited(t, e)]
<1>1. /\ made[e] = 0 /\ made' = [made EXCEPT ![e] = 1]
      /\ tabs' = Received(ts, t, d)
      /\ UNCHANGED <<row, file, lock, jobs, turn, rare, taken>>
  BY DEF Types, CanType
<1>2. /\ made \in [Pieces -> Nat] /\ tabs \in [Tabs -> TabsIn(made)] /\ row \in RowsIn(made) \cup {None}
  BY DEF Core, Shaped
<1>3. /\ made' \in [Pieces -> Nat] /\ Had(made) \subseteq Had(made') /\ <<e, 1>> \in Had(made')
      /\ Edited(t, e) \in DocsIn(made') /\ Edited(t, e).del \subseteq Had(made)
  BY <1>1, EditedDoc
<1>4. RowsIn(made) \subseteq RowsIn(made') /\ TabsIn(made) \subseteq TabsIn(made')
  BY <1>2, <1>3, MoreIn
<1>5. ts \in [Tabs -> TabsIn(made')]
  <2>1. ts = [tabs EXCEPT ![t] = [tabs[t] EXCEPT !.doc = Edited(t, e)]]
    OBVIOUS
  <2>2. [tabs[t] EXCEPT !.doc = Edited(t, e)] \in TabsIn(made')
    BY <1>2, <1>3, <1>4, TabDoc
  <2> QED
    BY <1>2, <1>4, <2>1, <2>2
<1>6. d \in DocsIn(made')
  BY <1>3 DEF DocsIn
<1> HIDE DEF d, ts
<1>7. tabs' \in [Tabs -> TabsIn(made')]
  BY <1>1, <1>3, <1>5, <1>6, ReceivedTabs
<1>8. jobs' \in [Jobs -> JobsIn(made')] /\ Placed'
  BY <1>1, <1>3, JobsRest
<1> QED
  BY <1>1, <1>2, <1>3, <1>4, <1>7, <1>8 DEF Core, Shaped

LEMMA ClosedTab ==
    ASSUME NEW m \in [Pieces -> Nat], NEW x \in TabsIn(m), NEW d \in DocsIn(m), NEW y, y = Closed(x, d)
    PROVE  /\ y \in TabsIn(m) /\ y.synced = FALSE /\ y.subscribed = FALSE
           /\ y.feed = <<>> /\ y.dropped = x.dropped \cup News(x.feed) /\ y.doc = d
           /\ y.queue = x.queue /\ y.timer = x.timer /\ y.unsaved = x.unsaved
<1>1. PICK s, n : s = <<>> /\ n = x.dropped \cup News(x.feed)
  OBVIOUS
<1>2. y = [x EXCEPT !.conn = "closed", !.synced = FALSE, !.subscribed = FALSE, !.feed = s,
                    !.dropped = n, !.doc = d]
  BY <1>1 DEF Closed
<1>3. s \in Seq(MessagesIn(m)) /\ n \in SUBSET Items
  BY <1>1, TabParts, NewsTyped
<1>4. /\ y \in TabsIn(m) /\ y.synced = FALSE /\ y.subscribed = FALSE
      /\ y.feed = s /\ y.dropped = n /\ y.doc = d /\ y.queue = x.queue
      /\ y.timer = x.timer /\ y.unsaved = x.unsaved
  BY ONLY <1>2, <1>3, x \in TabsIn(m), d \in DocsIn(m) DEF TabsIn
<1> QED
  BY <1>1, <1>4

\* What a closing tab leaves.
LEMMA ClosesTabs ==
    ASSUME Core, NEW t \in Tabs, Closes(t)
    PROVE  /\ made' \in [Pieces -> Nat] /\ Had(made) \subseteq Had(made')
           /\ tabs' \in [Tabs -> TabsIn(made')]
           /\ \A u \in Tabs \ {t} : tabs'[u] = tabs[u]
           /\ tabs'[t].synced = FALSE /\ tabs'[t].subscribed = FALSE /\ tabs'[t].feed = <<>>
           /\ tabs'[t].dropped = tabs[t].dropped \cup News(tabs[t].feed)
           /\ tabs[t].doc.ins \subseteq tabs'[t].doc.ins
           /\ tabs'[t].queue = tabs[t].queue /\ tabs'[t].timer = tabs[t].timer
           /\ tabs'[t].unsaved = tabs[t].unsaved
<1>1. made \in [Pieces -> Nat] /\ tabs \in [Tabs -> TabsIn(made)] /\ tabs[t] \in TabsIn(made)
  BY DEF Core, Shaped
<1>2. PICK d : /\ tabs' = [tabs EXCEPT ![t] = Closed(tabs[t], d)]
               /\ \/ d = tabs[t].doc /\ made' = made
                  \/ \E e \in Edits : /\ made[e] = 0 /\ made' = [made EXCEPT ![e] = 1]
                                      /\ d = Edited(t, e)
  BY <1>1 DEF Closes, CanType
<1>3. /\ made' \in [Pieces -> Nat] /\ Had(made) \subseteq Had(made') /\ d \in DocsIn(made')
      /\ tabs[t].doc.ins \subseteq d.ins
  <2>1. CASE d = tabs[t].doc /\ made' = made
    BY <1>1, <2>1, TabParts
  <2>2. ASSUME NEW e \in Edits, made[e] = 0, made' = [made EXCEPT ![e] = 1], d = Edited(t, e)
        PROVE  /\ made' \in [Pieces -> Nat] /\ Had(made) \subseteq Had(made') /\ d \in DocsIn(made')
               /\ tabs[t].doc.ins \subseteq d.ins
    <3>1. /\ made' \in [Pieces -> Nat] /\ Had(made') = Had(made) \cup {<<e, 1>>}
          /\ Edited(t, e) \in DocsIn(made')
          /\ Edited(t, e).ins = tabs[t].doc.ins \cup {<<e, 1>>}
      BY <2>2, EditedDoc
    <3> QED
      BY <2>2, <3>1
  <2> QED
    BY <1>2, <2>1, <2>2
<1>4. tabs[t] \in TabsIn(made') /\ TabsIn(made) \subseteq TabsIn(made')
  BY <1>1, <1>3, MoreIn
<1>5. PICK y : y = Closed(tabs[t], d)
  OBVIOUS
<1>6. /\ y \in TabsIn(made') /\ y.synced = FALSE /\ y.subscribed = FALSE /\ y.feed = <<>>
      /\ y.dropped = tabs[t].dropped \cup News(tabs[t].feed) /\ y.doc = d
      /\ y.queue = tabs[t].queue /\ y.timer = tabs[t].timer /\ y.unsaved = tabs[t].unsaved
  <2> DEFINE P(m, x, c) ==
        \A v : v = Closed(x, c) =>
          /\ v \in TabsIn(m) /\ v.synced = FALSE /\ v.subscribed = FALSE
          /\ v.feed = <<>> /\ v.dropped = x.dropped \cup News(x.feed) /\ v.doc = c
          /\ v.queue = x.queue /\ v.timer = x.timer /\ v.unsaved = x.unsaved
  <2>1. \A m \in [Pieces -> Nat] : \A x \in TabsIn(m) : \A c \in DocsIn(m) : P(m, x, c)
    BY ClosedTab
  <2>2. P(made', tabs[t], d)
    <3> HIDE DEF P
    <3> QED
      BY <1>3, <1>4, <2>1
  <2> QED
    BY <1>5, <2>2
<1>7. /\ tabs' \in [Tabs -> TabsIn(made')] /\ tabs'[t] = y
      /\ \A u \in Tabs \ {t} : tabs'[u] = tabs[u]
  BY <1>1, <1>2, <1>4, <1>5, <1>6
<1> QED
  BY <1>3, <1>6, <1>7

LEMMA ClosesShaped ==
    ASSUME Core, NEW t \in Tabs, Closes(t)
    PROVE  Shaped' /\ Placed'
<1>1. Happens("closed") /\ UNCHANGED <<row, file, lock, jobs, turn, taken>>
  BY DEF Closes
<1>2. /\ made' \in [Pieces -> Nat] /\ Had(made) \subseteq Had(made')
      /\ tabs' \in [Tabs -> TabsIn(made')]
  BY ClosesTabs
<1>3. jobs' \in [Jobs -> JobsIn(made')] /\ Placed'
  BY <1>1, <1>2, JobsRest
<1>4. RowsIn(made) \subseteq RowsIn(made')
  BY <1>2, MoreIn DEF Core, Shaped
<1>5. rare' \subseteq Kinds
  BY <1>1, HappensTyped DEF Core, Kinds
<1> QED
  BY <1>1, <1>2, <1>3, <1>4, <1>5 DEF Core, Shaped

\* What a delivery leaves, before what goes back is sent.
LEMMA DeliversTabs ==
    ASSUME Core, NEW t \in Tabs, Delivers(t)
    PROVE  \E m \in MessagesIn(made), ts \in [Tabs -> TabsIn(made)] :
             /\ m = Head(tabs[t].feed) /\ m.delta \in DocsIn(made)
             /\ \A u \in Tabs \ {t} : ts[u] = tabs[u]
             /\ ts[t].doc = Joined(tabs[t].doc, m.delta) /\ ts[t].feed = Tail(tabs[t].feed)
             /\ ts[t].queue = tabs[t].queue /\ ts[t].unsaved = tabs[t].unsaved
             /\ ts[t].timer = tabs[t].timer /\ ts[t].subscribed = tabs[t].subscribed
             /\ m.kind = "sync" => ts[t].dropped = tabs[t].dropped \ m.delta.ins
             /\ m.kind # "sync" => ts[t].synced = tabs[t].synced /\ ts[t].dropped = tabs[t].dropped
             /\ Missing(tabs[t].doc, m.delta) \in DocsIn(made)
             /\ \/ /\ tabs' = ts
                   /\ m.kind = "sync" => Missing(tabs[t].doc, m.delta) = NoDoc
                \/ /\ m.kind = "sync"
                   /\ tabs' = Received(ts, t, Missing(tabs[t].doc, m.delta))
<1> DEFINE m == Head(tabs[t].feed)
           d == Joined(tabs[t].doc, m.delta)
           joined == [tabs EXCEPT ![t].feed = Tail(@), ![t].doc = Joined(@, m.delta)]
           back == Missing(tabs[t].doc, m.delta)
           x == [tabs[t] EXCEPT !.feed = Tail(tabs[t].feed), !.doc = d]
<1>1. tabs \in [Tabs -> TabsIn(made)] /\ tabs[t] \in TabsIn(made) /\ tabs[t].feed # <<>>
  BY DEF Core, Shaped, Delivers
<1>2. /\ tabs[t].feed \in Seq(MessagesIn(made)) /\ tabs[t].doc \in DocsIn(made)
      /\ tabs[t].dropped \in SUBSET Items
  BY <1>1, TabParts
<1>3. m \in MessagesIn(made) /\ Tail(tabs[t].feed) \in Seq(MessagesIn(made))
  BY <1>1, <1>2
<1>4. m.delta \in DocsIn(made)
  BY <1>3 DEF MessagesIn
<1> HIDE DEF m
<1>5. d \in DocsIn(made) /\ back \in DocsIn(made)
  BY <1>2, <1>4 DEF DocsIn, Joined, Missing
<1>6. joined = [tabs EXCEPT ![t] = x]
  BY <1>1
<1> HIDE DEF d, back
<1>7. /\ x \in TabsIn(made) /\ x.doc = d /\ x.feed = Tail(tabs[t].feed) /\ x.queue = tabs[t].queue
      /\ x.unsaved = tabs[t].unsaved /\ x.subscribed = tabs[t].subscribed
      /\ x.timer = tabs[t].timer
      /\ x.synced = tabs[t].synced /\ x.dropped = tabs[t].dropped
      /\ x.conflict = tabs[t].conflict
  BY <1>1, <1>3, <1>5 DEF TabsIn
<1> HIDE DEF x
<1>8. CASE m.kind = "sync"
  <2>1. PICK b : b = TRUE
    OBVIOUS
  <2> DEFINE y == [x EXCEPT !.synced = b, !.dropped = x.dropped \ m.delta.ins]
             ts == [tabs EXCEPT ![t] = y]
  <2>2. ts = [joined EXCEPT ![t].synced = TRUE, ![t].dropped = @ \ m.delta.ins]
    BY <1>1, <1>6, <2>1
  <2>3. b \in BOOLEAN /\ x.dropped \ m.delta.ins \in SUBSET Items
    BY <1>2, <1>7, <2>1
  <2>4. /\ y \in TabsIn(made) /\ y.doc = d /\ y.feed = Tail(tabs[t].feed) /\ y.queue = tabs[t].queue
        /\ y.unsaved = tabs[t].unsaved /\ y.subscribed = tabs[t].subscribed
        /\ y.timer = tabs[t].timer
        /\ y.dropped = tabs[t].dropped \ m.delta.ins
    BY <1>7, <2>3 DEF TabsIn
  <2>5. tabs' = IF back = NoDoc THEN ts ELSE Received(ts, t, back)
    BY <1>8, <2>2 DEF Delivers, m, back, joined
  <2> HIDE DEF y
  <2>6. ts \in [Tabs -> TabsIn(made)] /\ ts[t] = y /\ \A u \in Tabs \ {t} : ts[u] = tabs[u]
    BY <1>1, <2>4
  <2> HIDE DEF ts
  <2> USE <1>3, <2>6
  <2> WITNESS m \in MessagesIn(made), ts \in [Tabs -> TabsIn(made)]
  <2> QED
    BY <1>4, <1>5, <1>8, <2>4, <2>5, <2>6 DEF m, d, back
<1>9. CASE m.kind # "sync"
  <2>1. PICK b : b = IF m.kind = "update" THEN x.conflict ELSE m.kind = "conflict"
    OBVIOUS
  <2> DEFINE y == [x EXCEPT !.conflict = b]
             ts == [tabs EXCEPT ![t] = y]
  <2>2. b \in BOOLEAN
    BY <1>7, <2>1, TabParts
  <2>3. tabs' = [joined EXCEPT ![t].conflict = IF m.kind = "update" THEN @ ELSE m.kind = "conflict"]
    BY <1>9 DEF Delivers, m, joined
  <2>4. tabs' = ts
    BY <1>1, <1>6, <2>1, <2>3
  <2>5. /\ y \in TabsIn(made) /\ y.doc = d /\ y.feed = Tail(tabs[t].feed) /\ y.queue = tabs[t].queue
        /\ y.unsaved = tabs[t].unsaved /\ y.subscribed = tabs[t].subscribed
        /\ y.timer = tabs[t].timer
        /\ y.synced = tabs[t].synced /\ y.dropped = tabs[t].dropped
    BY <1>7, <2>2 DEF TabsIn
  <2> HIDE DEF y
  <2>6. ts \in [Tabs -> TabsIn(made)] /\ ts[t] = y /\ \A u \in Tabs \ {t} : ts[u] = tabs[u]
    BY <1>1, <2>5
  <2> HIDE DEF ts
  <2> USE <1>3, <2>6
  <2> WITNESS m \in MessagesIn(made), ts \in [Tabs -> TabsIn(made)]
  <2> QED
    BY <1>4, <1>5, <1>9, <2>4, <2>5, <2>6 DEF m, d, back
<1> QED
  BY <1>8, <1>9

LEMMA DeliversShaped ==
    ASSUME Core, NEW t \in Tabs, Delivers(t)
    PROVE  Shaped' /\ Placed'
<1>1. UNCHANGED <<row, file, lock, jobs, turn, made, rare, taken>>
  BY DEF Delivers
<1>2. PICK ts \in [Tabs -> TabsIn(made)], d \in DocsIn(made) : tabs' = ts \/ tabs' = Received(ts, t, d)
  BY DeliversTabs
<1>3. tabs' \in [Tabs -> TabsIn(made)]
  <2>1. made \in [Pieces -> Nat]
    BY DEF Core, Shaped
  <2>2. Received(ts, t, d) \in [Tabs -> TabsIn(made)]
    BY <2>1, ReceivedTabs
  <2> QED
    BY <1>2, <2>2
<1>4. jobs' \in [Jobs -> JobsIn(made')] /\ Placed'
  BY <1>1, JobsRest, SameMade
<1> QED
  BY <1>1, <1>3, <1>4 DEF Core, Shaped

\* A batch keeps the rest of the row.
LEMMA FoldedRow ==
    ASSUME NEW m, NEW r \in RowsIn(m), NEW b \in SUBSET DocsIn(m), NEW n,
           n = [r EXCEPT !.doc = Folded(r.doc, b)]
    PROVE  /\ n \in RowsIn(m) /\ n.doc = Folded(r.doc, b)
           /\ n.base = r.base /\ n.rev = r.rev /\ n.conflict = r.conflict
<1>1. Folded(r.doc, b) \in DocsIn(m)
  <2>1. r.doc \in DocsIn(m)
    BY DEF RowsIn
  <2>2. UNION {d.ins : d \in b} \subseteq Had(m) /\ UNION {d.del : d \in b} \subseteq Had(m)
    BY DEF DocsIn
  <2> QED
    BY <2>1, <2>2 DEF DocsIn, Folded
<1> QED
  BY <1>1 DEF RowsIn

LEMMA HasRow ==
    ASSUME Core, row # None
    PROVE  row \in RowsIn(made) /\ row.doc \in DocsIn(made) /\ row.base \in Texts /\ row.rev \in Nat
BY DEF Core, Shaped, RowsIn

\* A tab that has begun to take part shows that there is a row.
LEMMA TabHasRow ==
    ASSUME Core, NEW t \in Tabs,
           \/ tabs[t].queue # {}
           \/ tabs[t].timer # "none"
           \/ tabs[t].feed # <<>>
           \/ tabs[t].synced = TRUE
    PROVE  row # None
BY DEF Core, Blank, Unused

LEMMA JobHasRow ==
    ASSUME Core, NEW j \in Jobs, jobs[j].pc \notin {"idle", "create"}
    PROVE  row # None
BY DEF Core, Blank

LEMMA BatchBegins ==
    ASSUME Core, NEW t \in Tabs, BeginsPersist(t)
    PROVE  LET j == <<t, "persist">>
               next == [row EXCEPT !.doc = Folded(row.doc, tabs[t].queue)]
           IN  /\ j \in Jobs /\ lock \notin Jobs /\ lock' = j /\ row # None
               /\ Goes(j, Batched(tabs[t].queue, next))
               /\ next \in RowsIn(made) /\ tabs[t].queue \in SUBSET DocsIn(made)
<1>1. row # None
  BY TabHasRow DEF BeginsPersist
<1>2. tabs[t].queue \in SUBSET DocsIn(made)
  <2>1. tabs[t] \in TabsIn(made)
    BY DEF Core, Shaped
  <2> QED
    BY <2>1, TabParts
<1>3. <<t, "persist">> \in Jobs
  BY DEF Jobs
<1>4. [row EXCEPT !.doc = Folded(row.doc, tabs[t].queue)] \in RowsIn(made)
  BY <1>1, <1>2, HasRow, FoldedRow
<1>5. Goes(<<t, "persist">>,
           Batched(tabs[t].queue, [row EXCEPT !.doc = Folded(row.doc, tabs[t].queue)]))
  BY DEF BeginsPersist, Batched, Folded
<1> QED
  BY <1>1, <1>2, <1>3, <1>4, <1>5, Constants DEF BeginsPersist, Free

LEMMA BeginsPersistShaped ==
    ASSUME Core, NEW t \in Tabs, BeginsPersist(t)
    PROVE  Shaped' /\ Placed'
<1>1. UNCHANGED <<row, file, tabs, turn, made, rare, taken>>
  BY DEF BeginsPersist
<1>2. PICK j, n, b : /\ j = <<t, "persist">> /\ b = tabs[t].queue
                     /\ n = [row EXCEPT !.doc = Folded(row.doc, b)]
  OBVIOUS
<1>3. PICK x : x = Batched(b, n)
  OBVIOUS
<1>4. /\ j \in Jobs /\ lock \notin Jobs /\ lock' = j /\ row # None
      /\ Goes(j, x) /\ n \in RowsIn(made) /\ b \in SUBSET DocsIn(made)
      /\ j[1] \in Tabs /\ j[2] = "persist"
  BY <1>2, <1>3, BatchBegins
<1>5. /\ x \in JobsIn(made) /\ x.act = "persist" /\ x.pc = "save" /\ x.batch = b
      /\ x.next = n /\ x.say = <<>>
  BY <1>3, <1>4, BatchJob
<1>6. At(j, x, row', file')
  BY <1>1, <1>2, <1>4, <1>5 DEF At
<1>7. x \in JobsIn(made') /\ x.pc \in Locked /\ made' \in [Pieces -> Nat] /\ Had(made) \subseteq Had(made')
  BY <1>1, <1>5, SameMade DEF Locked
<1>8. jobs' \in [Jobs -> JobsIn(made')] /\ Placed'
  BY <1>4, <1>6, <1>7, JobsGo
<1> QED
  BY <1>1, <1>4, <1>8 DEF Core, Shaped

LEMMA TabTimer ==
    ASSUME NEW m, NEW x \in TabsIn(m), NEW v \in {"none", "set", "late"},
           NEW q \in SUBSET DocsIn(m), NEW u \in SUBSET Items
    PROVE  /\ [x EXCEPT !.timer = v] \in TabsIn(m)
           /\ [x EXCEPT !.queue = q, !.timer = v] \in TabsIn(m)
           /\ [x EXCEPT !.queue = q, !.unsaved = u] \in TabsIn(m)
           /\ [x EXCEPT !.dropped = u] \in TabsIn(m)
BY DEF TabsIn

\* What a job under the lock has read.
LEMMA LockedJob ==
    ASSUME Core, NEW j \in Jobs, jobs[j].pc \in Locked
    PROVE  /\ lock = j /\ jobs[j] \in JobsIn(made) /\ At(j, jobs[j], row, file)
           /\ jobs[j].pc # "create" => row # None
           /\ jobs[j].pc = "create" => row = None
BY JobHasRow DEF Core, Inv, Fits, Shaped, Placed, Locked

LEMMA SavesBatchRow ==
    ASSUME Core, NEW t \in Tabs, SavesBatch(t)
    PROVE  LET j == <<t, "persist">>
           IN  /\ j \in Jobs /\ lock = j /\ row # None /\ Goes(j, Idle) /\ lock' = None
               /\ jobs[j].batch \in SUBSET DocsIn(made)
               /\ row' \in RowsIn(made) /\ row'.doc = Folded(row.doc, jobs[j].batch)
               /\ row'.base = row.base /\ row'.rev = row.rev /\ row'.conflict = row.conflict
<1>1. PICK j : j = <<t, "persist">>
  OBVIOUS
<1>2. j \in Jobs /\ j[2] = "persist"
  BY <1>1 DEF Jobs
<1>3. jobs[j].pc = "save" /\ row' = jobs[j].next /\ Goes(j, Idle) /\ lock' = None
  BY <1>1 DEF SavesBatch
<1>4. lock = j /\ jobs[j] \in JobsIn(made) /\ At(j, jobs[j], row, file) /\ row # None
  BY <1>2, <1>3, LockedJob DEF Locked
<1>5. jobs[j].act = "persist"
  BY <1>2, <1>3 DEF Core, Inv, Fits
<1>6. jobs[j].next = [row EXCEPT !.doc = Folded(row.doc, jobs[j].batch)]
  BY <1>3, <1>4, <1>5 DEF At
<1>7. jobs[j].batch \in SUBSET DocsIn(made) /\ row \in RowsIn(made)
  BY <1>4, JobParts, HasRow
<1>8. /\ row' \in RowsIn(made) /\ row'.doc = Folded(row.doc, jobs[j].batch)
      /\ row'.base = row.base /\ row'.rev = row.rev /\ row'.conflict = row.conflict
  BY <1>3, <1>6, <1>7, FoldedRow
<1> QED
  BY <1>1, <1>2, <1>3, <1>4, <1>7, <1>8

LEMMA SavesBatchTabs ==
    ASSUME Core, NEW t \in Tabs, SavesBatch(t)
    PROVE  /\ tabs' \in [Tabs -> TabsIn(made)]
           /\ tabs' = [tabs EXCEPT ![t] =
                [tabs[t] EXCEPT !.queue = tabs[t].queue \ jobs[<<t, "persist">>].batch,
                                !.timer = Scheduled(tabs[t])]]
<1>1. tabs \in [Tabs -> TabsIn(made)] /\ tabs[t] \in TabsIn(made)
  BY DEF Core, Shaped
<1>2. PICK q, v : q = tabs[t].queue \ jobs[<<t, "persist">>].batch /\ v = Scheduled(tabs[t])
  OBVIOUS
<1>3. tabs' = [tabs EXCEPT ![t] = [tabs[t] EXCEPT !.queue = q, !.timer = v]]
  BY <1>1, <1>2 DEF SavesBatch
<1>4. q \in SUBSET DocsIn(made) /\ v \in {"none", "set", "late"}
  BY <1>1, <1>2, TabParts DEF Scheduled
<1>5. [tabs[t] EXCEPT !.queue = q, !.timer = v] \in TabsIn(made)
  BY <1>1, <1>4, TabTimer
<1> QED
  BY <1>1, <1>2, <1>3, <1>5

LEMMA SavesBatchShaped ==
    ASSUME Core, NEW t \in Tabs, SavesBatch(t)
    PROVE  Shaped' /\ Placed'
<1>1. UNCHANGED <<file, turn, made, rare, taken>>
  BY DEF SavesBatch
<1>2. PICK j : j = <<t, "persist">>
  OBVIOUS
<1>3. j \in Jobs /\ lock = j /\ Goes(j, Idle) /\ lock' = None /\ row' \in RowsIn(made)
  BY <1>2, SavesBatchRow
<1>4. jobs' \in [Jobs -> JobsIn(made')] /\ Placed'
  <2>1. lock' \notin Jobs
    BY <1>3, Constants
  <2>2. Idle \in JobsIn(made')
    BY IdleJob
  <2> QED
    BY <1>1, <1>3, <2>1, <2>2, SameMade, DoneCore
<1> QED
  BY <1>1, <1>3, <1>4, SavesBatchTabs DEF Core, Shaped

LEMMA BeginsAutosaveShaped ==
    ASSUME Core, NEW t \in Tabs, BeginsAutosave(t)
    PROVE  Shaped' /\ Placed'
<1>1. UNCHANGED <<row, file, turn, made, rare, taken>>
  BY DEF BeginsAutosave
<1>2. tabs' \in [Tabs -> TabsIn(made)]
  <2>1. tabs \in [Tabs -> TabsIn(made)]
    BY DEF Core, Shaped
  <2>2. tabs' = [tabs EXCEPT ![t] = [tabs[t] EXCEPT !.timer = "none"]]
    BY DEF BeginsAutosave
  <2>3. [tabs[t] EXCEPT !.timer = "none"] \in TabsIn(made)
    BY <2>1 DEF TabsIn
  <2> QED
    BY <2>1, <2>2, <2>3
<1>3. jobs' \in [Jobs -> JobsIn(made)] /\ Placed' /\ lock' \in Jobs \cup {None, Left}
  <2>1. CASE UNCHANGED <<lock, jobs>>
    BY <1>1, <2>1, JobsRest, SameMade DEF Core, Shaped
  <2>2. CASE Begins(<<t, "autosave">>, "autosave", "write")
    <3>1. PICK j : j = <<t, "autosave">>
      OBVIOUS
    <3>2. j \in Jobs /\ j[2] = "autosave"
      BY <3>1 DEF Jobs
    <3> QED
      BY <1>1, <2>2, <3>1, <3>2, BegunCore
  <2> QED
    BY <2>1, <2>2 DEF BeginsAutosave
<1> QED
  BY <1>1, <1>2, <1>3 DEF Core, Shaped

LEMMA ChoosesShaped ==
    ASSUME Core, NEW t \in Tabs, NEW act \in {"editor", "workspace"}, Chooses(t, act)
    PROVE  Shaped' /\ Placed'
<1>1. UNCHANGED <<row, file, tabs, turn, made, taken>> /\ Happens(act)
  BY DEF Chooses
<1>2. PICK j, pc : j = <<t, "request">> /\ pc = IF act = "editor" THEN "write" ELSE "save"
  OBVIOUS
<1>3. j \in Jobs /\ j[2] = "request" /\ Begins(j, act, pc)
  BY <1>2 DEF Jobs, Chooses
<1>4. jobs' \in [Jobs -> JobsIn(made)] /\ lock' \in Jobs /\ Placed'
  <2>1. CASE act = "editor"
    BY <1>1, <1>2, <1>3, <2>1, BegunCore
  <2>2. CASE act = "workspace"
    BY <1>1, <1>2, <1>3, <2>2, BegunCore
  <2> QED
    BY <2>1, <2>2
<1>5. rare' \subseteq Kinds
  BY <1>1, HappensTyped DEF Core, Kinds
<1> QED
  BY <1>1, <1>4, <1>5 DEF Core, Shaped

LEMMA BeginsReconcileShaped ==
    ASSUME Core, BeginsReconcile
    PROVE  Shaped' /\ Placed'
<1>1. UNCHANGED <<row, file, tabs, made, rare, taken>>
  BY DEF BeginsReconcile
<1>2. turn' \in [wrote : SUBSET Writes, told : BOOLEAN]
  BY DEF BeginsReconcile, Core, Shaped
<1>3. jobs' \in [Jobs -> JobsIn(made)] /\ Placed' /\ lock' \in Jobs \cup {None, Left}
  <2>1. CASE UNCHANGED <<lock, jobs>>
    BY <1>1, <2>1, JobsRest, SameMade DEF Core, Shaped
  <2>2. CASE Begins(<<Turn, "request">>, "turn", "save")
    <3>1. PICK j : j = <<Turn, "request">>
      OBVIOUS
    <3>2. j \in Jobs /\ j[2] = "request" /\ "turn" \in Reconciling
      BY <3>1 DEF Jobs, Reconciling
    <3> QED
      BY <1>1, <2>2, <3>1, <3>2, BegunCore
  <2> QED
    BY <2>1, <2>2 DEF BeginsReconcile
<1> QED
  BY <1>1, <1>2, <1>3 DEF Core, Shaped

LEMMA LockExpiresShaped ==
    ASSUME Core, LockExpires
    PROVE  Shaped' /\ Placed'
<1>1. UNCHANGED <<row, file, tabs, jobs, turn, made, rare, taken>> /\ lock' = None
  BY DEF LockExpires
<1>2. Placed'
  BY <1>1, Constants DEF Core, Placed
<1> QED
  BY <1>1, <1>2 DEF Core, Shaped

LEMMA AgentWritesShaped ==
    ASSUME Core, NEW p \in Writes, AgentWrites(p)
    PROVE  Shaped' /\ Placed'
<1>1. UNCHANGED <<row, lock, tabs, jobs, made, rare, taken>>
  BY DEF AgentWrites
<1>2. file.rev \in Nat /\ file.text \in Texts /\ file'.rev = file.rev + 1
  BY DEF AgentWrites, Core, Shaped, Files
<1>3. file' \in Files
  <2>1. Written(file.text, p) \in Texts
    BY <1>2 DEF Written, Texts
  <2> QED
    BY <1>2, <2>1 DEF AgentWrites, Files
<1>4. turn' \in [wrote : SUBSET Writes, told : BOOLEAN]
  BY DEF AgentWrites, Core, Shaped
<1>5. jobs' \in [Jobs -> JobsIn(made')] /\ Placed'
  BY <1>1, <1>2, JobsRest, SameMade
<1> QED
  BY <1>1, <1>3, <1>4, <1>5 DEF Core, Shaped

LEMMA TellsTabs ==
    ASSUME Core, NEW j \in Jobs, Tells(j)
    PROVE  /\ jobs[j] \in JobsIn(made) /\ jobs[j].say \in Seq(MessagesIn(made))
           /\ row # None /\ tabs \in [Tabs -> TabsIn(made)]
           /\ jobs[j].act = "subscribe" =>
                /\ jobs[j].next \in RowsIn(made)
                /\ Message("sync", jobs[j].next.doc) \in MessagesIn(made)
                /\ Append(jobs[j].say, Message("sync", jobs[j].next.doc)) \in Seq(MessagesIn(made))
           /\ tabs' \in [Tabs -> TabsIn(made)]
<1>1. /\ jobs[j] \in JobsIn(made) /\ tabs \in [Tabs -> TabsIn(made)] /\ made \in [Pieces -> Nat]
      /\ At(j, jobs[j], row, file) /\ jobs[j].pc = "tell"
  BY DEF Core, Shaped, Placed, Tells
<1>2. jobs[j].say \in Seq(MessagesIn(made)) /\ jobs[j].next \in RowsIn(made) \cup {None}
  BY <1>1, JobParts
<1>3. row # None
  BY <1>1, JobHasRow
<1>4. ASSUME jobs[j].act = "subscribe"
      PROVE  /\ jobs[j].next \in RowsIn(made)
             /\ Message("sync", jobs[j].next.doc) \in MessagesIn(made)
             /\ Append(jobs[j].say, Message("sync", jobs[j].next.doc)) \in Seq(MessagesIn(made))
  <2>1. jobs[j].next # None
    BY <1>1, <1>4 DEF At
  <2>2. jobs[j].next \in RowsIn(made) /\ jobs[j].next.doc \in DocsIn(made)
    BY <1>2, <2>1 DEF RowsIn
  <2> QED
    BY <1>2, <2>2, MessageTyped
<1>5. ASSUME NEW u \in Tabs
      PROVE  /\ Sent(tabs[u], jobs[j].say) \in TabsIn(made)
             /\ jobs[j].act = "subscribe" =>
                  Sent([tabs[u] EXCEPT !.subscribed = TRUE],
                       Append(jobs[j].say, Message("sync", jobs[j].next.doc))) \in TabsIn(made)
  <2>1. Sent(tabs[u], jobs[j].say) \in TabsIn(made)
    BY <1>1, <1>2, SentTab
  <2>2. [tabs[u] EXCEPT !.subscribed = TRUE] \in TabsIn(made)
    BY <1>1, TabFlags
  <2>3. ASSUME jobs[j].act = "subscribe"
        PROVE  Sent([tabs[u] EXCEPT !.subscribed = TRUE],
                    Append(jobs[j].say, Message("sync", jobs[j].next.doc))) \in TabsIn(made)
    <3>1. PICK x, s : /\ x = [tabs[u] EXCEPT !.subscribed = TRUE]
                      /\ s = Append(jobs[j].say, Message("sync", jobs[j].next.doc))
      OBVIOUS
    <3>2. x \in TabsIn(made) /\ s \in Seq(MessagesIn(made))
      BY <1>4, <2>2, <2>3, <3>1
    <3>3. Sent(x, s) \in TabsIn(made)
      BY <1>1, <3>2, SentTab
    <3> QED
      BY ONLY <3>1, <3>3
  <2> QED
    BY <2>1, <2>3
<1>6. tabs' \in [Tabs -> TabsIn(made)]
  BY <1>5 DEF Tells
<1> QED
  BY <1>1, <1>2, <1>3, <1>4, <1>6

LEMMA TellsShaped ==
    ASSUME Core, NEW j \in Jobs, Tells(j)
    PROVE  Shaped' /\ Placed'
<1>1. UNCHANGED <<row, file, lock, turn, made, rare, taken>> /\ Goes(j, Idle) /\ jobs[j].pc = "tell"
  BY DEF Tells
<1>2. lock # j
  BY <1>1 DEF Core, Placed, Locked
<1>3. jobs' \in [Jobs -> JobsIn(made')] /\ Placed'
  BY <1>1, <1>2, IdleJob, SameMade, DoneCore
<1> QED
  BY <1>1, <1>3, TellsTabs DEF Core, Shaped

LEMMA ErrsTabs ==
    ASSUME Core, NEW j \in Jobs, NEW l, Errs(j, l)
    PROVE  /\ tabs' \in [Tabs -> TabsIn(made)]
           /\ jobs[j] \in JobsIn(made) /\ jobs[j].say \in Seq(MessagesIn(made))
<1>1. made \in [Pieces -> Nat] /\ tabs \in [Tabs -> TabsIn(made)] /\ jobs[j] \in JobsIn(made)
  BY DEF Core, Shaped
<1>2. jobs[j].say \in Seq(MessagesIn(made))
  BY <1>1, JobParts
<1>3. ASSUME NEW t \in Tabs
      PROVE  /\ [tabs[t] EXCEPT !.queue = {},
                                !.unsaved = tabs[t].unsaved \cup UNION {d.ins : d \in tabs[t].queue}]
                  \in TabsIn(made)
             /\ [tabs[t] EXCEPT !.dropped = tabs[t].dropped \cup News(jobs[j].say)] \in TabsIn(made)
  <2>1. PICK q, u, n : /\ q = {} /\ u = tabs[t].unsaved \cup UNION {d.ins : d \in tabs[t].queue}
                       /\ n = tabs[t].dropped \cup News(jobs[j].say)
    OBVIOUS
  <2>2. tabs[t].unsaved \in SUBSET Items /\ tabs[t].dropped \in SUBSET Items
        /\ tabs[t].queue \in SUBSET DocsIn(made)
    BY <1>1, TabParts
  <2>3. q \in SUBSET DocsIn(made) /\ u \in SUBSET Items
    <3>1. \A d \in tabs[t].queue : d.ins \subseteq Items
      BY <1>1, <2>2, RowsKnown DEF Docs
    <3> QED
      BY <2>1, <2>2, <3>1
  <2>4. n \in SUBSET Items
    BY <1>1, <1>2, <2>1, <2>2, NewsTyped
  <2>5. [tabs[t] EXCEPT !.queue = q, !.unsaved = u] \in TabsIn(made)
    BY <1>1, <2>3, TabTimer
  <2>6. [tabs[t] EXCEPT !.dropped = n] \in TabsIn(made)
    BY <1>1, <2>4, TabTimer
  <2> QED
    BY ONLY <2>1, <2>5, <2>6
<1>4. tabs' \in [Tabs -> TabsIn(made)]
  <2>1. tabs' = [t \in Tabs |->
           IF jobs[j].act = "persist" /\ t = j[1]
           THEN [tabs[t] EXCEPT !.queue = {},
                                !.unsaved = tabs[t].unsaved \cup UNION {d.ins : d \in tabs[t].queue}]
           ELSE [tabs[t] EXCEPT !.dropped = tabs[t].dropped \cup News(jobs[j].say)]]
    BY DEF Errs
  <2> QED
    BY ONLY <1>3, <2>1
<1> QED
  BY <1>1, <1>2, <1>4

LEMMA ErrsShaped ==
    ASSUME Core, NEW j \in Jobs, NEW l \in {lock, None, Left}, lock = j => l # j, Errs(j, l),
           rare' \subseteq Kinds
    PROVE  Shaped' /\ Placed'
<1>1. UNCHANGED <<row, file, made, taken>> /\ Goes(j, Idle) /\ lock' = l
  BY DEF Errs
<1>2. turn' \in [wrote : SUBSET Writes, told : BOOLEAN]
  <2>1. turn \in [wrote : SUBSET Writes, told : BOOLEAN]
    BY DEF Core, Shaped
  <2>2. turn' = turn \/ \E told \in BOOLEAN : turn' = [turn EXCEPT !.told = told]
    BY DEF Errs
  <2> QED
    BY <2>1, <2>2
<1>3. lock' \notin Jobs \/ (lock' = lock /\ lock # j)
  BY <1>1, Constants
<1>4. jobs' \in [Jobs -> JobsIn(made')] /\ Placed'
  BY <1>1, <1>3, IdleJob, SameMade, DoneCore
<1>5. lock' \in Jobs \cup {None, Left}
  BY <1>1 DEF Core, Shaped
<1> QED
  BY <1>1, <1>2, <1>4, <1>5, ErrsTabs DEF Core, Shaped

LEMMA FailsShaped ==
    ASSUME Core, NEW j \in Jobs, Fails(j)
    PROVE  Shaped' /\ Placed'
<1>1. Errs(j, Unlocked(j))
  BY DEF Fails
<1>2. rare' \subseteq Kinds
  BY HappensTyped DEF Fails, Core, Kinds
<1>3. Unlocked(j) \in {lock, None, Left} /\ (lock = j => Unlocked(j) # j)
  BY Constants DEF Unlocked
<1> QED
  BY <1>1, <1>2, <1>3, ErrsShaped

LEMMA IsCutShaped ==
    ASSUME Core, NEW t \in Tabs, IsCut(t)
    PROVE  Shaped' /\ Placed'
<1>1. rare' \subseteq Kinds
  BY HappensTyped DEF IsCut, Core, Kinds
<1>2. ASSUME NEW kind \in {"persist", "request"},
             Errs(<<t, kind>>, IF lock = <<t, kind>> THEN Left ELSE lock)
      PROVE  Shaped' /\ Placed'
  <2>1. PICK j, l : j = <<t, kind>> /\ l = IF lock = j THEN Left ELSE lock
    OBVIOUS
  <2>2. j \in Jobs /\ Errs(j, l)
    BY <1>2, <2>1 DEF Jobs
  <2>3. l \in {lock, None, Left} /\ (lock = j => l # j)
    BY <2>1, <2>2, Constants
  <2> QED
    BY <1>1, <2>2, <2>3, ErrsShaped
<1>3. CASE /\ tabs' = [tabs EXCEPT ![t].timer = "none"]
           /\ UNCHANGED <<row, file, lock, jobs, turn, made, taken>>
  <2>1. tabs \in [Tabs -> TabsIn(made)]
    BY DEF Core, Shaped
  <2>2. tabs' = [tabs EXCEPT ![t] = [tabs[t] EXCEPT !.timer = "none"]]
    BY <1>3
  <2>3. [tabs[t] EXCEPT !.timer = "none"] \in TabsIn(made)
    BY <2>1 DEF TabsIn
  <2>4. tabs' \in [Tabs -> TabsIn(made)]
    BY <2>1, <2>2, <2>3
  <2>5. jobs' \in [Jobs -> JobsIn(made')] /\ Placed'
    BY <1>3, JobsRest, SameMade
  <2> QED
    BY <1>1, <1>3, <2>4, <2>5 DEF Core, Shaped
<1> QED
  BY <1>2, <1>3 DEF IsCut
-----------------------------------------------------------------------------
(* The steps of a job that holds the lock *)

LEMMA FreshTyped ==
    ASSUME NEW m, NEW doc \in DocsIn(m), NEW seen \in Files, NEW r, r = Fresh(doc, seen)
    PROVE  /\ r \in RowsIn(m) /\ r.doc = doc /\ r.base = seen.text /\ r.rev = seen.rev
           /\ r.conflict = FALSE
BY DEF Fresh, RowsIn, Files

LEMMA DeltaTyped ==
    ASSUME NEW m, NEW n \in [Pieces -> Nat], NEW new \in DocsIn(n), NEW old
    PROVE  /\ Delta(new, old) \in DocsIn(n) /\ Delta(new, old).ins = new.ins \ old.ins
           /\ Message("reconciled", Delta(new, old)) \in MessagesIn(n)
           /\ Message("reconciled", Delta(new, old)).delta = Delta(new, old)
           /\ <<Message("reconciled", Delta(new, old))>> \in Seq(MessagesIn(n))
<1>1. Delta(new, old) \in DocsIn(n) /\ Delta(new, old).ins = new.ins \ old.ins
  BY DEF Delta, DocsIn
<1> QED
  BY <1>1, MessageTyped

LEMMA CreatesRow ==
    ASSUME Core, NEW j \in Jobs, Creates(j)
    PROVE  LET seen == jobs[j].seen
               doc == ReplaceContents(NoDoc, seen.text, made)
           IN  /\ row = None /\ lock = j /\ jobs[j].act = "subscribe" /\ jobs[j].say = <<>>
               /\ seen \in Files /\ Seen(jobs[j], file)
               /\ doc \in DocsIn(made') /\ TextOf(doc) = seen.text
               /\ doc.ins = Had(made') \ Had(made)
               /\ made' \in [Pieces -> Nat] /\ Had(made) \subseteq Had(made')
               /\ \A p \in Pieces : made'[p] = made[p] + seen.text[p]
               /\ row' = Fresh(doc, seen) /\ row' \in RowsIn(made')
<1>1. PICK seen, doc : seen = jobs[j].seen /\ doc = ReplaceContents(NoDoc, seen.text, made)
  OBVIOUS
<1>2. /\ jobs[j].pc = "create" /\ row' = Fresh(doc, seen) /\ made' = MadeBy(NoText, seen.text, made)
  BY <1>1 DEF Creates
<1>3. /\ lock = j /\ row = None /\ jobs[j].act = "subscribe" /\ jobs[j].say = <<>>
      /\ Seen(jobs[j], file) /\ seen \in Files
  BY <1>1, <1>2, LockedJob DEF Locked, At, Seen
<1>4. /\ made \in [Pieces -> Nat] /\ seen.text \in Texts /\ NoText \in Texts
      /\ TextOf(NoDoc) = NoText /\ NoDoc \in DocsIn(made)
  BY <1>3, TextOfNone, RowsKnown DEF Core, Shaped, Files
<1>5. Apt(NoDoc, NoText, seen.text) /\ TextOf(doc) = seen.text
  BY <1>1, <1>4, Replaced
<1>6. doc = Brought(NoDoc, NoText, seen.text, made)
  BY <1>1, <1>4 DEF ReplaceContents
<1>7. doc \in DocsIn(made') /\ doc.ins \ NoDoc.ins = Had(made') \ Had(made)
  BY <1>2, <1>4, <1>5, <1>6, BroughtDoc
<1>8. /\ made' \in [Pieces -> Nat] /\ Had(made) \subseteq Had(made')
      /\ \A p \in Pieces : made'[p] = made[p] + Gained(NoText, seen.text, p)
  BY <1>2, <1>4, MadeGrows
<1>9. \A p \in Pieces : made'[p] = made[p] + seen.text[p]
  <2> SUFFICES ASSUME NEW p \in Pieces PROVE Gained(NoText, seen.text, p) = seen.text[p]
    BY <1>8
  <2>1. seen.text[p] \in Nat /\ NoText[p] = 0
    BY <1>4 DEF Texts, NoText
  <2> QED
    BY <2>1 DEF Gained
<1>10. doc.ins = Had(made') \ Had(made)
  BY <1>7 DEF NoDoc
<1>11. row' \in RowsIn(made')
  BY <1>2, <1>3, <1>7, FreshTyped
<1> QED
  BY <1>1, <1>2, <1>3, <1>5, <1>7, <1>8, <1>9, <1>10, <1>11

LEMMA CreatesShaped ==
    ASSUME Core, NEW j \in Jobs, Creates(j)
    PROVE  Shaped' /\ Placed'
<1>1. UNCHANGED <<file, lock, tabs, turn, rare, taken>> /\ jobs[j].pc = "create"
  BY DEF Creates
<1>2. /\ lock = j /\ jobs[j].act = "subscribe" /\ jobs[j].say = <<>>
      /\ made' \in [Pieces -> Nat] /\ Had(made) \subseteq Had(made') /\ row' \in RowsIn(made')
  BY CreatesRow
<1>3. /\ made \in [Pieces -> Nat] /\ jobs[j] \in JobsIn(made) /\ At(j, jobs[j], row, file)
      /\ file \in Files
  BY DEF Core, Shaped, Placed
<1>4. PICK x : x = [jobs[j] EXCEPT !.pc = "save", !.snap = row', !.seen = file]
  OBVIOUS
<1>5. jobs[j] \in JobsIn(made') /\ jobs[j].say \in Seq(MessagesIn(made'))
  BY <1>2, <1>3, MoreIn, JobParts
<1>6. x \in JobsIn(made') /\ x.act = "subscribe" /\ x.say = <<>> /\ x.pc = "save"
      /\ x.snap = row' /\ x.seen = file
  <2>1. "save" \in Locked \cup {"idle", "tell"} /\ row' \in RowsIn(made') \cup {None}
        /\ file \in Files \cup {None}
    BY <1>2, <1>3 DEF Locked
  <2> QED
    BY <1>2, <1>4, <1>5, <2>1 DEF JobsIn
<1>7. Seen(x, file)
  BY <1>6, SeenNow DEF Core
<1>8. At(j, x, row', file')
  BY <1>1, <1>2, <1>3, <1>6, <1>7 DEF At, Reconciling
<1>9. lock' \in Jobs => lock' = j /\ x.pc \in Locked
  BY <1>1, <1>2, <1>6 DEF Locked
<1>10. jobs' \in [Jobs -> JobsIn(made')] /\ Placed'
  BY <1>2, <1>4, <1>6, <1>8, <1>9, JobsGo DEF Creates
<1>11. tabs' \in [Tabs -> TabsIn(made')]
  BY <1>1, <1>2, <1>3, MoreIn DEF Core, Shaped
<1> QED
  BY <1>1, <1>2, <1>10, <1>11 DEF Core, Shaped

\* What a job that is about to save has read.
LEMMA SavingJob ==
    ASSUME Core, NEW j \in Jobs, jobs[j].pc = "save", jobs[j].act # "persist"
    PROVE  /\ lock = j /\ row # None /\ jobs[j].snap = row /\ jobs[j].say = <<>>
           /\ jobs[j].seen \in Files /\ Seen(jobs[j], file) /\ jobs[j] \in JobsIn(made)
           /\ At(j, jobs[j], row, file) /\ j[2] # "persist"
           /\ jobs[j].act = "subscribe" => j[1] \in Tabs /\ j[2] = "request"
           /\ made \in [Pieces -> Nat] /\ row \in RowsIn(made) /\ row.doc \in DocsIn(made)
           /\ row.base \in Texts /\ jobs[j].seen.text \in Texts /\ jobs[j].seen.rev \in Nat
<1>1. /\ lock = j /\ row # None /\ jobs[j] \in JobsIn(made) /\ At(j, jobs[j], row, file)
  BY LockedJob DEF Locked
<1>2. /\ jobs[j].snap = row /\ jobs[j].say = <<>> /\ Seen(jobs[j], file) /\ j[2] # "persist"
      /\ jobs[j].act = "subscribe" => j[1] \in Tabs /\ j[2] = "request"
  BY <1>1 DEF At, Core, Inv, Fits
<1>3. jobs[j].seen \in Files /\ jobs[j].seen.text \in Texts /\ jobs[j].seen.rev \in Nat
  BY <1>2 DEF Seen, Files
<1> QED
  BY <1>1, <1>2, <1>3, HasRow DEF Core, Shaped

\* How a reconciling job can end: it leaves the row, marks it, or merges.
Leaves(j) ==
    /\ row' = row /\ made' = made /\ lock' = None
    /\ row.conflict \/ jobs[j].seen.rev = row.rev
    /\ \E s : /\ s = <<>> \/ s = <<Message("conflict", NoDoc)>>
              /\ Goes(j, Ending(jobs[j].act, row, s))

\* How a reconcile may end: it marks a conflict, or merges and goes on to write or tell.
Marks(j) ==
    /\ row' = [row EXCEPT !.conflict = TRUE] /\ made' = made /\ lock' = None
    /\ Goes(j, Ending(jobs[j].act, row, <<Message("conflict", NoDoc)>>))

Merged(j) == Brought(row.doc, row.base, jobs[j].seen.text, made)

Merges(j) ==
    /\ row.conflict = FALSE
    /\ TextOf(row.doc) = row.base \/ ~Collide(row.base, TextOf(row.doc), jobs[j].seen.text)
    /\ row' = Fresh(Merged(j), jobs[j].seen)
    /\ made' = MadeBy(row.base, jobs[j].seen.text, made)
    /\ \/ /\ TextOf(row.doc) = row.base \/ TextOf(Merged(j)) = jobs[j].seen.text
          /\ lock' = None
          /\ Goes(j, Ending(jobs[j].act, row', <<Message("reconciled", Delta(Merged(j), row.doc))>>))
       \/ /\ lock' = lock
          /\ Goes(j, [jobs[j] EXCEPT !.pc = "write", !.snap = row', !.next = row',
                        !.say = <<Message("reconciled", Delta(Merged(j), row.doc))>>])

LEMMA ReconcilesHow ==
    ASSUME Core, NEW j \in Jobs, Reconciles(j)
    PROVE  Leaves(j) \/ Marks(j) \/ Merges(j)
<1>1. jobs[j].pc = "save" /\ jobs[j].act \in Reconciling /\ jobs[j].act # "persist"
  BY DEF Reconciles, Reconciling
<1>2. jobs[j].snap = row /\ row.conflict \in BOOLEAN
  BY <1>1, SavingJob DEF RowsIn
<1> DEFINE seen == jobs[j].seen
           ours == TextOf(row.doc)
           clash == ours # row.base /\ Collide(row.base, ours, seen.text)
           doc == IF ours = row.base THEN ReplaceContents(row.doc, seen.text, made)
                  ELSE Brought(row.doc, row.base, seen.text, made)
<1>3. doc = Merged(j)
  BY DEF Merged, ReplaceContents
<1> DEFINE news == <<Message("reconciled", Delta(doc, row.doc))>>
<1>4. \/ /\ row.conflict
         /\ lock' = None /\ Goes(j, Ending(jobs[j].act, row, <<Message("conflict", NoDoc)>>))
         /\ UNCHANGED <<row, made>>
      \/ /\ seen.rev = row.rev
         /\ lock' = None /\ Goes(j, Ending(jobs[j].act, row, <<>>))
         /\ UNCHANGED <<row, made>>
      \/ /\ row' = [row EXCEPT !.conflict = TRUE]
         /\ lock' = None /\ Goes(j, Ending(jobs[j].act, row, <<Message("conflict", NoDoc)>>))
         /\ UNCHANGED made
      \/ /\ ~row.conflict /\ ~clash
         /\ row' = Fresh(doc, seen)
         /\ made' = MadeBy(IF ours = row.base THEN ours ELSE row.base, seen.text, made)
         /\ \/ /\ ours = row.base \/ TextOf(doc) = seen.text
               /\ lock' = None /\ Goes(j, Ending(jobs[j].act, row', news))
            \/ /\ Goes(j, [jobs[j] EXCEPT !.pc = "write", !.snap = row', !.next = row', !.say = news])
               /\ UNCHANGED lock
  BY <1>2, Zenon DEF Reconciles, Ending
<1> HIDE DEF doc
<1>5. MadeBy(IF ours = row.base THEN ours ELSE row.base, seen.text, made) = MadeBy(row.base, seen.text, made)
  OBVIOUS
<1>6. CASE row.conflict /\ UNCHANGED <<row, made>> /\ lock' = None
             /\ Goes(j, Ending(jobs[j].act, row, <<Message("conflict", NoDoc)>>))
  BY <1>6 DEF Leaves
<1>7. CASE seen.rev = row.rev /\ UNCHANGED <<row, made>> /\ lock' = None
             /\ Goes(j, Ending(jobs[j].act, row, <<>>))
  BY <1>7 DEF Leaves
<1>8. CASE row' = [row EXCEPT !.conflict = TRUE] /\ UNCHANGED made /\ lock' = None
             /\ Goes(j, Ending(jobs[j].act, row, <<Message("conflict", NoDoc)>>))
  BY <1>8 DEF Marks
<1>9. CASE /\ ~row.conflict /\ ~clash
           /\ row' = Fresh(doc, seen)
           /\ made' = MadeBy(IF ours = row.base THEN ours ELSE row.base, seen.text, made)
           /\ \/ /\ ours = row.base \/ TextOf(doc) = seen.text
                 /\ lock' = None /\ Goes(j, Ending(jobs[j].act, row', news))
              \/ /\ Goes(j, [jobs[j] EXCEPT !.pc = "write", !.snap = row', !.next = row', !.say = news])
                 /\ UNCHANGED lock
  <2>1. row.conflict = FALSE
    BY <1>2, <1>9
  <2> QED
    BY <1>3, <1>5, <1>9, <2>1, Zenon DEF Merges
<1> QED
  BY <1>4, <1>6, <1>7, <1>8, <1>9

\* What a merge makes of the document.
LEMMA MergesDoc ==
    ASSUME Core, NEW j \in Jobs, jobs[j].pc = "save", jobs[j].act \in Reconciling, Merges(j)
    PROVE  /\ made' \in [Pieces -> Nat] /\ Had(made) \subseteq Had(made')
           /\ Merged(j) \in DocsIn(made') /\ row' \in RowsIn(made')
           /\ row'.doc = Merged(j) /\ row'.base = jobs[j].seen.text /\ row'.rev = jobs[j].seen.rev
           /\ row'.conflict = FALSE
           /\ row.doc.ins \subseteq Merged(j).ins /\ row.doc.del \subseteq Merged(j).del
           /\ Merged(j).ins \ row.doc.ins = Had(made') \ Had(made)
           /\ \A p \in Pieces :
                /\ TextOf(Merged(j))[p] = TextOf(row.doc)[p] + jobs[j].seen.text[p] - row.base[p]
                /\ made'[p] = made[p] + Gained(row.base, jobs[j].seen.text, p)
           /\ <<Message("reconciled", Delta(Merged(j), row.doc))>> \in Seq(MessagesIn(made'))
<1>0. jobs[j].act # "persist"
  BY DEF Reconciling
<1>1. /\ made \in [Pieces -> Nat] /\ row.doc \in DocsIn(made) /\ row.base \in Texts
      /\ jobs[j].seen \in Files /\ jobs[j].seen.text \in Texts
  BY <1>0, SavingJob
<1>2. Apt(row.doc, row.base, jobs[j].seen.text)
  <2>1. CASE TextOf(row.doc) = row.base
    BY <1>1, <2>1, Replaced
  <2>2. CASE ~Collide(row.base, TextOf(row.doc), jobs[j].seen.text)
    BY <1>1, <2>2, ApartApt
  <2> QED
    BY <2>1, <2>2 DEF Merges
<1>3. made' = MadeBy(row.base, jobs[j].seen.text, made)
  BY DEF Merges
<1>4. /\ made' \in [Pieces -> Nat] /\ Had(made) \subseteq Had(made')
      /\ \A p \in Pieces : made'[p] = made[p] + Gained(row.base, jobs[j].seen.text, p)
  BY <1>1, <1>3, MadeGrows
<1>5. /\ Merged(j) \in DocsIn(made')
      /\ row.doc.ins \subseteq Merged(j).ins /\ row.doc.del \subseteq Merged(j).del
      /\ Merged(j).ins \ row.doc.ins = Had(made') \ Had(made)
  BY <1>1, <1>2, <1>3, BroughtDoc DEF Merged
<1>6. \A p \in Pieces :
        TextOf(Merged(j))[p] = TextOf(row.doc)[p] + jobs[j].seen.text[p] - row.base[p]
  BY <1>1, <1>2, BroughtText DEF Merged
<1>7. /\ row' \in RowsIn(made') /\ row'.doc = Merged(j) /\ row'.base = jobs[j].seen.text
      /\ row'.rev = jobs[j].seen.rev /\ row'.conflict = FALSE
  <2>1. row' = Fresh(Merged(j), jobs[j].seen)
    BY DEF Merges
  <2>2. PICK d, f : d = Merged(j) /\ f = jobs[j].seen
    OBVIOUS
  <2>3. d \in DocsIn(made')
    BY <1>5, <2>2
  <2>4. f \in Files
    BY <1>1, <2>2
  <2>5. PICK r : r = Fresh(d, f)
    OBVIOUS
  <2>6. r \in RowsIn(made') /\ r.doc = d /\ r.base = f.text /\ r.rev = f.rev /\ r.conflict = FALSE
    <3>1. r \in RowsIn(made')
      BY <2>3, <2>4, <2>5, FreshTyped
    <3>2. r.doc = d /\ r.base = f.text /\ r.rev = f.rev /\ r.conflict = FALSE
      BY <2>5 DEF Fresh
    <3> QED
      BY <3>1, <3>2
  <2> QED
    BY ONLY <2>1, <2>2, <2>5, <2>6
<1>8. <<Message("reconciled", Delta(Merged(j), row.doc))>> \in Seq(MessagesIn(made'))
  BY <1>4, <1>5, DeltaTyped
<1> QED
  BY <1>4, <1>5, <1>6, <1>7, <1>8

LEMMA MarkedRow ==
    ASSUME NEW m, NEW r \in RowsIn(m), NEW c \in BOOLEAN
    PROVE  /\ [r EXCEPT !.conflict = c] \in RowsIn(m)
           /\ [r EXCEPT !.conflict = c].conflict = c
           /\ [r EXCEPT !.conflict = c].doc = r.doc /\ [r EXCEPT !.conflict = c].base = r.base
           /\ [r EXCEPT !.conflict = c].rev = r.rev
BY DEF RowsIn

\* A job that ends with something to tell.
LEMMA EndsCore ==
    ASSUME Core, NEW j \in Jobs, jobs[j].pc = "save", jobs[j].act \in {"workspace"} \cup Reconciling,
           made' \in [Pieces -> Nat], Had(made) \subseteq Had(made'), row' \in RowsIn(made'),
           NEW r \in RowsIn(made') \cup {None}, jobs[j].act = "subscribe" => r # None,
           NEW s \in Seq(MessagesIn(made')),
           Goes(j, Ending(jobs[j].act, r, s)), lock' = None
    PROVE  jobs' \in [Jobs -> JobsIn(made')] /\ Placed'
<1>1. jobs[j].act # "persist" /\ jobs[j].act \in Acts
  BY DEF Reconciling, Acts
<1>2. /\ lock = j /\ j[2] # "persist"
      /\ jobs[j].act = "subscribe" => j[1] \in Tabs /\ j[2] = "request"
  BY <1>1, SavingJob
<1>3. PICK a : a = jobs[j].act
  OBVIOUS
<1>4. PICK x : x = Ending(a, r, s)
  OBVIOUS
<1>5. x \in JobsIn(made') /\ x.act = a /\ x.pc = "tell" /\ x.next = r
  <2>1. a \in Acts
    BY <1>1, <1>3
  <2>2. x \in JobsIn(made')
    BY <1>4, <2>1, EndingJob
  <2>3. x.act = a /\ x.pc = "tell" /\ x.next = r
    BY <1>4 DEF Ending, Idle
  <2> QED
    BY <2>2, <2>3
<1>6. lock' \notin Jobs /\ Goes(j, x)
  BY <1>3, <1>4, Constants
<1>7. a \in {"autosave", "editor", "workspace"} \cup Reconciling
  BY <1>3
<1>8. a = "subscribe" => j[1] \in Tabs /\ j[2] = "request" /\ r # None
  BY <1>2, <1>3
<1>9. \/ x = Idle
      \/ /\ x.pc = "tell" /\ x.act \in {"autosave", "editor", "workspace"} \cup Reconciling
         /\ j[2] # "persist"
         /\ x.act = "subscribe" => j[1] \in Tabs /\ j[2] = "request" /\ x.next # None
  BY <1>2, <1>5, <1>7, <1>8
<1> QED
  BY <1>2, <1>5, <1>6, <1>9, DoneCore

LEMMA ConflictTyped ==
    ASSUME NEW m \in [Pieces -> Nat]
    PROVE  /\ Message("conflict", NoDoc) \in MessagesIn(m)
           /\ <<Message("conflict", NoDoc)>> \in Seq(MessagesIn(m))
           /\ Message("reconciled", NoDoc) \in MessagesIn(m)
           /\ Message("conflict", NoDoc).delta = NoDoc /\ Message("reconciled", NoDoc).delta = NoDoc
BY RowsKnown, MessageTyped

LEMMA ReconcilesShaped ==
    ASSUME Core, NEW j \in Jobs, Reconciles(j)
    PROVE  Shaped' /\ Placed'
<1>1. /\ jobs[j].pc = "save" /\ jobs[j].act \in Reconciling /\ jobs[j].act # "persist"
      /\ UNCHANGED <<file, tabs, turn, rare, taken>>
  BY DEF Reconciles, Reconciling
<1>2. /\ made \in [Pieces -> Nat] /\ row \in RowsIn(made) /\ row # None
  BY <1>1, SavingJob
<1>3. /\ made' \in [Pieces -> Nat] /\ Had(made) \subseteq Had(made') /\ row' \in RowsIn(made')
      /\ jobs' \in [Jobs -> JobsIn(made')] /\ Placed' /\ lock' \in Jobs \cup {None}
  <2>1. CASE Leaves(j)
    <3>1. PICK s : /\ s = <<>> \/ s = <<Message("conflict", NoDoc)>>
                   /\ Goes(j, Ending(jobs[j].act, row, s))
      BY <2>1 DEF Leaves
    <3>2. row' = row /\ made' = made /\ lock' = None
      BY <2>1 DEF Leaves
    <3>3. s \in Seq(MessagesIn(made))
      <4>1. CASE s = <<>>
        BY <4>1
      <4>2. CASE s = <<Message("conflict", NoDoc)>>
        BY <1>2, <4>2, ConflictTyped
      <4> QED
        BY <3>1, <4>1, <4>2
    <3>4. jobs' \in [Jobs -> JobsIn(made')] /\ Placed'
      <4>1. row \in RowsIn(made') \cup {None} /\ s \in Seq(MessagesIn(made'))
            /\ made' \in [Pieces -> Nat] /\ Had(made) \subseteq Had(made')
            /\ row' \in RowsIn(made')
        BY <1>2, <3>2, <3>3
      <4> QED
        BY <1>1, <1>2, <3>1, <3>2, <4>1, EndsCore
    <3> QED
      BY <1>2, <3>2, <3>4
  <2>2. CASE Marks(j)
    <3>1. PICK s : s = <<Message("conflict", NoDoc)>>
      OBVIOUS
    <3>2. /\ row' = [row EXCEPT !.conflict = TRUE] /\ made' = made /\ lock' = None
          /\ Goes(j, Ending(jobs[j].act, row, s))
      BY <2>2, <3>1 DEF Marks
    <3>3. row' \in RowsIn(made)
      BY <1>2, <3>2, MarkedRow
    <3>4. jobs' \in [Jobs -> JobsIn(made')] /\ Placed'
      <4>1. row \in RowsIn(made') \cup {None} /\ s \in Seq(MessagesIn(made'))
            /\ made' \in [Pieces -> Nat] /\ Had(made) \subseteq Had(made')
            /\ row' \in RowsIn(made')
        BY <1>2, <3>1, <3>2, <3>3, ConflictTyped
      <4> QED
        BY <1>1, <1>2, <3>2, <4>1, EndsCore
    <3> QED
      BY <1>2, <3>2, <3>3, <3>4
  <2>3. CASE Merges(j)
    <3>1. PICK s : s = <<Message("reconciled", Delta(Merged(j), row.doc))>>
      OBVIOUS
    <3>2. /\ made' \in [Pieces -> Nat] /\ Had(made) \subseteq Had(made') /\ row' \in RowsIn(made')
          /\ s \in Seq(MessagesIn(made'))
      BY <1>1, <2>3, <3>1, MergesDoc
    <3>3. row' # None
      BY <3>2, RowsKnown
    <3>4. CASE lock' = None /\ Goes(j, Ending(jobs[j].act, row', s))
      BY <1>1, <3>2, <3>3, <3>4, EndsCore
    <3>5. CASE /\ lock' = lock
               /\ Goes(j, [jobs[j] EXCEPT !.pc = "write", !.snap = row', !.next = row', !.say = s])
      <4>1. PICK x : x = [jobs[j] EXCEPT !.pc = "write", !.snap = row', !.next = row', !.say = s]
        OBVIOUS
      <4>2. /\ jobs[j] \in JobsIn(made') /\ lock = j /\ j[2] # "persist"
            /\ jobs[j].act = "subscribe" => j[1] \in Tabs /\ j[2] = "request"
        BY <1>1, <1>2, <3>2, SavingJob, MoreIn
      <4>3. /\ x \in JobsIn(made') /\ x.pc = "write" /\ x.act = jobs[j].act /\ x.snap = row'
            /\ x.next = row'
        <5>1. "write" \in Locked \cup {"idle", "tell"} /\ row' \in RowsIn(made') \cup {None}
          BY <3>2 DEF Locked
        <5> QED
          BY <3>2, <4>1, <4>2, <5>1 DEF JobsIn
      <4>4. At(j, x, row', file')
        BY <1>1, <3>3, <4>2, <4>3 DEF At, WillWrite, Reconciling
      <4>5. lock' \in Jobs => lock' = j /\ x.pc \in Locked
        BY <3>5, <4>2, <4>3 DEF Locked
      <4>6. Goes(j, x)
        BY <3>5, <4>1
      <4>7. jobs' \in [Jobs -> JobsIn(made')] /\ Placed'
        BY <3>2, <4>2, <4>3, <4>4, <4>5, <4>6, JobsGo
      <4> QED
        BY <3>2, <3>5, <4>2, <4>7
    <3> QED
      BY <2>3, <3>1, <3>2, <3>4, <3>5 DEF Merges
  <2> QED
    BY <2>1, <2>2, <2>3, ReconcilesHow
<1>4. tabs' \in [Tabs -> TabsIn(made')]
  BY <1>1, <1>2, <1>3, MoreIn DEF Core, Shaped
<1> QED
  BY <1>1, <1>3, <1>4 DEF Core, Shaped

LEMMA TakesFileRow ==
    ASSUME Core, NEW j \in Jobs, TakesFile(j)
    PROVE  LET seen == jobs[j].seen
               doc == ReplaceContents(row.doc, seen.text, made)
           IN  /\ jobs[j].pc = "save" /\ jobs[j].act = "workspace"
               /\ lock = j /\ row # None /\ seen \in Files /\ Seen(jobs[j], file)
               /\ doc \in DocsIn(made') /\ TextOf(doc) = seen.text
               /\ row.doc.ins \subseteq doc.ins /\ row.doc.del \subseteq doc.del
               /\ doc.ins \ row.doc.ins = Had(made') \ Had(made)
               /\ made' \in [Pieces -> Nat] /\ Had(made) \subseteq Had(made')
               /\ \A p \in Pieces : made'[p] = made[p] + Gained(TextOf(row.doc), seen.text, p)
               /\ row' \in RowsIn(made') /\ row'.doc = doc /\ row'.base = seen.text
               /\ row'.rev = seen.rev /\ row'.conflict = FALSE
               /\ <<Message("reconciled", Delta(doc, row.doc))>> \in Seq(MessagesIn(made'))
               /\ Goes(j, Ending("workspace", None,
                                 <<Message("reconciled", Delta(doc, row.doc))>>))
               /\ lock' = None
<1>1. PICK seen, doc : seen = jobs[j].seen /\ doc = ReplaceContents(row.doc, seen.text, made)
  OBVIOUS
<1>2. jobs[j].pc = "save" /\ jobs[j].act = "workspace" /\ jobs[j].act # "persist"
  BY DEF TakesFile
<1>3. /\ lock = j /\ row # None /\ jobs[j].snap = row /\ seen \in Files /\ Seen(jobs[j], file)
      /\ made \in [Pieces -> Nat] /\ row.doc \in DocsIn(made) /\ seen.text \in Texts
  BY <1>1, <1>2, SavingJob
<1>4. /\ row' = Fresh(doc, seen) /\ made' = MadeBy(TextOf(row.doc), seen.text, made) /\ lock' = None
      /\ Goes(j, Ending("workspace", None, <<Message("reconciled", Delta(doc, row.doc))>>))
  <2>1. LET d == ReplaceContents(jobs[j].snap.doc, jobs[j].seen.text, made)
        IN  /\ row' = Fresh(d, jobs[j].seen)
            /\ made' = MadeBy(TextOf(jobs[j].snap.doc), jobs[j].seen.text, made) /\ lock' = None
            /\ Goes(j, [Idle EXCEPT !.act = "workspace", !.pc = "tell",
                          !.say = <<Message("reconciled", Delta(d, jobs[j].snap.doc))>>])
    BY DEF TakesFile
  <2>2. \A s : [Idle EXCEPT !.act = "workspace", !.pc = "tell", !.say = s] = Ending("workspace", None, s)
    <3> SUFFICES ASSUME NEW s, NEW x, x = [Idle EXCEPT !.act = "workspace", !.pc = "tell", !.say = s],
                        NEW y, y = Ending("workspace", None, s)
                 PROVE  x = y
      OBVIOUS
    <3>1. x = [act |-> "workspace", pc |-> "tell", snap |-> None, next |-> None, seen |-> None,
               batch |-> {}, say |-> s]
      BY DEF Idle
    <3>2. y = [act |-> "workspace", pc |-> "tell", snap |-> None, next |-> None, seen |-> None,
               batch |-> {}, say |-> s]
      BY DEF Idle, Ending
    <3> QED
      BY ONLY <3>1, <3>2, Zenon
  <2>3. jobs[j].snap = row
    BY <1>3
  <2> QED
    BY ONLY <1>1, <2>1, <2>2, <2>3, Zenon
<1>5. Apt(row.doc, TextOf(row.doc), seen.text) /\ TextOf(doc) = seen.text
      /\ TextOf(row.doc) \in Texts
  BY <1>1, <1>3, Replaced, TextTyped
<1>6. doc = Brought(row.doc, TextOf(row.doc), seen.text, made)
  BY <1>1 DEF ReplaceContents
<1>7. /\ doc \in DocsIn(made') /\ row.doc.ins \subseteq doc.ins /\ row.doc.del \subseteq doc.del
      /\ doc.ins \ row.doc.ins = Had(made') \ Had(made)
  BY <1>3, <1>4, <1>5, <1>6, BroughtDoc
<1>8. /\ made' \in [Pieces -> Nat] /\ Had(made) \subseteq Had(made')
      /\ \A p \in Pieces : made'[p] = made[p] + Gained(TextOf(row.doc), seen.text, p)
  BY <1>3, <1>4, <1>5, MadeGrows
<1>9. /\ row' \in RowsIn(made') /\ row'.doc = doc /\ row'.base = seen.text /\ row'.rev = seen.rev
      /\ row'.conflict = FALSE
  <2>1. row' \in RowsIn(made')
    BY <1>3, <1>4, <1>7, FreshTyped
  <2> QED
    BY <1>4, <2>1 DEF Fresh
<1>10. <<Message("reconciled", Delta(doc, row.doc))>> \in Seq(MessagesIn(made'))
  BY <1>7, <1>8, DeltaTyped
<1> QED
  BY <1>1, <1>2, <1>3, <1>4, <1>5, <1>7, <1>8, <1>9, <1>10

LEMMA TakesFileShaped ==
    ASSUME Core, NEW j \in Jobs, TakesFile(j)
    PROVE  Shaped' /\ Placed'
<1>1. UNCHANGED <<file, tabs, turn, rare, taken>>
  BY DEF TakesFile
<1>2. PICK s : s = <<Message("reconciled",
                             Delta(ReplaceContents(row.doc, jobs[j].seen.text, made), row.doc))>>
  OBVIOUS
<1>3. /\ jobs[j].pc = "save" /\ jobs[j].act = "workspace"
      /\ made' \in [Pieces -> Nat] /\ Had(made) \subseteq Had(made') /\ row' \in RowsIn(made')
      /\ s \in Seq(MessagesIn(made')) /\ lock' = None
      /\ Goes(j, Ending("workspace", None, s))
  BY <1>2, TakesFileRow
<1>4. jobs' \in [Jobs -> JobsIn(made')] /\ Placed'
  <2>1. Goes(j, Ending(jobs[j].act, None, s)) /\ None \in RowsIn(made') \cup {None}
        /\ jobs[j].act # "subscribe"
    BY <1>3
  <2> QED
    BY <1>3, <2>1, EndsCore
<1>5. tabs' \in [Tabs -> TabsIn(made')]
  BY <1>1, <1>3, MoreIn DEF Core, Shaped
<1> QED
  BY <1>1, <1>3, <1>4, <1>5 DEF Core, Shaped

\* What a job that writes the file knows.
LEMMA WritingJob ==
    ASSUME Core, NEW j \in Jobs, jobs[j].pc \in {"write", "readback"}
    PROVE  /\ lock = j /\ row # None /\ jobs[j].snap = row /\ jobs[j].act \in WillWrite
           /\ jobs[j] \in JobsIn(made) /\ At(j, jobs[j], row, file)
           /\ j[2] # "persist"
           /\ jobs[j].act = "subscribe" => j[1] \in Tabs /\ j[2] = "request" /\ jobs[j].next # None
           /\ jobs[j].pc = "write" /\ jobs[j].act = "editor" => Seen(jobs[j], file)
           /\ made \in [Pieces -> Nat] /\ row \in RowsIn(made) /\ row.doc \in DocsIn(made)
           /\ TextOf(row.doc) \in Texts
<1>1. lock = j /\ row # None /\ jobs[j] \in JobsIn(made) /\ At(j, jobs[j], row, file)
  BY LockedJob DEF Locked
<1>2. /\ jobs[j].snap = row /\ jobs[j].act \in WillWrite
      /\ j[2] = "persist" => jobs[j].act \in {"none", "persist"}
      /\ jobs[j].act = "subscribe" => j[1] \in Tabs /\ j[2] = "request" /\ jobs[j].next # None
      /\ jobs[j].pc = "write" /\ jobs[j].act = "editor" => Seen(jobs[j], file)
  BY <1>1 DEF At
<1>3. j[2] # "persist"
  BY <1>2 DEF WillWrite, Reconciling
<1> QED
  BY <1>1, <1>2, <1>3, HasRow, TextTyped DEF Core, Shaped

LEMMA WritesFileShaped ==
    ASSUME Core, NEW j \in Jobs, WritesFile(j)
    PROVE  Shaped' /\ Placed'
<1>1. UNCHANGED <<row, lock, tabs, turn, made, rare, taken>> /\ jobs[j].pc = "write"
  BY DEF WritesFile
<1>2. /\ lock = j /\ jobs[j].snap = row /\ jobs[j].act \in WillWrite /\ jobs[j] \in JobsIn(made)
      /\ j[2] # "persist" /\ TextOf(row.doc) \in Texts /\ made \in [Pieces -> Nat]
      /\ jobs[j].act = "subscribe" => j[1] \in Tabs /\ j[2] = "request" /\ jobs[j].next # None
  BY <1>1, WritingJob
<1>3. file' \in Files
  <2>1. file.rev \in Nat
    BY DEF Core, Shaped, Files
  <2>2. file.rev + 1 \in Nat
    BY <2>1
  <2>3. file' = [text |-> TextOf(row.doc), rev |-> file.rev + 1]
    BY <1>2 DEF WritesFile
  <2> QED
    BY <1>2, <2>2, <2>3 DEF Files
<1>4. PICK x : x = [jobs[j] EXCEPT !.pc = "readback"]
  OBVIOUS
<1>5. /\ x \in JobsIn(made) /\ x.pc = "readback" /\ x.act = jobs[j].act /\ x.snap = jobs[j].snap
      /\ x.next = jobs[j].next
  BY <1>2, <1>4 DEF JobsIn, Locked
<1>6. At(j, x, row', file')
  BY <1>1, <1>2, <1>5 DEF At, WillWrite, Reconciling
<1>7. lock' \in Jobs => lock' = j /\ x.pc \in Locked
  BY <1>1, <1>2, <1>5 DEF Locked
<1>8. Goes(j, x)
  BY <1>4 DEF WritesFile
<1>9. jobs' \in [Jobs -> JobsIn(made')] /\ Placed'
  <2>1. x \in JobsIn(made') /\ made' \in [Pieces -> Nat] /\ Had(made) \subseteq Had(made')
    BY <1>1, <1>2, <1>5
  <2> QED
    BY <1>2, <1>6, <1>7, <1>8, <2>1, JobsGo
<1> QED
  BY <1>1, <1>3, <1>9 DEF Core, Shaped

\* A job that has written, or been refused, has only to tell.
LEMMA TellingJob ==
    ASSUME Core, NEW j \in Jobs, jobs[j].pc \in {"write", "readback"},
           NEW c \in MessagesIn(made), NEW x, x = [jobs[j] EXCEPT !.pc = "tell", !.say = Append(@, c)],
           Goes(j, x), lock' = None, UNCHANGED made
    PROVE  /\ jobs' \in [Jobs -> JobsIn(made')] /\ Placed'
           /\ x.act = jobs[j].act /\ x.next = jobs[j].next /\ x.say = Append(jobs[j].say, c)
           /\ x.pc = "tell"
<1>1. /\ lock = j /\ jobs[j].act \in WillWrite /\ jobs[j] \in JobsIn(made) /\ j[2] # "persist"
      /\ jobs[j].act = "subscribe" => j[1] \in Tabs /\ j[2] = "request" /\ jobs[j].next # None
  BY WritingJob
<1>2. PICK s : s = Append(jobs[j].say, c)
  OBVIOUS
<1>3. s \in Seq(MessagesIn(made))
  <2>1. jobs[j].say \in Seq(MessagesIn(made))
    BY <1>1, JobParts
  <2> QED
    BY <1>2, <2>1
<1>4. /\ x \in JobsIn(made) /\ x.pc = "tell" /\ x.act = jobs[j].act /\ x.next = jobs[j].next
      /\ x.say = s
  <2>1. x = [jobs[j] EXCEPT !.pc = "tell", !.say = s]
    BY <1>2
  <2> QED
    BY <1>1, <1>3, <2>1 DEF JobsIn
<1>5. \/ x = Idle
      \/ /\ x.pc = "tell" /\ x.act \in {"autosave", "editor", "workspace"} \cup Reconciling
         /\ j[2] # "persist"
         /\ x.act = "subscribe" => j[1] \in Tabs /\ j[2] = "request" /\ x.next # None
  BY <1>1, <1>4 DEF WillWrite
<1>6. lock' \notin Jobs /\ x \in JobsIn(made')
  BY <1>4, Constants
<1>7. jobs' \in [Jobs -> JobsIn(made')] /\ Placed'
  BY <1>1, <1>5, <1>6, SameMade, DoneCore
<1> QED
  BY <1>2, <1>4, <1>7

LEMMA RefusedRow ==
    ASSUME Core, NEW j \in Jobs, IsRefused(j)
    PROVE  \/ row' = row /\ Goes(j, Idle) /\ jobs[j].act = "editor"
           \/ /\ row' = [row EXCEPT !.conflict = TRUE] /\ row' \in RowsIn(made)
              /\ row'.doc = row.doc /\ row'.base = row.base /\ row'.rev = row.rev
              /\ row'.conflict = TRUE
              /\ Goes(j, [jobs[j] EXCEPT !.pc = "tell",
                            !.say = Append(@, Message("conflict", NoDoc))])
<1>1. jobs[j].pc = "write" /\ jobs[j].snap = row /\ row \in RowsIn(made)
  BY WritingJob DEF IsRefused
<1>2. CASE jobs[j].act = "editor"
  BY <1>2 DEF IsRefused
<1>3. CASE jobs[j].act # "editor"
  <2>1. /\ row' = [row EXCEPT !.conflict = TRUE]
        /\ Goes(j, [jobs[j] EXCEPT !.pc = "tell", !.say = Append(@, Message("conflict", NoDoc))])
    BY <1>1, <1>3 DEF IsRefused
  <2>2. /\ row' \in RowsIn(made) /\ row'.doc = row.doc /\ row'.base = row.base
        /\ row'.rev = row.rev /\ row'.conflict = TRUE
    BY <1>1, <2>1, MarkedRow
  <2> QED
    BY <2>1, <2>2
<1> QED
  BY <1>2, <1>3

LEMMA IsRefusedShaped ==
    ASSUME Core, NEW j \in Jobs, IsRefused(j)
    PROVE  Shaped' /\ Placed'
<1>1. UNCHANGED <<file, tabs, turn, made, rare, taken>> /\ lock' = None /\ jobs[j].pc = "write"
  BY DEF IsRefused
<1>2. lock = j /\ row \in RowsIn(made) /\ made \in [Pieces -> Nat]
  BY <1>1, WritingJob
<1>3. row' \in RowsIn(made) /\ jobs' \in [Jobs -> JobsIn(made')] /\ Placed'
  <2>1. CASE row' = row /\ Goes(j, Idle)
    BY <1>1, <1>2, <2>1, IdleJob, SameMade, DoneCore, Constants
  <2>2. CASE /\ row' \in RowsIn(made)
             /\ Goes(j, [jobs[j] EXCEPT !.pc = "tell", !.say = Append(@, Message("conflict", NoDoc))])
    <3>1. PICK x, c : /\ c = Message("conflict", NoDoc)
                      /\ x = [jobs[j] EXCEPT !.pc = "tell", !.say = Append(@, c)]
      OBVIOUS
    <3>2. c \in MessagesIn(made) /\ Goes(j, x)
      BY <1>2, <2>2, <3>1, ConflictTyped
    <3> QED
      BY <1>1, <2>2, <3>1, <3>2, TellingJob
  <2> QED
    BY <2>1, <2>2, RefusedRow
<1> QED
  BY <1>1, <1>3 DEF Core, Shaped

LEMMA SavedShaped ==
    ASSUME Core, NEW j \in Jobs, Saved(j), row' \in RowsIn(made), rare' \subseteq Kinds
    PROVE  Shaped' /\ Placed'
<1>1. UNCHANGED <<file, tabs, turn, made>> /\ lock' = None /\ jobs[j].pc = "readback"
  BY DEF Saved
<1>2. made \in [Pieces -> Nat]
  BY DEF Core, Shaped
<1>3. jobs' \in [Jobs -> JobsIn(made')] /\ Placed'
  <2>1. PICK x, c : /\ c = Message("reconciled", NoDoc)
                    /\ x = [jobs[j] EXCEPT !.pc = "tell", !.say = Append(@, c)]
    OBVIOUS
  <2>2. c \in MessagesIn(made) /\ Goes(j, x)
    BY <1>2, <2>1, ConflictTyped DEF Saved
  <2> QED
    BY <1>1, <2>1, <2>2, TellingJob
<1>4. taken' \subseteq Pieces
  BY DEF Saved, Core, Shaped, Changed
<1> QED
  BY <1>1, <1>3, <1>4 DEF Core, Shaped

LEMMA RecordedRow ==
    ASSUME Core, NEW j \in Jobs, Records(j)
    PROVE  /\ row' \in RowsIn(made) /\ row'.doc = row.doc /\ row'.base = file.text
           /\ row'.rev = file.rev /\ row'.conflict = FALSE
<1>1. row.doc \in DocsIn(made) /\ file \in Files
  BY WritingJob DEF Records, Saved, Core, Shaped
<1>2. row' = Fresh(row.doc, file)
  BY DEF Records
<1>3. row' \in RowsIn(made)
  BY <1>1, <1>2, FreshTyped
<1> QED
  BY <1>2, <1>3 DEF Fresh

LEMMA RecordsShaped ==
    ASSUME Core, NEW j \in Jobs, Records(j) \/ IsUnrecorded(j)
    PROVE  Shaped' /\ Placed'
<1>1. CASE Records(j)
  BY <1>1, RecordedRow, SavedShaped DEF Records, Core, Shaped
<1>2. CASE IsUnrecorded(j)
  <2>1. Saved(j) /\ row' = row /\ row \in RowsIn(made) /\ Happens("unrecorded")
    BY <1>2, WritingJob DEF IsUnrecorded, Saved
  <2>2. rare' \subseteq Kinds
    BY <2>1, HappensTyped DEF Core, Kinds
  <2> QED
    BY <2>1, <2>2, SavedShaped
<1> QED
  BY <1>1, <1>2

-----------------------------------------------------------------------------
(* The whole: shapes *)

\* A step that writes the row writes a row.
LEMMA JobWritesRow ==
    ASSUME Core, NEW j \in Jobs, Step(j) \/ Fails(j) \/ IsUnrecorded(j)
    PROVE  row' = row \/ row' \in RowsIn(made')
<1>1. CASE Creates(j)
  BY <1>1, CreatesRow
<1>2. CASE Reconciles(j)
  <2>1. jobs[j].pc = "save" /\ jobs[j].act \in Reconciling /\ jobs[j].act # "persist"
    BY <1>2 DEF Reconciles, Reconciling
  <2>2. row \in RowsIn(made)
    BY <2>1, SavingJob
  <2>3. CASE Leaves(j)
    BY <2>3 DEF Leaves
  <2>4. CASE Marks(j)
    BY <2>2, <2>4, MarkedRow DEF Marks
  <2>5. CASE Merges(j)
    BY <2>1, <2>5, MergesDoc
  <2> QED
    BY <1>2, <2>3, <2>4, <2>5, ReconcilesHow
<1>3. CASE TakesFile(j)
  BY <1>3, TakesFileRow
<1>4. CASE WritesFile(j) \/ Tells(j) \/ Fails(j) \/ IsUnrecorded(j)
  BY <1>4 DEF WritesFile, Tells, Fails, Errs, IsUnrecorded
<1>5. CASE IsRefused(j)
  <2>1. made' = made
    BY <1>5 DEF IsRefused
  <2> QED
    BY <1>5, <2>1, RefusedRow
<1>6. CASE Records(j)
  <2>1. made' = made
    BY <1>6 DEF Records, Saved
  <2> QED
    BY <1>6, <2>1, RecordedRow
<1> QED
  BY <1>1, <1>2, <1>3, <1>4, <1>5, <1>6 DEF Step

LEMMA BlankStays ==
    ASSUME Blank, UNCHANGED <<row, tabs, jobs>>
    PROVE  Blank'
BY DEF Blank

LEMMA JobBlank ==
    ASSUME Core, NEW j \in Jobs, Step(j) \/ Fails(j) \/ IsUnrecorded(j), row' = None
    PROVE  Blank'
<1>1. row = None /\ Blank /\ jobs[j].pc \in {"idle", "create"}
  <2>1. row' = row \/ row' \in RowsIn(made')
    BY JobWritesRow
  <2>2. row' \in RowsIn(made') => made' \in [Pieces -> Nat]
    <3>1. Shaped'
      BY CreatesShaped, ReconcilesShaped, TakesFileShaped, WritesFileShaped, IsRefusedShaped,
         RecordsShaped, TellsShaped, FailsShaped DEF Step
    <3> QED
      BY <3>1 DEF Shaped
  <2>3. row = None
    BY <2>1, <2>2, RowsKnown
  <2> QED
    BY <2>3, JobHasRow DEF Core
<1>2. CASE Creates(j)
  <2>1. row' \in RowsIn(made') /\ made' \in [Pieces -> Nat]
    BY <1>2, CreatesRow
  <2> QED
    BY <2>1, RowsKnown
<1>3. CASE Fails(j)
  BY <1>1, <1>3, ErrBlank DEF Fails, Core
<1> QED
  BY <1>1, <1>2, <1>3 DEF Step, Reconciles, TakesFile, WritesFile, IsRefused, Records,
     IsUnrecorded, Saved, Tells

LEMMA TabWritesRow ==
    ASSUME Core, NEW t \in Tabs,
           \/ Opens(t) \/ Closes(t) \/ Delivers(t)
           \/ \E e \in Edits : Types(t, e)
           \/ BeginsPersist(t) \/ SavesBatch(t) \/ BeginsAutosave(t)
           \/ \E act \in {"editor", "workspace"} : Chooses(t, act)
           \/ IsCut(t)
    PROVE  row' = row \/ (row' \in RowsIn(made) /\ row # None)
BY SavesBatchRow
   DEF Opens, Closes, Delivers, Types, BeginsPersist, BeginsAutosave, Chooses, IsCut, Errs

LEMMA TabBlank ==
    ASSUME Core, NEW t \in Tabs, row = None,
           \/ Opens(t) \/ Closes(t) \/ Delivers(t)
           \/ \E e \in Edits : Types(t, e)
           \/ BeginsPersist(t) \/ SavesBatch(t) \/ BeginsAutosave(t)
           \/ \E act \in {"editor", "workspace"} : Chooses(t, act)
           \/ IsCut(t)
    PROVE  Blank'
<1>1. Inv /\ Blank
  BY DEF Core
<1>2. CASE Opens(t)
  BY <1>1, <1>2, OpenBlank
<1>3. CASE Closes(t)
  BY <1>1, <1>3, CloseBlank
<1>4. CASE SavesBatch(t)
  BY <1>4, SavesBatchRow
<1>5. ASSUME NEW kind \in {"persist", "request"}, jobs[<<t, kind>>].pc # "idle",
             Errs(<<t, kind>>, IF lock = <<t, kind>> THEN Left ELSE lock)
      PROVE  Blank'
  <2>1. PICK j, l : j = <<t, kind>> /\ l = IF lock = j THEN Left ELSE lock
    OBVIOUS
  <2>2. j \in Jobs /\ Errs(j, l) /\ jobs[j].pc # "idle"
    BY <1>5, <2>1 DEF Jobs
  <2> QED
    BY <1>1, <2>2, ErrBlank
<1>6. CASE IsCut(t)
  BY <1>5, <1>6, TabHasRow DEF IsCut
<1> QED
  BY <1>2, <1>3, <1>4, <1>6, TabHasRow
     DEF Delivers, Types, CanType, BeginsPersist, BeginsAutosave, Chooses

LEMMA CoreInit == Init => Core
<1> SUFFICES ASSUME Init PROVE Core
  OBVIOUS
<1>1. Inv /\ Blank
  <2>1. \A t \in Tabs : Unused(tabs[t])
    BY DEF Init, NewTab, IsTab, Unused
  <2> QED
    BY <2>1, Initially, IdleFits DEF Init, Blank
<1>2. made \in [Pieces -> Nat] /\ Had(made) = {}
  <2>1. made \in [Pieces -> Nat] /\ \A p \in Pieces : made[p] = 0
    BY DEF Init
  <2>2. \A i \in Had(made) : i[1] \in Pieces /\ i[2] \in 1..made[i[1]]
    BY <2>1, HadMembers
  <2>3. ASSUME NEW i \in Had(made) PROVE FALSE
    <3>1. PICK p, k : p = i[1] /\ k = i[2]
      OBVIOUS
    <3>2. p \in Pieces /\ k \in 1..made[p]
      BY <2>2, <3>1
    <3>3. made[p] = 0
      BY <2>1, <3>2
    <3>4. k \in 1..0
      BY <3>2, <3>3
    <3> QED
      BY <3>4
  <2> QED
    BY <2>1, <2>3
<1>3. NewTab \in TabsIn(made)
  <2>1. NoDoc \in DocsIn(made)
    BY <1>2, RowsKnown
  <2>2. PICK s, d : s = <<>> /\ d = NoDoc
    OBVIOUS
  <2>3. s \in Seq(MessagesIn(made)) /\ d \in DocsIn(made)
    BY <2>1, <2>2
  <2>4. NewTab = [conn |-> "closed", synced |-> FALSE, conflict |-> FALSE, doc |-> d,
                  subscribed |-> FALSE, queue |-> {}, timer |-> "none", feed |-> s,
                  dropped |-> {}, unsaved |-> {}]
    BY <2>2 DEF NewTab
  <2> QED
    BY ONLY <2>3, <2>4 DEF TabsIn
<1>4. Shaped
  <2>1. tabs \in [Tabs -> TabsIn(made)] /\ jobs \in [Jobs -> JobsIn(made)]
    BY <1>3, IdleJob DEF Init
  <2>2. file \in Files
    BY TextOfNone DEF Init, Files
  <2>3. turn \in [wrote : SUBSET Writes, told : BOOLEAN]
    BY DEF Init
  <2> QED
    BY <1>2, <2>1, <2>2, <2>3 DEF Init, Shaped
<1>5. Placed
  <2>1. \A j \in Jobs : jobs[j] = Idle
    BY DEF Init
  <2> QED
    BY <2>1, IdleJob, Constants DEF Init, Placed
<1> QED
  BY <1>1, <1>4, <1>5 DEF Core

LEMMA TabCore ==
    ASSUME Core, NEW t \in Tabs,
           \/ Opens(t) \/ Closes(t) \/ Delivers(t)
           \/ \E e \in Edits : Types(t, e)
           \/ BeginsPersist(t) \/ SavesBatch(t) \/ BeginsAutosave(t)
           \/ \E act \in {"editor", "workspace"} : Chooses(t, act)
           \/ IsCut(t)
    PROVE  Shaped' /\ Placed' /\ (row' = None => Blank')
<1>1. row' = None => Blank'
  BY TabWritesRow, TabBlank, RowsKnown DEF Core, Shaped
<1> QED
  BY <1>1, OpensShaped, ClosesShaped, DeliversShaped, TypesShaped, BeginsPersistShaped,
     SavesBatchShaped, BeginsAutosaveShaped, ChoosesShaped, IsCutShaped

LEMMA JobCore ==
    ASSUME Core, NEW j \in Jobs, Step(j) \/ Fails(j) \/ IsUnrecorded(j)
    PROVE  Shaped' /\ Placed' /\ (row' = None => Blank')
BY JobBlank, CreatesShaped, ReconcilesShaped, TakesFileShaped, WritesFileShaped, IsRefusedShaped,
   RecordsShaped, TellsShaped, FailsShaped DEF Step

LEMMA CoreNext == Core /\ [Next]_vars => Core'
<1> SUFFICES ASSUME Core, [Next]_vars PROVE Core'
  OBVIOUS
<1>1. Inv'
  BY NextInv DEF Core
<1>2. Shaped' /\ Placed' /\ (row' = None => Blank')
  <2>1. CASE UNCHANGED vars
    <3>1. UNCHANGED <<row, file, lock, tabs, jobs, turn, made, rare, taken>>
      BY <2>1 DEF vars
    <3> QED
      BY <3>1, BlankStays DEF Core, Shaped, Placed
  <2>2. ASSUME NEW t \in Tabs,
               \/ Opens(t) \/ Closes(t) \/ Delivers(t)
               \/ \E e \in Edits : Types(t, e)
               \/ BeginsPersist(t) \/ SavesBatch(t) \/ BeginsAutosave(t)
               \/ \E act \in {"editor", "workspace"} : Chooses(t, act)
               \/ IsCut(t)
        PROVE  Shaped' /\ Placed' /\ (row' = None => Blank')
    BY <2>2, TabCore
  <2>3. CASE BeginsReconcile
    <3>1. row' = None => UNCHANGED <<row, tabs, jobs>>
      BY <2>3 DEF BeginsReconcile
    <3> QED
      BY <2>3, <3>1, BlankStays, BeginsReconcileShaped DEF Core
  <2>4. ASSUME NEW j \in Jobs, Step(j) \/ Fails(j) \/ IsUnrecorded(j)
        PROVE  Shaped' /\ Placed' /\ (row' = None => Blank')
    BY <2>4, JobCore
  <2>5. ASSUME NEW p \in Writes, AgentWrites(p)
        PROVE  Shaped' /\ Placed' /\ (row' = None => Blank')
    <3>1. UNCHANGED <<row, tabs, jobs>>
      BY <2>5 DEF AgentWrites
    <3> QED
      BY <2>5, <3>1, BlankStays, AgentWritesShaped DEF Core
  <2>6. CASE LockExpires
    <3>1. UNCHANGED <<row, tabs, jobs>>
      BY <2>6 DEF LockExpires
    <3> QED
      BY <2>6, <3>1, BlankStays, LockExpiresShaped DEF Core
  <2> QED
    BY <2>1, <2>2, <2>3, <2>4, <2>5, <2>6 DEF Next
<1> QED
  BY <1>1, <1>2 DEF Core

LEMMA CoreTyped == Core => TypeOK
<1> SUFFICES ASSUME Core PROVE TypeOK
  OBVIOUS
<1>1. Shaped /\ made \in [Pieces -> Nat]
  BY DEF Core, Shaped
<1>2. row = None \/ row \in Rows
  BY <1>1, RowsKnown DEF Shaped
<1>3. ASSUME NEW t \in Tabs
      PROVE  /\ tabs[t].doc \in Docs
             /\ \A d \in tabs[t].queue : d \in Docs
             /\ \A i \in 1..Len(tabs[t].feed) : tabs[t].feed[i].delta \in Docs
  <2>1. tabs[t] \in TabsIn(made)
    BY <1>1 DEF Shaped
  <2>2. /\ tabs[t].doc \in DocsIn(made) /\ tabs[t].queue \in SUBSET DocsIn(made)
        /\ tabs[t].feed \in Seq(MessagesIn(made))
    BY <2>1, TabParts
  <2>3. \A i \in 1..Len(tabs[t].feed) : tabs[t].feed[i] \in MessagesIn(made)
    BY <2>2
  <2>4. \A m \in MessagesIn(made) : m.delta \in DocsIn(made)
    BY DEF MessagesIn
  <2> QED
    BY <1>1, <2>2, <2>3, <2>4, RowsKnown
<1>4. ASSUME NEW j \in Jobs
      PROVE  /\ jobs[j].act \in Acts /\ jobs[j].pc \in Locked \cup {"idle", "tell"}
             /\ jobs[j].pc \in Locked <=> lock = j
  <2>1. jobs[j] \in JobsIn(made)
    BY <1>1 DEF Shaped
  <2>2. jobs[j].pc \in Locked => lock = j
    BY DEF Core, Inv, Fits
  <2>3. lock = j => jobs[j].pc \in Locked
    BY DEF Core, Placed
  <2> QED
    BY <2>1, <2>2, <2>3, JobParts
<1> QED
  BY <1>1, <1>2, <1>3, <1>4 DEF TypeOK, Shaped

\* The state is well formed, and the lock is held by exactly the job that is
\* between its reads and its last write of the row (withDocumentLock).
THEOREM TypeCorrect == Spec => []TypeOK
<1>1. Init => Core
  BY CoreInit
<1>2. Core /\ [Next]_vars => Core'
  BY CoreNext
<1>3. Core => TypeOK
  BY CoreTyped
<1> QED
  BY <1>1, <1>2, <1>3, PTL DEF Spec

-----------------------------------------------------------------------------
(* The row and the file *)

\* What has a copy in a document has been had by it.
LEMMA TextHasHad ==
    ASSUME NEW m \in [Pieces -> Nat], NEW doc \in DocsIn(m), NEW p \in Pieces
    PROVE  /\ TextOf(doc)[p] \in Nat
           /\ TextOf(doc)[p] > 0 => HasHad(doc, p)
           /\ TextOf(doc)[p] = 0 => \A i \in doc.ins : i[1] = p => i \in doc.del
<1>1. TextOf(doc)[p] = Cardinality(Copies(doc, p)) /\ TextOf(doc)[p] \in Nat
      /\ (TextOf(doc)[p] = 0 <=> Copies(doc, p) = {})
  BY TextTyped, CopiesFinite
<1>2. TextOf(doc)[p] > 0 => HasHad(doc, p)
  <2>1. TextOf(doc)[p] > 0 => Copies(doc, p) # {}
    BY <1>1
  <2> QED
    BY <2>1 DEF Copies, HasHad
<1>3. TextOf(doc)[p] = 0 => \A i \in doc.ins : i[1] = p => i \in doc.del
  BY <1>1 DEF Copies
<1> QED
  BY <1>1, <1>2, <1>3

\* The row is as new as what it is made from.
FitsFile(r, f) == r.rev <= f.rev /\ (r.rev = f.rev => r.base = f.text)

\* The document has taken in what its base has.
HadBase(r, left) == \A p \in Pieces \ left : r.base[p] > 0 => HasHad(r.doc, p)

LEMMA BasedParts == Based <=> (row # None => FitsFile(row, file) /\ HadBase(row, taken))
BY DEF Based, FitsFile, HadBase

LEMMA FitsRead ==
    ASSUME Core, NEW x, Seen(x, file), NEW r, r.base = x.seen.text, r.rev = x.seen.rev
    PROVE  FitsFile(r, file)
BY DEF Seen, FitsFile

\* A document with the text of its base has had what the base has.
LEMMA HadText ==
    ASSUME NEW m \in [Pieces -> Nat], NEW r, r.doc \in DocsIn(m),
           NEW left, \A p \in Pieces \ left : TextOf(r.doc)[p] = r.base[p]
    PROVE  HadBase(r, left)
<1> SUFFICES ASSUME NEW p \in Pieces \ left, r.base[p] > 0 PROVE HasHad(r.doc, p)
  BY DEF HadBase
<1> QED
  BY TextHasHad

LEMMA FileMovesOn ==
    ASSUME Core, Based, UNCHANGED <<row, taken>>, file'.rev = file.rev + 1
    PROVE  Based'
<1>1. file.rev \in Nat
  BY DEF Core, Shaped, Files
<1>2. row # None => row.rev \in Nat
  BY HasRow
<1> QED
  BY <1>1, <1>2 DEF Based

LEMMA MergedHad ==
    ASSUME Core, Based, NEW j \in Jobs, jobs[j].pc = "save", jobs[j].act \in Reconciling, Merges(j)
    PROVE  HadBase(row', taken)
<1>1. jobs[j].act # "persist"
  BY DEF Reconciling
<1>2. /\ made \in [Pieces -> Nat] /\ row # None /\ row.base \in Texts /\ jobs[j].seen.text \in Texts
  BY <1>1, SavingJob
<1>3. /\ made' \in [Pieces -> Nat]
      /\ row'.doc = Merged(j) /\ row'.base = jobs[j].seen.text
      /\ row.doc.ins \subseteq Merged(j).ins
      /\ Merged(j).ins \ row.doc.ins = Had(made') \ Had(made)
      /\ \A p \in Pieces : made'[p] = made[p] + Gained(row.base, jobs[j].seen.text, p)
  BY MergesDoc
<1> SUFFICES ASSUME NEW p \in Pieces \ taken, jobs[j].seen.text[p] > 0
             PROVE  HasHad(Merged(j), p)
  BY <1>3 DEF HadBase
<1>4. row.base[p] \in Nat /\ jobs[j].seen.text[p] \in Nat /\ made[p] \in Nat
  BY <1>2 DEF Texts
<1>5. CASE row.base[p] > 0
  BY <1>2, <1>3, <1>5 DEF Based, HasHad
<1>6. CASE row.base[p] = 0
  <2>1. made'[p] = made[p] + jobs[j].seen.text[p]
    BY <1>3, <1>4, <1>6 DEF Gained
  <2>2. made[p] + 1 \in 1..made'[p] /\ made[p] + 1 \notin 1..made[p]
    BY <1>4, <2>1
  <2>3. <<p, made[p] + 1>> \in Had(made')
    BY <1>3, <2>2, HadMembers
  <2>4. <<p, made[p] + 1>> \notin Had(made)
    BY <1>2, <2>2, HadMembers
  <2>5. <<p, made[p] + 1>> \in Merged(j).ins
    BY <1>3, <2>3, <2>4
  <2> QED
    BY <2>5 DEF HasHad
<1> QED
  BY <1>4, <1>5, <1>6

LEMMA JobBased ==
    ASSUME Core, Based, NEW j \in Jobs, Step(j) \/ Fails(j) \/ IsUnrecorded(j)
    PROVE  Based'
<1>1. CASE Creates(j)
  <2>1. /\ Seen(jobs[j], file) /\ row' = Fresh(ReplaceContents(NoDoc, jobs[j].seen.text, made), jobs[j].seen)
        /\ ReplaceContents(NoDoc, jobs[j].seen.text, made) \in DocsIn(made')
        /\ TextOf(ReplaceContents(NoDoc, jobs[j].seen.text, made)) = jobs[j].seen.text
        /\ made' \in [Pieces -> Nat]
    BY <1>1, CreatesRow
  <2>2. row'.doc \in DocsIn(made') /\ TextOf(row'.doc) = row'.base /\ row'.base = jobs[j].seen.text
        /\ row'.rev = jobs[j].seen.rev
    BY <2>1 DEF Fresh
  <2>3. FitsFile(row', file)
    BY <2>1, <2>2, FitsRead
  <2>4. HadBase(row', taken)
    BY <2>1, <2>2, HadText
  <2> QED
    BY <1>1, <2>3, <2>4 DEF Creates, Based, FitsFile, HadBase
<1>2. CASE Reconciles(j)
  <2>1. jobs[j].pc = "save" /\ jobs[j].act \in Reconciling /\ jobs[j].act # "persist"
        /\ UNCHANGED <<file, taken>>
    BY <1>2 DEF Reconciles, Reconciling
  <2>2. row \in RowsIn(made) /\ row # None /\ Seen(jobs[j], file)
    BY <2>1, SavingJob
  <2>3. CASE Leaves(j)
    BY <2>1, <2>3 DEF Leaves, Based
  <2>4. CASE Marks(j)
    <3>1. row'.doc = row.doc /\ row'.base = row.base /\ row'.rev = row.rev
      BY <2>2, <2>4, MarkedRow DEF Marks
    <3> QED
      BY <2>1, <2>2, <3>1 DEF Based
  <2>5. CASE Merges(j)
    <3>1. row'.base = jobs[j].seen.text /\ row'.rev = jobs[j].seen.rev
      BY <2>1, <2>5, MergesDoc
    <3>2. FitsFile(row', file)
      BY <2>2, <3>1, FitsRead
    <3>3. HadBase(row', taken)
      BY <2>1, <2>5, MergedHad
    <3> QED
      BY <2>1, <3>2, <3>3 DEF Based, FitsFile, HadBase
  <2> QED
    BY <1>2, <2>3, <2>4, <2>5, ReconcilesHow
<1>3. CASE TakesFile(j)
  <2>1. /\ Seen(jobs[j], file) /\ row'.doc = ReplaceContents(row.doc, jobs[j].seen.text, made)
        /\ ReplaceContents(row.doc, jobs[j].seen.text, made) \in DocsIn(made')
        /\ TextOf(ReplaceContents(row.doc, jobs[j].seen.text, made)) = jobs[j].seen.text
        /\ row'.base = jobs[j].seen.text /\ row'.rev = jobs[j].seen.rev
        /\ made' \in [Pieces -> Nat]
    BY <1>3, TakesFileRow
  <2>2. FitsFile(row', file)
    BY <2>1, FitsRead
  <2>3. HadBase(row', taken)
    BY <2>1, HadText
  <2> QED
    BY <1>3, <2>2, <2>3 DEF TakesFile, Based, FitsFile, HadBase
<1>4. CASE WritesFile(j)
  BY <1>4, FileMovesOn DEF WritesFile
<1>5. CASE IsRefused(j)
  <2>1. row # None /\ UNCHANGED <<file, taken>>
    BY <1>5, WritingJob DEF IsRefused
  <2> QED
    BY <1>5, <2>1, RefusedRow DEF Based
<1>6. CASE Records(j)
  <2>1. /\ row'.doc = row.doc /\ row'.base = file.text /\ row'.rev = file.rev
        /\ row.doc \in DocsIn(made) /\ made \in [Pieces -> Nat] /\ jobs[j].snap = row
        /\ file' = file /\ taken' = taken \cup Changed(TextOf(jobs[j].snap.doc), file.text)
        /\ file.rev \in Nat
    BY <1>6, RecordedRow, WritingJob DEF Records, Saved, Core, Shaped, Files
  <2>2. FitsFile(row', file)
    BY <2>1 DEF FitsFile
  <2>3. \A p \in Pieces \ taken' : TextOf(row'.doc)[p] = row'.base[p]
    BY <2>1 DEF Changed
  <2>4. HadBase(row', taken')
    BY <2>1, <2>3, HadText
  <2> QED
    BY <2>1, <2>2, <2>4 DEF Based, FitsFile, HadBase
<1>7. CASE IsUnrecorded(j)
  <2>1. UNCHANGED <<row, file>> /\ taken \subseteq taken'
    BY <1>7 DEF IsUnrecorded, Saved
  <2> QED
    BY <2>1 DEF Based
<1>8. CASE Tells(j) \/ Fails(j)
  BY <1>8 DEF Tells, Fails, Errs, Based
<1> QED
  BY <1>1, <1>2, <1>3, <1>4, <1>5, <1>6, <1>7, <1>8 DEF Step

LEMMA BasedNext == Core /\ Based /\ [Next]_vars => Based'
<1> SUFFICES ASSUME Core, Based, [Next]_vars PROVE Based'
  OBVIOUS
<1>1. CASE UNCHANGED <<row, file, taken>>
  BY <1>1 DEF Based
<1>2. ASSUME NEW t \in Tabs, SavesBatch(t)
      PROVE  Based'
  <2>1. /\ row # None /\ row'.base = row.base /\ row'.rev = row.rev
        /\ row'.doc = Folded(row.doc, jobs[<<t, "persist">>].batch)
    BY <1>2, SavesBatchRow
  <2>2. row.doc.ins \subseteq row'.doc.ins
    BY <2>1 DEF Folded
  <2> QED
    BY <1>2, <2>1, <2>2 DEF SavesBatch, Based, HasHad
<1>3. ASSUME NEW j \in Jobs, Step(j) \/ Fails(j) \/ IsUnrecorded(j)
      PROVE  Based'
  BY <1>3, JobBased
<1>4. ASSUME NEW p \in Writes, AgentWrites(p)
      PROVE  Based'
  BY <1>4, FileMovesOn DEF AgentWrites
<1> QED
  BY <1>1, <1>2, <1>3, <1>4
     DEF Next, vars, Opens, Closes, Delivers, Types, BeginsPersist, BeginsAutosave, Chooses,
         IsCut, Errs, BeginsReconcile, LockExpires

LEMMA WriteKeepsAgents ==
    ASSUME Core, Based, NEW j \in Jobs, WritesFile(j), jobs[j].act # "editor",
           NEW p \in Pieces \ taken, file.text[p] > 0, file'.text[p] = 0
    PROVE  row.base[p] > 0 /\ Deleted(p)
<1>1. /\ row # None /\ jobs[j].snap = row /\ row.doc \in DocsIn(made) /\ made \in [Pieces -> Nat]
  BY WritingJob DEF WritesFile
<1>2. row.rev = file.rev /\ TextOf(row.doc)[p] = 0
  BY <1>1 DEF WritesFile, Expects
<1>3. row.base[p] > 0 /\ HasHad(row.doc, p)
  BY <1>1, <1>2 DEF Based
<1> QED
  BY <1>1, <1>2, <1>3, TextHasHad DEF Deleted

LEMMA OverwriteNext ==
    ASSUME Core, Based, [Next]_vars
    PROVE  [\A p \in Pieces :
              file.text[p] > 0 /\ file'.text[p] = 0 =>
                \/ turn' # turn
                \/ p \in taken
                \/ \E j \in Jobs : jobs[j].act = "editor" /\ jobs[j].pc = "write"
                \/ row.base[p] > 0 /\ Deleted(p)]_vars
<1> SUFFICES ASSUME NEW p \in Pieces, file.text[p] > 0, file'.text[p] = 0, p \notin taken,
                    \A j \in Jobs : ~(jobs[j].act = "editor" /\ jobs[j].pc = "write"),
                    turn' = turn
             PROVE  row.base[p] > 0 /\ Deleted(p)
  OBVIOUS
<1>1. file' # file
  BY DEF Core, Shaped, Files, Texts
<1>2. ASSUME NEW j \in Jobs, WritesFile(j)
      PROVE  row.base[p] > 0 /\ Deleted(p)
  BY <1>2, WriteKeepsAgents DEF WritesFile
<1>3. ASSUME NEW q \in Writes, AgentWrites(q)
      PROVE  FALSE
  <2>1. q \notin turn.wrote /\ turn' = [wrote |-> turn.wrote \cup {q}, told |-> FALSE]
    BY <1>3 DEF AgentWrites
  <2>2. turn'.wrote = turn.wrote \cup {q}
    BY <2>1
  <2> QED
    BY <2>1, <2>2
<1> QED
  BY <1>1, <1>2, <1>3
     DEF Next, vars, Step, Opens, Closes, Delivers, Types, BeginsPersist, SavesBatch,
         BeginsAutosave, Chooses, IsCut, Errs, Fails, BeginsReconcile, LockExpires, Creates,
         Reconciles, TakesFile, IsRefused, Records, IsUnrecorded, Saved, Tells

LEMMA BasedInit == Init => Based
BY DEF Init, Based

\* The server takes a line out of the file only if the document had taken the
\* line in from the file and an editor has deleted it since, or if a member
\* chose the editors' text (expectedRevision): the row's revision stands for the
\* text that the document has taken in.
THEOREM NothingIsOverwritten == Spec => NothingOverwritten
<1>1. Init => Core /\ Based
  BY CoreInit, BasedInit
<1>2. Core /\ Based /\ [Next]_vars => (Core /\ Based)'
  BY CoreNext, BasedNext
<1>3. Core /\ Based /\ [Next]_vars =>
        [\A p \in Pieces :
           file.text[p] > 0 /\ file'.text[p] = 0 =>
             \/ turn' # turn
             \/ p \in taken
             \/ \E j \in Jobs : jobs[j].act = "editor" /\ jobs[j].pc = "write"
             \/ row.base[p] > 0 /\ Deleted(p)]_vars
  BY OverwriteNext
<1> QED
  BY <1>1, <1>2, <1>3, PTL DEF Spec, NothingOverwritten

-----------------------------------------------------------------------------
(* What is due *)

\* Sending and receiving leave the timers alone.
LEMMA SentTimer ==
    ASSUME NEW m, NEW x \in TabsIn(m), NEW s
    PROVE  Sent(x, s).timer = x.timer
<1>1. CASE x.subscribed
  BY <1>1 DEF Sent, TabsIn
<1>2. CASE ~x.subscribed
  BY <1>2 DEF Sent, TabsIn
<1> QED
  BY <1>1, <1>2

LEMMA ReceivedTimers ==
    ASSUME NEW m \in [Pieces -> Nat], NEW ts \in [Tabs -> TabsIn(m)], NEW t \in Tabs,
           NEW d \in DocsIn(m)
    PROVE  \A u \in Tabs : Received(ts, t, d)[u].timer = ts[u].timer
<1> SUFFICES ASSUME NEW u \in Tabs PROVE Received(ts, t, d)[u].timer = ts[u].timer
  OBVIOUS
<1>1. PICK x : x = ts[u]
  OBVIOUS
<1>2. x \in TabsIn(m)
  BY <1>1
<1>3. CASE u = t
  <2>1. Received(ts, t, d)[u] = [x EXCEPT !.queue = @ \cup {d}]
    BY <1>1, <1>3 DEF Received
  <2>2. [x EXCEPT !.queue = @ \cup {d}].timer = x.timer
    BY <1>2 DEF TabsIn
  <2> QED
    BY <1>1, <2>1, <2>2
<1>4. CASE u # t
  <2>1. Received(ts, t, d)[u] = Sent(x, <<Message("update", d)>>)
    BY <1>1, <1>4 DEF Received
  <2>2. Sent(x, <<Message("update", d)>>).timer = x.timer
    BY <1>2, SentTimer
  <2> QED
    BY <1>1, <2>1, <2>2
<1> QED
  BY <1>3, <1>4

LEMMA TypesTabs ==
    ASSUME Core, NEW t \in Tabs, NEW e \in Edits, Types(t, e)
    PROVE  \E ts \in [Tabs -> TabsIn(made')], d \in DocsIn(made') :
             /\ \A u \in Tabs : ts[u].timer = tabs[u].timer
             /\ tabs' = Received(ts, t, d) /\ made' \in [Pieces -> Nat]
             /\ d.ins = {<<e, 1>>}
             /\ \A u \in Tabs \ {t} : ts[u] = tabs[u]
             /\ ts[t].doc.ins = tabs[t].doc.ins \cup {<<e, 1>>}
             /\ ts[t].feed = tabs[t].feed /\ ts[t].queue = tabs[t].queue
             /\ ts[t].unsaved = tabs[t].unsaved /\ ts[t].dropped = tabs[t].dropped
             /\ ts[t].synced = tabs[t].synced /\ ts[t].subscribed = tabs[t].subscribed
<1> DEFINE d == [ins |-> {<<e, 1>>}, del |-> Edited(t, e).del \ tabs[t].doc.del]
           x == [tabs[t] EXCEPT !.doc = Edited(t, e)]
           ts == [tabs EXCEPT ![t] = x]
<1>1. /\ made[e] = 0 /\ made' = [made EXCEPT ![e] = 1]
      /\ tabs' = Received(ts, t, d)
  BY DEF Types, CanType
<1>2. /\ made \in [Pieces -> Nat] /\ tabs \in [Tabs -> TabsIn(made)] /\ tabs[t] \in TabsIn(made)
  BY DEF Core, Shaped
<1>3. /\ made' \in [Pieces -> Nat] /\ Had(made) \subseteq Had(made') /\ <<e, 1>> \in Had(made')
      /\ Edited(t, e) \in DocsIn(made') /\ Edited(t, e).del \subseteq Had(made)
      /\ Edited(t, e).ins = tabs[t].doc.ins \cup {<<e, 1>>}
  BY <1>1, EditedDoc
<1>4. TabsIn(made) \subseteq TabsIn(made')
  BY <1>2, <1>3, MoreIn
<1>5. x \in TabsIn(made')
  BY <1>2, <1>3, <1>4, TabDoc
<1>6. /\ x.doc = Edited(t, e) /\ x.feed = tabs[t].feed /\ x.queue = tabs[t].queue
      /\ x.unsaved = tabs[t].unsaved /\ x.dropped = tabs[t].dropped
      /\ x.synced = tabs[t].synced /\ x.subscribed = tabs[t].subscribed
      /\ x.timer = tabs[t].timer
  BY <1>2 DEF TabsIn
<1>7. d \in DocsIn(made') /\ d.ins = {<<e, 1>>}
  BY <1>3 DEF DocsIn
<1> HIDE DEF d, x
<1>8. /\ ts \in [Tabs -> TabsIn(made')] /\ ts[t] = x /\ \A u \in Tabs \ {t} : ts[u] = tabs[u]
  BY <1>2, <1>4, <1>5
<1> HIDE DEF ts
<1>9. \A u \in Tabs : ts[u].timer = tabs[u].timer
  BY <1>6, <1>8
<1> QED
  BY <1>1, <1>3, <1>6, <1>7, <1>8, <1>9

LEMMA TellsTimers ==
    ASSUME Core, NEW j \in Jobs, Tells(j)
    PROVE  \A u \in Tabs : tabs'[u].timer = tabs[u].timer
<1>1. /\ jobs[j].say \in Seq(MessagesIn(made)) /\ tabs \in [Tabs -> TabsIn(made)]
      /\ made \in [Pieces -> Nat]
      /\ jobs[j].act = "subscribe" =>
           Append(jobs[j].say, Message("sync", jobs[j].next.doc)) \in Seq(MessagesIn(made))
  BY TellsTabs DEF Core, Shaped
<1> SUFFICES ASSUME NEW u \in Tabs PROVE tabs'[u].timer = tabs[u].timer
  OBVIOUS
<1>2. CASE tabs'[u] = Sent(tabs[u], jobs[j].say)
  <2>1. PICK s, x : s = jobs[j].say /\ x = tabs[u]
    OBVIOUS
  <2>2. s \in Seq(MessagesIn(made)) /\ x \in TabsIn(made) /\ tabs'[u] = Sent(x, s)
    BY <1>1, <1>2, <2>1
  <2>3. Sent(x, s).timer = x.timer
    BY <2>2, SentTimer
  <2> QED
    BY <2>1, <2>2, <2>3
<1>3. CASE /\ tabs'[u] = Sent([tabs[u] EXCEPT !.subscribed = TRUE],
                             Append(jobs[j].say, Message("sync", jobs[j].next.doc)))
           /\ jobs[j].act = "subscribe"
  <2>1. PICK s, x : /\ s = Append(jobs[j].say, Message("sync", jobs[j].next.doc))
                    /\ x = [tabs[u] EXCEPT !.subscribed = TRUE]
    OBVIOUS
  <2>2. s \in Seq(MessagesIn(made)) /\ x \in TabsIn(made)
    BY <1>1, <1>3, <2>1, TabFlags
  <2>3. x.timer = tabs[u].timer
    BY <1>1, <2>1 DEF TabsIn
  <2>4. tabs'[u] = Sent(x, s)
    BY <1>3, <2>1
  <2>5. Sent(x, s).timer = x.timer
    BY <2>2, SentTimer
  <2> QED
    BY <2>3, <2>4, <2>5
<1> QED
  BY <1>2, <1>3 DEF Tells

\* A job that is going to save or record the document.
Saver(x) == (x.pc = "write" /\ x.act # "editor") \/ x.pc = "readback"

LEMMA DueParts ==
    Due <=> (rare \subseteq {"closed", "editor", "workspace"} /\ row # None /\ ~row.conflict =>
               \/ Changed(TextOf(row.doc), row.base) \subseteq taken
               \/ \E t \in Tabs : tabs[t].timer # "none"
               \/ \E j \in Jobs : Saver(jobs[j]))
BY DEF Due, Saver

\* A step that neither ends a save nor clears a timer.
LEMMA DueKept ==
    ASSUME Due, rare \subseteq rare', row' = row, taken' = taken,
           \A t \in Tabs : tabs[t].timer # "none" => tabs'[t].timer # "none",
           \A j \in Jobs : Saver(jobs[j]) => Saver(jobs'[j])
    PROVE  Due'
<1>1. ~(rare' \subseteq {"closed", "editor", "workspace"} /\ row' # None /\ ~row'.conflict)
      \/ (rare \subseteq {"closed", "editor", "workspace"} /\ row # None /\ ~row.conflict)
  OBVIOUS
<1> QED
  BY <1>1, DueParts DEF Due, Saver

LEMMA DueWritten ==
    ASSUME row' # None => TextOf(row'.doc) = row'.base
    PROVE  Due'
<1>1. row' # None => Changed(TextOf(row'.doc), row'.base) = {}
  BY DEF Changed
<1> QED
  BY <1>1 DEF Due

LEMMA RareGrows ==
    ASSUME [Next]_vars
    PROVE  rare \subseteq rare'
<1>1. \A kind : Happens(kind) => rare \subseteq rare'
  BY DEF Happens
<1> QED
  BY <1>1
     DEF Next, vars, Step, Opens, Closes, Delivers, Types, BeginsPersist, SavesBatch,
         BeginsAutosave, Chooses, IsCut, Fails, BeginsReconcile, LockExpires, Creates,
         Reconciles, TakesFile, WritesFile, IsRefused, Records, IsUnrecorded, Saved, Tells,
         AgentWrites

\* A job that begins was idle, and no other changes.
LEMMA SaversStay ==
    ASSUME Core, NEW j \in Jobs, NEW x, Goes(j, x), ~Saver(jobs[j])
    PROVE  \A i \in Jobs : Saver(jobs[i]) => Saver(jobs'[i])
BY DEF Core, Inv, Goes

LEMMA TabDue ==
    ASSUME Core, Due, rare \subseteq rare', NEW t \in Tabs,
           \/ Opens(t) \/ Closes(t) \/ Delivers(t)
           \/ \E e \in Edits : Types(t, e)
           \/ BeginsPersist(t) \/ SavesBatch(t) \/ BeginsAutosave(t)
           \/ \E act \in {"editor", "workspace"} : Chooses(t, act)
           \/ IsCut(t)
    PROVE  Due'
<1>0. /\ tabs \in [Tabs -> TabsIn(made)] /\ made \in [Pieces -> Nat]
      /\ tabs = [u \in Tabs |-> tabs[u]]
  BY DEF Core, Shaped
<1>1. CASE Opens(t)
  <2>1. PICK j, x : j = <<t, "request">> /\ Goes(j, x)
    BY <1>1 DEF Opens, Begins
  <2>2. j \in Jobs /\ jobs[j].pc = "idle"
    BY <1>1, <2>1 DEF Opens, Jobs
  <2>3. \A i \in Jobs : Saver(jobs[i]) => Saver(jobs'[i])
    BY <2>1, <2>2, SaversStay DEF Saver
  <2>4. \A u \in Tabs : tabs'[u].timer = tabs[u].timer
    <3>1. tabs' = [tabs EXCEPT ![t] = [tabs[t] EXCEPT !.conn = "open"]]
      BY <1>1 DEF Opens
    <3>2. [tabs[t] EXCEPT !.conn = "open"].timer = tabs[t].timer
      BY <1>0 DEF TabsIn
    <3> QED
      BY <1>0, <3>1, <3>2
  <2> QED
    BY <1>1, <2>3, <2>4, DueKept DEF Opens
<1>2. CASE Closes(t)
  <2>1. \A u \in Tabs : tabs'[u].timer = tabs[u].timer
    BY <1>2, ClosesTabs
  <2> QED
    BY <1>2, <2>1, DueKept DEF Closes
<1>3. CASE Delivers(t)
  <2>1. PICK ts \in [Tabs -> TabsIn(made)], d \in DocsIn(made) :
          /\ \A u \in Tabs : ts[u].timer = tabs[u].timer
          /\ tabs' = ts \/ tabs' = Received(ts, t, d)
    BY <1>3, DeliversTabs
  <2>2. \A u \in Tabs : tabs'[u].timer = ts[u].timer
    BY <1>0, <2>1, ReceivedTimers
  <2> QED
    BY <1>3, <2>1, <2>2, DueKept DEF Delivers
<1>4. ASSUME NEW e \in Edits, Types(t, e) PROVE Due'
  <2>1. PICK ts \in [Tabs -> TabsIn(made')], d \in DocsIn(made') :
          /\ \A u \in Tabs : ts[u].timer = tabs[u].timer
          /\ tabs' = Received(ts, t, d) /\ made' \in [Pieces -> Nat]
    BY <1>4, TypesTabs
  <2>2. \A u \in Tabs : tabs'[u].timer = ts[u].timer
    BY <2>1, ReceivedTimers
  <2> QED
    BY <1>4, <2>1, <2>2, DueKept DEF Types
<1>5. CASE BeginsPersist(t)
  <2>1. PICK j, x : j = <<t, "persist">> /\ Goes(j, x) /\ jobs[j].pc = "idle"
    BY <1>5 DEF BeginsPersist, Free
  <2>2. \A i \in Jobs : Saver(jobs[i]) => Saver(jobs'[i])
    BY <2>1, SaversStay DEF Saver, Jobs
  <2> QED
    BY <1>5, <2>2, DueKept DEF BeginsPersist
<1>6. CASE SavesBatch(t)
  <2>1. tabs' = [tabs EXCEPT ![t] =
                [tabs[t] EXCEPT !.queue = tabs[t].queue \ jobs[<<t, "persist">>].batch,
                                !.timer = Scheduled(tabs[t])]]
    BY <1>6, SavesBatchTabs
  <2>2. tabs'[t].timer = Scheduled(tabs[t])
    BY <1>0, <2>1 DEF TabsIn
  <2> QED
    BY <2>2 DEF Due, Scheduled
<1>7. CASE BeginsAutosave(t)
  <2>1. CASE row.conflict \/ TextOf(row.doc) = row.base
    <3>1. Changed(TextOf(row.doc), row.base) = {} \/ row.conflict
      BY <2>1 DEF Changed
    <3> QED
      BY <1>7, <3>1 DEF BeginsAutosave, Due
  <2>2. CASE ~(row.conflict \/ TextOf(row.doc) = row.base)
    <3>1. PICK j : j = <<t, "autosave">>
      OBVIOUS
    <3>2. PICK x : x = Begun("autosave", "write", row, file)
      OBVIOUS
    <3>3. j \in Jobs /\ Goes(j, x)
      BY <1>7, <2>2, <3>1, <3>2 DEF BeginsAutosave, Begins, Begun, Jobs
    <3>4. x.pc = "write" /\ x.act = "autosave"
      BY <3>2 DEF Begun, Idle
    <3>5. jobs'[j] = x
      BY <3>3 DEF Core, Inv, Goes
    <3>6. Saver(jobs'[j])
      BY <3>4, <3>5 DEF Saver
    <3> QED
      BY <3>3, <3>6 DEF Due, Saver
  <2> QED
    BY <2>1, <2>2
<1>8. ASSUME NEW act \in {"editor", "workspace"}, Chooses(t, act) PROVE Due'
  <2>1. PICK j, x : j = <<t, "request">> /\ Goes(j, x) /\ jobs[j].pc = "idle"
    BY <1>8 DEF Chooses, Begins, Free
  <2>2. \A i \in Jobs : Saver(jobs[i]) => Saver(jobs'[i])
    BY <2>1, SaversStay DEF Saver, Jobs
  <2> QED
    BY <1>8, <2>2, DueKept DEF Chooses
<1>9. CASE IsCut(t)
  <2>1. "cut" \in rare'
    BY <1>9 DEF IsCut, Happens
  <2> QED
    BY <2>1 DEF Due
<1> QED
  BY <1>1, <1>2, <1>3, <1>4, <1>5, <1>6, <1>7, <1>8, <1>9

LEMMA JobDue ==
    ASSUME Core, Due, rare \subseteq rare', NEW j \in Jobs, Step(j) \/ Fails(j) \/ IsUnrecorded(j)
    PROVE  Due'
<1>1. CASE Creates(j)
  <2>1. /\ row' = Fresh(ReplaceContents(NoDoc, jobs[j].seen.text, made), jobs[j].seen)
        /\ TextOf(ReplaceContents(NoDoc, jobs[j].seen.text, made)) = jobs[j].seen.text
    BY <1>1, CreatesRow
  <2>2. TextOf(row'.doc) = row'.base
    BY <2>1 DEF Fresh
  <2> QED
    BY <2>2, DueWritten
<1>2. CASE Reconciles(j)
  <2>1. jobs[j].pc = "save" /\ jobs[j].act \in Reconciling /\ jobs[j].act # "persist"
        /\ jobs[j].act # "editor" /\ UNCHANGED <<tabs, taken>>
    BY <1>2 DEF Reconciles, Reconciling
  <2>2. row \in RowsIn(made) /\ row # None /\ row.base \in Texts /\ jobs[j].seen.text \in Texts
        /\ row.doc \in DocsIn(made) /\ made \in [Pieces -> Nat]
    BY <2>1, SavingJob
  <2>3. CASE Leaves(j)
    <3>1. PICK x : Goes(j, x)
      BY <2>3 DEF Leaves
    <3>2. \A i \in Jobs : Saver(jobs[i]) => Saver(jobs'[i])
      BY <2>1, <3>1, SaversStay DEF Saver
    <3> QED
      BY <2>1, <2>3, <3>2, DueKept DEF Leaves
  <2>4. CASE Marks(j)
    <3>1. row'.conflict = TRUE
      BY <2>2, <2>4, MarkedRow DEF Marks
    <3> QED
      BY <3>1 DEF Due
  <2>5. CASE Merges(j)
    <3>1. /\ row'.doc = Merged(j) /\ row'.base = jobs[j].seen.text
          /\ Merged(j) \in DocsIn(made') /\ made' \in [Pieces -> Nat]
          /\ \A p \in Pieces :
               TextOf(Merged(j))[p] = TextOf(row.doc)[p] + jobs[j].seen.text[p] - row.base[p]
      BY <2>1, <2>5, MergesDoc
    <3>2. CASE TextOf(row.doc) = row.base \/ TextOf(Merged(j)) = jobs[j].seen.text
      <4>1. TextOf(Merged(j)) = jobs[j].seen.text
        <5>1. CASE TextOf(row.doc) = row.base
          <6>1. \A p \in Pieces : TextOf(Merged(j))[p] = jobs[j].seen.text[p]
            <7> SUFFICES ASSUME NEW p \in Pieces PROVE TextOf(Merged(j))[p] = jobs[j].seen.text[p]
              OBVIOUS
            <7>1. row.base[p] \in Nat /\ jobs[j].seen.text[p] \in Nat
              BY <2>2 DEF Texts
            <7>2. TextOf(Merged(j))[p] = row.base[p] + jobs[j].seen.text[p] - row.base[p]
              BY <3>1, <5>1
            <7> QED
              BY <7>1, <7>2
          <6>2. TextOf(Merged(j)) \in Texts
            BY <3>1, TextTyped
          <6> QED
            BY <2>2, <6>1, <6>2 DEF Texts
        <5> QED
          BY <3>2, <5>1
      <4> QED
        BY <3>1, <4>1, DueWritten
    <3>3. CASE Goes(j, [jobs[j] EXCEPT !.pc = "write", !.snap = row', !.next = row',
                        !.say = <<Message("reconciled", Delta(Merged(j), row.doc))>>])
      <4>1. PICK x, s : /\ x = [jobs[j] EXCEPT !.pc = "write", !.snap = row', !.next = row', !.say = s]
                        /\ Goes(j, x)
        BY <3>3
      <4>2. x.pc = "write" /\ x.act = jobs[j].act
        <5>1. jobs[j] \in JobsIn(made)
          BY DEF Core, Shaped
        <5> QED
          BY <4>1, <5>1 DEF JobsIn
      <4>3. jobs'[j] = x
        BY <4>1 DEF Core, Inv, Goes
      <4>4. Saver(jobs'[j])
        BY <2>1, <4>2, <4>3 DEF Saver
      <4> QED
        BY <4>4 DEF Due, Saver
    <3> QED
      BY <2>5, <3>2, <3>3 DEF Merges
  <2> QED
    BY <1>2, <2>3, <2>4, <2>5, ReconcilesHow
<1>3. CASE TakesFile(j)
  <2>1. /\ row'.doc = ReplaceContents(row.doc, jobs[j].seen.text, made)
        /\ TextOf(ReplaceContents(row.doc, jobs[j].seen.text, made)) = jobs[j].seen.text
        /\ row'.base = jobs[j].seen.text
    BY <1>3, TakesFileRow
  <2> QED
    BY <2>1, DueWritten
<1>4. CASE WritesFile(j)
  <2>1. PICK x : x = [jobs[j] EXCEPT !.pc = "readback"] /\ Goes(j, x)
    BY <1>4 DEF WritesFile
  <2>2. jobs[j] \in JobsIn(made) /\ jobs'[j] = x
    BY <2>1 DEF Core, Shaped, Goes
  <2>3. Saver(jobs'[j])
    BY <2>1, <2>2 DEF JobsIn, Saver
  <2> QED
    BY <2>3 DEF Due, Saver
<1>5. CASE IsRefused(j)
  <2>1. CASE row' = row /\ Goes(j, Idle) /\ jobs[j].act = "editor"
    <3>1. \A i \in Jobs : Saver(jobs[i]) => Saver(jobs'[i])
      BY <1>5, <2>1, SaversStay DEF Saver, IsRefused
    <3> QED
      BY <1>5, <2>1, <3>1, DueKept DEF IsRefused
  <2>2. CASE row'.conflict = TRUE
    BY <2>2 DEF Due
  <2> QED
    BY <1>5, <2>1, <2>2, RefusedRow
<1>6. CASE Records(j)
  <2>1. /\ row'.doc = row.doc /\ row'.base = file.text /\ jobs[j].snap = row
        /\ taken' = taken \cup Changed(TextOf(jobs[j].snap.doc), file.text)
    BY <1>6, RecordedRow, WritingJob DEF Records, Saved
  <2>2. Changed(TextOf(row'.doc), row'.base) \subseteq taken'
    BY <2>1
  <2> QED
    BY <2>2 DEF Due
<1>7. CASE IsUnrecorded(j)
  <2>1. "unrecorded" \in rare'
    BY <1>7 DEF IsUnrecorded, Happens
  <2> QED
    BY <2>1 DEF Due
<1>8. CASE Tells(j)
  <2>1. Goes(j, Idle) /\ jobs[j].pc = "tell" /\ UNCHANGED <<row, taken>>
    BY <1>8 DEF Tells
  <2>2. \A i \in Jobs : Saver(jobs[i]) => Saver(jobs'[i])
    BY <2>1, SaversStay DEF Saver
  <2>3. \A u \in Tabs : tabs'[u].timer = tabs[u].timer
    BY <1>8, TellsTimers
  <2> QED
    BY <2>1, <2>2, <2>3, DueKept
<1>9. CASE Fails(j)
  <2>1. "lost" \in rare' \/ "failed" \in rare'
    BY <1>9 DEF Fails, Happens
  <2> QED
    BY <2>1 DEF Due
<1> QED
  BY <1>1, <1>2, <1>3, <1>4, <1>5, <1>6, <1>7, <1>8, <1>9 DEF Step

LEMMA DueNext == Core /\ Due /\ [Next]_vars => Due'
<1> SUFFICES ASSUME Core, Due, [Next]_vars PROVE Due'
  OBVIOUS
<1>0. rare \subseteq rare'
  BY RareGrows
<1>1. CASE UNCHANGED vars
  BY <1>1 DEF vars, Due
<1>2. CASE BeginsReconcile
  <2>1. CASE UNCHANGED jobs
    BY <1>0, <1>2, <2>1, DueKept DEF BeginsReconcile
  <2>2. CASE Begins(<<Turn, "request">>, "turn", "save")
    <3>1. PICK j, x : j = <<Turn, "request">> /\ Goes(j, x) /\ jobs[j].pc = "idle"
      BY <2>2 DEF Begins, Free
    <3>2. \A i \in Jobs : Saver(jobs[i]) => Saver(jobs'[i])
      BY <3>1, SaversStay DEF Saver, Jobs
    <3> QED
      BY <1>0, <1>2, <3>2, DueKept DEF BeginsReconcile
  <2> QED
    BY <1>2, <2>1, <2>2 DEF BeginsReconcile
<1>3. CASE LockExpires
  BY <1>0, <1>3, DueKept DEF LockExpires
<1>4. ASSUME NEW p \in Writes, AgentWrites(p) PROVE Due'
  BY <1>0, <1>4, DueKept DEF AgentWrites
<1> QED
  BY <1>0, <1>1, <1>2, <1>3, <1>4, TabDue, JobDue DEF Next

LEMMA DueInit == Init => Due
BY DEF Init, Due

\* Nobody presses Save: when nothing is pending, all edits are in the file or
\* the document is in conflict, also after a socket has closed
\* (scheduleAutosave, flushAutosaves), if no call failed: only an autosave that
\* has nothing to write clears a timer without writing.
THEOREM AutosaveIsSure == Spec => []AutosaveComes
<1>1. Init => Core /\ Due
  BY CoreInit, DueInit
<1>2. Core /\ Due /\ [Next]_vars => (Core /\ Due)'
  BY CoreNext, DueNext
<1>3. Due => AutosaveComes
  BY DEF Due, AutosaveComes, Pending
<1> QED
  BY <1>1, <1>2, <1>3, PTL DEF Spec

-----------------------------------------------------------------------------
(* What the editors have *)

\* What a step does to what the row, the tabs and the jobs have.
Flow ==
    /\ row.doc.ins \subseteq row'.doc.ins
    /\ Present \subseteq Present'
    /\ row'.doc.ins \subseteq row.doc.ins \cup Queued \cup Coming'
    /\ Coming' \subseteq Coming \cup row'.doc.ins
    /\ \A t \in Tabs :
         /\ Heard(t) \subseteq Heard(t)'
         /\ Queued' \subseteq Queued \cup Heard(t)'
         /\ News(tabs'[t].feed) \subseteq News(tabs[t].feed) \cup Present'
         /\ tabs'[t].synced =>
              \/ tabs[t].synced /\ tabs'[t].doc.ins \subseteq tabs[t].doc.ins \cup Present'
              \/ tabs'[t].doc.ins \subseteq Present'
         /\ \A s \in Syncs(tabs'[t].feed) : s \in Syncs(tabs[t].feed) \/ s \subseteq row'.doc.ins
         /\ \A s \in Loaded(t)' : s \in Loaded(t) \/ s = row'.doc.ins
         /\ tabs'[t].feed # <<>> \/ tabs'[t].synced => tabs'[t].subscribed
         /\ jobs'[<<t, "persist">>].batch \subseteq tabs'[t].queue
         /\ tabs'[t].subscribed => tabs[t].subscribed \/ row.doc.ins \subseteq Heard(t)'

LEMMA FlowKeeps ==
    ASSUME Sourced, Reached, row # None, row' # None, Flow
    PROVE  Sourced' /\ Reached'
<1>1. Coming' \subseteq row'.doc.ins
  BY DEF Sourced, Flow
<1>2. ASSUME NEW t \in Tabs
      PROVE  /\ News(tabs'[t].feed) \subseteq Present'
             /\ tabs'[t].synced => tabs'[t].doc.ins \subseteq Present'
             /\ \A s \in Syncs(tabs'[t].feed) \cup Loaded(t)' : s \subseteq row'.doc.ins
  <2>1. News(tabs'[t].feed) \subseteq Present'
    BY DEF Sourced, Flow
  <2>2. ASSUME tabs'[t].synced PROVE tabs'[t].doc.ins \subseteq Present'
    BY <2>2 DEF Sourced, Flow
  <2>3. ASSUME NEW s \in Syncs(tabs'[t].feed) \cup Loaded(t)' PROVE s \subseteq row'.doc.ins
    <3>1. \/ s \in Syncs(tabs[t].feed) \cup Loaded(t)
          \/ s \subseteq row'.doc.ins
      BY <2>3 DEF Flow
    <3> QED
      BY <3>1 DEF Sourced, Flow
  <2> QED
    BY <2>1, <2>2, <2>3
<1>3. ASSUME NEW t \in Tabs
      PROVE  /\ Queued' \subseteq Heard(t)'
             /\ tabs'[t].subscribed => row'.doc.ins \subseteq Heard(t)'
             /\ \A s \in Loaded(t)' : row'.doc.ins \subseteq Heard(t)' \cup s
  <2>0. Coming' \subseteq Heard(t)'
    BY DEF Heard
  <2>1. Queued' \subseteq Heard(t)'
    BY DEF Reached, Flow
  <2>2. row'.doc.ins \subseteq row.doc.ins \cup Heard(t)'
    BY <2>0 DEF Reached, Flow
  <2>3. ASSUME tabs'[t].subscribed PROVE row'.doc.ins \subseteq Heard(t)'
    <3>1. row.doc.ins \subseteq Heard(t) \/ row.doc.ins \subseteq Heard(t)'
      BY <2>3 DEF Reached, Flow
    <3> QED
      BY <2>2, <3>1 DEF Flow
  <2>4. ASSUME NEW s \in Loaded(t)' PROVE row'.doc.ins \subseteq Heard(t)' \cup s
    <3>1. s \in Loaded(t) \/ s = row'.doc.ins
      BY <2>4 DEF Flow
    <3>2. s \in Loaded(t) => row.doc.ins \subseteq Heard(t) \cup s
      BY DEF Reached
    <3>3. Heard(t) \subseteq Heard(t)'
      BY DEF Flow
    <3> QED
      BY <2>2, <3>1, <3>2, <3>3
  <2> QED
    BY <2>1, <2>3, <2>4
<1>4. Sourced'
  BY <1>1, <1>2 DEF Sourced
<1>5. Reached'
  BY <1>3 DEF Reached, Flow
<1> QED
  BY <1>4, <1>5

\* What lists of messages bring.
LEMMA NewsFew ==
    ASSUME NEW x
    PROVE  News(<<>>) = {} /\ News(<<x>>) = x.delta.ins
<1>1. News(<<>>) = {}
  BY DEF News
<1>2. News(<<x>>) = x.delta.ins
  BY DEF News
<1> QED
  BY <1>1, <1>2

LEMMA NewsAppend ==
    ASSUME NEW M, NEW s \in Seq(M), NEW x \in M
    PROVE  News(Append(s, x)) = News(s) \cup x.delta.ins
<1>1. DOMAIN Append(s, x) = DOMAIN s \cup {Len(s) + 1}
  OBVIOUS
<1>2. \A i \in DOMAIN s : Append(s, x)[i] = s[i]
  OBVIOUS
<1>3. Append(s, x)[Len(s) + 1] = x
  OBVIOUS
<1> QED
  BY <1>1, <1>2, <1>3 DEF News

LEMMA NewsJoin ==
    ASSUME NEW M, NEW s \in Seq(M), NEW r \in Seq(M)
    PROVE  News(s \o r) = News(s) \cup News(r)
<1>1. \A i \in DOMAIN s : i \in DOMAIN (s \o r) /\ (s \o r)[i] = s[i]
  OBVIOUS
<1>2. \A i \in DOMAIN r : Len(s) + i \in DOMAIN (s \o r) /\ (s \o r)[Len(s) + i] = r[i]
  OBVIOUS
<1>3. \A i \in DOMAIN (s \o r) :
        \/ i \in DOMAIN s /\ (s \o r)[i] = s[i]
        \/ \E k \in DOMAIN r : (s \o r)[i] = r[k]
  <2> SUFFICES ASSUME NEW i \in DOMAIN (s \o r), i \notin DOMAIN s
               PROVE  \E k \in DOMAIN r : (s \o r)[i] = r[k]
    OBVIOUS
  <2>1. i - Len(s) \in DOMAIN r /\ (s \o r)[i] = r[i - Len(s)]
    OBVIOUS
  <2> QED
    BY <2>1
<1>4. News(s \o r) \subseteq News(s) \cup News(r)
  BY <1>3 DEF News
<1>5. News(s) \subseteq News(s \o r)
  BY <1>1 DEF News
<1>6. News(r) \subseteq News(s \o r)
  BY <1>2 DEF News
<1> QED
  BY <1>4, <1>5, <1>6

LEMMA NewsHead ==
    ASSUME NEW M, NEW s \in Seq(M), s # <<>>
    PROVE  News(s) = Head(s).delta.ins \cup News(Tail(s))
<1>1. Head(s) = s[1] /\ 1 \in DOMAIN s
  OBVIOUS
<1>2. \A i \in DOMAIN Tail(s) : i + 1 \in DOMAIN s /\ Tail(s)[i] = s[i + 1]
  OBVIOUS
<1>3. \A i \in DOMAIN s : i = 1 \/ (i - 1 \in DOMAIN Tail(s) /\ Tail(s)[i - 1] = s[i])
  OBVIOUS
<1>4. News(Tail(s)) \subseteq News(s)
  BY <1>2 DEF News
<1>5. News(s) \subseteq Head(s).delta.ins \cup News(Tail(s))
  BY <1>1, <1>3 DEF News
<1>6. Head(s).delta.ins \subseteq News(s)
  BY <1>1 DEF News
<1> QED
  BY <1>4, <1>5, <1>6

LEMMA SyncsOf ==
    ASSUME NEW M, NEW s \in Seq(M), NEW r \in Seq(M)
    PROVE  /\ Syncs(<<>>) = {}
           /\ \A q \in Syncs(s) : q \subseteq News(s)
           /\ \A q \in Syncs(s \o r) : q \in Syncs(s) \/ q \in Syncs(r)
           /\ s # <<>> => Syncs(Tail(s)) \subseteq Syncs(s)
           /\ s # <<>> /\ Head(s).kind = "sync" => Head(s).delta.ins \in Syncs(s)
<1>1. Syncs(<<>>) = {}
  BY DEF Syncs
<1>2. ASSUME NEW q \in Syncs(s) PROVE q \subseteq News(s)
  BY DEF Syncs, News
<1>3. ASSUME NEW q \in Syncs(s \o r) PROVE q \in Syncs(s) \/ q \in Syncs(r)
  <2>1. PICK i \in DOMAIN (s \o r) : (s \o r)[i].kind = "sync" /\ q = (s \o r)[i].delta.ins
    BY DEF Syncs
  <2>2. CASE i <= Len(s)
    <3>1. i \in DOMAIN s /\ (s \o r)[i] = s[i]
      BY <2>1, <2>2
    <3> QED
      BY <2>1, <3>1 DEF Syncs
  <2>3. CASE i > Len(s)
    <3>1. PICK k : k = i - Len(s)
      OBVIOUS
    <3>2. k \in DOMAIN r /\ (s \o r)[i] = r[k]
      BY <2>1, <2>3, <3>1
    <3> QED
      BY <2>1, <3>2 DEF Syncs
  <2> QED
    BY <2>1, <2>2, <2>3
<1>4. ASSUME s # <<>> PROVE Syncs(Tail(s)) \subseteq Syncs(s)
  <2> SUFFICES ASSUME NEW q \in Syncs(Tail(s)) PROVE q \in Syncs(s)
    OBVIOUS
  <2>1. PICK i \in DOMAIN Tail(s) : Tail(s)[i].kind = "sync" /\ q = Tail(s)[i].delta.ins
    BY DEF Syncs
  <2>2. PICK k : k = i + 1
    OBVIOUS
  <2>3. k \in DOMAIN s /\ Tail(s)[i] = s[k]
    BY <1>4, <2>1, <2>2
  <2> QED
    BY <2>1, <2>3 DEF Syncs
<1>5. ASSUME s # <<>>, Head(s).kind = "sync" PROVE Head(s).delta.ins \in Syncs(s)
  <2>1. 1 \in DOMAIN s /\ Head(s) = s[1]
    BY <1>5
  <2> QED
    BY <1>5, <2>1 DEF Syncs
<1> QED
  BY <1>1, <1>2, <1>3, <1>4, <1>5

LEMMA SyncsOne ==
    ASSUME NEW x
    PROVE  /\ x.kind = "sync" => Syncs(<<x>>) = {x.delta.ins}
           /\ x.kind # "sync" => Syncs(<<x>>) = {}
BY DEF Syncs

LEMMA SentFlow ==
    ASSUME NEW m \in [Pieces -> Nat], NEW x \in TabsIn(m), NEW s \in Seq(MessagesIn(m)),
           NEW y, y = Sent(x, s)
    PROVE  /\ Has(y) = Has(x) \cup News(s) /\ Waiting(y) = Waiting(x)
           /\ News(y.feed) \subseteq News(x.feed) \cup News(s)
           /\ \A q \in Syncs(y.feed) : q \in Syncs(x.feed) \/ q \in Syncs(s)
           /\ y.feed # <<>> => x.feed # <<>> \/ x.subscribed
           /\ y.doc = x.doc /\ y.synced = x.synced /\ y.subscribed = x.subscribed
           /\ y.queue = x.queue /\ y.unsaved = x.unsaved
<1>0. PICK M : M = MessagesIn(m)
  OBVIOUS
<1>1. /\ x.feed \in Seq(M) /\ s \in Seq(M) /\ x.subscribed \in BOOLEAN
      /\ x.dropped \in SUBSET Items /\ IsTab(x)
  BY <1>0, TabParts
<1>2. CASE x.subscribed
  <2>1. y = [x EXCEPT !.feed = x.feed \o s]
    BY <1>2 DEF Sent
  <2>2. /\ y.doc = x.doc /\ y.synced = x.synced /\ y.subscribed = x.subscribed
        /\ y.queue = x.queue /\ y.unsaved = x.unsaved /\ y.dropped = x.dropped
        /\ y.feed = x.feed \o s
    BY <1>1, <2>1 DEF IsTab
  <2>3. News(x.feed \o s) = News(x.feed) \cup News(s)
    BY <1>1, NewsJoin
  <2>4. \A q \in Syncs(x.feed \o s) : q \in Syncs(x.feed) \/ q \in Syncs(s)
    BY <1>1, SyncsOf
  <2> QED
    BY <1>1, <1>2, <2>2, <2>3, <2>4 DEF Has, Waiting
<1>3. CASE ~x.subscribed
  <2>1. y = [x EXCEPT !.dropped = x.dropped \cup News(s)]
    BY <1>3 DEF Sent
  <2>2. /\ y.doc = x.doc /\ y.synced = x.synced /\ y.subscribed = x.subscribed
        /\ y.queue = x.queue /\ y.unsaved = x.unsaved /\ y.feed = x.feed
        /\ y.dropped = x.dropped \cup News(s)
    BY <1>1, <2>1 DEF IsTab
  <2> QED
    BY <2>2 DEF Has, Waiting
<1> QED
  BY <1>1, <1>2, <1>3

\* What a job that goes on changes in what is coming and loaded.
LEMMA ComingGoes ==
    ASSUME Core, NEW j \in Jobs, NEW x, Goes(j, x)
    PROVE  /\ Coming' \subseteq Coming \cup News(x.say)
           /\ Coming \subseteq Coming' \cup News(jobs[j].say)
           /\ News(x.say) \subseteq Coming' /\ News(jobs[j].say) \subseteq Coming
           /\ \A t \in Tabs : \A s \in Loaded(t)' : s \in Loaded(t) \/ (s \in Loads(x) /\ j = <<t, "request">>)
           /\ \A t \in Tabs : \/ jobs'[<<t, "persist">>].batch = jobs[<<t, "persist">>].batch
                              \/ j = <<t, "persist">> /\ jobs'[<<t, "persist">>].batch = x.batch
<1>1. /\ jobs'[j] = x /\ \A i \in Jobs \ {j} : jobs'[i] = jobs[i]
  BY DEF Core, Inv, Goes
<1>2. \A t \in Tabs : <<t, "request">> \in Jobs /\ <<t, "persist">> \in Jobs
  BY DEF Jobs
<1>3. Coming' \subseteq Coming \cup News(x.say)
  <2>1. \A i \in Jobs : News(jobs'[i].say) \subseteq Coming \cup News(x.say)
    BY <1>1 DEF Coming
  <2> QED
    BY <2>1 DEF Coming
<1>4. Coming \subseteq Coming' \cup News(jobs[j].say)
  <2>1. \A i \in Jobs : News(jobs[i].say) \subseteq Coming' \cup News(jobs[j].say)
    BY <1>1 DEF Coming
  <2> QED
    BY <2>1 DEF Coming
<1>5. News(x.say) \subseteq Coming' /\ News(jobs[j].say) \subseteq Coming
  BY <1>1 DEF Coming
<1>6. ASSUME NEW t \in Tabs, NEW s \in Loaded(t)'
      PROVE  s \in Loaded(t) \/ (s \in Loads(x) /\ j = <<t, "request">>)
  BY <1>1, <1>2, <1>6 DEF Loaded
<1>7. ASSUME NEW t \in Tabs
      PROVE  \/ jobs'[<<t, "persist">>].batch = jobs[<<t, "persist">>].batch
             \/ j = <<t, "persist">> /\ jobs'[<<t, "persist">>].batch = x.batch
  BY <1>1, <1>2
<1> QED
  BY <1>3, <1>4, <1>5, <1>6, <1>7

\* Nothing of what the tabs have changes.
SameTab(x, y) ==
    /\ Has(y) = Has(x) /\ Waiting(y) = Waiting(x) /\ y.doc = x.doc /\ y.feed = x.feed
    /\ y.queue = x.queue /\ y.unsaved = x.unsaved
    /\ y.synced = x.synced /\ y.subscribed = x.subscribed
SameTabs == \A t \in Tabs : SameTab(tabs[t], tabs'[t])

LEMMA TabsStill ==
    ASSUME SameTabs
    PROVE  Queued' = Queued /\ Unsaved' = Unsaved
<1>1. \A t \in Tabs : Waiting(tabs'[t]) = Waiting(tabs[t]) /\ tabs'[t].unsaved = tabs[t].unsaved
  BY DEF SameTabs, SameTab
<1> QED
  BY <1>1 DEF Queued, Unsaved

\* A step of a job and of the row.
LEMMA JobFlow ==
    ASSUME Core, Sourced, Reached, NEW j \in Jobs, NEW x, Goes(j, x), SameTabs,
           row # None, row' # None,
           row.doc.ins \subseteq row'.doc.ins,
           row'.doc.ins \subseteq row.doc.ins \cup News(x.say),
           News(jobs[j].say) \subseteq News(x.say),
           News(x.say) \subseteq News(jobs[j].say) \cup row'.doc.ins,
           \A t \in Tabs : j = <<t, "request">> =>
             \A s \in Loads(x) : s \in Loads(jobs[j]) \/ s = row'.doc.ins,
           \A t \in Tabs : j = <<t, "persist">> => x.batch \subseteq tabs[t].queue
    PROVE  Sourced' /\ Reached'
<1>1. Queued' = Queued /\ Unsaved' = Unsaved
  BY TabsStill
<1>2. Present \subseteq Present'
  BY <1>1 DEF Present
<1>3. /\ row'.doc.ins \subseteq row.doc.ins \cup Queued \cup Coming'
      /\ Coming' \subseteq Coming \cup row'.doc.ins
      /\ Coming \subseteq Coming'
  <2>1. /\ Coming' \subseteq Coming \cup News(x.say)
        /\ Coming \subseteq Coming' \cup News(jobs[j].say)
        /\ News(x.say) \subseteq Coming' /\ News(jobs[j].say) \subseteq Coming
    BY ComingGoes
  <2> QED
    BY <2>1
<1>4. ASSUME NEW t \in Tabs
      PROVE  /\ Heard(t) \subseteq Heard(t)'
             /\ Queued' \subseteq Queued \cup Heard(t)'
             /\ News(tabs'[t].feed) \subseteq News(tabs[t].feed) \cup Present'
             /\ tabs'[t].synced =>
                  \/ tabs[t].synced /\ tabs'[t].doc.ins \subseteq tabs[t].doc.ins \cup Present'
                  \/ tabs'[t].doc.ins \subseteq Present'
             /\ \A s \in Syncs(tabs'[t].feed) : s \in Syncs(tabs[t].feed) \/ s \subseteq row'.doc.ins
             /\ tabs'[t].feed # <<>> \/ tabs'[t].synced => tabs'[t].subscribed
             /\ tabs'[t].subscribed => tabs[t].subscribed \/ row.doc.ins \subseteq Heard(t)'
  <2>1. SameTab(tabs[t], tabs'[t])
    BY DEF SameTabs
  <2>2. Heard(t) \subseteq Heard(t)'
    BY <1>3, <2>1 DEF Heard, SameTab
  <2>3. tabs[t].feed # <<>> \/ tabs[t].synced => tabs[t].subscribed
    BY DEF Reached
  <2> QED
    BY <1>1, <2>1, <2>2, <2>3 DEF SameTab
<1>5. ASSUME NEW t \in Tabs PROVE \A s \in Loaded(t)' : s \in Loaded(t) \/ s = row'.doc.ins
  <2> SUFFICES ASSUME NEW s \in Loaded(t)' PROVE s \in Loaded(t) \/ s = row'.doc.ins
    OBVIOUS
  <2>1. s \in Loaded(t) \/ (s \in Loads(x) /\ j = <<t, "request">>)
    BY ComingGoes
  <2> QED
    BY <2>1 DEF Loaded
<1>6. ASSUME NEW t \in Tabs PROVE jobs'[<<t, "persist">>].batch \subseteq tabs'[t].queue
  <2>1. tabs'[t].queue = tabs[t].queue
    BY DEF SameTabs, SameTab
  <2>2. jobs[<<t, "persist">>].batch \subseteq tabs[t].queue
    BY DEF Reached
  <2>3. \/ jobs'[<<t, "persist">>].batch = jobs[<<t, "persist">>].batch
        \/ j = <<t, "persist">> /\ jobs'[<<t, "persist">>].batch = x.batch
    BY ComingGoes
  <2> QED
    BY <2>1, <2>2, <2>3
<1>7. Flow
  BY <1>2, <1>3, <1>4, <1>5, <1>6 DEF Flow
<1> QED
  BY <1>7, FlowKeeps

\* A step of the host, or of the timers.
LEMMA StillFlow ==
    ASSUME Sourced, Reached, SameTabs, row' = row, jobs' = jobs
    PROVE  Sourced' /\ Reached'
<1>1. Queued' = Queued /\ Unsaved' = Unsaved /\ Coming' = Coming
  BY TabsStill DEF Coming
<1>2. Present' = Present
  BY <1>1 DEF Present
<1>3. \A t \in Tabs :
        /\ tabs'[t].feed = tabs[t].feed /\ tabs'[t].doc = tabs[t].doc
        /\ tabs'[t].synced = tabs[t].synced /\ tabs'[t].subscribed = tabs[t].subscribed
        /\ tabs'[t].queue = tabs[t].queue
        /\ Heard(t)' = Heard(t) /\ Loaded(t)' = Loaded(t)
  BY <1>1 DEF SameTabs, SameTab, Heard, Loaded
<1>4. Sourced'
  BY <1>1, <1>2, <1>3 DEF Sourced
<1>5. Reached'
  BY <1>1, <1>3 DEF Reached
<1> QED
  BY <1>4, <1>5

LEMMA SameTabKinds ==
    ASSUME NEW m, NEW x \in TabsIn(m), NEW c \in {"closed", "open"}, NEW v \in {"none", "set", "late"}
    PROVE  /\ SameTab(x, x) /\ SameTab(x, [x EXCEPT !.conn = c])
           /\ SameTab(x, [x EXCEPT !.timer = v])
<1>1. SameTab(x, x)
  BY DEF SameTab
<1>2. SameTab(x, [x EXCEPT !.conn = c])
  <2>1. PICK y : y = [x EXCEPT !.conn = c]
    OBVIOUS
  <2>2. /\ y.doc = x.doc /\ y.feed = x.feed /\ y.queue = x.queue /\ y.unsaved = x.unsaved
        /\ y.synced = x.synced /\ y.subscribed = x.subscribed /\ y.dropped = x.dropped
    BY <2>1 DEF TabsIn
  <2> QED
    BY <2>1, <2>2 DEF SameTab, Has, Waiting
<1>3. SameTab(x, [x EXCEPT !.timer = v])
  <2>1. PICK y : y = [x EXCEPT !.timer = v]
    OBVIOUS
  <2>2. /\ y.doc = x.doc /\ y.feed = x.feed /\ y.queue = x.queue /\ y.unsaved = x.unsaved
        /\ y.synced = x.synced /\ y.subscribed = x.subscribed /\ y.dropped = x.dropped
    BY <2>1 DEF TabsIn
  <2> QED
    BY <2>1, <2>2 DEF SameTab, Has, Waiting
<1> QED
  BY <1>1, <1>2, <1>3

LEMMA SameTabsOne ==
    ASSUME Core, NEW t \in Tabs, NEW y, SameTab(tabs[t], y),
           tabs' = tabs \/ tabs' = [tabs EXCEPT ![t] = y]
    PROVE  SameTabs
<1> SUFFICES ASSUME NEW u \in Tabs PROVE SameTab(tabs[u], tabs'[u])
  BY DEF SameTabs
<1>1. /\ tabs \in [Tabs -> TabsIn(made)] /\ tabs[u] \in TabsIn(made)
  BY DEF Core, Shaped
<1>2. SameTab(tabs[u], tabs[u])
  BY DEF SameTab
<1>3. \/ tabs'[u] = tabs[u]
      \/ u = t /\ tabs'[u] = y
  BY <1>1
<1> QED
  BY <1>2, <1>3

LEMMA SameTabsAll ==
    ASSUME tabs' = tabs
    PROVE  SameTabs
BY DEF SameTabs, SameTab

\* Before there is a row.
LEMMA NoRowFlow ==
    ASSUME Reached, row = None, row' = None, SameTabs
    PROVE  Sourced' /\ Reached'
BY DEF Sourced, Reached, SameTabs, SameTab

LEMMA BegunFlow ==
    ASSUME Core, Sourced, Reached, SameTabs, row' = row, NEW j \in Jobs, j[2] # "persist",
           NEW act \in Acts, NEW pc \in {"create", "save", "write"},
           pc = "write" => act # "subscribe", Begins(j, act, pc)
    PROVE  Sourced' /\ Reached'
<1>1. CASE row = None
  BY <1>1, NoRowFlow
<1>2. CASE row # None
  <2>1. PICK x : x = Begun(act, pc, row, file)
    OBVIOUS
  <2>2. Goes(j, x) /\ jobs[j].pc = "idle"
    BY <2>1 DEF Begins, Begun, Free
  <2>3. jobs[j] = Idle
    BY <2>2 DEF Core, Placed, At
  <2>4. jobs[j].say = <<>>
    BY <2>3, IdleJob
  <2>5. pc \in Locked /\ row \in RowsIn(made) \cup {None} /\ file \in Files
    BY DEF Locked, Core, Shaped
  <2>6. x.act = act /\ x.pc = pc /\ x.say = <<>>
    BY <2>1, <2>5, BegunJob
  <2>7. Loads(x) = {}
    BY <2>6 DEF Loads, Loading
  <2>8. \A t \in Tabs : j # <<t, "persist">>
    OBVIOUS
  <2> QED
    BY <1>2, <2>2, <2>4, <2>6, <2>7, <2>8, JobFlow
<1> QED
  BY <1>1, <1>2

\* A job that has something to tell.
LEMMA EndsFlow ==
    ASSUME Core, Sourced, Reached, NEW j \in Jobs, jobs[j].pc = "save", jobs[j].act # "persist",
           tabs' = tabs, row' # None, NEW m, NEW r \in RowsIn(m) \cup {None},
           NEW s \in Seq(MessagesIn(m)), Goes(j, Ending(jobs[j].act, r, s)),
           jobs[j].act = "subscribe" => r.doc.ins = row'.doc.ins,
           row.doc.ins \subseteq row'.doc.ins,
           row'.doc.ins \subseteq row.doc.ins \cup News(s), News(s) \subseteq row'.doc.ins
    PROVE  Sourced' /\ Reached'
<1>1. /\ row # None /\ jobs[j].say = <<>> /\ j[2] # "persist" /\ jobs[j].act \in Acts
  BY SavingJob, JobParts
<1>2. PICK a : a = jobs[j].act
  OBVIOUS
<1>3. PICK x : x = Ending(a, r, s)
  OBVIOUS
<1>4. x.act = a /\ x.pc = "tell" /\ x.next = r /\ x.say = s
  BY <1>1, <1>2, <1>3, EndingJob
<1>5. \A q \in Loads(x) : q = row'.doc.ins
  BY <1>2, <1>4 DEF Loads, Loading
<1>6. News(jobs[j].say) = {}
  BY <1>1, NewsFew
<1>7. Goes(j, x) /\ \A t \in Tabs : j # <<t, "persist">>
  BY <1>1, <1>2, <1>3
<1> QED
  BY <1>1, <1>4, <1>5, <1>6, <1>7, SameTabsAll, JobFlow

\* The conflict is no news.
LEMMA ConflictNews ==
    News(<<Message("conflict", NoDoc)>>) = {} /\ News(<<>>) = {}
BY NewsFew DEF Message, NoDoc

LEMMA ReconcilesFlow ==
    ASSUME Core, Sourced, Reached, NEW j \in Jobs, Reconciles(j)
    PROVE  Sourced' /\ Reached'
<1>1. jobs[j].pc = "save" /\ jobs[j].act \in Reconciling /\ jobs[j].act # "persist" /\ tabs' = tabs
  BY DEF Reconciles, Reconciling
<1>2. /\ row # None /\ row \in RowsIn(made) /\ jobs[j].say = <<>> /\ jobs[j] \in JobsIn(made)
      /\ made \in [Pieces -> Nat] /\ j[2] # "persist"
  BY <1>1, SavingJob
<1>3. CASE Leaves(j)
  <2>1. PICK s : /\ s = <<>> \/ s = <<Message("conflict", NoDoc)>>
                 /\ Goes(j, Ending(jobs[j].act, row, s))
    BY <1>3 DEF Leaves
  <2>2. s \in Seq(MessagesIn(made)) /\ News(s) = {}
    <3>1. <<Message("conflict", NoDoc)>> \in Seq(MessagesIn(made))
      BY <1>2, MessageTyped, RowsKnown
    <3>2. CASE s = <<>>
      BY <3>2, ConflictNews
    <3>3. CASE s = <<Message("conflict", NoDoc)>>
      BY <3>1, <3>3, ConflictNews
    <3> QED
      BY <2>1, <3>2, <3>3
  <2>3. row' = row
    BY <1>3 DEF Leaves
  <2> QED
    BY <1>1, <1>2, <2>1, <2>2, <2>3, EndsFlow
<1>4. CASE Marks(j)
  <2>1. PICK s : /\ s = <<Message("conflict", NoDoc)>>
                 /\ Goes(j, Ending(jobs[j].act, row, s))
    BY <1>4 DEF Marks
  <2>2. s \in Seq(MessagesIn(made)) /\ News(s) = {}
    BY <1>2, <2>1, MessageTyped, RowsKnown, ConflictNews
  <2>3. row' \in RowsIn(made) /\ row'.doc = row.doc
    BY <1>2, <1>4, MarkedRow DEF Marks
  <2>4. row' # None
    BY <1>2, <2>3, RowsKnown
  <2> QED
    BY <1>1, <1>2, <2>1, <2>2, <2>3, <2>4, EndsFlow
<1>5. CASE Merges(j)
  <2>1. PICK s, d : /\ s = <<Message("reconciled", Delta(Merged(j), row.doc))>>
                    /\ d = Delta(Merged(j), row.doc)
    OBVIOUS
  <2>2. /\ made' \in [Pieces -> Nat] /\ s \in Seq(MessagesIn(made')) /\ row' \in RowsIn(made')
        /\ row'.doc = Merged(j) /\ row.doc.ins \subseteq Merged(j).ins
    BY <1>1, <1>5, <2>1, MergesDoc
  <2>3. News(s) = Merged(j).ins \ row.doc.ins
    <3>1. Message("reconciled", d).delta.ins = d.ins
      BY DEF Message
    <3>2. d.ins = Merged(j).ins \ row.doc.ins
      BY <2>1 DEF Delta
    <3> QED
      BY <2>1, <3>1, <3>2, NewsFew
  <2>4. row' # None
    BY <2>2, RowsKnown
  <2>5. /\ row.doc.ins \subseteq row'.doc.ins /\ row'.doc.ins \subseteq row.doc.ins \cup News(s)
        /\ News(s) \subseteq row'.doc.ins
    BY <2>2, <2>3
  <2>6. CASE Goes(j, Ending(jobs[j].act, row', s))
    <3>1. PICK r : r = row'
      OBVIOUS
    <3>2. r \in RowsIn(made') \cup {None} /\ Goes(j, Ending(jobs[j].act, r, s))
          /\ r.doc.ins = row'.doc.ins
      BY <2>2, <2>6, <3>1
    <3> QED
      BY <1>1, <2>2, <2>4, <2>5, <3>2, EndsFlow
  <2>7. CASE Goes(j, [jobs[j] EXCEPT !.pc = "write", !.snap = row', !.next = row', !.say = s])
    <3>1. PICK x : x = [jobs[j] EXCEPT !.pc = "write", !.snap = row', !.next = row', !.say = s]
      OBVIOUS
    <3>2. x.say = s /\ x.next = row'
      BY <1>2, <3>1 DEF JobsIn
    <3>3. \A q \in Loads(x) : q = row'.doc.ins
      BY <3>2 DEF Loads
    <3>4. News(jobs[j].say) = {}
      BY <1>2, NewsFew
    <3>5. Goes(j, x) /\ \A t \in Tabs : j # <<t, "persist">>
      BY <1>2, <2>7, <3>1
    <3> QED
      BY <1>1, <1>2, <2>4, <2>5, <3>2, <3>3, <3>4, <3>5, SameTabsAll, JobFlow
  <2> QED
    BY <1>5, <2>1, <2>6, <2>7 DEF Merges
<1> QED
  BY <1>3, <1>4, <1>5, ReconcilesHow

LEMMA TakesFileFlow ==
    ASSUME Core, Sourced, Reached, NEW j \in Jobs, TakesFile(j)
    PROVE  Sourced' /\ Reached'
<1>1. PICK doc, s : /\ doc = ReplaceContents(row.doc, jobs[j].seen.text, made)
                    /\ s = <<Message("reconciled", Delta(doc, row.doc))>>
  OBVIOUS
<1>2. /\ jobs[j].pc = "save" /\ jobs[j].act = "workspace" /\ row.doc.ins \subseteq doc.ins
      /\ row' \in RowsIn(made') /\ row'.doc = doc /\ made' \in [Pieces -> Nat]
      /\ s \in Seq(MessagesIn(made')) /\ Goes(j, Ending("workspace", None, s))
  BY <1>1, TakesFileRow
<1>3. News(s) = doc.ins \ row.doc.ins
  BY <1>1, NewsFew DEF Message, Delta
<1>4. row' # None
  BY <1>2, RowsKnown
<1>5. /\ row.doc.ins \subseteq row'.doc.ins /\ row'.doc.ins \subseteq row.doc.ins \cup News(s)
      /\ News(s) \subseteq row'.doc.ins
  BY <1>2, <1>3
<1>6. PICK r : r = None
  OBVIOUS
<1>7. r \in RowsIn(made') \cup {None} /\ Goes(j, Ending(jobs[j].act, r, s)) /\ tabs' = tabs
  BY <1>2, <1>6 DEF TakesFile
<1> QED
  BY <1>2, <1>4, <1>5, <1>7, EndsFlow

\* A job that writes the file, is refused, or records what it wrote.
LEMMA WritingFlow ==
    ASSUME Core, Sourced, Reached, NEW j \in Jobs,
           WritesFile(j) \/ IsRefused(j) \/ Records(j) \/ IsUnrecorded(j)
    PROVE  Sourced' /\ Reached'
<1>1. jobs[j].pc \in {"write", "readback"} /\ tabs' = tabs
  BY DEF WritesFile, IsRefused, Records, IsUnrecorded, Saved
<1>2. /\ row # None /\ jobs[j] \in JobsIn(made) /\ At(j, jobs[j], row, file) /\ j[2] # "persist"
      /\ made \in [Pieces -> Nat] /\ row \in RowsIn(made)
  BY <1>1, WritingJob
<1>3. PICK say : say = jobs[j].say
  OBVIOUS
<1>4. say \in Seq(MessagesIn(made))
  BY <1>2, <1>3, JobParts
<1>5. row' # None /\ row'.doc.ins = row.doc.ins
  <2>1. CASE WritesFile(j) \/ IsUnrecorded(j)
    BY <1>2, <2>1 DEF WritesFile, IsUnrecorded
  <2>2. CASE IsRefused(j)
    BY <1>2, <2>2, RefusedRow, RowsKnown
  <2>3. CASE Records(j)
    BY <1>2, <2>3, RecordedRow, RowsKnown
  <2> QED
    BY <2>1, <2>2, <2>3
<1>6. \A t \in Tabs : j # <<t, "persist">>
  BY <1>2
<1>7. ASSUME NEW x, Goes(j, x), News(x.say) = News(say),
             \A q \in Loads(x) : q \in Loads(jobs[j])
      PROVE  Sourced' /\ Reached'
  BY <1>1, <1>2, <1>3, <1>5, <1>6, <1>7, SameTabsAll, JobFlow
<1>8. CASE WritesFile(j)
  <2>1. PICK x : x = [jobs[j] EXCEPT !.pc = "readback"]
    OBVIOUS
  <2>2. Goes(j, x) /\ jobs[j].pc = "write"
    BY <1>8, <2>1 DEF WritesFile
  <2>3. x.act = jobs[j].act /\ x.next = jobs[j].next /\ x.say = say /\ x.pc = "readback"
    BY <1>2, <1>3, <2>1 DEF JobsIn
  <2>4. Loads(x) = Loads(jobs[j])
    BY <2>2, <2>3 DEF Loads, Loading
  <2> QED
    BY <1>7, <2>2, <2>3, <2>4
<1>9. ASSUME NEW c \in MessagesIn(made), c.delta.ins = {},
             Goes(j, [jobs[j] EXCEPT !.pc = "tell", !.say = Append(@, c)])
      PROVE  Sourced' /\ Reached'
  <2>1. PICK x, s : s = Append(say, c) /\ x = [jobs[j] EXCEPT !.pc = "tell", !.say = s]
    OBVIOUS
  <2>2. x.act = jobs[j].act /\ x.next = jobs[j].next /\ x.say = s /\ x.pc = "tell"
    BY <1>2, <2>1 DEF JobsIn
  <2>3. Loads(x) = Loads(jobs[j])
    BY <1>1, <2>2 DEF Loads, Loading
  <2>4. News(s) = News(say)
    <3>1. PICK M : M = MessagesIn(made)
      OBVIOUS
    <3>2. say \in Seq(M) /\ c \in M
      BY <1>4, <3>1
    <3>3. News(Append(say, c)) = News(say) \cup c.delta.ins
      BY <3>2, NewsAppend
    <3> QED
      BY <1>9, <2>1, <3>3
  <2>5. Goes(j, x)
    BY <1>3, <1>9, <2>1
  <2> QED
    BY <1>7, <2>2, <2>3, <2>4, <2>5
<1>10. CASE IsRefused(j)
  <2>1. CASE Goes(j, Idle) /\ jobs[j].act = "editor"
    <3>1. jobs[j].pc = "write"
      BY <1>10 DEF IsRefused
    <3>2. say = <<>>
      BY <1>2, <1>3, <2>1, <3>1 DEF At
    <3>3. Idle.say = <<>> /\ Loads(Idle) = {}
      BY IdleJob DEF Loads, Loading
    <3> QED
      BY <1>7, <2>1, <3>2, <3>3
  <2>2. CASE Goes(j, [jobs[j] EXCEPT !.pc = "tell", !.say = Append(@, Message("conflict", NoDoc))])
    <3>1. Message("conflict", NoDoc) \in MessagesIn(made) /\ Message("conflict", NoDoc).delta.ins = {}
      BY <1>2, MessageTyped, RowsKnown DEF NoDoc, Message
    <3> QED
      BY <1>9, <2>2, <3>1
  <2> QED
    BY <1>10, <2>1, <2>2, RefusedRow
<1>11. CASE Records(j) \/ IsUnrecorded(j)
  <2>1. Goes(j, [jobs[j] EXCEPT !.pc = "tell", !.say = Append(@, Message("reconciled", NoDoc))])
    BY <1>11 DEF Records, IsUnrecorded, Saved
  <2>2. Message("reconciled", NoDoc) \in MessagesIn(made) /\ Message("reconciled", NoDoc).delta.ins = {}
    BY <1>2, MessageTyped, RowsKnown DEF NoDoc, Message
  <2> QED
    BY <1>9, <2>1, <2>2
<1> QED
  BY <1>8, <1>10, <1>11

\* What an edit that is received does to the tabs.
Gets(x, y, own, d) ==
    /\ Has(x) \subseteq Has(y)
    /\ ~own => d.ins \subseteq Has(y) /\ Waiting(y) = Waiting(x)
    /\ own => Waiting(y) = Waiting(x) \cup d.ins /\ y.feed = x.feed
    /\ News(y.feed) \subseteq News(x.feed) \cup d.ins
    /\ Syncs(y.feed) \subseteq Syncs(x.feed)
    /\ y.feed # <<>> => x.feed # <<>> \/ x.subscribed
    /\ y.doc = x.doc /\ y.synced = x.synced /\ y.subscribed = x.subscribed
    /\ y.unsaved = x.unsaved /\ x.queue \subseteq y.queue

LEMMA ReceivedFlow ==
    ASSUME NEW m \in [Pieces -> Nat], NEW ts \in [Tabs -> TabsIn(m)], NEW t \in Tabs,
           NEW d \in DocsIn(m), NEW u \in Tabs, NEW ns, ns = Received(ts, t, d)
    PROVE  Gets(ts[u], ns[u], u = t, d)
<1>1. PICK x, y : x \in TabsIn(m) /\ x = ts[u] /\ y = ns[u]
  OBVIOUS
<1>2. CASE u = t
  <2>1. y = [x EXCEPT !.queue = @ \cup {d}]
    BY <1>1, <1>2 DEF Received
  <2>2. /\ y.doc = x.doc /\ y.feed = x.feed /\ y.unsaved = x.unsaved /\ y.dropped = x.dropped
        /\ y.synced = x.synced /\ y.subscribed = x.subscribed /\ y.queue = x.queue \cup {d}
    BY <2>1 DEF TabsIn
  <2>3. Waiting(y) = Waiting(x) \cup d.ins
    BY <2>2 DEF Waiting
  <2> QED
    BY <1>1, <1>2, <2>2, <2>3 DEF Gets, Has
<1>3. CASE u # t
  <2>1. PICK s : s = <<Message("update", d)>>
    OBVIOUS
  <2>2. y = Sent(x, s)
    BY <1>1, <1>3, <2>1 DEF Received
  <2>3. s \in Seq(MessagesIn(m))
    BY <2>1, MessageTyped
  <2>4. x \in TabsIn(m)
    BY <1>1
  <2>5. News(s) = d.ins /\ Syncs(s) = {}
    BY <2>1, NewsFew, SyncsOne DEF Message
  <2>6. /\ Has(y) = Has(x) \cup News(s) /\ Waiting(y) = Waiting(x)
        /\ News(y.feed) \subseteq News(x.feed) \cup News(s)
        /\ \A q \in Syncs(y.feed) : q \in Syncs(x.feed) \/ q \in Syncs(s)
        /\ y.feed # <<>> => x.feed # <<>> \/ x.subscribed
        /\ y.doc = x.doc /\ y.synced = x.synced /\ y.subscribed = x.subscribed
        /\ y.queue = x.queue /\ y.unsaved = x.unsaved
    BY <2>2, <2>3, <2>4, SentFlow
  <2> QED
    BY <1>1, <1>3, <2>5, <2>6 DEF Gets
<1> QED
  BY <1>2, <1>3

\* A step of a tab, with what the row has not changing, nor what the jobs have.
LEMMA TabFlow ==
    ASSUME Core, Sourced, Reached, row # None, row' = row, jobs' = jobs,
           Queued \subseteq Queued', Unsaved \subseteq Unsaved',
           \A t \in Tabs :
             /\ Has(tabs[t]) \subseteq Has(tabs'[t])
             /\ Queued' \subseteq Queued \cup Has(tabs'[t])
             /\ News(tabs'[t].feed) \subseteq News(tabs[t].feed) \cup Queued'
             /\ tabs'[t].synced =>
                  \/ tabs[t].synced /\ tabs'[t].doc.ins \subseteq tabs[t].doc.ins \cup News(tabs[t].feed) \cup Queued'
                  \/ tabs'[t].doc.ins \subseteq row.doc.ins \cup Queued'
             /\ \A s \in Syncs(tabs'[t].feed) : s \in Syncs(tabs[t].feed) \/ s \subseteq row.doc.ins
             /\ tabs'[t].feed # <<>> \/ tabs'[t].synced => tabs'[t].subscribed
             /\ tabs'[t].subscribed => tabs[t].subscribed
             /\ tabs[t].queue \subseteq tabs'[t].queue
    PROVE  Sourced' /\ Reached'
<1>1. Coming' = Coming
  BY DEF Coming
<1>2. Present \subseteq Present' /\ Queued' \subseteq Present' /\ row.doc.ins \subseteq Present'
  BY DEF Present
<1>3. ASSUME NEW t \in Tabs
      PROVE  /\ Heard(t) \subseteq Heard(t)'
             /\ Queued' \subseteq Queued \cup Heard(t)'
             /\ News(tabs'[t].feed) \subseteq News(tabs[t].feed) \cup Present'
             /\ tabs'[t].synced =>
                  \/ tabs[t].synced /\ tabs'[t].doc.ins \subseteq tabs[t].doc.ins \cup Present'
                  \/ tabs'[t].doc.ins \subseteq Present'
             /\ \A s \in Loaded(t)' : s \in Loaded(t) \/ s = row'.doc.ins
             /\ jobs'[<<t, "persist">>].batch \subseteq tabs'[t].queue
  <2>1. Heard(t) \subseteq Heard(t)'
    BY <1>1 DEF Heard
  <2>2. Queued' \subseteq Queued \cup Heard(t)'
    BY DEF Heard
  <2>3. News(tabs[t].feed) \subseteq Present'
    BY <1>2 DEF Sourced
  <2>4. Loaded(t)' = Loaded(t)
    BY DEF Loaded
  <2>5. jobs[<<t, "persist">>].batch \subseteq tabs[t].queue
    BY DEF Reached
  <2>6. tabs'[t].synced =>
          \/ tabs[t].synced /\ tabs'[t].doc.ins \subseteq tabs[t].doc.ins \cup Present'
          \/ tabs'[t].doc.ins \subseteq Present'
    BY <1>2, <2>3
  <2>7. News(tabs'[t].feed) \subseteq News(tabs[t].feed) \cup Present'
    BY <1>2
  <2>8. jobs'[<<t, "persist">>].batch \subseteq tabs'[t].queue
    BY <2>5
  <2> QED
    BY <2>1, <2>2, <2>4, <2>6, <2>7, <2>8
<1>4. Flow
  BY <1>1, <1>2, <1>3 DEF Flow
<1> QED
  BY <1>4, FlowKeeps

LEMMA QueuedOf ==
    \A t \in Tabs : Waiting(tabs[t]) \subseteq Queued /\ tabs[t].unsaved \subseteq Unsaved
BY DEF Queued, Unsaved

\* After an edit is received: `ts` are the tabs before it.
LEMMA QueuedReceived ==
    ASSUME NEW m \in [Pieces -> Nat], NEW ts \in [Tabs -> TabsIn(m)], NEW t \in Tabs,
           NEW d \in DocsIn(m), tabs' = Received(ts, t, d),
           \A u \in Tabs : ts[u].queue = tabs[u].queue /\ ts[u].unsaved = tabs[u].unsaved
    PROVE  /\ Queued' = Queued \cup d.ins /\ Unsaved' = Unsaved
<1>1. ASSUME NEW u \in Tabs
      PROVE  /\ u = t => Waiting(tabs'[u]) = Waiting(tabs[u]) \cup d.ins
             /\ u # t => Waiting(tabs'[u]) = Waiting(tabs[u])
             /\ tabs'[u].unsaved = tabs[u].unsaved
  <2>1. Gets(ts[u], tabs'[u], u = t, d)
    BY ReceivedFlow
  <2>2. Waiting(ts[u]) = Waiting(tabs[u])
    BY DEF Waiting
  <2> QED
    BY <2>1, <2>2 DEF Gets
<1>2. Queued' = Queued \cup d.ins
  <2>1. Queued' \subseteq Queued \cup d.ins
    <3>1. \A u \in Tabs : Waiting(tabs'[u]) \subseteq Queued \cup d.ins
      BY <1>1, QueuedOf
    <3> QED
      BY <3>1 DEF Queued
  <2>2. Queued \subseteq Queued' /\ d.ins \subseteq Queued'
    <3>1. \A u \in Tabs : Waiting(tabs[u]) \subseteq Waiting(tabs'[u])
      BY <1>1
    <3>2. d.ins \subseteq Waiting(tabs'[t])
      BY <1>1
    <3> QED
      BY <3>1, <3>2 DEF Queued
  <2> QED
    BY <2>1, <2>2
<1>3. Unsaved' = Unsaved
  BY <1>1 DEF Unsaved
<1> QED
  BY <1>2, <1>3

LEMMA TypesFlow ==
    ASSUME Core, Sourced, Reached, NEW t \in Tabs, NEW e \in Edits, Types(t, e)
    PROVE  Sourced' /\ Reached'
<1>1. PICK ts \in [Tabs -> TabsIn(made')], d \in DocsIn(made') :
             /\ tabs' = Received(ts, t, d) /\ made' \in [Pieces -> Nat]
             /\ d.ins = {<<e, 1>>}
             /\ \A u \in Tabs \ {t} : ts[u] = tabs[u]
             /\ ts[t].doc.ins = tabs[t].doc.ins \cup {<<e, 1>>}
             /\ ts[t].feed = tabs[t].feed /\ ts[t].queue = tabs[t].queue
             /\ ts[t].unsaved = tabs[t].unsaved /\ ts[t].dropped = tabs[t].dropped
             /\ ts[t].synced = tabs[t].synced /\ ts[t].subscribed = tabs[t].subscribed
  BY TypesTabs
<1>2. row # None
  <2>1. tabs[t].synced = TRUE
    <3>1. tabs[t] \in TabsIn(made) /\ tabs[t].synced
      BY DEF Core, Shaped, Types, CanType
    <3> QED
      BY <3>1, TabParts
  <2> QED
    BY <2>1, TabHasRow
<1>3. row' = row /\ jobs' = jobs
  BY DEF Types
<1>4. \A u \in Tabs : ts[u].queue = tabs[u].queue /\ ts[u].unsaved = tabs[u].unsaved
  BY <1>1
<1>5. Queued' = Queued \cup d.ins /\ Unsaved' = Unsaved
  <2>1. PICK m : m = made'
    OBVIOUS
  <2> QED
    BY <1>1, <1>4, <2>1, QueuedReceived
<1>6. \A u \in Tabs : Gets(ts[u], tabs'[u], u = t, d)
  <2>1. PICK m : m = made'
    OBVIOUS
  <2> QED
    BY <1>1, <2>1, ReceivedFlow
<1>7. ASSUME NEW u \in Tabs
      PROVE  /\ Has(tabs[u]) \subseteq Has(ts[u]) /\ (u = t => d.ins \subseteq Has(ts[u]))
             /\ ts[u].feed = tabs[u].feed /\ ts[u].synced = tabs[u].synced
             /\ ts[u].subscribed = tabs[u].subscribed
             /\ tabs[u].doc.ins \subseteq ts[u].doc.ins
             /\ ts[u].doc.ins \subseteq tabs[u].doc.ins \cup d.ins
  <2>1. CASE u = t
    BY <1>1, <2>1 DEF Has
  <2>2. CASE u # t
    BY <1>1, <2>2
  <2> QED
    BY <2>1, <2>2
<1>8. ASSUME NEW u \in Tabs
      PROVE  /\ Has(tabs[u]) \subseteq Has(tabs'[u])
             /\ Queued' \subseteq Queued \cup Has(tabs'[u])
             /\ News(tabs'[u].feed) \subseteq News(tabs[u].feed) \cup Queued'
             /\ tabs'[u].synced =>
                  \/ tabs[u].synced /\ tabs'[u].doc.ins \subseteq tabs[u].doc.ins \cup News(tabs[u].feed) \cup Queued'
                  \/ tabs'[u].doc.ins \subseteq row.doc.ins \cup Queued'
             /\ \A s \in Syncs(tabs'[u].feed) : s \in Syncs(tabs[u].feed) \/ s \subseteq row.doc.ins
             /\ tabs'[u].feed # <<>> \/ tabs'[u].synced => tabs'[u].subscribed
             /\ tabs'[u].subscribed => tabs[u].subscribed
             /\ tabs[u].queue \subseteq tabs'[u].queue
  <2>1. PICK x, y, z : x = tabs[u] /\ y = ts[u] /\ z = tabs'[u]
    OBVIOUS
  <2>2. /\ Has(x) \subseteq Has(y) /\ (u = t => d.ins \subseteq Has(y))
        /\ y.feed = x.feed /\ y.synced = x.synced /\ y.subscribed = x.subscribed
        /\ y.doc.ins \subseteq x.doc.ins \cup d.ins /\ y.queue = x.queue
    BY <1>4, <1>7, <2>1
  <2>3. /\ Has(y) \subseteq Has(z) /\ (u # t => d.ins \subseteq Has(z))
        /\ News(z.feed) \subseteq News(y.feed) \cup d.ins
        /\ Syncs(z.feed) \subseteq Syncs(y.feed)
        /\ z.feed # <<>> => y.feed # <<>> \/ y.subscribed
        /\ z.doc = y.doc /\ z.synced = y.synced /\ z.subscribed = y.subscribed
        /\ y.queue \subseteq z.queue
    BY <1>6, <2>1 DEF Gets
  <2>4. x.feed # <<>> \/ x.synced => x.subscribed
    BY <1>2, <2>1 DEF Reached
  <2>5. Has(x) \subseteq Has(z) /\ d.ins \subseteq Has(z)
    BY <2>2, <2>3
  <2>6. /\ News(z.feed) \subseteq News(x.feed) \cup d.ins
        /\ z.doc.ins \subseteq x.doc.ins \cup d.ins
        /\ Syncs(z.feed) \subseteq Syncs(x.feed)
        /\ z.synced = x.synced /\ z.subscribed = x.subscribed
        /\ z.feed # <<>> => x.subscribed
        /\ x.queue \subseteq z.queue
    BY <2>2, <2>3, <2>4
  <2> QED
    BY <1>5, <2>1, <2>4, <2>5, <2>6
<1> QED
  BY <1>2, <1>3, <1>5, <1>8, TabFlow

LEMMA DeliversFlow ==
    ASSUME Core, Sourced, Reached, NEW t \in Tabs, Delivers(t)
    PROVE  Sourced' /\ Reached'
<1>1. PICK m \in MessagesIn(made), ts \in [Tabs -> TabsIn(made)] :
        /\ m = Head(tabs[t].feed) /\ m.delta \in DocsIn(made)
        /\ \A u \in Tabs \ {t} : ts[u] = tabs[u]
        /\ ts[t].doc = Joined(tabs[t].doc, m.delta) /\ ts[t].feed = Tail(tabs[t].feed)
        /\ ts[t].queue = tabs[t].queue /\ ts[t].unsaved = tabs[t].unsaved
        /\ ts[t].subscribed = tabs[t].subscribed
        /\ m.kind = "sync" => ts[t].dropped = tabs[t].dropped \ m.delta.ins
        /\ m.kind # "sync" => ts[t].synced = tabs[t].synced /\ ts[t].dropped = tabs[t].dropped
        /\ Missing(tabs[t].doc, m.delta) \in DocsIn(made)
        /\ \/ /\ tabs' = ts
              /\ m.kind = "sync" => Missing(tabs[t].doc, m.delta) = NoDoc
           \/ /\ m.kind = "sync"
              /\ tabs' = Received(ts, t, Missing(tabs[t].doc, m.delta))
  BY DeliversTabs
<1>2. /\ tabs[t].feed # <<>> /\ row' = row /\ jobs' = jobs /\ made \in [Pieces -> Nat]
      /\ tabs[t] \in TabsIn(made)
  BY DEF Delivers, Core, Shaped
<1>3. row # None
  BY <1>2, TabHasRow
<1>4. PICK d : d = Missing(tabs[t].doc, m.delta)
  OBVIOUS
<1>5. d.ins = tabs[t].doc.ins \ m.delta.ins /\ ts[t].doc.ins = tabs[t].doc.ins \cup m.delta.ins
  BY <1>1, <1>4 DEF Missing, Joined
<1>6. /\ News(tabs[t].feed) = m.delta.ins \cup News(ts[t].feed)
      /\ Syncs(ts[t].feed) \subseteq Syncs(tabs[t].feed)
      /\ m.kind = "sync" => m.delta.ins \in Syncs(tabs[t].feed)
  <2>1. PICK M, f : M = MessagesIn(made) /\ f = tabs[t].feed
    OBVIOUS
  <2>2. f \in Seq(M) /\ f # <<>> /\ m = Head(f) /\ ts[t].feed = Tail(f)
    BY <1>1, <1>2, <2>1, TabParts
  <2>3. News(f) = Head(f).delta.ins \cup News(Tail(f))
    BY <2>2, NewsHead
  <2>4. /\ Syncs(Tail(f)) \subseteq Syncs(f)
        /\ Head(f).kind = "sync" => Head(f).delta.ins \in Syncs(f)
    BY <2>2, SyncsOf
  <2> QED
    BY <2>1, <2>2, <2>3, <2>4
<1>7. m.kind = "sync" => m.delta.ins \subseteq row.doc.ins
  BY <1>3, <1>6 DEF Sourced
<1>8. /\ Has(ts[t]) = Has(tabs[t])
      /\ tabs[t].subscribed
      /\ ts[t].synced => \/ tabs[t].synced /\ m.kind # "sync"
                         \/ m.kind = "sync"
  <2>1. CASE m.kind = "sync"
    BY <1>1, <1>2, <1>3, <1>5, <1>6, <2>1 DEF Has, Reached
  <2>2. CASE m.kind # "sync"
    BY <1>1, <1>2, <1>3, <1>5, <1>6, <2>2 DEF Has, Reached
  <2> QED
    BY <2>1, <2>2
\* What every tab has before the answer of the tab, if there is one.
<1>9. ASSUME NEW u \in Tabs
      PROVE  /\ Has(ts[u]) = Has(tabs[u]) /\ News(ts[u].feed) \subseteq News(tabs[u].feed)
             /\ Syncs(ts[u].feed) \subseteq Syncs(tabs[u].feed)
             /\ ts[u].queue = tabs[u].queue /\ ts[u].unsaved = tabs[u].unsaved
             /\ ts[u].subscribed = tabs[u].subscribed
             /\ ts[u].feed # <<>> \/ ts[u].synced => ts[u].subscribed
             /\ ts[u].synced =>
                  \/ tabs[u].synced /\ ts[u].doc.ins \subseteq tabs[u].doc.ins \cup News(tabs[u].feed)
                  \/ u = t /\ m.kind = "sync"
  <2>1. CASE u = t
    BY <1>1, <1>5, <1>6, <1>8, <2>1
  <2>2. CASE u # t
    <3>1. ts[u] = tabs[u]
      BY <1>1, <2>2
    <3>2. tabs[u].feed # <<>> \/ tabs[u].synced => tabs[u].subscribed
      BY <1>3 DEF Reached
    <3> QED
      BY <3>1, <3>2
  <2> QED
    BY <2>1, <2>2
<1>10. CASE tabs' = ts /\ (m.kind = "sync" => d = NoDoc)
  <2>1. Queued' = Queued /\ Unsaved' = Unsaved
    BY <1>9, <1>10 DEF Queued, Unsaved, Waiting
  <2>2. m.kind = "sync" => ts[t].doc.ins \subseteq row.doc.ins
    BY <1>5, <1>7, <1>10 DEF NoDoc
  <2>3. ASSUME NEW u \in Tabs
        PROVE  /\ Has(tabs[u]) \subseteq Has(tabs'[u])
               /\ Queued' \subseteq Queued \cup Has(tabs'[u])
               /\ News(tabs'[u].feed) \subseteq News(tabs[u].feed) \cup Queued'
               /\ tabs'[u].synced =>
                    \/ tabs[u].synced /\ tabs'[u].doc.ins \subseteq tabs[u].doc.ins \cup News(tabs[u].feed) \cup Queued'
                    \/ tabs'[u].doc.ins \subseteq row.doc.ins \cup Queued'
               /\ \A s \in Syncs(tabs'[u].feed) : s \in Syncs(tabs[u].feed) \/ s \subseteq row.doc.ins
               /\ tabs'[u].feed # <<>> \/ tabs'[u].synced => tabs'[u].subscribed
               /\ tabs'[u].subscribed => tabs[u].subscribed
               /\ tabs[u].queue \subseteq tabs'[u].queue
    BY <1>9, <1>10, <2>1, <2>2
  <2> QED
    BY <1>2, <1>3, <2>1, <2>3, TabFlow
<1>11. CASE m.kind = "sync" /\ tabs' = Received(ts, t, d)
  <2>1. d \in DocsIn(made)
    BY <1>1, <1>4
  <2>2. Queued' = Queued \cup d.ins /\ Unsaved' = Unsaved
    <3>1. \A u \in Tabs : ts[u].queue = tabs[u].queue /\ ts[u].unsaved = tabs[u].unsaved
      BY <1>9
    <3> QED
      BY <1>2, <1>11, <2>1, <3>1, QueuedReceived
  <2>3. \A u \in Tabs : Gets(ts[u], tabs'[u], u = t, d)
    BY <1>2, <1>11, <2>1, ReceivedFlow
  <2>4. ts[t].doc.ins \subseteq row.doc.ins \cup Queued' /\ d.ins \subseteq Has(ts[t])
    BY <1>5, <1>7, <1>11, <2>2 DEF Has
  <2>5. ASSUME NEW u \in Tabs
        PROVE  /\ Has(tabs[u]) \subseteq Has(tabs'[u])
               /\ Queued' \subseteq Queued \cup Has(tabs'[u])
               /\ News(tabs'[u].feed) \subseteq News(tabs[u].feed) \cup Queued'
               /\ tabs'[u].synced =>
                    \/ tabs[u].synced /\ tabs'[u].doc.ins \subseteq tabs[u].doc.ins \cup News(tabs[u].feed) \cup Queued'
                    \/ tabs'[u].doc.ins \subseteq row.doc.ins \cup Queued'
               /\ \A s \in Syncs(tabs'[u].feed) : s \in Syncs(tabs[u].feed) \/ s \subseteq row.doc.ins
               /\ tabs'[u].feed # <<>> \/ tabs'[u].synced => tabs'[u].subscribed
               /\ tabs'[u].subscribed => tabs[u].subscribed
               /\ tabs[u].queue \subseteq tabs'[u].queue
    <3>1. PICK x, y, z : x = tabs[u] /\ y = ts[u] /\ z = tabs'[u]
      OBVIOUS
    <3>2. /\ Has(y) = Has(x) /\ News(y.feed) \subseteq News(x.feed)
          /\ Syncs(y.feed) \subseteq Syncs(x.feed)
          /\ y.queue = x.queue /\ y.subscribed = x.subscribed
          /\ y.feed # <<>> \/ y.synced => y.subscribed
          /\ y.synced => \/ x.synced /\ y.doc.ins \subseteq x.doc.ins \cup News(x.feed)
                         \/ y.doc.ins \subseteq row.doc.ins \cup Queued'
      BY <1>9, <2>4, <3>1
    <3>3. /\ Has(y) \subseteq Has(z) /\ (u # t => d.ins \subseteq Has(z))
          /\ News(z.feed) \subseteq News(y.feed) \cup d.ins
          /\ Syncs(z.feed) \subseteq Syncs(y.feed)
          /\ z.feed # <<>> => y.feed # <<>> \/ y.subscribed
          /\ z.doc = y.doc /\ z.synced = y.synced /\ z.subscribed = y.subscribed
          /\ y.queue \subseteq z.queue
      BY <2>3, <3>1 DEF Gets
    <3>4. d.ins \subseteq Has(z)
      BY <2>4, <3>1, <3>3
    <3>5. /\ Has(x) \subseteq Has(z) /\ News(z.feed) \subseteq News(x.feed) \cup d.ins
          /\ Syncs(z.feed) \subseteq Syncs(x.feed) /\ x.queue \subseteq z.queue
          /\ z.subscribed = x.subscribed /\ (z.feed # <<>> \/ z.synced => z.subscribed)
      BY <3>2, <3>3
    <3>6. z.synced => \/ x.synced /\ z.doc.ins \subseteq x.doc.ins \cup News(x.feed) \cup Queued'
                      \/ z.doc.ins \subseteq row.doc.ins \cup Queued'
      BY <3>2, <3>3
    <3> QED
      BY <2>2, <3>1, <3>4, <3>5, <3>6
  <2> QED
    BY <1>2, <1>3, <2>2, <2>5, TabFlow
<1> QED
  BY <1>1, <1>4, <1>10, <1>11

LEMMA ClosesFlow ==
    ASSUME Core, Sourced, Reached, NEW t \in Tabs, Closes(t)
    PROVE  Sourced' /\ Reached'
<1>1. /\ \A u \in Tabs \ {t} : tabs'[u] = tabs[u]
      /\ tabs'[t].synced = FALSE /\ tabs'[t].subscribed = FALSE /\ tabs'[t].feed = <<>>
      /\ tabs'[t].dropped = tabs[t].dropped \cup News(tabs[t].feed)
      /\ tabs[t].doc.ins \subseteq tabs'[t].doc.ins
      /\ tabs'[t].queue = tabs[t].queue /\ tabs'[t].unsaved = tabs[t].unsaved
  BY ClosesTabs
<1>2. row' = row /\ jobs' = jobs
  BY DEF Closes
<1>3. CASE row = None
  BY <1>1, <1>2, <1>3 DEF Sourced, Reached
<1>4. CASE row # None
  <2>1. \A u \in Tabs : tabs'[u].queue = tabs[u].queue /\ tabs'[u].unsaved = tabs[u].unsaved
    BY <1>1
  <2>2. Queued' = Queued /\ Unsaved' = Unsaved
    BY <2>1 DEF Queued, Unsaved, Waiting
  <2>3. ASSUME NEW u \in Tabs
        PROVE  /\ Has(tabs[u]) \subseteq Has(tabs'[u])
               /\ Queued' \subseteq Queued \cup Has(tabs'[u])
               /\ News(tabs'[u].feed) \subseteq News(tabs[u].feed) \cup Queued'
               /\ tabs'[u].synced =>
                    \/ tabs[u].synced /\ tabs'[u].doc.ins \subseteq tabs[u].doc.ins \cup News(tabs[u].feed) \cup Queued'
                    \/ tabs'[u].doc.ins \subseteq row.doc.ins \cup Queued'
               /\ \A s \in Syncs(tabs'[u].feed) : s \in Syncs(tabs[u].feed) \/ s \subseteq row.doc.ins
               /\ tabs'[u].feed # <<>> \/ tabs'[u].synced => tabs'[u].subscribed
               /\ tabs'[u].subscribed => tabs[u].subscribed
               /\ tabs[u].queue \subseteq tabs'[u].queue
    <3>1. CASE u = t
      <4>1. News(<<>>) = {} /\ Syncs(<<>>) = {}
        BY DEF News, Syncs
      <4>2. Has(tabs[t]) \subseteq Has(tabs'[t])
        BY <1>1 DEF Has
      <4> QED
        BY <1>1, <2>2, <3>1, <4>1, <4>2
    <3>2. CASE u # t
      <4>1. tabs'[u] = tabs[u]
        BY <1>1, <3>2
      <4>2. tabs[u].feed # <<>> \/ tabs[u].synced => tabs[u].subscribed
        BY <1>4 DEF Reached
      <4> QED
        BY <2>2, <4>1, <4>2
    <3> QED
      BY <3>1, <3>2
  <2> QED
    BY <1>2, <1>4, <2>2, <2>3, TabFlow
<1> QED
  BY <1>3, <1>4

LEMMA OpensFlow ==
    ASSUME Core, Sourced, Reached, NEW t \in Tabs, Opens(t)
    PROVE  Sourced' /\ Reached'
<1>1. tabs[t] \in TabsIn(made) /\ tabs \in [Tabs -> TabsIn(made)]
  BY DEF Core, Shaped
<1>2. PICK c \in {"closed", "open"} : c = "open"
  OBVIOUS
<1>3. PICK y : y = [tabs[t] EXCEPT !.conn = c]
  OBVIOUS
<1>4. SameTab(tabs[t], y)
  BY <1>1, <1>3, SameTabKinds
<1>5. tabs' = [tabs EXCEPT ![t] = y]
  BY <1>1, <1>2, <1>3 DEF Opens
<1>6. SameTabs
  BY <1>4, <1>5, SameTabsOne
<1>7. PICK j, pc : j = <<t, "request">> /\ pc = IF row = None THEN "create" ELSE "save"
  OBVIOUS
<1>8. Begins(j, "subscribe", pc) /\ row' = row
  BY <1>7 DEF Opens
<1>9. j \in Jobs /\ j[2] # "persist" /\ "subscribe" \in Acts /\ pc \in {"create", "save", "write"} /\ pc # "write"
  BY <1>7 DEF Jobs, Acts
<1> QED
  BY <1>6, <1>8, <1>9, BegunFlow

LEMMA BeginsAutosaveFlow ==
    ASSUME Core, Sourced, Reached, NEW t \in Tabs, BeginsAutosave(t)
    PROVE  Sourced' /\ Reached'
<1>1. tabs[t] \in TabsIn(made) /\ tabs \in [Tabs -> TabsIn(made)]
  BY DEF Core, Shaped
<1>2. PICK v \in {"none", "set", "late"} : v = "none"
  OBVIOUS
<1>3. PICK y : y = [tabs[t] EXCEPT !.timer = v]
  OBVIOUS
<1>4. SameTab(tabs[t], y)
  BY <1>1, <1>3, SameTabKinds
<1>5. tabs' = [tabs EXCEPT ![t] = y]
  BY <1>1, <1>2, <1>3 DEF BeginsAutosave
<1>6. SameTabs
  BY <1>4, <1>5, SameTabsOne
<1>7. PICK j : j = <<t, "autosave">>
  OBVIOUS
<1>8. row' = row /\ (jobs' = jobs \/ Begins(j, "autosave", "write"))
  BY <1>7 DEF BeginsAutosave
<1>9. j \in Jobs /\ j[2] # "persist" /\ "autosave" \in Acts
  BY <1>7 DEF Jobs, Acts
<1> QED
  BY <1>6, <1>8, <1>9, BegunFlow, StillFlow

LEMMA ChoosesFlow ==
    ASSUME Core, Sourced, Reached, NEW t \in Tabs, NEW act \in {"editor", "workspace"},
           Chooses(t, act)
    PROVE  Sourced' /\ Reached'
<1>1. PICK j, pc : j = <<t, "request">> /\ pc = IF act = "editor" THEN "write" ELSE "save"
  OBVIOUS
<1>2. Begins(j, act, pc) /\ row' = row /\ tabs' = tabs
  BY <1>1 DEF Chooses
<1>3. /\ j \in Jobs /\ j[2] # "persist" /\ act \in Acts /\ act # "subscribe"
      /\ pc \in {"create", "save", "write"}
  BY <1>1 DEF Jobs, Acts
<1> QED
  BY <1>2, <1>3, SameTabsAll, BegunFlow

LEMMA BeginsReconcileFlow ==
    ASSUME Core, Sourced, Reached, BeginsReconcile
    PROVE  Sourced' /\ Reached'
<1>1. PICK j : j = <<Turn, "request">>
  OBVIOUS
<1>2. row' = row /\ tabs' = tabs /\ (jobs' = jobs \/ Begins(j, "turn", "save"))
  BY <1>1 DEF BeginsReconcile
<1>3. j \in Jobs /\ j[2] # "persist" /\ "turn" \in Acts
  BY <1>1 DEF Jobs, Acts
<1> QED
  BY <1>2, <1>3, SameTabsAll, BegunFlow, StillFlow

LEMMA BeginsPersistFlow ==
    ASSUME Core, Sourced, Reached, NEW t \in Tabs, BeginsPersist(t)
    PROVE  Sourced' /\ Reached'
<1>1. PICK j, next : /\ j = <<t, "persist">>
                     /\ next = [row EXCEPT !.doc = Folded(row.doc, tabs[t].queue)]
  OBVIOUS
<1>2. /\ j \in Jobs /\ row # None /\ Goes(j, Batched(tabs[t].queue, next))
      /\ next \in RowsIn(made) /\ tabs[t].queue \in SUBSET DocsIn(made)
  BY <1>1, BatchBegins
<1>3. PICK b, x : b = tabs[t].queue /\ x = Batched(b, next)
  OBVIOUS
<1>4. x.act = "persist" /\ x.pc = "save" /\ x.batch = b /\ x.say = <<>>
  <2>1. PICK m : m = made
    OBVIOUS
  <2>2. b \in SUBSET DocsIn(m) /\ next \in RowsIn(m) /\ x = Batched(b, next)
    BY <1>2, <1>3, <2>1
  <2> QED
    BY ONLY <2>2, BatchJob
<1>5. tabs' = tabs /\ row' = row /\ jobs[j].pc = "idle"
  BY <1>1 DEF BeginsPersist, Free
<1>6. News(x.say) = {} /\ News(jobs[j].say) = {} /\ Loads(x) = {}
  <2>1. jobs[j] = Idle
    BY <1>2, <1>5 DEF Core, Placed, At
  <2> QED
    BY <1>4, <2>1, IdleJob, NewsFew DEF Loads, Loading
<1>7. Goes(j, x) /\ x.batch = tabs[t].queue
  BY <1>2, <1>3, <1>4
<1>8. \A u \in Tabs : j = <<u, "persist">> => x.batch \subseteq tabs[u].queue
  BY <1>1, <1>7
<1>9. \A u \in Tabs : j = <<u, "request">> => \A s \in Loads(x) : s \in Loads(jobs[j]) \/ s = row'.doc.ins
  BY <1>6
<1>10. row' # None /\ row.doc.ins \subseteq row'.doc.ins
       /\ row'.doc.ins \subseteq row.doc.ins \cup News(x.say)
       /\ News(jobs[j].say) \subseteq News(x.say)
       /\ News(x.say) \subseteq News(jobs[j].say) \cup row'.doc.ins
  BY <1>2, <1>5, <1>6
<1> QED
  BY <1>2, <1>5, <1>7, <1>8, <1>9, <1>10, SameTabsAll, JobFlow

LEMMA SavesBatchFlow ==
    ASSUME Core, Sourced, Reached, NEW t \in Tabs, SavesBatch(t)
    PROVE  Sourced' /\ Reached'
<1>1. PICK j, b : j = <<t, "persist">> /\ b = jobs[j].batch
  OBVIOUS
<1>2. /\ j \in Jobs /\ row # None /\ Goes(j, Idle) /\ row' \in RowsIn(made)
      /\ row'.doc = Folded(row.doc, b) /\ jobs[j].pc = "save"
  BY <1>1, SavesBatchRow DEF SavesBatch
<1>3. tabs' = [tabs EXCEPT ![t] = [tabs[t] EXCEPT !.queue = tabs[t].queue \ b,
                                                  !.timer = Scheduled(tabs[t])]]
  BY <1>1, SavesBatchTabs
<1>4. row' # None
  <2>1. made \in [Pieces -> Nat]
    BY DEF Core, Shaped
  <2> QED
    BY <1>2, <2>1, RowsKnown
<1>5. tabs \in [Tabs -> TabsIn(made)] /\ tabs[t] \in TabsIn(made)
  BY DEF Core, Shaped
<1>6. /\ \A u \in Tabs \ {t} : tabs'[u] = tabs[u]
      /\ tabs'[t].queue = tabs[t].queue \ b
      /\ tabs'[t].doc = tabs[t].doc /\ tabs'[t].feed = tabs[t].feed
      /\ tabs'[t].dropped = tabs[t].dropped /\ tabs'[t].unsaved = tabs[t].unsaved
      /\ tabs'[t].synced = tabs[t].synced /\ tabs'[t].subscribed = tabs[t].subscribed
  <2>1. PICK x, y : /\ x = tabs[t]
                    /\ y = [x EXCEPT !.queue = x.queue \ b, !.timer = Scheduled(x)]
    OBVIOUS
  <2>2. tabs' = [tabs EXCEPT ![t] = y] /\ x \in TabsIn(made)
    BY <1>3, <1>5, <2>1
  <2>3. /\ y.queue = x.queue \ b /\ y.doc = x.doc /\ y.feed = x.feed /\ y.dropped = x.dropped
        /\ y.unsaved = x.unsaved /\ y.synced = x.synced /\ y.subscribed = x.subscribed
    BY <2>1, <2>2 DEF TabsIn
  <2> QED
    BY <1>5, <2>1, <2>2, <2>3
<1>7. ASSUME NEW u \in Tabs
      PROVE  /\ Has(tabs'[u]) = Has(tabs[u]) /\ tabs'[u].doc = tabs[u].doc
             /\ tabs'[u].feed = tabs[u].feed /\ tabs'[u].unsaved = tabs[u].unsaved
             /\ tabs'[u].synced = tabs[u].synced /\ tabs'[u].subscribed = tabs[u].subscribed
             /\ tabs'[u].queue \subseteq tabs[u].queue
             /\ u # t => tabs'[u].queue = tabs[u].queue
  <2>1. CASE u = t
    BY <1>6, <2>1 DEF Has
  <2>2. CASE u # t
    BY <1>6, <2>2
  <2> QED
    BY <2>1, <2>2
<1>8. Unsaved' = Unsaved
  BY <1>7 DEF Unsaved
<1>9. b \subseteq tabs[t].queue
  BY <1>1, <1>2 DEF Reached
<1>10. row'.doc.ins = row.doc.ins \cup UNION {d.ins : d \in b}
  BY <1>2 DEF Folded
<1>11. UNION {d.ins : d \in b} \subseteq Queued
  BY <1>9 DEF Queued, Waiting
<1>12. Queued' \subseteq Queued
  BY <1>7 DEF Queued, Waiting
<1>13. Queued \subseteq Queued' \cup UNION {d.ins : d \in b}
  <2>1. ASSUME NEW u \in Tabs
        PROVE  Waiting(tabs[u]) \subseteq Waiting(tabs'[u]) \cup UNION {d.ins : d \in b}
    <3>1. tabs[u].queue \subseteq tabs'[u].queue \cup b
      BY <1>6
    <3> QED
      BY <3>1 DEF Waiting
  <2> QED
    BY <2>1 DEF Queued
<1>14. News(jobs[j].say) = {} /\ Idle.say = <<>> /\ News(Idle.say) = {} /\ Loads(Idle) = {}
  <2>1. jobs[j].act = "persist" /\ jobs[j].say = <<>>
    BY <1>1, <1>2 DEF Core, Inv, Fits, Placed, At
  <2> QED
    BY <2>1, IdleJob, NewsFew DEF Loads, Loading
<1>15. /\ Coming' = Coming
       /\ \A u \in Tabs : \A s \in Loaded(u)' : s \in Loaded(u)
       /\ \A u \in Tabs : \/ jobs'[<<u, "persist">>].batch = jobs[<<u, "persist">>].batch
                          \/ j = <<u, "persist">> /\ jobs'[<<u, "persist">>].batch = Idle.batch
  <2>1. /\ Coming' \subseteq Coming \cup News(Idle.say)
        /\ Coming \subseteq Coming' \cup News(jobs[j].say)
        /\ \A u \in Tabs : \A s \in Loaded(u)' : s \in Loaded(u) \/ (s \in Loads(Idle) /\ j = <<u, "request">>)
        /\ \A u \in Tabs : \/ jobs'[<<u, "persist">>].batch = jobs[<<u, "persist">>].batch
                           \/ j = <<u, "persist">> /\ jobs'[<<u, "persist">>].batch = Idle.batch
    BY <1>2, ComingGoes
  <2> QED
    BY <1>14, <2>1
<1>16. Present \subseteq Present'
  BY <1>8, <1>10, <1>13 DEF Present
<1>17. ASSUME NEW u \in Tabs PROVE jobs'[<<u, "persist">>].batch \subseteq tabs'[u].queue
  <2>1. CASE u = t
    <3>1. jobs'[j] = Idle /\ Idle.batch = {}
      BY <1>2 DEF Goes, Core, Inv, Idle
    <3> QED
      BY <1>1, <2>1, <3>1
  <2>2. CASE u # t
    <3>1. j # <<u, "persist">>
      BY <1>1, <2>2
    <3>2. jobs[<<u, "persist">>].batch \subseteq tabs[u].queue
      BY <1>2 DEF Reached
    <3> QED
      BY <1>7, <1>15, <2>2, <3>1, <3>2
  <2> QED
    BY <2>1, <2>2
<1>18. ASSUME NEW u \in Tabs
       PROVE  /\ Heard(u) \subseteq Heard(u)'
              /\ Queued' \subseteq Queued \cup Heard(u)'
              /\ News(tabs'[u].feed) \subseteq News(tabs[u].feed) \cup Present'
              /\ tabs'[u].synced =>
                   \/ tabs[u].synced /\ tabs'[u].doc.ins \subseteq tabs[u].doc.ins \cup Present'
                   \/ tabs'[u].doc.ins \subseteq Present'
              /\ \A s \in Syncs(tabs'[u].feed) : s \in Syncs(tabs[u].feed) \/ s \subseteq row'.doc.ins
              /\ \A s \in Loaded(u)' : s \in Loaded(u) \/ s = row'.doc.ins
              /\ tabs'[u].feed # <<>> \/ tabs'[u].synced => tabs'[u].subscribed
              /\ tabs'[u].subscribed => tabs[u].subscribed \/ row.doc.ins \subseteq Heard(u)'
  <2>1. Heard(u) \subseteq Heard(u)'
    BY <1>7, <1>15 DEF Heard
  <2>2. tabs[u].feed # <<>> \/ tabs[u].synced => tabs[u].subscribed
    BY <1>2 DEF Reached
  <2> QED
    BY <1>7, <1>12, <1>15, <2>1, <2>2
<1>19. Flow
  BY <1>10, <1>11, <1>15, <1>16, <1>17, <1>18 DEF Flow
<1> QED
  BY <1>2, <1>4, <1>19, FlowKeeps

\* Before there is a row nobody has anything to send.
LEMMA CreatesFlow ==
    ASSUME Core, Sourced, Reached, NEW j \in Jobs, Creates(j)
    PROVE  Sourced' /\ Reached'
<1>1. row = None /\ jobs[j].act = "subscribe" /\ jobs[j].say = <<>> /\ tabs' = tabs /\ jobs[j].pc = "create"
  BY CreatesRow DEF Creates
<1>2. Blank
  BY <1>1 DEF Core
<1>3. PICK x : x = [jobs[j] EXCEPT !.pc = "save", !.snap = row', !.seen = file]
  OBVIOUS
<1>4. Goes(j, x)
  BY <1>3 DEF Creates
<1>5. x.say = <<>> /\ x.pc = "save" /\ x.batch = jobs[j].batch
  <2>1. jobs[j] \in JobsIn(made)
    BY DEF Core, Shaped
  <2> QED
    BY <1>1, <1>3, <2>1 DEF JobsIn
<1>6. \A i \in Jobs : jobs[i].say = <<>> /\ jobs[i].pc \in {"idle", "create"}
  <2> SUFFICES ASSUME NEW i \in Jobs PROVE jobs[i].say = <<>> /\ jobs[i].pc \in {"idle", "create"}
    OBVIOUS
  <2>1. jobs[i].pc \in {"idle", "create"} /\ At(i, jobs[i], row, file)
    BY <1>2 DEF Blank, Core, Placed
  <2> QED
    BY <2>1, IdleJob DEF At
<1>7. jobs'[j] = x /\ \A i \in Jobs \ {j} : jobs'[i] = jobs[i]
  BY <1>4 DEF Core, Inv, Goes
<1>8. \A i \in Jobs : jobs'[i].say = <<>> /\ ~Loading(jobs'[i])
  BY <1>5, <1>6, <1>7 DEF Loading
<1>9. Coming' = {}
  BY <1>8, NewsFew DEF Coming
<1>10. \A t \in Tabs : tabs[t].queue = {} /\ tabs[t].feed = <<>> /\ tabs[t].synced = FALSE
  BY <1>2 DEF Blank, Unused
<1>11. Queued' = {}
  BY <1>1, <1>10 DEF Queued, Waiting
<1>12. ASSUME NEW t \in Tabs
       PROVE  /\ News(tabs'[t].feed) = {} /\ Syncs(tabs'[t].feed) = {} /\ Loaded(t)' = {}
              /\ tabs'[t].feed = <<>> /\ ~tabs'[t].synced /\ ~tabs'[t].subscribed
              /\ jobs'[<<t, "persist">>].batch \subseteq tabs'[t].queue
  <2>1. <<t, "request">> \in Jobs /\ <<t, "persist">> \in Jobs
    BY DEF Jobs
  <2>2. Loaded(t)' = {}
    BY <1>8, <2>1 DEF Loaded, Loads
  <2>3. tabs'[t].feed = <<>> /\ ~tabs'[t].synced /\ ~tabs'[t].subscribed
    BY <1>1, <1>10 DEF Reached
  <2>4. News(<<>>) = {} /\ Syncs(<<>>) = {}
    BY DEF News, Syncs
  <2>5. jobs'[<<t, "persist">>].batch = {}
    <3>1. At(<<t, "persist">>, jobs[<<t, "persist">>], row, file)
      BY <2>1 DEF Core, Placed
    <3>2. At(j, jobs[j], row, file)
      BY DEF Core, Placed
    <3>3. j # <<t, "persist">>
      BY <1>1, <3>2 DEF At
    <3>4. jobs[<<t, "persist">>].pc = "idle"
      <4>1. jobs[<<t, "persist">>].pc # "create"
        BY <3>1 DEF At
      <4> QED
        BY <1>6, <2>1, <4>1
    <3>5. jobs[<<t, "persist">>] = Idle
      BY <3>1, <3>4 DEF At
    <3> QED
      BY <1>7, <2>1, <3>3, <3>5 DEF Idle
  <2> QED
    BY <2>2, <2>3, <2>4, <2>5
<1>13. row' # None
  <2>1. row' \in RowsIn(made') /\ made' \in [Pieces -> Nat]
    BY CreatesRow
  <2> QED
    BY <2>1, RowsKnown
<1>14. Sourced'
  BY <1>9, <1>12 DEF Sourced
<1>15. Reached'
  BY <1>11, <1>12, <1>13 DEF Reached
<1> QED
  BY <1>14, <1>15

\* What a tab is told: `more` is the sync of the one that subscribes.
Told(x, s, c, b, y) ==
    /\ Has(y) = Has(x) \cup News(s) \cup c.delta.ins /\ Waiting(y) = Waiting(x)
    /\ News(y.feed) \subseteq News(x.feed) \cup News(s) \cup c.delta.ins
    /\ \A q \in Syncs(y.feed) : q \in Syncs(x.feed) \/ q \in Syncs(s) \/ q = c.delta.ins
    /\ y.doc = x.doc /\ y.synced = x.synced /\ y.subscribed = b
    /\ y.queue = x.queue /\ y.unsaved = x.unsaved

LEMMA ToldTab ==
    ASSUME NEW m \in [Pieces -> Nat], NEW x \in TabsIn(m), NEW s \in Seq(MessagesIn(m)),
           NEW c \in MessagesIn(m), c.kind = "sync", NEW b \in BOOLEAN,
           NEW z, z = [x EXCEPT !.subscribed = b], NEW r, r = Append(s, c), NEW y, y = Sent(z, r)
    PROVE  Told(x, s, c, b, y)
<1>1. PICK M : M = MessagesIn(m)
  OBVIOUS
<1>2. z \in TabsIn(m)
  BY TabFlags
<1>3. /\ z.doc = x.doc /\ z.synced = x.synced /\ z.queue = x.queue /\ z.unsaved = x.unsaved
      /\ z.dropped = x.dropped /\ z.feed = x.feed /\ z.subscribed = b
  BY DEF TabsIn
<1>4. r \in Seq(MessagesIn(m)) /\ y = Sent(z, r)
  OBVIOUS
<1>5. /\ Has(y) = Has(z) \cup News(r) /\ Waiting(y) = Waiting(z)
      /\ News(y.feed) \subseteq News(z.feed) \cup News(r)
      /\ \A q \in Syncs(y.feed) : q \in Syncs(z.feed) \/ q \in Syncs(r)
      /\ y.doc = z.doc /\ y.synced = z.synced /\ y.subscribed = z.subscribed
      /\ y.queue = z.queue /\ y.unsaved = z.unsaved
  <2>1. m \in [Pieces -> Nat]
    OBVIOUS
  <2> QED
    BY ONLY <2>1, <1>2, <1>4, SentFlow
<1>6. News(r) = News(s) \cup c.delta.ins
  <2>1. s \in Seq(M) /\ c \in M
    BY <1>1
  <2> QED
    BY <1>1, <2>1, NewsAppend
<1>7. \A q \in Syncs(r) : q \in Syncs(s) \/ q = c.delta.ins
  <2> SUFFICES ASSUME NEW q \in Syncs(r) PROVE q \in Syncs(s) \/ q = c.delta.ins
    OBVIOUS
  <2>1. s \in Seq(M) /\ <<c>> \in Seq(M) /\ r = s \o <<c>>
    BY <1>1
  <2>2. q \in Syncs(s) \/ q \in Syncs(<<c>>)
    BY <2>1, SyncsOf
  <2> QED
    BY <2>2, SyncsOne
<1>8. Has(z) = Has(x) /\ Waiting(z) = Waiting(x)
  BY <1>3 DEF Has, Waiting
<1> QED
  BY <1>3, <1>5, <1>6, <1>7, <1>8 DEF Told

\* What a step of a job that ends, and of its tabs, changes.
LEMMA LastFlow ==
    ASSUME Core, Sourced, Reached, row # None, row' = row, NEW j \in Jobs, Goes(j, Idle),
           Queued' \subseteq Queued, Queued \cup Unsaved \subseteq Queued' \cup Unsaved',
           \A t \in Tabs :
             /\ Has(tabs[t]) \subseteq Has(tabs'[t])
             /\ News(jobs[j].say) \subseteq Has(tabs'[t])
             /\ News(tabs'[t].feed) \subseteq News(tabs[t].feed) \cup row.doc.ins
             /\ tabs'[t].synced = tabs[t].synced /\ tabs'[t].doc = tabs[t].doc
             /\ \A s \in Syncs(tabs'[t].feed) : s \in Syncs(tabs[t].feed) \/ s \subseteq row.doc.ins
             /\ tabs'[t].feed # <<>> => tabs[t].feed # <<>> \/ tabs'[t].subscribed
             /\ tabs[t].subscribed => tabs'[t].subscribed
             /\ tabs'[t].subscribed => tabs[t].subscribed \/ \E s \in Loaded(t) : s \subseteq Has(tabs'[t])
             /\ j # <<t, "persist">> => tabs'[t].queue = tabs[t].queue
    PROVE  Sourced' /\ Reached'
<1>1. Idle.say = <<>> /\ News(Idle.say) = {} /\ Loads(Idle) = {} /\ Idle.batch = {}
  BY IdleJob, NewsFew DEF Loads, Loading, Idle
<1>2. /\ Coming' \subseteq Coming
      /\ Coming \subseteq Coming' \cup News(jobs[j].say)
      /\ \A t \in Tabs : \A s \in Loaded(t)' : s \in Loaded(t)
  <2>1. /\ Coming' \subseteq Coming \cup News(Idle.say)
        /\ Coming \subseteq Coming' \cup News(jobs[j].say)
        /\ \A t \in Tabs : \A s \in Loaded(t)' : s \in Loaded(t) \/ (s \in Loads(Idle) /\ j = <<t, "request">>)
    BY ComingGoes
  <2> QED
    BY <1>1, <2>1
<1>3. Present \subseteq Present' /\ row.doc.ins \subseteq Present'
  BY DEF Present
<1>4. ASSUME NEW t \in Tabs
      PROVE  /\ Heard(t) \subseteq Heard(t)'
             /\ Queued' \subseteq Queued \cup Heard(t)'
             /\ News(tabs'[t].feed) \subseteq News(tabs[t].feed) \cup Present'
             /\ tabs'[t].synced =>
                  \/ tabs[t].synced /\ tabs'[t].doc.ins \subseteq tabs[t].doc.ins \cup Present'
                  \/ tabs'[t].doc.ins \subseteq Present'
             /\ \A s \in Syncs(tabs'[t].feed) : s \in Syncs(tabs[t].feed) \/ s \subseteq row'.doc.ins
             /\ \A s \in Loaded(t)' : s \in Loaded(t) \/ s = row'.doc.ins
             /\ tabs'[t].feed # <<>> \/ tabs'[t].synced => tabs'[t].subscribed
             /\ jobs'[<<t, "persist">>].batch \subseteq tabs'[t].queue
             /\ tabs'[t].subscribed => tabs[t].subscribed \/ row.doc.ins \subseteq Heard(t)'
  <2>1. Heard(t) \subseteq Heard(t)' /\ Has(tabs'[t]) \subseteq Heard(t)'
    BY <1>2 DEF Heard
  <2>2. tabs[t].feed # <<>> \/ tabs[t].synced => tabs[t].subscribed
    BY DEF Reached
  <2>3. ASSUME tabs'[t].subscribed PROVE tabs[t].subscribed \/ row.doc.ins \subseteq Heard(t)'
    <3>1. CASE tabs[t].subscribed
      BY <3>1
    <3>2. ASSUME NEW s \in Loaded(t), s \subseteq Has(tabs'[t]) PROVE row.doc.ins \subseteq Heard(t)'
      <4>1. row.doc.ins \subseteq Heard(t) \cup s
        BY DEF Reached
      <4> QED
        BY <2>1, <3>2, <4>1
    <3> QED
      BY <2>3, <3>1, <3>2
  <2>4. jobs'[<<t, "persist">>].batch \subseteq tabs'[t].queue
    <3>1. CASE j = <<t, "persist">>
      <4>1. jobs'[j] = Idle
        BY DEF Goes, Core, Inv
      <4> QED
        BY <1>1, <3>1, <4>1
    <3>2. CASE j # <<t, "persist">>
      <4>1. jobs'[<<t, "persist">>].batch = jobs[<<t, "persist">>].batch
        BY <3>2, ComingGoes
      <4>2. jobs[<<t, "persist">>].batch \subseteq tabs[t].queue
        BY DEF Reached
      <4> QED
        BY <3>2, <4>1, <4>2
    <3> QED
      BY <3>1, <3>2
  <2> QED
    BY <1>2, <1>3, <2>1, <2>2, <2>3, <2>4
<1>5. Coming' \subseteq Coming \cup row'.doc.ins /\ row'.doc.ins \subseteq row.doc.ins \cup Queued \cup Coming'
  BY <1>2
<1>6. Flow
  BY <1>3, <1>4, <1>5 DEF Flow
<1> QED
  BY <1>6, FlowKeeps

LEMMA TellsFlow ==
    ASSUME Core, Sourced, Reached, NEW j \in Jobs, Tells(j)
    PROVE  Sourced' /\ Reached'
<1>1. /\ made \in [Pieces -> Nat] /\ jobs[j] \in JobsIn(made) /\ jobs[j].say \in Seq(MessagesIn(made))
      /\ row # None /\ tabs \in [Tabs -> TabsIn(made)]
      /\ jobs[j].act = "subscribe" =>
           /\ Message("sync", jobs[j].next.doc) \in MessagesIn(made)
  BY TellsTabs DEF Core, Shaped
<1>2. Goes(j, Idle) /\ row' = row /\ jobs[j].pc = "tell"
  BY DEF Tells
<1>3. PICK s, c : s = jobs[j].say /\ c = Message("sync", jobs[j].next.doc)
  OBVIOUS
<1>4. News(s) \subseteq row.doc.ins /\ \A q \in Syncs(s) : q \subseteq row.doc.ins
  <2>1. News(s) \subseteq Coming
    BY <1>3 DEF Coming
  <2>2. Coming \subseteq row.doc.ins
    BY <1>1 DEF Sourced
  <2>3. \A q \in Syncs(s) : q \subseteq News(s)
    <3>1. PICK M : M = MessagesIn(made)
      OBVIOUS
    <3>2. s \in Seq(M)
      BY <1>1, <1>3, <3>1
    <3> QED
      BY <3>2, SyncsOf
  <2> QED
    BY <2>1, <2>2, <2>3
<1>5. ASSUME NEW t \in Tabs
      PROVE  /\ Has(tabs[t]) \subseteq Has(tabs'[t])
             /\ News(s) \subseteq Has(tabs'[t])
             /\ News(tabs'[t].feed) \subseteq News(tabs[t].feed) \cup row.doc.ins
             /\ tabs'[t].synced = tabs[t].synced /\ tabs'[t].doc = tabs[t].doc
             /\ \A q \in Syncs(tabs'[t].feed) : q \in Syncs(tabs[t].feed) \/ q \subseteq row.doc.ins
             /\ tabs'[t].feed # <<>> => tabs[t].feed # <<>> \/ tabs'[t].subscribed
             /\ tabs[t].subscribed => tabs'[t].subscribed
             /\ tabs'[t].subscribed => tabs[t].subscribed \/ \E q \in Loaded(t) : q \subseteq Has(tabs'[t])
             /\ tabs'[t].queue = tabs[t].queue /\ tabs'[t].unsaved = tabs[t].unsaved
  <2>1. PICK x, y : x = tabs[t] /\ y = tabs'[t]
    OBVIOUS
  <2>2. x \in TabsIn(made) /\ s \in Seq(MessagesIn(made))
    BY <1>1, <1>3, <2>1
  <2>3. CASE jobs[j].act = "subscribe" /\ t = j[1] /\ tabs[t].conn = "open"
    <3>1. PICK b \in BOOLEAN : b = TRUE
      OBVIOUS
    <3>2. PICK z, r : z = [x EXCEPT !.subscribed = b] /\ r = Append(s, c) /\ y = Sent(z, r)
      BY <1>3, <2>1, <2>3, <3>1 DEF Tells
    <3>3. c \in MessagesIn(made) /\ c.kind = "sync" /\ c.delta.ins = jobs[j].next.doc.ins
      BY <1>1, <1>3, <2>3 DEF Message
    <3>4. /\ Has(y) = Has(x) \cup News(s) \cup c.delta.ins
          /\ News(y.feed) \subseteq News(x.feed) \cup News(s) \cup c.delta.ins
          /\ \A q \in Syncs(y.feed) : q \in Syncs(x.feed) \/ q \in Syncs(s) \/ q = c.delta.ins
          /\ y.doc = x.doc /\ y.synced = x.synced /\ y.subscribed = b
          /\ y.queue = x.queue /\ y.unsaved = x.unsaved
      <4>1. PICK m \in [Pieces -> Nat] : m = made
        BY <1>1
      <4>2. /\ x \in TabsIn(m) /\ s \in Seq(MessagesIn(m)) /\ c \in MessagesIn(m) /\ c.kind = "sync"
            /\ b \in BOOLEAN /\ m \in [Pieces -> Nat]
        BY <2>2, <3>1, <3>3, <4>1
      <4>3. Told(x, s, c, b, y)
        BY ONLY <3>2, <4>2, ToldTab
      <4> QED
        BY <4>3 DEF Told
    <3>5. c.delta.ins \in Loaded(t)
      <4>1. j = <<t, "request">>
        <5>1. At(j, jobs[j], row, file)
          BY DEF Core, Placed
        <5>2. j[1] \in Tabs /\ j[2] = "request"
          BY <2>3, <5>1 DEF At
        <5> QED
          BY <2>3, <5>2 DEF Jobs
      <4> QED
        BY <1>2, <2>3, <3>3, <4>1 DEF Loaded, Loads, Loading
    <3>6. c.delta.ins \subseteq row.doc.ins
      BY <1>1, <3>5 DEF Sourced
    <3>7. c.delta.ins \subseteq Has(y)
      BY <3>4
    <3>8. /\ Has(x) \subseteq Has(y) /\ News(s) \subseteq Has(y)
          /\ News(y.feed) \subseteq News(x.feed) \cup row.doc.ins
          /\ \A q \in Syncs(y.feed) : q \in Syncs(x.feed) \/ q \subseteq row.doc.ins
      BY <1>4, <3>4, <3>6
    <3> QED
      <4>1. y.subscribed
        BY <3>1, <3>4
      <4> QED
        BY <2>1, <3>4, <3>5, <3>7, <3>8, <4>1
  <2>4. CASE ~(jobs[j].act = "subscribe" /\ t = j[1] /\ tabs[t].conn = "open")
    <3>1. y = Sent(x, s)
      BY <1>3, <2>1, <2>4 DEF Tells
    <3>2. /\ Has(y) = Has(x) \cup News(s)
          /\ News(y.feed) \subseteq News(x.feed) \cup News(s)
          /\ \A q \in Syncs(y.feed) : q \in Syncs(x.feed) \/ q \in Syncs(s)
          /\ y.feed # <<>> => x.feed # <<>> \/ x.subscribed
          /\ y.doc = x.doc /\ y.synced = x.synced /\ y.subscribed = x.subscribed
          /\ y.queue = x.queue /\ y.unsaved = x.unsaved
      BY <1>1, <2>2, <3>1, SentFlow
    <3>3. /\ Has(x) \subseteq Has(y) /\ News(s) \subseteq Has(y)
          /\ News(y.feed) \subseteq News(x.feed) \cup row.doc.ins
          /\ \A q \in Syncs(y.feed) : q \in Syncs(x.feed) \/ q \subseteq row.doc.ins
      BY <1>4, <3>2
    <3> QED
      BY <2>1, <3>2, <3>3
  <2> QED
    BY <2>3, <2>4
<1>6. Queued' = Queued /\ Unsaved' = Unsaved
  BY <1>5 DEF Queued, Unsaved, Waiting
<1> QED
  BY <1>1, <1>2, <1>3, <1>5, <1>6, LastFlow

\* What a job had to tell when it fails is told to nobody.
LEMMA ErrsFlow ==
    ASSUME Core, Sourced, Reached, NEW j \in Jobs, NEW l, Errs(j, l)
    PROVE  Sourced' /\ Reached'
<1>1. /\ made \in [Pieces -> Nat] /\ jobs[j] \in JobsIn(made) /\ jobs[j].say \in Seq(MessagesIn(made))
      /\ tabs \in [Tabs -> TabsIn(made)]
  BY ErrsTabs DEF Core, Shaped
<1>2. Goes(j, Idle) /\ row' = row
  BY DEF Errs
<1>3. /\ jobs[j].act = "persist" => j = <<j[1], "persist">> /\ jobs[j].say = <<>>
      /\ j = <<j[1], j[2]>>
  <2>1. At(j, jobs[j], row, file)
    BY DEF Core, Placed
  <2>2. j = <<j[1], j[2]>>
    BY DEF Jobs
  <2> QED
    BY <2>1, <2>2 DEF At
<1>4. PICK s : s = jobs[j].say
  OBVIOUS
\* Only what a tab waits for, could not save or was left out of changes.
<1>5. ASSUME NEW t \in Tabs
      PROVE  /\ Has(tabs[t]) \subseteq Has(tabs'[t]) /\ News(s) \subseteq Has(tabs'[t])
             /\ tabs'[t].feed = tabs[t].feed
             /\ tabs'[t].doc = tabs[t].doc /\ tabs'[t].synced = tabs[t].synced
             /\ tabs'[t].subscribed = tabs[t].subscribed
             /\ tabs[t].unsaved \subseteq tabs'[t].unsaved
             /\ Waiting(tabs'[t]) \subseteq Waiting(tabs[t])
             /\ Waiting(tabs[t]) \subseteq Waiting(tabs'[t]) \cup tabs'[t].unsaved
             /\ tabs'[t].unsaved \subseteq tabs[t].unsaved \cup Waiting(tabs[t])
             /\ j # <<t, "persist">> => tabs'[t].queue = tabs[t].queue
  <2>1. PICK x, y : x = tabs[t] /\ y = tabs'[t]
    OBVIOUS
  <2>2. x \in TabsIn(made)
    BY <1>1, <2>1
  <2>3. CASE jobs[j].act = "persist" /\ t = j[1]
    <3>1. PICK q, u : q = {} /\ u = x.unsaved \cup Waiting(x)
      OBVIOUS
    <3>2. y = [x EXCEPT !.queue = q, !.unsaved = u]
      BY <2>1, <2>3, <3>1 DEF Errs, Waiting
    <3>3. /\ y.queue = q /\ y.unsaved = u /\ y.feed = x.feed /\ y.doc = x.doc
          /\ y.dropped = x.dropped /\ y.synced = x.synced /\ y.subscribed = x.subscribed
      BY <2>2, <3>2 DEF TabsIn
    <3>4. Waiting(y) = {} /\ Has(y) = Has(x) /\ News(s) = {}
      BY <1>3, <1>4, <2>3, <3>1, <3>3, NewsFew DEF Waiting, Has
    <3>5. j = <<t, "persist">>
      BY <1>3, <2>3
    <3> QED
      BY <2>1, <3>1, <3>3, <3>4, <3>5
  <2>4. CASE ~(jobs[j].act = "persist" /\ t = j[1])
    <3>1. PICK u : u = x.dropped \cup News(s)
      OBVIOUS
    <3>2. y = [x EXCEPT !.dropped = u]
      BY <1>4, <2>1, <2>4, <3>1 DEF Errs
    <3>3. /\ y.queue = x.queue /\ y.unsaved = x.unsaved /\ y.feed = x.feed /\ y.doc = x.doc
          /\ y.dropped = u /\ y.synced = x.synced /\ y.subscribed = x.subscribed
      BY <2>2, <3>2 DEF TabsIn
    <3>4. /\ Waiting(y) = Waiting(x) /\ Has(x) \subseteq Has(y) /\ News(s) \subseteq Has(y)
      BY <3>1, <3>3 DEF Waiting, Has
    <3> QED
      BY <2>1, <3>3, <3>4
  <2> QED
    BY <2>3, <2>4
<1>6. CASE row = None
  <2>1. \A t \in Tabs : ~tabs'[t].subscribed
    BY <1>5, <1>6 DEF Reached
  <2> QED
    BY <1>2, <1>6, <2>1 DEF Sourced, Reached
<1>7. CASE row # None
  <2>1. Queued' \subseteq Queued
    BY <1>5 DEF Queued
  <2>2. Queued \cup Unsaved \subseteq Queued' \cup Unsaved'
    <3>1. \A t \in Tabs : /\ Waiting(tabs'[t]) \subseteq Queued'
                          /\ tabs'[t].unsaved \subseteq Unsaved'
      BY DEF Queued, Unsaved
    <3>2. \A t \in Tabs : /\ Waiting(tabs[t]) \subseteq Queued' \cup Unsaved'
                          /\ tabs[t].unsaved \subseteq Queued' \cup Unsaved'
      <4> SUFFICES ASSUME NEW t \in Tabs
                   PROVE  /\ Waiting(tabs[t]) \subseteq Queued' \cup Unsaved'
                          /\ tabs[t].unsaved \subseteq Queued' \cup Unsaved'
        OBVIOUS
      <4>1. /\ tabs[t].unsaved \subseteq tabs'[t].unsaved
            /\ Waiting(tabs[t]) \subseteq Waiting(tabs'[t]) \cup tabs'[t].unsaved
        BY <1>5
      <4> QED
        BY <3>1, <4>1
    <3>3. Queued \subseteq Queued' \cup Unsaved'
      BY ONLY <3>2 DEF Queued
    <3>4. Unsaved \subseteq Queued' \cup Unsaved'
      BY ONLY <3>2 DEF Unsaved
    <3> QED
      BY <3>3, <3>4
  <2>3. ASSUME NEW t \in Tabs
        PROVE  /\ Has(tabs[t]) \subseteq Has(tabs'[t])
               /\ News(jobs[j].say) \subseteq Has(tabs'[t])
               /\ News(tabs'[t].feed) \subseteq News(tabs[t].feed) \cup row.doc.ins
               /\ tabs'[t].synced = tabs[t].synced /\ tabs'[t].doc = tabs[t].doc
               /\ \A q \in Syncs(tabs'[t].feed) : q \in Syncs(tabs[t].feed) \/ q \subseteq row.doc.ins
               /\ tabs'[t].feed # <<>> => tabs[t].feed # <<>> \/ tabs'[t].subscribed
               /\ tabs[t].subscribed => tabs'[t].subscribed
               /\ tabs'[t].subscribed => tabs[t].subscribed \/ \E q \in Loaded(t) : q \subseteq Has(tabs'[t])
               /\ j # <<t, "persist">> => tabs'[t].queue = tabs[t].queue
    BY <1>4, <1>5
  <2> QED
    BY <1>2, <1>7, <2>1, <2>2, <2>3, LastFlow
<1> QED
  BY <1>6, <1>7

LEMMA IsCutFlow ==
    ASSUME Core, Sourced, Reached, NEW t \in Tabs, IsCut(t)
    PROVE  Sourced' /\ Reached'
<1>1. tabs[t] \in TabsIn(made) /\ tabs \in [Tabs -> TabsIn(made)]
  BY DEF Core, Shaped
<1>2. ASSUME NEW kind \in {"persist", "request"}, NEW l, Errs(<<t, kind>>, l)
      PROVE  Sourced' /\ Reached'
  <2>1. <<t, kind>> \in Jobs
    BY DEF Jobs
  <2> QED
    BY <1>2, <2>1, ErrsFlow
<1>3. ASSUME tabs' = [tabs EXCEPT ![t].timer = "none"], row' = row, jobs' = jobs
      PROVE  Sourced' /\ Reached'
  <2>1. PICK v \in {"none", "set", "late"} : v = "none"
    OBVIOUS
  <2>2. PICK y : y = [tabs[t] EXCEPT !.timer = v]
    OBVIOUS
  <2>3. SameTab(tabs[t], y)
    BY <1>1, <2>2, SameTabKinds
  <2>4. tabs' = [tabs EXCEPT ![t] = y]
    BY <1>1, <1>3, <2>1, <2>2
  <2>5. SameTabs
    BY <2>3, <2>4, SameTabsOne
  <2> QED
    BY <1>3, <2>5, StillFlow
<1> QED
  BY <1>2, <1>3 DEF IsCut

LEMMA TabReaches ==
    ASSUME Core, Sourced, Reached, NEW t \in Tabs,
           \/ Opens(t) \/ Closes(t) \/ Delivers(t)
           \/ \E e \in Edits : Types(t, e)
           \/ BeginsPersist(t) \/ SavesBatch(t) \/ BeginsAutosave(t)
           \/ \E act \in {"editor", "workspace"} : Chooses(t, act)
           \/ IsCut(t)
    PROVE  Sourced' /\ Reached'
BY OpensFlow, ClosesFlow, DeliversFlow, TypesFlow, BeginsPersistFlow, SavesBatchFlow,
   BeginsAutosaveFlow, ChoosesFlow, IsCutFlow

LEMMA JobReaches ==
    ASSUME Core, Sourced, Reached, NEW j \in Jobs, Step(j) \/ Fails(j) \/ IsUnrecorded(j)
    PROVE  Sourced' /\ Reached'
<1>1. CASE Fails(j)
  BY <1>1, ErrsFlow DEF Fails
<1> QED
  BY <1>1, CreatesFlow, ReconcilesFlow, TakesFileFlow, WritingFlow, TellsFlow DEF Step

LEMMA ReachedNext ==
    ASSUME Core, Sourced, Reached, [Next]_vars
    PROVE  Sourced' /\ Reached'
<1>1. CASE LockExpires \/ \E p \in Writes : AgentWrites(p)
  <2>1. tabs' = tabs /\ row' = row /\ jobs' = jobs
    BY <1>1 DEF LockExpires, AgentWrites
  <2> QED
    BY <2>1, SameTabsAll, StillFlow
<1>2. CASE UNCHANGED vars
  <2>1. tabs' = tabs /\ row' = row /\ jobs' = jobs
    BY <1>2 DEF vars
  <2> QED
    BY <2>1, SameTabsAll, StillFlow
<1>3. CASE BeginsReconcile
  BY <1>3, BeginsReconcileFlow
<1>4. CASE \E j \in Jobs : Step(j) \/ Fails(j) \/ IsUnrecorded(j)
  BY <1>4, JobReaches
<1> QED
  BY <1>1, <1>2, <1>3, <1>4, TabReaches DEF Next

\* When nothing is on its way, what a tab has and has heard is what there is.
LEMMA QuietAgrees ==
    ASSUME Core, Sourced, Reached
    PROVE  EditorsAgree
<1> SUFFICES ASSUME Quiet, NEW t \in Tabs, tabs[t].synced
             PROVE  /\ row.doc.ins \ tabs[t].doc.ins \subseteq tabs[t].dropped
                    /\ tabs[t].doc.ins \ row.doc.ins \subseteq UNION {tabs[u].unsaved : u \in Tabs}
  BY DEF EditorsAgree
<1>1. Coming = {}
  <2>1. \A j \in Jobs : jobs[j] = Idle
    BY DEF Quiet, Core, Placed, At
  <2> QED
    BY <2>1, IdleJob, NewsFew DEF Coming
<1>2. Queued = {}
  BY DEF Quiet, Queued, Waiting
<1>3. News(tabs[t].feed) = {}
  BY NewsFew DEF Quiet
<1>4. row # None
  <2>1. tabs[t] \in TabsIn(made)
    BY DEF Core, Shaped
  <2>2. tabs[t].synced = TRUE
    BY <2>1, TabParts
  <2> QED
    BY <2>2, TabHasRow
<1>5. row.doc.ins \subseteq Heard(t)
  BY <1>4 DEF Reached
<1>6. tabs[t].doc.ins \subseteq row.doc.ins \cup Queued \cup Unsaved
  BY <1>4 DEF Sourced, Present
<1> QED
  BY <1>1, <1>2, <1>3, <1>5, <1>6 DEF Heard, Has, Unsaved

\* When all is quiet, a synced tab and the row have the same edits, but for the
\* messages never sent to the tab and the edits that could not be persisted
\* (publishStamped, shouldReceive, subscribe, persist).
THEOREM EditorsAgreeHolds == Spec => []EditorsAgree
<1>1. Init => Core /\ Sourced /\ Reached
  <2> SUFFICES ASSUME Init PROVE Sourced /\ Reached
    BY CoreInit
  <2>1. row = None /\ \A t \in Tabs : ~tabs[t].subscribed
    BY DEF Init, NewTab
  <2> QED
    BY <2>1 DEF Sourced, Reached
<1>2. Core /\ Sourced /\ Reached /\ [Next]_vars => (Core /\ Sourced /\ Reached)'
  BY CoreNext, ReachedNext
<1>3. Core /\ Sourced /\ Reached => EditorsAgree
  BY QuietAgrees
<1> QED
  BY <1>1, <1>2, <1>3, PTL DEF Spec

-----------------------------------------------------------------------------
(* No edit twice *)

\* An edit that has had no item is in no text of a document.
LEMMA NoItems ==
    ASSUME NEW m \in [Pieces -> Nat], NEW doc \in DocsIn(m), NEW p \in Pieces,
           m[p] = 0 \/ (m[p] <= 1 /\ <<p, 1>> \notin doc.ins)
    PROVE  TextOf(doc)[p] = 0
<1>1. Copies(doc, p) = {}
  <2> SUFFICES ASSUME NEW i \in Copies(doc, p) PROVE FALSE
    OBVIOUS
  <2>1. i \in Had(m) /\ i[1] = p /\ i \in doc.ins
    BY DEF Copies, DocsIn
  <2>2. i[2] \in 1..m[p] /\ i = <<p, i[2]>> /\ m[p] \in Nat
    BY <2>1, HadMembers
  <2>3. i[2] = 1
    BY <2>2
  <2> QED
    BY <2>1, <2>2, <2>3
<1> QED
  BY <1>1, CopiesFinite, TextTyped

LEMMA NovelStays ==
    ASSUME NEW f, Novel(f), turn.wrote \subseteq turn'.wrote,
           row # None => row' # None /\ row.doc.ins \subseteq row'.doc.ins
    PROVE  Novel(f)'
BY DEF Novel

\* What the document holds is novel too.
LEMMA NovelDoc ==
    ASSUME Core, Counts, row # None
    PROVE  Novel(TextOf(row.doc))
<1>1. made \in [Pieces -> Nat] /\ row.doc \in DocsIn(made) /\ Edits \subseteq Pieces /\ Writes \subseteq Pieces
  BY HasRow, FileConstants DEF Core, Shaped, Writes
<1>2. \A p \in Writes \ turn.wrote : TextOf(row.doc)[p] = 0
  BY <1>1, NoItems DEF Counts
<1>3. \A e \in Edits : <<e, 1>> \notin row.doc.ins => TextOf(row.doc)[e] = 0
  BY <1>1, NoItems DEF Counts
<1> QED
  BY <1>2, <1>3 DEF Novel

\* Who has the lock knows that no save waits to be recorded.
LEMMA NoReadback ==
    ASSUME Core, lock \in Jobs => jobs[lock].pc # "readback"
    PROVE  \A i \in Jobs : jobs[i].pc # "readback"
BY LockedJob DEF Locked

LEMMA LevelNow ==
    ASSUME Core, Level, row # None, lock \in Jobs => jobs[lock].pc # "readback"
    PROVE  Ahead(row, file.text)
BY NoReadback DEF Level

\* A job that goes on has read what is once in the file, or reads no more.
LEMMA ReadsGo ==
    ASSUME Core, Reads, NEW j \in Jobs, NEW x, Goes(j, x), turn.wrote \subseteq turn'.wrote,
           row' = row \/ (lock = j /\ (row # None => row' # None /\ row.doc.ins \subseteq row'.doc.ins)),
           Reading(x) => ReadOnce(x.seen.text)'
    PROVE  Reads'
<1> SUFFICES ASSUME NEW i \in Jobs, Reading(jobs[i])' PROVE ReadOnce(jobs[i].seen.text)'
  BY DEF Reads
<1>1. jobs'[j] = x /\ \A k \in Jobs \ {j} : jobs'[k] = jobs[k]
  BY DEF Core, Inv, Goes
<1>2. CASE i = j
  BY <1>1, <1>2
<1>3. CASE i # j
  <2>1. PICK f : f = jobs[i].seen.text
    OBVIOUS
  <2>2. jobs'[i] = jobs[i] /\ Reading(jobs[i]) /\ ReadOnce(f)
    BY <1>1, <1>3, <2>1 DEF Reads
  <2>3. lock = i
    BY <2>2, LockedJob DEF Reading, Locked
  <2>4. row' = row
    BY <1>3, <2>3
  <2>5. Novel(f)'
    BY <2>2, <2>4, NovelStays DEF ReadOnce
  <2>6. ReadOnce(f)'
    BY <2>2, <2>4, <2>5 DEF ReadOnce
  <2> QED
    BY <2>1, <2>2, <2>6
<1> QED
  BY <1>2, <1>3

LEMMA ReadsStay ==
    ASSUME Reads, jobs' = jobs, row' = row, turn.wrote \subseteq turn'.wrote
    PROVE  Reads'
<1> SUFFICES ASSUME NEW i \in Jobs, Reading(jobs[i]) PROVE ReadOnce(jobs[i].seen.text)'
  BY DEF Reads
<1>1. PICK f : f = jobs[i].seen.text
  OBVIOUS
<1>2. ReadOnce(f)
  BY <1>1 DEF Reads
<1>3. Novel(f)'
  BY <1>2, NovelStays DEF ReadOnce
<1>4. ReadOnce(f)'
  BY <1>2, <1>3 DEF ReadOnce
<1> QED
  BY <1>1, <1>4

LEMMA CountsStay ==
    ASSUME Counts, row' = row, file' = file, made' = made, turn'.wrote = turn.wrote
    PROVE  Counts'
BY DEF Counts, Novel

LEMMA LevelGo ==
    ASSUME Core, Level, NEW j \in Jobs, NEW x, Goes(j, x), jobs[j].pc # "readback",
           row' = row, file' = file
    PROVE  Level'
<1>1. \A k \in Jobs \ {j} : jobs'[k] = jobs[k]
  BY DEF Core, Inv, Goes
<1> QED
  BY <1>1 DEF Level

\* A job goes on and changes nothing: if it reads, it reads the file now.
LEMMA OnceGo ==
    ASSUME Core, Counts, Level, Reads, NEW j \in Jobs, NEW x, Goes(j, x),
           jobs[j].pc # "readback", row' = row, file' = file, made' = made,
           turn'.wrote = turn.wrote,
           Reading(x) => x.seen = file /\ lock \notin Jobs
    PROVE  (Counts /\ Level /\ Reads)'
<1>1. Counts' /\ Level'
  BY CountsStay, LevelGo
<1>2. ASSUME Reading(x) PROVE ReadOnce(x.seen.text)'
  <2>1. PICK f : f = file.text
    OBVIOUS
  <2>2. row # None => Ahead(row, f)
    BY <1>2, <2>1, LevelNow
  <2>3. Single(f) /\ Novel(f)
    BY <2>1 DEF Counts
  <2>4. Novel(f)'
    BY <2>3, NovelStays
  <2>5. ReadOnce(f)'
    BY <2>2, <2>3, <2>4 DEF ReadOnce
  <2> QED
    BY <1>2, <2>1, <2>5
<1>3. Reads'
  BY <1>2, ReadsGo
<1> QED
  BY <1>1, <1>3

LEMMA OnceStay ==
    ASSUME Counts, Level, Reads, jobs' = jobs, row' = row, file' = file, made' = made,
           turn'.wrote = turn.wrote
    PROVE  (Counts /\ Level /\ Reads)'
BY CountsStay, ReadsStay DEF Level

\* A member types an edit.
LEMMA TypedOnce ==
    ASSUME Core, Counts, Level, Reads, row # None, NEW t \in Tabs, NEW e \in Edits,
           made[e] = 0, made' = [made EXCEPT ![e] = 1],
           UNCHANGED <<row, file, turn, jobs>>
    PROVE  (Counts /\ Level /\ Reads)'
<1>1. /\ e \in Pieces /\ made' \in [Pieces -> Nat] /\ made \in [Pieces -> Nat]
      /\ Had(made') = Had(made) \cup {<<e, 1>>}
  BY EditedDoc DEF Core, Shaped
<1>2. \A p \in Writes \ turn.wrote : made'[p] = 0
  <2>1. \A p \in Writes : p \in Pieces /\ p # e
    BY DEF Writes
  <2> QED
    BY <1>1, <2>1 DEF Counts
<1>3. Had(made') \ row.doc.ins \subseteq {<<x, 1>> : x \in Edits}
  BY <1>1 DEF Counts
<1>4. \A x \in Edits : <<x, 1>> \notin row.doc.ins => made'[x] <= 1
  <2> SUFFICES ASSUME NEW x \in Edits, <<x, 1>> \notin row.doc.ins PROVE made'[x] <= 1
    OBVIOUS
  <2>1. x \in Pieces /\ made[x] <= 1
    BY FileConstants DEF Counts
  <2> QED
    BY <1>1, <2>1
<1>5. Counts'
  BY <1>2, <1>3, <1>4 DEF Counts, Novel
<1>6. Reads'
  BY ReadsStay
<1> QED
  BY <1>5, <1>6 DEF Level

\* The row is written with `base`, and its document has the text `text`.
LEMMA CountsRow ==
    ASSUME Core, Counts, row # None, row' # None, row.doc.ins \subseteq row'.doc.ins,
           file' = file, turn' = turn,
           NEW base, row'.base = base, Single(base), Novel(base),
           Single(TextOf(row'.doc)),
           Had(made') \ row'.doc.ins \subseteq Had(made) \ row.doc.ins,
           \A e \in Edits : <<e, 1>> \notin row'.doc.ins => made'[e] = made[e],
           \A p \in Writes \ turn.wrote : made'[p] = made[p]
    PROVE  Counts'
<1>1. Novel(base)'
  BY NovelStays
<1>2. PICK f : f = file.text
  OBVIOUS
<1>3. Single(f) /\ Novel(f)'
  <2>1. Novel(f) /\ Single(f)
    BY <1>2 DEF Counts
  <2> QED
    BY <2>1, NovelStays
<1>4. Single(file'.text) /\ Novel(file.text)'
  BY <1>2, <1>3
<1>5. Single(row'.base) /\ Novel(row.base)'
  BY <1>1
<1>6. /\ Had(made') \ row'.doc.ins \subseteq {<<e, 1>> : e \in Edits}
      /\ \A e \in Edits : <<e, 1>> \notin row'.doc.ins => made'[e] <= 1
      /\ \A p \in Writes \ turn'.wrote : made'[p] = 0
  BY DEF Counts
<1> QED
  BY <1>4, <1>5, <1>6 DEF Counts

\* A step that only marks the row.
LEMMA MarkedOnce ==
    ASSUME Core, Counts, Level, Reads, NEW j \in Jobs, NEW x, Goes(j, x), lock = j,
           jobs[j].pc # "readback", ~Reading(x), row # None, row' # None,
           row'.doc = row.doc, row'.base = row.base, UNCHANGED <<file, turn, made>>
    PROVE  (Counts /\ Level /\ Reads)'
<1>1. Ahead(row, file.text)
  BY LevelNow
<1>2. Level'
  BY <1>1 DEF Level, Ahead
<1>3. Counts'
  BY DEF Counts, Novel
<1>4. Reads'
  BY ReadsGo
<1> QED
  BY <1>2, <1>3, <1>4

\* A batch brings edits that the row did not have, each once.
LEMMA SavesBatchOnce ==
    ASSUME Core, Counts, Level, Reads, NEW t \in Tabs, SavesBatch(t)
    PROVE  (Counts /\ Level /\ Reads)'
<1>1. PICK j, b : j = <<t, "persist">> /\ b = jobs[j].batch
  OBVIOUS
<1>2. /\ j \in Jobs /\ lock = j /\ row # None /\ Goes(j, Idle) /\ b \in SUBSET DocsIn(made)
      /\ row' \in RowsIn(made) /\ row'.doc = Folded(row.doc, b) /\ row'.base = row.base
  BY <1>1, SavesBatchRow
<1>3. UNCHANGED <<file, turn, made>> /\ jobs[j].pc = "save"
  BY <1>1 DEF SavesBatch
<1>4. /\ made \in [Pieces -> Nat] /\ row.doc \in DocsIn(made) /\ row'.doc \in DocsIn(made)
      /\ row.base \in Texts /\ row' # None /\ file.text \in Texts
  <2>1. made \in [Pieces -> Nat] /\ file \in Files
    BY DEF Core, Shaped
  <2> QED
    BY <1>2, <2>1, HasRow, RowsKnown DEF RowsIn, Files
<1>5. row.doc.ins \subseteq row'.doc.ins /\ row.doc.del \subseteq row'.doc.del
  BY <1>2 DEF Folded
<1>6. PICK old, new : old = row.doc /\ new = row'.doc
  OBVIOUS
<1>7. ASSUME NEW p \in Pieces
      PROVE  \/ TextOf(new)[p] <= TextOf(old)[p]
             \/ /\ TextOf(new)[p] <= 1 /\ p \in Edits /\ <<p, 1>> \notin old.ins
                /\ row.base[p] = 0 /\ file.text[p] = 0
  <2>1. old \in DocsIn(made) /\ new \in DocsIn(made)
    BY <1>4, <1>6
  <2>2. /\ IsFiniteSet(Copies(old, p)) /\ IsFiniteSet(Copies(new, p))
        /\ TextOf(old)[p] = Cardinality(Copies(old, p)) /\ TextOf(new)[p] = Cardinality(Copies(new, p))
    BY <1>4, <2>1, CopiesFinite, TextTyped
  <2>3. CASE Copies(new, p) \subseteq Copies(old, p)
    BY <2>2, <2>3, FS_Subset
  <2>4. ASSUME NEW i \in Copies(new, p), i \notin Copies(old, p)
        PROVE  /\ TextOf(new)[p] <= 1 /\ p \in Edits /\ <<p, 1>> \notin old.ins
               /\ row.base[p] = 0 /\ file.text[p] = 0
    <3>1. i \in new.ins /\ i \notin new.del /\ i[1] = p /\ i \in Had(made)
      BY <2>1 DEF Copies, DocsIn
    <3>2. i \notin old.ins
      BY <1>5, <1>6, <2>4, <3>1 DEF Copies
    <3>3. PICK e \in Edits : i = <<e, 1>>
      BY <1>2, <1>6, <3>1, <3>2 DEF Counts
    <3>4. p \in Edits /\ i = <<p, 1>>
      BY <3>1, <3>3
    <3>5. made[p] <= 1
      BY <1>2, <1>6, <3>2, <3>4 DEF Counts
    <3>6. Copies(new, p) \subseteq {<<p, 1>>}
      <4> SUFFICES ASSUME NEW k \in Copies(new, p) PROVE k = <<p, 1>>
        OBVIOUS
      <4>1. k \in Had(made) /\ k[1] = p
        BY <2>1 DEF Copies, DocsIn
      <4>2. k = <<k[1], k[2]>> /\ k[2] \in 1..made[p] /\ made[p] \in Nat
        BY <1>4, <4>1, HadMembers
      <4>3. k[2] = 1
        BY <3>5, <4>2
      <4> QED
        BY <4>1, <4>2, <4>3
    <3>7. TextOf(new)[p] <= 1
      <4>1. IsFiniteSet({<<p, 1>>}) /\ Cardinality({<<p, 1>>}) = 1
        BY FS_Singleton
      <4> QED
        BY <2>2, <3>6, <4>1, FS_Subset
    <3>8. row.base[p] = 0 /\ file.text[p] = 0
      BY <1>2, <1>6, <3>2, <3>4 DEF Counts, Novel
    <3> QED
      BY <3>2, <3>4, <3>7, <3>8
  <2> QED
    BY <2>3, <2>4
<1>8. TextOf(old) \in Texts /\ TextOf(new) \in Texts /\ \A p \in Pieces : TextOf(old)[p] <= 1
  BY <1>2, <1>4, <1>6, TextTyped DEF Counts, Single
<1>9. Single(TextOf(new))
  <2> SUFFICES ASSUME NEW p \in Pieces PROVE TextOf(new)[p] <= 1
    BY DEF Single
  <2>1. PICK n, o : n = TextOf(new)[p] /\ o = TextOf(old)[p]
    OBVIOUS
  <2>2. n \in Nat /\ o \in Nat /\ o <= 1
    BY <1>8, <2>1 DEF Texts
  <2>3. n <= o \/ n <= 1
    BY <1>7, <2>1
  <2> QED
    BY <2>1, <2>2, <2>3
<1>10. Ahead(row', file.text)
  <2>1. Ahead(row, file.text)
    BY <1>2, <1>3, LevelNow
  <2> SUFFICES ASSUME NEW p \in Pieces, TextOf(new)[p] > row.base[p] PROVE file.text[p] = 0
    BY <1>2, <1>6 DEF Ahead
  <2>2. PICK n, o, k : n = TextOf(new)[p] /\ o = TextOf(old)[p] /\ k = row.base[p]
    OBVIOUS
  <2>3. n \in Nat /\ o \in Nat /\ k \in Nat /\ n > k
    BY <1>4, <1>8, <2>2 DEF Texts
  <2>4. n <= o \/ file.text[p] = 0
    BY <1>7, <2>2
  <2>5. o > k => file.text[p] = 0
    BY <1>6, <2>1, <2>2 DEF Ahead
  <2> QED
    BY <2>3, <2>4, <2>5
<1>11. Level'
  BY <1>3, <1>10 DEF Level
<1>12. Counts'
  <2>1. PICK base : base = row.base
    OBVIOUS
  <2>2. Single(base) /\ Novel(base) /\ row'.base = base /\ Single(TextOf(row'.doc))
    BY <1>2, <1>6, <1>9, <2>1 DEF Counts
  <2> QED
    BY <1>2, <1>3, <1>4, <1>5, <2>2, CountsRow
<1>13. ~Reading(Idle)
  BY IdleJob DEF Reading
<1>14. Reads'
  BY <1>2, <1>3, <1>4, <1>5, <1>13, ReadsGo
<1> QED
  BY <1>11, <1>12, <1>14

\* A merge brings an edit of the file only if the document does not have it.
LEMMA MergesOnce ==
    ASSUME Core, Counts, Level, Reads, NEW j \in Jobs, jobs[j].pc = "save",
           jobs[j].act \in Reconciling, Merges(j), UNCHANGED <<file, turn>>
    PROVE  (Counts /\ Level /\ Reads)'
<1>1. PICK text : text = jobs[j].seen.text
  OBVIOUS
<1>2. /\ lock = j /\ row # None /\ made \in [Pieces -> Nat] /\ row.doc \in DocsIn(made)
      /\ row.base \in Texts /\ text \in Texts /\ jobs[j].act # "persist"
  BY <1>1, SavingJob DEF Reconciling
<1>3. /\ made' \in [Pieces -> Nat] /\ row' \in RowsIn(made') /\ row'.doc = Merged(j)
      /\ row'.base = text /\ row.doc.ins \subseteq Merged(j).ins
      /\ Merged(j).ins \ row.doc.ins = Had(made') \ Had(made)
      /\ \A p \in Pieces :
           /\ TextOf(Merged(j))[p] = TextOf(row.doc)[p] + text[p] - row.base[p]
           /\ made'[p] = made[p] + Gained(row.base, text, p)
  BY <1>1, MergesDoc
<1>4. row' # None
  BY <1>3, RowsKnown
<1>5. ReadOnce(text)
  BY <1>1, <1>2 DEF Reads, Reading
<1>6. Single(text) /\ Novel(text) /\ Ahead(row, text) /\ Ahead(row, file.text)
  BY <1>2, <1>5, LevelNow DEF ReadOnce
<1>7. PICK ours, base : ours = TextOf(row.doc) /\ base = row.base
  OBVIOUS
<1>8. ours \in Texts /\ base \in Texts
  BY <1>2, <1>7, TextTyped
<1>9. ASSUME NEW p \in Pieces
      PROVE  /\ ours[p] \in {0, 1} /\ base[p] \in {0, 1} /\ text[p] \in {0, 1}
             /\ ours[p] > base[p] => text[p] = 0 /\ file.text[p] = 0
  <2>1. ours[p] \in Nat /\ base[p] \in Nat /\ text[p] \in Nat
    BY <1>2, <1>8 DEF Texts
  <2>2. ours[p] <= 1 /\ base[p] <= 1 /\ text[p] <= 1
    BY <1>2, <1>6, <1>7 DEF Counts, Single
  <2>3. ours[p] > base[p] => text[p] = 0 /\ file.text[p] = 0
    BY <1>6, <1>7 DEF Ahead
  <2> QED
    BY <2>1, <2>2, <2>3
<1>10. ASSUME NEW p \in Pieces
       PROVE  /\ TextOf(row'.doc)[p] <= 1
              /\ TextOf(row'.doc)[p] > text[p] => file.text[p] = 0
  <2>1. TextOf(row'.doc)[p] = ours[p] + text[p] - base[p]
    BY <1>3, <1>7
  <2> QED
    BY <1>9, <2>1
<1>11. Single(TextOf(row'.doc)) /\ Ahead(row', file.text)
  BY <1>3, <1>10 DEF Single, Ahead
<1>12. ASSUME NEW p \in Pieces, text[p] = 0 PROVE made'[p] = made[p]
  <2>1. Gained(row.base, text, p) = 0
    BY <1>2, <1>12, GainedTyped DEF Texts
  <2> QED
    BY <1>2, <1>3, <2>1
<1>13. /\ \A e \in Edits : <<e, 1>> \notin row'.doc.ins => made'[e] = made[e]
       /\ \A p \in Writes \ turn.wrote : made'[p] = made[p]
  <2>1. ASSUME NEW e \in Edits, <<e, 1>> \notin row'.doc.ins PROVE made'[e] = made[e]
    <3>1. e \in Pieces /\ <<e, 1>> \notin row.doc.ins
      BY <1>3, <2>1, FileConstants
    <3>2. text[e] = 0
      BY <1>2, <1>6, <3>1 DEF Novel
    <3> QED
      BY <1>12, <3>1, <3>2
  <2>2. ASSUME NEW p \in Writes \ turn.wrote PROVE made'[p] = made[p]
    <3>1. p \in Pieces /\ text[p] = 0
      BY <1>6 DEF Novel, Writes
    <3> QED
      BY <1>12, <3>1
  <2> QED
    BY <2>1, <2>2
<1>14. Had(made') \ row'.doc.ins \subseteq Had(made) \ row.doc.ins
  BY <1>3
<1>15. Counts'
  BY <1>2, <1>3, <1>4, <1>6, <1>11, <1>13, <1>14, CountsRow
<1>16. Level'
  BY <1>11 DEF Level
<1>17. PICK x : Goes(j, x) /\ ~Reading(x)
  <2>1. PICK s : s = <<Message("reconciled", Delta(Merged(j), row.doc))>>
    OBVIOUS
  <2>2. CASE Goes(j, Ending(jobs[j].act, row', s))
    <3>1. Ending(jobs[j].act, row', s).pc = "tell"
      BY DEF Ending, Idle
    <3> QED
      BY <2>2, <3>1 DEF Reading
  <2>3. CASE Goes(j, [jobs[j] EXCEPT !.pc = "write", !.snap = row', !.next = row', !.say = s])
    <3>1. jobs[j] \in JobsIn(made)
      BY DEF Core, Shaped
    <3>2. [jobs[j] EXCEPT !.pc = "write", !.snap = row', !.next = row', !.say = s].pc = "write"
      BY <3>1 DEF JobsIn
    <3> QED
      BY <2>3, <3>2 DEF Reading
  <2> QED
    BY <2>1, <2>2, <2>3 DEF Merges
<1>18. Reads'
  BY <1>2, <1>3, <1>4, <1>17, ReadsGo
<1> QED
  BY <1>15, <1>16, <1>18

LEMMA TakesFileOnce ==
    ASSUME Core, Counts, Level, Reads, NEW j \in Jobs, TakesFile(j)
    PROVE  (Counts /\ Level /\ Reads)'
<1>1. PICK text, doc, s :
        /\ text = jobs[j].seen.text /\ doc = ReplaceContents(row.doc, text, made)
        /\ s = <<Message("reconciled", Delta(doc, row.doc))>>
  OBVIOUS
<1>2. /\ jobs[j].pc = "save" /\ jobs[j].act = "workspace" /\ lock = j /\ row # None
      /\ TextOf(doc) = text /\ row.doc.ins \subseteq doc.ins
      /\ doc.ins \ row.doc.ins = Had(made') \ Had(made) /\ made' \in [Pieces -> Nat]
      /\ \A p \in Pieces : made'[p] = made[p] + Gained(TextOf(row.doc), text, p)
      /\ row' \in RowsIn(made') /\ row'.doc = doc /\ row'.base = text
      /\ Goes(j, Ending("workspace", None, s))
  BY <1>1, TakesFileRow
<1>3. /\ made \in [Pieces -> Nat] /\ row.doc \in DocsIn(made) /\ text \in Texts
      /\ TextOf(row.doc) \in Texts /\ row' # None
  BY <1>1, <1>2, SavingJob, TextTyped, RowsKnown
<1>4. file' = file /\ turn' = turn
  BY DEF TakesFile
<1>5. Single(text) /\ Novel(text)
  BY <1>1, <1>2 DEF Reads, Reading, ReadOnce
<1>6. ASSUME NEW p \in Pieces, text[p] = 0 PROVE made'[p] = made[p]
  <2>1. PICK ours : ours = TextOf(row.doc)
    OBVIOUS
  <2>2. Gained(ours, text, p) = 0
    BY <1>3, <1>6, <2>1, GainedTyped DEF Texts
  <2> QED
    BY <1>2, <1>3, <2>1, <2>2
<1>7. /\ \A e \in Edits : <<e, 1>> \notin row'.doc.ins => made'[e] = made[e]
      /\ \A p \in Writes \ turn.wrote : made'[p] = made[p]
  <2>1. ASSUME NEW e \in Edits, <<e, 1>> \notin row'.doc.ins PROVE made'[e] = made[e]
    <3>1. e \in Pieces /\ <<e, 1>> \notin row.doc.ins
      BY <1>2, <2>1, FileConstants
    <3>2. text[e] = 0
      BY <1>2, <1>5, <3>1 DEF Novel
    <3> QED
      BY <1>6, <3>1, <3>2
  <2>2. ASSUME NEW p \in Writes \ turn.wrote PROVE made'[p] = made[p]
    <3>1. p \in Pieces /\ text[p] = 0
      BY <1>5 DEF Novel, Writes
    <3> QED
      BY <1>6, <3>1
  <2> QED
    BY <2>1, <2>2
<1>8. Had(made') \ row'.doc.ins \subseteq Had(made) \ row.doc.ins
  BY <1>2
<1>9. Single(TextOf(row'.doc))
  BY <1>2, <1>5
<1>10. Counts'
  BY <1>2, <1>3, <1>4, <1>5, <1>7, <1>8, <1>9, CountsRow
<1>11. Ahead(row', file.text)
  <2>1. \A p \in Pieces : text[p] \in Nat
    BY <1>3 DEF Texts
  <2>2. TextOf(row'.doc) = row'.base
    BY <1>2
  <2> SUFFICES ASSUME NEW p \in Pieces, TextOf(row'.doc)[p] > row'.base[p] PROVE FALSE
    BY DEF Ahead
  <2>3. text[p] > text[p]
    BY <1>2, <2>2
  <2> QED
    BY <2>1, <2>3
<1>12. Level'
  BY <1>4, <1>11 DEF Level
<1>13. Ending("workspace", None, s).pc = "tell"
  BY DEF Ending, Idle
<1>14. Reads'
  BY <1>2, <1>3, <1>4, <1>13, ReadsGo DEF Reading
<1> QED
  BY <1>10, <1>12, <1>14

\* The first row has what the file has.
LEMMA CreatesOnce ==
    ASSUME Core, Counts, Level, Reads, NEW j \in Jobs, Creates(j)
    PROVE  (Counts /\ Level /\ Reads)'
<1>1. PICK text, doc : /\ text = jobs[j].seen.text /\ doc = ReplaceContents(NoDoc, text, made)
  OBVIOUS
<1>2. /\ row = None /\ lock = j /\ doc \in DocsIn(made') /\ TextOf(doc) = text
      /\ doc.ins = Had(made') \ Had(made) /\ made' \in [Pieces -> Nat]
      /\ \A p \in Pieces : made'[p] = made[p] + text[p]
      /\ row' = Fresh(doc, jobs[j].seen) /\ row' \in RowsIn(made') /\ jobs[j].seen \in Files
  BY <1>1, CreatesRow
<1>3. /\ row'.doc = doc /\ row'.base = text /\ row' # None /\ text \in Texts
  BY <1>1, <1>2, RowsKnown DEF Fresh, Files
<1>4. /\ file' = file /\ turn' = turn /\ jobs[j].pc = "create"
      /\ file.text \in Texts
  BY DEF Creates, Core, Shaped, Files
<1>5. Single(text) /\ Novel(text)
  BY <1>1, <1>4 DEF Reads, Reading, ReadOnce
<1>6. \A p \in Pieces : made[p] = 0 /\ text[p] \in Nat /\ made'[p] = text[p]
  BY <1>2, <1>3 DEF Counts, Texts
<1>7. Had(made) = {}
  <2> SUFFICES ASSUME NEW i \in Had(made) PROVE FALSE
    OBVIOUS
  <2>1. PICK p \in Pieces : i \in {p} \X (1..made[p])
    BY DEF Had
  <2> QED
    BY <1>6, <2>1
<1>8. Had(made') \ doc.ins = {}
  BY <1>2, <1>7
<1>9. /\ \A p \in Writes \ turn.wrote : made'[p] = 0
      /\ \A e \in Edits : made'[e] = 0
  BY <1>2, <1>5, <1>6, FileConstants DEF Novel, Writes
<1>10. PICK f : f = file.text
  OBVIOUS
<1>11. Single(f) /\ Novel(f)
  BY <1>10 DEF Counts
<1>12. Novel(f)' /\ Novel(text)'
  BY <1>2, <1>4, <1>5, <1>11, NovelStays
<1>13. Single(TextOf(row'.doc)) /\ Single(row'.base)
  BY <1>2, <1>3, <1>5
<1>14. \A e \in Edits : made'[e] <= 1
  BY <1>9
<1>15. Counts'
  BY <1>3, <1>4, <1>8, <1>9, <1>10, <1>11, <1>12, <1>13, <1>14 DEF Counts
<1>16. ASSUME NEW c PROVE Ahead(row', c)
  <2> SUFFICES ASSUME NEW p \in Pieces, TextOf(row'.doc)[p] > row'.base[p] PROVE FALSE
    BY DEF Ahead
  <2>1. text[p] > text[p]
    BY <1>2, <1>3
  <2> QED
    BY <1>6, <2>1
<1>17. Level'
  BY <1>16 DEF Level
<1>18. PICK x : Goes(j, x) /\ x.seen = file
  <2>1. jobs[j] \in JobsIn(made)
    BY DEF Core, Shaped
  <2>2. [jobs[j] EXCEPT !.pc = "save", !.snap = row', !.seen = file].seen = file
    BY <2>1 DEF JobsIn
  <2> QED
    BY <2>2 DEF Creates
<1>19. ReadOnce(f)'
  BY <1>11, <1>12, <1>16 DEF ReadOnce
<1>20. ReadOnce(x.seen.text)'
  BY <1>10, <1>18, <1>19
<1>21. Reads'
  BY <1>2, <1>4, <1>18, <1>20, ReadsGo
<1> QED
  BY <1>15, <1>17, <1>21

LEMMA WritesFileOnce ==
    ASSUME Core, Counts, Level, Reads, NEW j \in Jobs, WritesFile(j)
    PROVE  (Counts /\ Level /\ Reads)'
<1>1. /\ jobs[j].pc = "write" /\ file' = [text |-> TextOf(jobs[j].snap.doc), rev |-> file.rev + 1]
      /\ Goes(j, [jobs[j] EXCEPT !.pc = "readback"])
      /\ UNCHANGED <<row, turn, made>>
  BY DEF WritesFile
<1>2. lock = j /\ row # None /\ jobs[j].snap = row /\ jobs[j] \in JobsIn(made)
  BY <1>1, WritingJob
<1>3. PICK x : x = [jobs[j] EXCEPT !.pc = "readback"]
  OBVIOUS
<1>4. x.pc = "readback" /\ Goes(j, x)
  BY <1>1, <1>2, <1>3 DEF JobsIn
<1>5. PICK text : text = TextOf(row.doc)
  OBVIOUS
<1>6. Single(text) /\ Novel(text) /\ file'.text = text
  BY <1>1, <1>2, <1>5, NovelDoc DEF Counts
<1>7. Novel(text)'
  BY <1>1, <1>6, NovelStays
<1>8. PICK base : base = row.base
  OBVIOUS
<1>9. Novel(base)'
  BY <1>1, <1>2, <1>8, NovelStays DEF Counts
<1>10. Counts'
  BY <1>1, <1>6, <1>7, <1>8, <1>9 DEF Counts
<1>11. Level'
  <2>1. jobs'[j] = x
    BY <1>4 DEF Core, Inv, Goes
  <2> QED
    BY <1>4, <2>1 DEF Level
<1>12. Reads'
  BY <1>1, <1>4, ReadsGo DEF Reading
<1> QED
  BY <1>10, <1>11, <1>12

\* The record of a save makes the base what the file has.
LEMMA RecordsOnce ==
    ASSUME Core, Counts, Level, Reads, NEW j \in Jobs, Records(j)
    PROVE  (Counts /\ Level /\ Reads)'
<1>1. /\ jobs[j].pc = "readback" /\ UNCHANGED <<file, turn, made>>
      /\ Goes(j, [jobs[j] EXCEPT !.pc = "tell", !.say = Append(@, Message("reconciled", NoDoc))])
  BY DEF Records, Saved
<1>2. /\ lock = j /\ row # None /\ jobs[j] \in JobsIn(made) /\ made \in [Pieces -> Nat]
      /\ TextOf(row.doc) \in Texts
  BY <1>1, WritingJob
<1>3. row' \in RowsIn(made) /\ row'.doc = row.doc /\ row'.base = file.text /\ row' # None
  BY <1>2, RecordedRow, RowsKnown
<1>4. PICK x, s : /\ s = Append(jobs[j].say, Message("reconciled", NoDoc))
                  /\ x = [jobs[j] EXCEPT !.pc = "tell", !.say = s]
  OBVIOUS
<1>5. x.pc = "tell" /\ Goes(j, x)
  BY <1>1, <1>2, <1>4 DEF JobsIn
<1>6. PICK f : f = file.text
  OBVIOUS
<1>7. Single(f) /\ Novel(f) /\ Single(TextOf(row.doc))
  BY <1>2, <1>6 DEF Counts
<1>8. Counts'
  BY <1>1, <1>2, <1>3, <1>6, <1>7, CountsRow
<1>9. Ahead(row', file.text)
  <2> SUFFICES ASSUME NEW p \in Pieces, TextOf(row.doc)[p] > f[p] PROVE f[p] = 0
    BY <1>3, <1>6 DEF Ahead
  <2>1. TextOf(row.doc)[p] \in Nat /\ TextOf(row.doc)[p] <= 1
    BY <1>2, <1>7 DEF Texts, Single
  <2>2. f[p] \in Nat
    BY <1>6 DEF Core, Shaped, Files, Texts
  <2> QED
    BY <2>1, <2>2
<1>10. Level'
  BY <1>1, <1>9 DEF Level
<1>11. Reads'
  BY <1>1, <1>2, <1>3, <1>5, ReadsGo DEF Reading
<1> QED
  BY <1>8, <1>10, <1>11

LEMMA IsRefusedOnce ==
    ASSUME Core, Counts, Level, Reads, NEW j \in Jobs, IsRefused(j)
    PROVE  (Counts /\ Level /\ Reads)'
<1>1. jobs[j].pc = "write" /\ UNCHANGED <<file, turn, made>>
  BY DEF IsRefused
<1>2. lock = j /\ row # None /\ jobs[j] \in JobsIn(made) /\ made \in [Pieces -> Nat]
  BY <1>1, WritingJob
<1>3. CASE row' = row /\ Goes(j, Idle)
  BY <1>1, <1>3, IdleJob, OnceGo DEF Reading
<1>4. CASE /\ row' \in RowsIn(made) /\ row'.doc = row.doc /\ row'.base = row.base
           /\ Goes(j, [jobs[j] EXCEPT !.pc = "tell", !.say = Append(@, Message("conflict", NoDoc))])
  <2>1. PICK x, s : /\ s = Append(jobs[j].say, Message("conflict", NoDoc))
                    /\ x = [jobs[j] EXCEPT !.pc = "tell", !.say = s]
    OBVIOUS
  <2>2. x.pc = "tell" /\ Goes(j, x)
    BY <1>2, <1>4, <2>1 DEF JobsIn
  <2>3. row' # None
    BY <1>2, <1>4, RowsKnown
  <2> QED
    BY <1>1, <1>2, <1>4, <2>2, <2>3, MarkedOnce DEF Reading
<1> QED
  BY <1>3, <1>4, RefusedRow

LEMMA ReconcilesOnce ==
    ASSUME Core, Counts, Level, Reads, NEW j \in Jobs, Reconciles(j)
    PROVE  (Counts /\ Level /\ Reads)'
<1>1. /\ jobs[j].pc = "save" /\ jobs[j].act \in Reconciling /\ jobs[j].act # "persist"
      /\ UNCHANGED <<file, turn>>
  BY DEF Reconciles, Reconciling
<1>2. lock = j /\ row # None /\ made \in [Pieces -> Nat] /\ row \in RowsIn(made)
  BY <1>1, SavingJob
<1>3. \A a, r, s : ~Reading(Ending(a, r, s))
  BY DEF Reading, Ending, Idle
<1>4. CASE Leaves(j)
  <2>1. PICK s : Goes(j, Ending(jobs[j].act, row, s))
    BY <1>4 DEF Leaves
  <2>2. row' = row /\ made' = made
    BY <1>4 DEF Leaves
  <2> QED
    BY <1>1, <1>3, <2>1, <2>2, OnceGo
<1>5. CASE Marks(j)
  <2>1. PICK s : Goes(j, Ending(jobs[j].act, row, s))
    BY <1>5 DEF Marks
  <2>2. row' \in RowsIn(made) /\ row'.doc = row.doc /\ row'.base = row.base /\ made' = made
    BY <1>2, <1>5, MarkedRow DEF Marks
  <2>3. row' # None
    BY <1>2, <2>2, RowsKnown
  <2> QED
    BY <1>1, <1>2, <1>3, <2>1, <2>2, <2>3, MarkedOnce
<1> QED
  BY <1>1, <1>4, <1>5, ReconcilesHow, MergesOnce

\* An agent writes an edit that was nowhere.
LEMMA AgentWritesOnce ==
    ASSUME Core, Counts, Level, Reads, NEW p \in Writes, AgentWrites(p)
    PROVE  (Counts /\ Level /\ Reads)'
<1>1. /\ p \notin turn.wrote /\ file'.text = Written(file.text, p)
      /\ turn'.wrote = turn.wrote \cup {p} /\ UNCHANGED <<row, jobs, made>>
  BY DEF AgentWrites
<1>2. p \in Pieces /\ p \notin Edits /\ made[p] = 0 /\ made \in [Pieces -> Nat] /\ file.text \in Texts
  BY <1>1 DEF Writes, Counts, Core, Shaped, Files
<1>3. PICK f, g : f = file.text /\ g = Written(file.text, p)
  OBVIOUS
<1>4. \A q \in Pieces : /\ q = p => g[q] = 1
                        /\ q # p => g[q] = 0 \/ g[q] = f[q]
  BY <1>3 DEF Written
<1>5. Single(f) /\ Novel(f)
  BY <1>3 DEF Counts
<1>6. Novel(f)'
  BY <1>1, <1>5, NovelStays
<1>7. Single(g)
  <2> SUFFICES ASSUME NEW q \in Pieces PROVE g[q] <= 1
    BY DEF Single
  <2>1. f[q] <= 1
    BY <1>5 DEF Single
  <2> QED
    BY <1>4, <2>1
<1>8. Novel(g)'
  <2>1. \A q \in Writes \ turn'.wrote : q \in Pieces /\ q # p /\ f[q] = 0
    BY <1>1, <1>6 DEF Novel, Writes
  <2>2. \A q \in Writes \ turn'.wrote : g[q] = 0
    BY <1>4, <2>1
  <2>3. ASSUME NEW e \in Edits, row' = None \/ <<e, 1>> \notin row'.doc.ins PROVE g[e] = 0
    <3>1. e \in Pieces /\ e # p
      BY <1>2, FileConstants
    <3>2. f[e] = 0
      BY <1>6, <2>3 DEF Novel
    <3> QED
      BY <1>4, <3>1, <3>2
  <2> QED
    BY <2>2, <2>3 DEF Novel
<1>9. PICK base : base = row.base
  OBVIOUS
<1>10. row # None => Novel(base)'
  <2>1. row # None => Novel(base)
    BY <1>9 DEF Counts
  <2> QED
    BY <1>1, <2>1, NovelStays
<1>11. Counts'
  BY <1>1, <1>3, <1>7, <1>8, <1>9, <1>10 DEF Counts
<1>12. Level'
  <2> SUFFICES ASSUME row # None, \A i \in Jobs : jobs[i].pc # "readback"
               PROVE  Ahead(row, g)
    BY <1>1, <1>3 DEF Level
  <2>1. Ahead(row, f)
    BY <1>3 DEF Level
  <2>2. TextOf(row.doc)[p] = 0 /\ row.base[p] \in Nat
    BY <1>2, HasRow, NoItems DEF Texts
  <2> SUFFICES ASSUME NEW q \in Pieces, TextOf(row.doc)[q] > row.base[q] PROVE g[q] = 0
    BY DEF Ahead
  <2>3. q # p
    BY <2>2
  <2>4. f[q] = 0
    BY <2>1 DEF Ahead
  <2> QED
    BY <1>4, <2>3, <2>4
<1>13. Reads'
  BY <1>1, ReadsStay
<1> QED
  BY <1>11, <1>12, <1>13

LEMMA BegunOnce ==
    ASSUME Core, Counts, Level, Reads, NEW j \in Jobs, NEW act, NEW pc, Begins(j, act, pc),
           row' = row, file' = file, made' = made, turn'.wrote = turn.wrote
    PROVE  (Counts /\ Level /\ Reads)'
<1>1. PICK x : x = [Idle EXCEPT !.act = act, !.pc = pc, !.snap = row, !.seen = file]
  OBVIOUS
<1>2. x.seen = file /\ Goes(j, x) /\ jobs[j].pc = "idle" /\ lock = None
  BY <1>1 DEF Begins, Free, Idle
<1>3. lock \notin Jobs
  BY <1>2, Constants
<1> QED
  BY <1>2, <1>3, OnceGo

LEMMA BeginsPersistOnce ==
    ASSUME Core, Counts, Level, Reads, NEW t \in Tabs, BeginsPersist(t)
    PROVE  (Counts /\ Level /\ Reads)'
<1>1. PICK j, next, b : /\ j = <<t, "persist">> /\ b = tabs[t].queue
                        /\ next = [row EXCEPT !.doc = Folded(row.doc, tabs[t].queue)]
  OBVIOUS
<1>2. j \in Jobs /\ Goes(j, Batched(b, next))
  BY <1>1, BatchBegins
<1>3. jobs[j].pc = "idle" /\ UNCHANGED <<row, file, made, turn>>
  BY <1>1 DEF BeginsPersist, Free
<1>4. Batched(b, next).act = "persist" /\ Batched(b, next).pc = "save"
  BY DEF Batched, Idle
<1>5. ~Reading(Batched(b, next))
  BY <1>4 DEF Reading
<1>6. PICK x : x = Batched(b, next)
  OBVIOUS
<1> QED
  BY <1>2, <1>3, <1>5, <1>6, OnceGo

LEMMA ErrsOnce ==
    ASSUME Core, Counts, Level, Reads, NEW j \in Jobs, NEW l, Errs(j, l), jobs[j].pc # "readback"
    PROVE  (Counts /\ Level /\ Reads)'
<1>1. Goes(j, Idle) /\ row' = row /\ file' = file /\ made' = made
  BY DEF Errs
<1>2. turn'.wrote = turn.wrote
  <2>1. turn' = turn \/ \E told \in BOOLEAN : turn' = [turn EXCEPT !.told = told]
    BY DEF Errs
  <2>2. turn \in [wrote : SUBSET Writes, told : BOOLEAN]
    BY DEF Core, Shaped
  <2> QED
    BY <2>1, <2>2
<1> QED
  BY <1>1, <1>2, IdleJob, OnceGo DEF Reading

LEMMA TellsOnce ==
    ASSUME Core, Counts, Level, Reads, NEW j \in Jobs, Tells(j)
    PROVE  (Counts /\ Level /\ Reads)'
<1>1. Goes(j, Idle) /\ jobs[j].pc = "tell" /\ UNCHANGED <<row, file, turn, made>>
  BY DEF Tells
<1> QED
  BY <1>1, IdleJob, OnceGo DEF Reading

LEMMA TabOnce ==
    ASSUME Core, Counts, Level, Reads, AllRecorded', NEW t \in Tabs,
           \/ Opens(t) \/ Closes(t) \/ Delivers(t)
           \/ \E e \in Edits : Types(t, e)
           \/ BeginsPersist(t) \/ SavesBatch(t) \/ BeginsAutosave(t)
           \/ \E act \in {"editor", "workspace"} : Chooses(t, act)
           \/ IsCut(t)
    PROVE  (Counts /\ Level /\ Reads)'
<1>0. PICK j, i : j = <<t, "request">> /\ i = <<t, "autosave">>
  OBVIOUS
<1>1. j \in Jobs /\ i \in Jobs
  BY <1>0 DEF Jobs
<1>2. CASE Opens(t)
  <2>1. PICK pc : pc = IF row = None THEN "create" ELSE "save"
    OBVIOUS
  <2>2. Begins(j, "subscribe", pc) /\ UNCHANGED <<row, file, turn, made>>
    BY <1>0, <1>2, <2>1 DEF Opens
  <2> QED
    BY <1>1, <2>2, BegunOnce
<1>3. ASSUME NEW e \in Edits, CanType(t, e), made' = [made EXCEPT ![e] = 1],
             UNCHANGED <<row, file, turn, jobs>>
      PROVE  (Counts /\ Level /\ Reads)'
  <2>1. made[e] = 0 /\ tabs[t].synced = TRUE
    <3>1. tabs[t] \in TabsIn(made) /\ tabs[t].synced
      BY <1>3 DEF Core, Shaped, CanType
    <3> QED
      BY <1>3, <3>1, TabParts DEF CanType
  <2>2. row # None
    BY <2>1, TabHasRow
  <2> QED
    BY <1>3, <2>1, <2>2, TypedOnce
<1>4. CASE Closes(t)
  <2>1. UNCHANGED <<row, file, turn, jobs>>
    BY <1>4 DEF Closes
  <2>2. CASE made' = made
    BY <2>1, <2>2, OnceStay
  <2>3. CASE \E e \in Edits : CanType(t, e) /\ made' = [made EXCEPT ![e] = 1]
    BY <1>3, <2>1, <2>3
  <2> QED
    BY <1>4, <2>2, <2>3 DEF Closes
<1>5. CASE Delivers(t)
  BY <1>5, OnceStay DEF Delivers
<1>6. ASSUME NEW e \in Edits, Types(t, e) PROVE (Counts /\ Level /\ Reads)'
  BY <1>3, <1>6 DEF Types
<1>7. CASE BeginsAutosave(t)
  <2>1. UNCHANGED <<row, file, turn, made>> /\ (jobs' = jobs \/ Begins(i, "autosave", "write"))
    BY <1>0, <1>7 DEF BeginsAutosave
  <2> QED
    BY <1>1, <2>1, BegunOnce, OnceStay
<1>8. ASSUME NEW act \in {"editor", "workspace"}, Chooses(t, act)
      PROVE  (Counts /\ Level /\ Reads)'
  <2>1. PICK pc : pc = IF act = "editor" THEN "write" ELSE "save"
    OBVIOUS
  <2>2. UNCHANGED <<row, file, turn, made>> /\ Begins(j, act, pc)
    BY <1>0, <1>8, <2>1 DEF Chooses
  <2> QED
    BY <1>1, <2>2, BegunOnce
<1>9. ~IsCut(t)
  BY DEF IsCut, Happens, AllRecorded
<1> QED
  BY <1>2, <1>4, <1>5, <1>6, <1>7, <1>8, <1>9, BeginsPersistOnce, SavesBatchOnce

LEMMA JobOnce ==
    ASSUME Core, Counts, Level, Reads, AllRecorded', NEW j \in Jobs,
           Step(j) \/ Fails(j) \/ IsUnrecorded(j)
    PROVE  (Counts /\ Level /\ Reads)'
<1>1. CASE Fails(j)
  <2>1. jobs[j].pc # "readback"
    BY <1>1 DEF Fails, Happens, AllRecorded
  <2> QED
    BY <1>1, <2>1, ErrsOnce DEF Fails
<1>2. ~IsUnrecorded(j)
  BY DEF IsUnrecorded, Happens, AllRecorded
<1> QED
  BY <1>1, <1>2, CreatesOnce, ReconcilesOnce, TakesFileOnce, WritesFileOnce, IsRefusedOnce,
     RecordsOnce, TellsOnce DEF Step

LEMMA OnceNext == Core /\ Once /\ [Next]_vars => Once'
<1> SUFFICES ASSUME Core, Once, [Next]_vars, AllRecorded' PROVE (Counts /\ Level /\ Reads)'
  BY DEF Once
<1>1. Counts /\ Level /\ Reads
  BY RareGrows DEF Once, AllRecorded
<1>2. CASE LockExpires \/ UNCHANGED vars
  BY <1>1, <1>2, OnceStay DEF LockExpires, vars
<1>3. ASSUME NEW p \in Writes, AgentWrites(p) PROVE (Counts /\ Level /\ Reads)'
  BY <1>1, <1>3, AgentWritesOnce
<1>4. CASE BeginsReconcile
  <2>1. PICK j : j = <<Turn, "request">>
    OBVIOUS
  <2>2. j \in Jobs
    BY <2>1 DEF Jobs
  <2>3. /\ UNCHANGED <<row, file, made>> /\ turn' = [turn EXCEPT !.told = TRUE]
        /\ jobs' = jobs \/ Begins(j, "turn", "save")
    BY <1>4, <2>1 DEF BeginsReconcile
  <2>4. turn'.wrote = turn.wrote
    BY <2>3 DEF Core, Shaped
  <2> QED
    BY <1>1, <2>2, <2>3, <2>4, BegunOnce, OnceStay
<1>5. CASE \E j \in Jobs : Step(j) \/ Fails(j) \/ IsUnrecorded(j)
  BY <1>1, <1>5, JobOnce
<1> QED
  BY <1>1, <1>2, <1>3, <1>4, <1>5, TabOnce DEF Next

LEMMA OnceInit == Init => Once
<1> SUFFICES ASSUME Init PROVE Counts /\ Level /\ Reads
  BY DEF Once
<1>1. /\ row = None /\ file.text = NoText /\ \A p \in Pieces : made[p] = 0
      /\ \A p \in Pieces : NoText[p] = 0
  BY DEF Init, NoText
<1>2. Single(NoText) /\ Novel(NoText)
  BY <1>1, FileConstants DEF Single, Novel, Writes
<1>3. Counts
  BY <1>1, <1>2 DEF Counts, Writes
<1>4. \A j \in Jobs : ~Reading(jobs[j])
  BY IdleJob DEF Init, Reading
<1> QED
  BY <1>1, <1>3, <1>4 DEF Level, Reads

\* No edit comes to stand twice in the text or in the file, unless the record
\* of a write was lost (rebaseTextHunks, recordGen2DocumentSave).
THEOREM NothingIsTwice == Spec => []NothingTwice
<1>1. Init => Core /\ Once
  BY CoreInit, OnceInit
<1>2. Core /\ Once /\ [Next]_vars => (Core /\ Once)'
  BY CoreNext, OnceNext
<1>3. Once => NothingTwice
  BY DEF Once, AllRecorded, Counts, Single, NothingTwice
<1> QED
  BY <1>1, <1>2, <1>3, PTL DEF Spec
=============================================================================
