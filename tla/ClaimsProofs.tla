---------------------------- MODULE ClaimsProofs ----------------------------
(* Proofs about ComputeClaims for every set of workspaces, owners and      *)
(* requests, and every limit.                                              *)
EXTENDS ClaimsProperties, TLAPS, FiniteSetTheorems, WellFoundedInduction

USE ClaimsConstants

-----------------------------------------------------------------------------
(* Type correctness.                                                       *)

LEMMA InitType == Init => TypeOK
BY DEF Init, TypeOK, Phases, NoCall

LEMMA WantedOwners ==
    ASSUME TypeOK, NEW r \in Requests, req[r].pc # "idle"
    PROVE  LockNext(r) \subseteq Owners
BY DEF TypeOK, LockNext, Missing, Wanted

LEMMA EndsType ==
    ASSUME TypeOK, NEW r \in Requests, Ends(r)
    PROVE  /\ req' \in [Requests ->
                [pc : {"idle", "lock", "insert", "queue"},
                 kind : {"start", "cancel", "transfer"}, ws : Workspaces \cup {None},
                 from : Owners \cup {None}, to : Owners \cup {None}]]
           /\ \A q \in Requests : req'[q].pc # "idle" =>
                req'[q].ws \in Workspaces
                /\ {req'[q].from, req'[q].to} \subseteq Owners
           /\ lock' \in [Owners -> Requests \cup Workspaces \cup {None}]
BY DEF TypeOK, Ends, NoCall, Unlocked

LEMMA RequestTypes ==
    ASSUME TypeOK, NEW r \in Requests, Ask(r) \/ RequestStep(r) \/ GiveUp(r)
    PROVE  TypeOK'
<1>1. CASE Ask(r)
  BY <1>1 DEF Ask, TypeOK, row, runs
<1>2. CASE Acquire(r)
  BY <1>2, WantedOwners DEF Acquire, TypeOK, row, runs
<1>3. CASE Reserve(r)
  BY <1>3 DEF Reserve, Goto, TypeOK, row, runs
<1>4. CASE Insert(r)
  BY <1>4 DEF Insert, Goto, Unlocked, TypeOK, row, runs
<1>5. CASE Cancel(r)
  BY <1>5, EndsType DEF Cancel, Of, TypeOK, row, runs
<1>6. CASE Transfer(r)
  <2>1. req[r].ws \in Workspaces /\ req[r].to \in Owners
    BY <1>6 DEF Transfer, TypeOK
  <2>2. owner' \in [Workspaces -> Owners]
    BY <1>6, <2>1 DEF Transfer, TypeOK
  <2>3. claims' \subseteq Owners \X Workspaces
    BY <1>6, <2>1 DEF Transfer, TypeOK
  <2> QED
    BY <1>6, <2>2, <2>3, EndsType DEF Transfer, TypeOK, row, runs
<1>7. CASE QueueStart(r)
  BY <1>7 DEF QueueStart, Queue, Update, Unlocked, NoCall, TypeOK, Phases, Kinds
<1>8. CASE GiveUp(r)
  BY <1>8, EndsType DEF GiveUp, TypeOK, row, runs
<1> QED
  BY <1>1, <1>2, <1>3, <1>4, <1>5, <1>6, <1>7, <1>8 DEF RequestStep

LEMMA RunTypes ==
    ASSUME TypeOK, NEW w \in Workspaces, RunStep(w) \/ RowStep(w)
    PROVE  TypeOK'
<1> USE DEF TypeOK, Phases, Kinds, Update, Step, Unlocked, row
<1>1. CASE Input(w)
  BY <1>1 DEF Input
<1>2. CASE Progress(w)
  BY <1>2 DEF Progress
<1>3. CASE Check(w)
  BY <1>3 DEF Check
<1>4. CASE Complete(w)
  BY <1>4 DEF Complete
<1>5. CASE StartFails(w)
  BY <1>5 DEF StartFails
<1>6. CASE Undo(w)
  <2>1. late' \in [Workspaces -> Nat] /\ recorded' \in [Workspaces -> BOOLEAN]
    <3>1. CASE late' = [late EXCEPT ![w] = @ + 1]
               /\ recorded' = [recorded EXCEPT ![w] = FALSE]
      BY <3>1
    <3>2. CASE UNCHANGED late /\ UNCHANGED recorded
      BY <3>2
    <3> QED
      BY <1>6, <3>1, <3>2 DEF Undo
  <2>2. phase' \in [Workspaces -> Phases] /\ op' \in [Workspaces -> Kinds \cup {None}]
    BY <1>6 DEF Undo
  <2> QED
    BY <1>6, <2>1, <2>2 DEF Undo
<1>7. CASE Release(w)
  BY <1>7 DEF Release, Decided, Of
<1>8. CASE TeardownFails(w)
  BY <1>8 DEF TeardownFails
<1>9. CASE Dies(w)
  BY <1>9 DEF Dies
<1>10. CASE Finish(w)
  BY <1>10 DEF Finish, Of
<1>11. CASE Erase(w)
  BY <1>11 DEF Erase, Of
<1>12. CASE QueueStop(w)
  BY <1>12 DEF QueueStop, Queue
<1>13. CASE QueueDelete(w)
  BY <1>13 DEF QueueDelete, Queue
<1>14. CASE QueueFails(w)
  BY <1>14 DEF QueueFails
<1>15. CASE Recreate(w)
  BY <1>15 DEF Recreate
<1>16. CASE Observe(w)
  BY <1>16 DEF Observe
<1> QED
  BY <1>1, <1>2, <1>3, <1>4, <1>5, <1>6, <1>7, <1>8, <1>9, <1>10, <1>11, <1>12,
     <1>13, <1>14, <1>15, <1>16 DEF RunStep, RowStep

LEMMA NextType == TypeOK /\ [Next]_vars => TypeOK'
<1> SUFFICES ASSUME TypeOK, [Next]_vars PROVE TypeOK'
  OBVIOUS
<1>1. CASE UNCHANGED vars
  BY <1>1 DEF vars, TypeOK
<1>2. CASE Next
  BY <1>2, RequestTypes, RunTypes DEF Next
<1> QED
  BY <1>1, <1>2

\* The state of ComputeClaims is well typed.
THEOREM TypeCorrect == Spec => []TypeOK
BY InitType, NextType, PTL DEF Spec

-----------------------------------------------------------------------------
(* How many workspaces an owner holds.                                     *)

LEMMA Smaller ==
    ASSUME NEW S, S \subseteq Workspaces, NEW T, T \subseteq S
    PROVE  /\ Cardinality(S) \in Nat /\ Cardinality(T) \in Nat
           /\ Cardinality(T) <= Cardinality(S)
<1>1. IsFiniteSet(S)
  BY FS_Subset
<1>2. IsFiniteSet(T) /\ Cardinality(T) <= Cardinality(S)
  BY <1>1, FS_Subset
<1> QED
  BY <1>1, <1>2, FS_CardinalityType

LEMMA LimitType == ASSUME NEW o \in Owners PROVE Limit[o] \in Nat
OBVIOUS

\* An owner who holds no more keeps within the limit and keeps the room found.
LEMMA HoldsNoMore ==
    ASSUME NEW o \in Owners, Held(o)' \subseteq Held(o)
    PROVE  /\ Cardinality(Held(o)) <= Limit[o] => Cardinality(Held(o)') <= Limit[o]
           /\ \A w \in Workspaces : Fits(o, w) =>
                Cardinality(Held(o)' \cup {w}) <= Limit[o]
<1>1. Held(o) \subseteq Workspaces
  BY DEF Held
<1>2. Cardinality(Held(o)) <= Limit[o] => Cardinality(Held(o)') <= Limit[o]
  BY <1>1, Smaller, LimitType
<1>3. ASSUME NEW w \in Workspaces, Fits(o, w)
      PROVE  Cardinality(Held(o)' \cup {w}) <= Limit[o]
  <2>1. Held(o)' \cup {w} \subseteq Held(o) \cup {w}
    OBVIOUS
  <2>2. Held(o) \cup {w} \subseteq Workspaces
    BY <1>1
  <2> QED
    BY <2>1, <2>2, <1>3, Smaller, LimitType DEF Fits
<1> QED
  BY <1>2, <1>3

\* The check of a reservation or a transfer leaves room for the workspace.
LEMMA RoomFound ==
    ASSUME NEW o \in Owners, NEW w \in Workspaces, WithinLimit(o, w)
    PROVE  /\ Cardinality(Others(o, w) \cup {w}) <= Limit[o]
           /\ Fits(o, w)
<1>1. Others(o, w) \subseteq Workspaces /\ w \notin Others(o, w)
  BY DEF Others
<1>2. IsFiniteSet(Others(o, w))
  BY <1>1, FS_Subset
<1>3. Cardinality(Others(o, w) \cup {w}) = Cardinality(Others(o, w)) + 1
  BY <1>1, <1>2, FS_AddElement
<1>4. Cardinality(Others(o, w) \cup {w}) <= Limit[o]
  BY <1>2, <1>3, FS_CardinalityType, LimitType DEF WithinLimit
<1>5. Held(o) \cup {w} \subseteq Others(o, w) \cup {w}
  BY DEF Held, Others, Occupying
<1> QED
  BY <1>1, <1>4, <1>5, Smaller, LimitType DEF Fits

-----------------------------------------------------------------------------
(* The invariant.                                                          *)

LEMMA InitInv == Init => ClaimsInv
<1> SUFFICES ASSUME Init PROVE ClaimsInv
  OBVIOUS
<1>1. TypeOK /\ ClaimsFollowOwner /\ InsertsFit /\ CommitsFit
  BY InitType DEF Init, ClaimsFollowOwner, InsertsFit, CommitsFit, NoCall
<1>2. ASSUME NEW o \in Owners PROVE Cardinality(Held(o)) <= Limit[o]
  <2>1. Held(o) = {}
    BY DEF Init, Held
  <2> QED
    BY <2>1, FS_EmptySet, LimitType
<1> QED
  BY <1>1, <1>2 DEF ClaimsInv, HeldWithinLimit

\* Nobody holds more, begins to insert or to commit, or loses the lock for it.
QuietStep ==
    /\ owner' = owner /\ claims' \subseteq claims
    /\ \A w \in Workspaces : phase'[w] = "ready" => phase[w] = "ready"
    /\ \A r \in Requests : req'[r].pc = "insert" =>
         req'[r] = req[r] /\ lock'[req[r].from] = r
    /\ \A w \in Workspaces : run'[w] = "commit" =>
         run[w] = "commit" /\ lock'[owner[w]] = w

LEMMA Quiet ==
    ASSUME ClaimsInv, TypeOK', QuietStep
    PROVE  ClaimsInv'
<1> USE DEF QuietStep
<1>1. ASSUME NEW o \in Owners PROVE Held(o)' \subseteq Held(o)
  BY DEF Held
<1>2. HeldWithinLimit'
  <2> SUFFICES ASSUME NEW o \in Owners PROVE Cardinality(Held(o)') <= Limit[o]
    BY DEF HeldWithinLimit
  <2> QED
    BY <1>1, HoldsNoMore DEF ClaimsInv, HeldWithinLimit
<1>3. ClaimsFollowOwner'
  BY DEF ClaimsInv, ClaimsFollowOwner
<1>4. InsertsFit'
  <2> SUFFICES ASSUME NEW r \in Requests, req'[r].pc = "insert"
               PROVE  /\ lock'[req'[r].from] = r
                      /\ owner'[req'[r].ws] = req'[r].from
                      /\ Fits(req[r].from, req[r].ws)'
    BY DEF InsertsFit
  <2>1. req'[r] = req[r] /\ req[r].pc = "insert" /\ lock'[req[r].from] = r
    OBVIOUS
  <2>2. req[r].from \in Owners /\ req[r].ws \in Workspaces
    BY <2>1 DEF ClaimsInv, TypeOK
  <2>3. PICK p \in Owners, w \in Workspaces : p = req[r].from /\ w = req[r].ws
    BY <2>2
  <2>4. lock[p] = r /\ owner[w] = p /\ Fits(p, w)
    BY <2>1, <2>3 DEF ClaimsInv, InsertsFit
  <2>5. Cardinality(Held(p)' \cup {w}) <= Limit[p]
    BY <1>1, <2>4, HoldsNoMore
  <2>6. req'[r].from = p /\ req'[r].ws = w /\ lock'[p] = r /\ owner'[w] = p
    BY <2>1, <2>3, <2>4
  <2> QED
    BY <2>5, <2>6 DEF Fits
<1>5. CommitsFit'
  <2> SUFFICES ASSUME NEW w \in Workspaces, run'[w] = "commit"
               PROVE  lock'[owner'[w]] = w /\ Fits(owner[w], w)'
    BY DEF CommitsFit
  <2>1. PICK p \in Owners : p = owner[w]
    BY DEF ClaimsInv, TypeOK
  <2>2. lock[p] = w /\ Fits(p, w)
    BY <2>1 DEF ClaimsInv, CommitsFit
  <2>3. Cardinality(Held(p)' \cup {w}) <= Limit[p]
    BY <1>1, <2>2, HoldsNoMore
  <2> QED
    BY <2>1, <2>2, <2>3 DEF Fits
<1> QED
  BY <1>2, <1>3, <1>4, <1>5 DEF ClaimsInv

\* One owner, whose lock h has, holds more, but not too much; nobody else does.
LEMMA Grows ==
    ASSUME ClaimsInv, TypeOK', ClaimsFollowOwner', NEW h, NEW o \in Owners,
           lock[o] = h, Cardinality(Held(o)') <= Limit[o],
           \A p \in Owners : p # o => Held(p)' \subseteq Held(p),
           \A w \in Workspaces : owner'[w] # owner[w] => lock[owner[w]] = h,
           \A r \in Requests : req'[r].pc = "insert" =>
               r # h /\ req'[r] = req[r]
               /\ (lock[req[r].from] = r => lock'[req[r].from] = r),
           \A w \in Workspaces : run'[w] = "commit" =>
               w # h /\ run[w] = "commit"
               /\ (lock[owner[w]] = w => lock'[owner[w]] = w)
    PROVE  ClaimsInv'
<1>1. HeldWithinLimit'
  <2> SUFFICES ASSUME NEW p \in Owners PROVE Cardinality(Held(p)') <= Limit[p]
    BY DEF HeldWithinLimit
  <2> QED
    BY HoldsNoMore DEF ClaimsInv, HeldWithinLimit
<1>2. InsertsFit'
  <2> SUFFICES ASSUME NEW r \in Requests, req'[r].pc = "insert"
               PROVE  /\ lock'[req'[r].from] = r
                      /\ owner'[req'[r].ws] = req'[r].from
                      /\ Fits(req[r].from, req[r].ws)'
    BY DEF InsertsFit
  <2>1. PICK p \in Owners, w \in Workspaces : p = req[r].from /\ w = req[r].ws
    BY DEF ClaimsInv, TypeOK
  <2>2. lock[p] = r /\ owner[w] = p /\ Fits(p, w)
    BY <2>1 DEF ClaimsInv, InsertsFit
  <2>3. p # o /\ owner'[w] = p /\ lock'[p] = r
    BY <2>1, <2>2
  <2>4. Cardinality(Held(p)' \cup {w}) <= Limit[p]
    BY <2>2, <2>3, HoldsNoMore
  <2> QED
    BY <2>1, <2>3, <2>4 DEF Fits
<1>3. CommitsFit'
  <2> SUFFICES ASSUME NEW w \in Workspaces, run'[w] = "commit"
               PROVE  lock'[owner'[w]] = w /\ Fits(owner[w], w)'
    BY DEF CommitsFit
  <2>1. PICK p \in Owners : p = owner[w]
    BY DEF ClaimsInv, TypeOK
  <2>2. lock[p] = w /\ Fits(p, w)
    BY <2>1 DEF ClaimsInv, CommitsFit
  <2>3. p # o /\ owner'[w] = p /\ lock'[p] = w
    BY <2>1, <2>2
  <2>4. Cardinality(Held(p)' \cup {w}) <= Limit[p]
    BY <2>2, <2>3, HoldsNoMore
  <2> QED
    BY <2>3, <2>4 DEF Fits
<1> QED
  BY <1>1, <1>2, <1>3 DEF ClaimsInv

LEMMA LockedNow ==
    ClaimsInv =>
        /\ \A q \in Requests : req[q].pc = "insert" => lock[req[q].from] = q
        /\ \A v \in Workspaces : run[v] = "commit" => lock[owner[v]] = v
BY DEF ClaimsInv, InsertsFit, CommitsFit

\* Releasing the locks of one leaves the locks of the others.
LEMMA UnlockKeeps ==
    ASSUME ClaimsInv, NEW h \in Requests \cup Workspaces, lock' = Unlocked(h)
    PROVE  /\ \A q \in Requests : q # h /\ req[q].pc = "insert" =>
                lock'[req[q].from] = q
           /\ \A v \in Workspaces : v # h /\ run[v] = "commit" =>
                lock'[owner[v]] = v
<1>1. \A o \in Owners : lock[o] # h => lock'[o] = lock[o]
  BY DEF Unlocked
<1>2. ASSUME NEW q \in Requests, q # h, req[q].pc = "insert"
      PROVE  lock'[req[q].from] = q
  BY <1>1, <1>2 DEF ClaimsInv, InsertsFit, TypeOK
<1>3. ASSUME NEW v \in Workspaces, v # h, run[v] = "commit"
      PROVE  lock'[owner[v]] = v
  BY <1>1, <1>3 DEF ClaimsInv, CommitsFit, TypeOK
<1> QED
  BY <1>2, <1>3

LEMMA ReserveInv ==
    ASSUME ClaimsInv, TypeOK', NEW r \in Requests, Reserve(r)
    PROVE  ClaimsInv'
<1>1. PICK o \in Owners, w \in Workspaces : o = req[r].from /\ w = req[r].ws
  BY DEF Reserve, ClaimsInv, TypeOK
<1>2. lock[o] = r /\ owner[w] = o /\ WithinLimit(o, w)
  BY <1>1 DEF Reserve, HasLocks, Missing, Wanted, SameOwner
<1>3. UNCHANGED <<owner, phase, claims, lock, run>>
  BY DEF Reserve, row, runs
<1>4. \A p, v : Fits(p, v)' <=> Fits(p, v)
  BY <1>3 DEF Fits, Held
<1>5. HeldWithinLimit' /\ ClaimsFollowOwner' /\ CommitsFit'
  BY <1>3, <1>4 DEF ClaimsInv, HeldWithinLimit, Held, ClaimsFollowOwner, CommitsFit
<1>6. InsertsFit'
  <2> SUFFICES ASSUME NEW q \in Requests, req'[q].pc = "insert"
               PROVE  /\ lock'[req'[q].from] = q
                      /\ owner'[req'[q].ws] = req'[q].from
                      /\ Fits(req[q].from, req[q].ws)'
    BY DEF InsertsFit
  <2>1. PICK p, v : p = req[q].from /\ v = req[q].ws
    OBVIOUS
  <2>2. req'[q].from = p /\ req'[q].ws = v /\ (q # r => req[q].pc = "insert")
    BY <2>1 DEF Reserve, Goto, ClaimsInv, TypeOK
  <2>3. Fits(o, w)
    BY <1>2, RoomFound
  <2>4. lock[p] = q /\ owner[v] = p /\ Fits(p, v)
    <3>1. CASE q = r
      BY <1>1, <1>2, <2>1, <2>3, <3>1
    <3>2. CASE q # r
      BY <2>1, <2>2, <3>2 DEF ClaimsInv, InsertsFit
    <3> QED
      BY <3>1, <3>2
  <2> QED
    <3>1. lock'[req'[q].from] = q /\ owner'[req'[q].ws] = req'[q].from
      BY <1>3, <2>2, <2>4
    <3>2. Fits(p, v)'
      BY <1>4, <2>4
    <3> QED
      BY <2>2, <3>1, <3>2 DEF Fits
<1> QED
  BY <1>5, <1>6 DEF ClaimsInv

LEMMA InsertInv ==
    ASSUME ClaimsInv, TypeOK', NEW r \in Requests, Insert(r)
    PROVE  ClaimsInv'
<1>1. PICK o \in Owners, w \in Workspaces : o = req[r].from /\ w = req[r].ws
  BY DEF Insert, ClaimsInv, TypeOK
<1>2. lock[o] = r /\ owner[w] = o /\ Fits(o, w)
  BY <1>1 DEF Insert, ClaimsInv, InsertsFit
<1>3. UNCHANGED <<owner, phase, run>> /\ claims' = claims \cup {<<o, w>>}
  BY <1>1 DEF Insert, row, runs
<1>4. ClaimsFollowOwner'
  BY <1>2, <1>3 DEF ClaimsInv, ClaimsFollowOwner
<1>5. \A p \in Owners : p # o => Held(p)' \subseteq Held(p)
  BY <1>3 DEF Held
<1>6. Held(o)' \subseteq Held(o) \cup {w} /\ Held(o) \cup {w} \subseteq Workspaces
  BY <1>3 DEF Held
<1>7. Cardinality(Held(o)') <= Limit[o]
  <2>1. Cardinality(Held(o) \cup {w}) <= Limit[o]
    BY <1>2 DEF Fits
  <2>2. /\ Cardinality(Held(o)') \in Nat /\ Cardinality(Held(o) \cup {w}) \in Nat
        /\ Cardinality(Held(o)') <= Cardinality(Held(o) \cup {w})
    BY <1>6, Smaller
  <2> QED
    BY <2>1, <2>2, LimitType
<1>8. \A q \in Requests : req'[q].pc = "insert" =>
        q # r /\ req'[q] = req[q] /\ (lock[req[q].from] = q => lock'[req[q].from] = q)
  <2>1. \A q \in Requests : req'[q].pc = "insert" => q # r /\ req'[q] = req[q]
    BY DEF Insert, Goto, ClaimsInv, TypeOK
  <2> QED
    BY <2>1, UnlockKeeps DEF Insert
<1>9. \A v \in Workspaces : run'[v] = "commit" =>
        v # r /\ run[v] = "commit" /\ (lock[owner[v]] = v => lock'[owner[v]] = v)
  <2>1. \A v \in Workspaces : v # r
    OBVIOUS
  <2>2. \A v \in Workspaces : run'[v] = run[v]
    BY <1>3
  <2> QED
    BY <2>1, <2>2, UnlockKeeps DEF Insert
<1>10. lock[o] = r /\ \A v \in Workspaces : owner'[v] = owner[v]
  BY <1>2, <1>3
<1> QED
  BY <1>4, <1>10, <1>5, <1>7, <1>8, <1>9, Grows

LEMMA CheckInv ==
    ASSUME ClaimsInv, TypeOK', NEW w \in Workspaces, Check(w)
    PROVE  ClaimsInv'
<1>1. PICK o \in Owners : o = owner[w]
  BY DEF ClaimsInv, TypeOK
<1>2. UNCHANGED <<owner, phase, claims, req>>
  BY DEF Check, row
<1>3. lock[o] = None /\ lock' = [lock EXCEPT ![o] = w]
      /\ run' = [run EXCEPT ![w] = "commit"] /\ <<o, w>> \in claims
  BY <1>1 DEF Check, Step, Reserved
<1>4. \A p, v : Fits(p, v)' <=> Fits(p, v)
  BY <1>2 DEF Fits, Held
<1>5. HeldWithinLimit' /\ ClaimsFollowOwner'
  BY <1>2 DEF ClaimsInv, HeldWithinLimit, Held, ClaimsFollowOwner
<1>6. InsertsFit'
  <2> SUFFICES ASSUME NEW q \in Requests, req[q].pc = "insert"
               PROVE  lock'[req[q].from] = q /\ owner[req[q].ws] = req[q].from
                      /\ Fits(req[q].from, req[q].ws)
    BY <1>2, <1>4 DEF InsertsFit, Fits, Held
  <2>1. lock[req[q].from] = q /\ owner[req[q].ws] = req[q].from
        /\ Fits(req[q].from, req[q].ws)
    BY DEF ClaimsInv, InsertsFit
  <2>2. req[q].from # o
    BY <1>3, <2>1
  <2> QED
    BY <1>3, <2>1, <2>2
<1>7. CommitsFit'
  <2> SUFFICES ASSUME NEW v \in Workspaces, run'[v] = "commit"
               PROVE  lock'[owner[v]] = v /\ Fits(owner[v], v)
    BY <1>2, <1>4 DEF CommitsFit, Fits, Held
  <2>1. CASE v = w
    <3>1. Held(o) \cup {w} = Held(o)
      BY <1>1, <1>3 DEF Held
    <3>2. Fits(o, w)
      BY <3>1 DEF ClaimsInv, HeldWithinLimit, Fits
    <3>3. lock'[o] = w
      BY <1>3 DEF ClaimsInv, TypeOK
    <3> QED
      BY <1>1, <2>1, <3>2, <3>3
  <2>2. CASE v # w
    <3>1. run[v] = "commit"
      BY <1>3, <2>2 DEF ClaimsInv, TypeOK
    <3>2. lock[owner[v]] = v /\ Fits(owner[v], v)
      BY <3>1 DEF ClaimsInv, CommitsFit
    <3>3. owner[v] # o
      BY <1>3, <3>2
    <3> QED
      BY <1>3, <3>2, <3>3
  <2> QED
    BY <2>1, <2>2
<1> QED
  BY <1>5, <1>6, <1>7 DEF ClaimsInv

LEMMA CompleteInv ==
    ASSUME ClaimsInv, TypeOK', NEW w \in Workspaces, Complete(w)
    PROVE  ClaimsInv'
<1>1. PICK o \in Owners : o = owner[w]
  BY DEF ClaimsInv, TypeOK
<1>2. lock[o] = w /\ Fits(o, w)
  BY <1>1 DEF Complete, ClaimsInv, CommitsFit
<1>3. UNCHANGED <<owner, claims, req>> /\ lock' = Unlocked(w)
      /\ phase' = [phase EXCEPT ![w] = "ready"] /\ run' = [run EXCEPT ![w] = "none"]
  BY DEF Complete, Update
<1>4. ClaimsFollowOwner'
  BY <1>3 DEF ClaimsInv, ClaimsFollowOwner
<1>5. \A p \in Owners : p # o => Held(p)' \subseteq Held(p)
  BY <1>1, <1>3 DEF Held, ClaimsInv, TypeOK
<1>6. Held(o)' \subseteq Held(o) \cup {w} /\ Held(o) \cup {w} \subseteq Workspaces
  BY <1>3 DEF Held, ClaimsInv, TypeOK
<1>7. Cardinality(Held(o)') <= Limit[o]
  <2>1. Cardinality(Held(o) \cup {w}) <= Limit[o]
    BY <1>2 DEF Fits
  <2>2. /\ Cardinality(Held(o)') \in Nat /\ Cardinality(Held(o) \cup {w}) \in Nat
        /\ Cardinality(Held(o)') <= Cardinality(Held(o) \cup {w})
    BY <1>6, Smaller
  <2> QED
    BY <2>1, <2>2, LimitType
<1>8. \A q \in Requests : req'[q].pc = "insert" =>
        q # w /\ req'[q] = req[q] /\ (lock[req[q].from] = q => lock'[req[q].from] = q)
  <2>1. \A q \in Requests : q # w /\ req'[q] = req[q]
    BY <1>3
  <2> QED
    BY <1>3, <2>1, UnlockKeeps
<1>9. \A v \in Workspaces : run'[v] = "commit" =>
        v # w /\ run[v] = "commit" /\ (lock[owner[v]] = v => lock'[owner[v]] = v)
  <2>1. \A v \in Workspaces : run'[v] = "commit" => v # w /\ run[v] = "commit"
    BY <1>3 DEF ClaimsInv, TypeOK
  <2> QED
    BY <1>3, <2>1, UnlockKeeps
<1> QED
  BY <1>2, <1>3, <1>4, <1>5, <1>7, <1>8, <1>9, Grows

LEMMA TransferInv ==
    ASSUME ClaimsInv, TypeOK', NEW r \in Requests, Transfer(r)
    PROVE  ClaimsInv'
<1>1. PICK w \in Workspaces, from \in Owners, to \in Owners :
        w = req[r].ws /\ from = req[r].from /\ to = req[r].to
  BY DEF Transfer, ClaimsInv, TypeOK
<1>2. lock[from] = r /\ lock[to] = r /\ owner[w] = from
  BY <1>1 DEF Transfer, HasLocks, Missing, Wanted, SameOwner
<1>3. /\ UNCHANGED <<phase, run>> /\ lock' = Unlocked(r)
      /\ req' = [req EXCEPT ![r] = NoCall]
      /\ owner' = [owner EXCEPT ![w] = to]
      /\ claims' = (claims \ {<<from, w>>})
                     \cup (IF Using(w) THEN {<<to, w>>} ELSE {})
      /\ Using(w) => WithinLimit(to, w)
  BY <1>1 DEF Transfer, Ends, runs
<1>4. /\ owner'[w] = to
      /\ \A v \in Workspaces : v # w => owner'[v] = owner[v]
  BY <1>3 DEF ClaimsInv, TypeOK
<1>5. ClaimsFollowOwner'
  BY <1>2, <1>3, <1>4 DEF ClaimsInv, ClaimsFollowOwner, TypeOK
<1>6. \A p \in Owners : p # to => Held(p)' \subseteq Held(p)
  BY <1>2, <1>3, <1>4 DEF Held
<1>7. Cardinality(Held(to)') <= Limit[to]
  <2>1. CASE Using(w)
    <3>1. Held(to)' \subseteq Others(to, w) \cup {w}
      BY <1>3, <1>4, <2>1 DEF Held, Others, Occupying
    <3>2. Others(to, w) \cup {w} \subseteq Workspaces
      BY DEF Others
    <3>3. Cardinality(Others(to, w) \cup {w}) <= Limit[to]
      BY <1>3, <2>1, RoomFound
    <3> QED
      BY <3>1, <3>2, <3>3, Smaller, LimitType
  <2>2. CASE ~Using(w)
    <3>1. phase'[w] # "ready" /\ <<to, w>> \notin claims'
      BY <1>2, <1>3, <2>2 DEF Using, ClaimsInv, ClaimsFollowOwner
    <3>2. Held(to)' \subseteq Held(to)
      BY <1>3, <1>4, <2>2, <3>1 DEF Held
    <3> QED
      BY <3>2, HoldsNoMore DEF ClaimsInv, HeldWithinLimit
  <2> QED
    BY <2>1, <2>2
<1>8. \A q \in Requests : req'[q].pc = "insert" =>
        q # r /\ req'[q] = req[q] /\ (lock[req[q].from] = q => lock'[req[q].from] = q)
  <2>1. \A q \in Requests : req'[q].pc = "insert" => q # r /\ req'[q] = req[q]
    BY <1>3 DEF NoCall, ClaimsInv, TypeOK
  <2> QED
    BY <1>3, <2>1, UnlockKeeps
<1>9. \A v \in Workspaces : run'[v] = "commit" =>
        v # r /\ run[v] = "commit" /\ (lock[owner[v]] = v => lock'[owner[v]] = v)
  <2>1. \A v \in Workspaces : v # r /\ run'[v] = run[v]
    BY <1>3
  <2> QED
    BY <1>3, <2>1, UnlockKeeps
<1>10. \A v \in Workspaces : owner'[v] # owner[v] => lock[owner[v]] = r
  BY <1>2, <1>4
<1> QED
  BY <1>2, <1>5, <1>6, <1>7, <1>8, <1>9, <1>10, Grows

LEMMA QuietRequests ==
    ASSUME ClaimsInv, NEW r \in Requests,
           Ask(r) \/ Acquire(r) \/ Cancel(r) \/ QueueStart(r) \/ GiveUp(r)
    PROVE  QuietStep
<1> USE DEF ClaimsInv, TypeOK
<1>1. CASE Ask(r)
  BY <1>1, LockedNow DEF Ask, QuietStep, row, runs
<1>2. CASE Acquire(r)
  <2>1. \A o \in Owners : lock[o] # None => lock'[o] = lock[o]
    BY <1>2 DEF Acquire
  <2>2. \A q \in Requests, v \in Workspaces : q # None /\ v # None
    OBVIOUS
  <2> QED
    BY <1>2, <2>1, <2>2, LockedNow DEF Acquire, QuietStep, row, runs
<1>3. CASE Cancel(r) \/ GiveUp(r)
  <2>1. \A q \in Requests : req'[q].pc = "insert" => q # r /\ req'[q] = req[q]
    BY <1>3 DEF Cancel, GiveUp, Ends, NoCall
  <2>2. UNCHANGED <<owner, phase, run>> /\ claims' \subseteq claims
        /\ lock' = Unlocked(r) /\ \A v \in Workspaces : v # r
    BY <1>3 DEF Cancel, GiveUp, Ends, row, runs
  <2> QED
    BY <2>1, <2>2, UnlockKeeps DEF QuietStep
<1>4. CASE QueueStart(r)
  <2> DEFINE w == req[r].ws
  <2>1. w \in Workspaces
    BY <1>4 DEF QueueStart
  <2>2. \A q \in Requests : req'[q].pc = "insert" => q # w /\ req'[q] = req[q]
    BY <1>4, <2>1 DEF QueueStart, NoCall
  <2>3. UNCHANGED <<owner, claims>> /\ lock' = Unlocked(w)
        /\ phase' = [phase EXCEPT ![w] = "starting"]
        /\ run' = [run EXCEPT ![w] = "input"]
    BY <1>4 DEF QueueStart, Queue, Update
  <2> QED
    BY <2>1, <2>2, <2>3, UnlockKeeps DEF QuietStep
<1> QED
  BY <1>1, <1>2, <1>3, <1>4

LEMMA QuietRuns ==
    ASSUME ClaimsInv, NEW w \in Workspaces, RunStep(w) \/ RowStep(w),
           ~Check(w), ~Complete(w)
    PROVE  QuietStep
<1> USE DEF ClaimsInv, TypeOK
<1>1. CASE StartFails(w) \/ QueueStop(w) \/ QueueDelete(w)
  <2>1. \A q \in Requests : q # w /\ req'[q] = req[q]
    BY <1>1 DEF StartFails, QueueStop, QueueDelete, Queue
  <2>2. UNCHANGED <<owner, claims>> /\ lock' = Unlocked(w)
    BY <1>1 DEF StartFails, QueueStop, QueueDelete, Queue, row
  <2>3. \A v \in Workspaces :
          /\ phase'[v] = "ready" => phase[v] = "ready"
          /\ run'[v] = "commit" => v # w /\ run[v] = "commit"
    BY <1>1 DEF StartFails, Step, QueueStop, QueueDelete, Queue, Update, row
  <2> QED
    BY <2>1, <2>2, <2>3, UnlockKeeps DEF QuietStep
<1>2. CASE Input(w) \/ Progress(w) \/ Recreate(w) \/ Dies(w) \/ QueueFails(w)
  <2>1. UNCHANGED <<owner, claims, lock, req>>
    BY <1>2 DEF Input, Progress, Recreate, Dies, QueueFails, row
  <2>2. \A v \in Workspaces :
          /\ phase'[v] = "ready" => phase[v] = "ready"
          /\ run'[v] = "commit" => run[v] = "commit"
    BY <1>2 DEF Input, Progress, Recreate, Dies, QueueFails, Step, Update, row
  <2> QED
    BY <2>1, <2>2, LockedNow DEF QuietStep
<1>3. CASE Undo(w) \/ TeardownFails(w) \/ Finish(w) \/ Erase(w)
  <2>1. UNCHANGED <<owner, lock, req>> /\ claims' \subseteq claims
    BY <1>3 DEF Undo, TeardownFails, Finish, Erase
  <2>2. \A v \in Workspaces :
          /\ phase'[v] = "ready" => phase[v] = "ready"
          /\ run'[v] = "commit" => run[v] = "commit"
    BY <1>3 DEF Undo, TeardownFails, Finish, Erase, Update
  <2> QED
    BY <2>1, <2>2, LockedNow DEF QuietStep
<1>4. CASE Release(w) \/ Observe(w)
  BY <1>4, LockedNow DEF Release, Observe, QuietStep, row
<1> QED
  BY <1>1, <1>2, <1>3, <1>4 DEF RunStep, RowStep

LEMMA NextInv == ClaimsInv /\ [Next]_vars => ClaimsInv'
<1> SUFFICES ASSUME ClaimsInv, [Next]_vars PROVE ClaimsInv'
  OBVIOUS
<1>1. TypeOK'
  BY NextType DEF ClaimsInv
<1>2. ASSUME NEW r \in Requests, Ask(r) \/ RequestStep(r) \/ GiveUp(r)
      PROVE  ClaimsInv'
  BY <1>1, <1>2, ReserveInv, InsertInv, TransferInv, QuietRequests, Quiet
     DEF RequestStep
<1>3. ASSUME NEW w \in Workspaces, RunStep(w) \/ RowStep(w)
      PROVE  ClaimsInv'
  BY <1>1, <1>3, CheckInv, CompleteInv, QuietRuns, Quiet
<1>4. CASE UNCHANGED vars
  <2>1. QuietStep
    BY <1>4, LockedNow DEF QuietStep, vars
  <2> QED
    BY <1>1, <2>1, Quiet
<1> QED
  BY <1>2, <1>3, <1>4 DEF Next

\* The invariant holds in every reachable state.
THEOREM InvariantHolds == Spec => []ClaimsInv
BY InitInv, NextInv, PTL DEF Spec

\* An owner never has more workspaces ready or reserved than the plan allows:
\* reserveFreeWorkspaceCompute, transfers and 'complete' check under the lock,
\* and what happens without it never adds a workspace.
THEOREM OwnersWithinLimit == Spec => []HeldWithinLimit
<1>1. ClaimsInv => HeldWithinLimit
  BY DEF ClaimsInv
<1> QED
  BY <1>1, InvariantHolds, PTL

\* A reservation belongs to the owner of its workspace, through every transfer
\* (transferClaim, and the second read in reserveFreeWorkspaceCompute).
THEOREM ClaimsAreOwners == Spec => []ClaimsFollowOwner
<1>1. ClaimsInv => ClaimsFollowOwner
  BY DEF ClaimsInv
<1> QED
  BY <1>1, InvariantHolds, PTL

-----------------------------------------------------------------------------
(* Locks.                                                                  *)

LEMMA Sets == \A S : S # {} <=> \E x : x \in S
OBVIOUS

\* A set of naturals that is not empty has a least element.
LEMMA Least ==
    ASSUME NEW S, S \subseteq Nat, S # {}
    PROVE  \E m \in S : \A n \in S : m <= n
<1> DEFINE Less == {mn \in Nat \X Nat : mn[1] < mn[2]}
<1>1. IsWellFoundedOn(Less, Nat)
  <2>1. Less = OpToRel(<, Nat)
    BY Zenon DEF OpToRel
  <2> QED
    BY <2>1, NatLessThanWellFounded, Zenon
<1>2. \A m, n \in Nat : n < m => <<n, m>> \in Less
  OBVIOUS
<1> HIDE DEF Less
<1>3. \E m \in S : \A n \in S : ~ (<<n, m>> \in Less)
  BY <1>1, WFMin
<1>4. PICK m \in S : \A n \in S : ~ (<<n, m>> \in Less)
  BY <1>3
<1>5. ASSUME NEW n \in S PROVE m <= n
  <2>1. m \in Nat /\ n \in Nat
    OBVIOUS
  <2>2. ~ (n < m)
    BY <1>2, <1>4, <2>1
  <2> QED
    BY <2>1, <2>2
<1> QED
  BY <1>5

\* One that is bounded has a greatest.
LEMMA Greatest ==
    ASSUME NEW S, S \subseteq Nat, S # {}, \E b \in Nat : \A n \in S : n <= b
    PROVE  \E m \in S : \A n \in S : n <= m
<1> DEFINE Bounds == {b \in Nat : \A n \in S : n <= b}
<1>1. PICK m \in Bounds : \A b \in Bounds : m <= b
  <2>1. Bounds \subseteq Nat /\ Bounds # {}
    BY Sets
  <2> HIDE DEF Bounds
  <2> QED
    BY <2>1, Least
<1>2. m \in Nat /\ \A n \in S : n <= m
  OBVIOUS
<1>3. m \in S
  <2> SUFFICES ASSUME m \notin S PROVE FALSE
    OBVIOUS
  <2>1. \A n \in S : n < m
    BY <1>2
  <2>2. m > 0
    <3>1. PICK n \in S : TRUE
      BY Sets
    <3>2. n \in Nat /\ n < m
      BY <2>1
    <3> QED
      BY <1>2, <3>2
  <2>3. m - 1 \in Bounds
    <3>1. m - 1 \in Nat
      BY <1>2, <2>2
    <3>2. ASSUME NEW n \in S PROVE n <= m - 1
      BY <1>2, <2>1, <3>2
    <3> QED
      BY <3>1, <3>2
  <2>4. m <= m - 1
    BY <1>1, <2>3
  <2> QED
    BY <1>2, <2>4
<1> QED
  BY <1>2, <1>3

\* The locks of request r are what they were, or gone with its call.
LocksKept(r) == \A o \in Owners : lock'[o] = r <=> lock[o] = r
Unmoved(r) == req'[r] = req[r] /\ LocksKept(r)
NoneLeft(r) == \A o \in Owners : lock'[o] # r

LEMMA UnlockedLocks ==
    ASSUME TypeOK, NEW h \in Requests \cup Workspaces, lock' = Unlocked(h)
    PROVE  /\ NoneLeft(h)
           /\ \A r \in Requests : r # h => LocksKept(r)
           /\ \A o \in Owners : lock'[o] # None => lock[o] # None
BY DEF TypeOK, Unlocked, NoneLeft, LocksKept

LEMMA UnmovedKeeps ==
    ASSUME LocksInv, NEW r \in Requests, Unmoved(r) \/ NoneLeft(r),
           NEW o \in Owners, lock'[o] = r
    PROVE  /\ req'[r].pc \in {"lock", "insert"}
           /\ req'[r].pc = "lock" => \A p \in Missing(r)' : o < p
<1>1. Unmoved(r)
  BY DEF NoneLeft
<1>2. \A p \in Missing(r)' : p \in Missing(r)
  <2>1. CASE req[r].pc = "idle"
    BY <1>1, <2>1 DEF LocksInv, Unmoved, LocksKept
  <2>2. CASE req[r].pc # "idle"
    <3>1. Wanted(r) \subseteq Owners /\ Wanted(r)' = Wanted(r)
      BY <1>1, <2>2 DEF LocksInv, TypeOK, Wanted, Unmoved
    <3> QED
      BY <1>1, <3>1 DEF Missing, Unmoved, LocksKept
  <2> QED
    BY <2>1, <2>2
<1> QED
  BY <1>1, <1>2 DEF LocksInv, Unmoved, LocksKept

\* Who takes a lock, in the order of the owners.
LEMMA AcquireLocks ==
    ASSUME LocksInv, TypeOK', NEW r \in Requests, Acquire(r)
    PROVE  LocksInv'
<1>1. PICK o \in LockNext(r) : lock[o] = None /\ lock' = [lock EXCEPT ![o] = r]
  BY DEF Acquire
<1>2. o \in Owners /\ o \in Nat /\ req' = req /\ lock' \in [Owners -> Requests \cup Workspaces \cup {None}]
  BY WantedOwners DEF Acquire, LocksInv, TypeOK
<1>3. \E b \in Nat : \A p \in Owners : lock'[p] # None => p <= b
  <2>1. PICK b \in Nat : \A p \in Owners : lock[p] # None => p <= b
    BY DEF LocksInv
  <2>2. \A p \in Owners : lock'[p] # None => p <= b + o
    <3> SUFFICES ASSUME NEW p \in Owners, lock'[p] # None PROVE p <= b + o
      OBVIOUS
    <3>1. p = o \/ p <= b
      BY <1>1, <1>2, <2>1 DEF LocksInv, TypeOK
    <3>2. p \in Nat
      OBVIOUS
    <3> QED
      BY <1>2, <3>1, <3>2
  <2>3. b + o \in Nat
    BY <1>2
  <2> QED
    BY <2>2, <2>3
<1>4. ASSUME NEW q \in Requests, NEW p \in Owners, lock'[p] = q
      PROVE  /\ req'[q].pc \in {"lock", "insert"}
             /\ req'[q].pc = "lock" => \A n \in Missing(q)' : p < n
  <2>1. CASE q # r
    <3>1. Unmoved(q)
      BY <1>1, <1>2, <2>1 DEF Unmoved, LocksKept, LocksInv, TypeOK
    <3> QED
      BY <1>4, <3>1, UnmovedKeeps
  <2>2. CASE q = r
    <3>1. req'[r].pc = "lock"
      BY <1>2 DEF Acquire
    <3>2. Wanted(r)' = Wanted(r) /\ Wanted(r) \subseteq Owners
      BY <1>2 DEF Wanted, Acquire, LocksInv, TypeOK
    <3>3. \A n \in Missing(r)' : n \in Missing(r) /\ n # o
      BY <1>1, <1>2, <3>2 DEF Missing, LocksInv, TypeOK
    <3>4. \A n \in Missing(r) : n \in Nat /\ o <= n
      BY <1>1, <3>2 DEF LockNext, Missing
    <3>5. p = o \/ \A n \in Missing(r) : p < n
      BY <1>1, <1>2, <1>4, <2>2 DEF LocksInv, Acquire, TypeOK
    <3> QED
      BY <1>2, <2>2, <3>1, <3>3, <3>4, <3>5
  <2> QED
    BY <2>1, <2>2
<1> QED
  BY <1>3, <1>4 DEF LocksInv

LEMMA CheckLocks ==
    ASSUME LocksInv, TypeOK', NEW w \in Workspaces, Check(w)
    PROVE  LocksInv'
<1>1. PICK o \in Owners : lock[o] = None /\ lock' = [lock EXCEPT ![o] = w]
  BY DEF Check, LocksInv, TypeOK
<1>2. o \in Nat /\ req' = req
  BY DEF Check
<1>3. \E b \in Nat : \A p \in Owners : lock'[p] # None => p <= b
  <2>1. PICK b \in Nat : \A p \in Owners : lock[p] # None => p <= b
    BY DEF LocksInv
  <2>2. \A p \in Owners : lock'[p] # None => p <= b + o
    <3> SUFFICES ASSUME NEW p \in Owners, lock'[p] # None PROVE p <= b + o
      OBVIOUS
    <3>1. p = o \/ p <= b
      BY <1>1, <2>1 DEF LocksInv, TypeOK
    <3>2. p \in Nat
      OBVIOUS
    <3> QED
      BY <1>2, <3>1, <3>2
  <2>3. b + o \in Nat
    BY <1>2
  <2> QED
    BY <2>2, <2>3
<1>4. \A q \in Requests : Unmoved(q)
  BY <1>1, <1>2 DEF Unmoved, LocksKept, LocksInv, TypeOK
<1> QED
  BY <1>3, <1>4, UnmovedKeeps DEF LocksInv

\* Everything else takes no lock.
LEMMA OthersLocks ==
    ASSUME LocksInv, TypeOK',
           \A o \in Owners : lock'[o] # None => lock[o] # None,
           \A r \in Requests :
              \/ Unmoved(r) \/ NoneLeft(r)
              \/ LocksKept(r) /\ req'[r].pc = "insert"
    PROVE  LocksInv'
<1>1. \E b \in Nat : \A p \in Owners : lock'[p] # None => p <= b
  BY DEF LocksInv
<1>2. ASSUME NEW q \in Requests, NEW p \in Owners, lock'[p] = q
      PROVE  /\ req'[q].pc \in {"lock", "insert"}
             /\ req'[q].pc = "lock" => \A n \in Missing(q)' : p < n
  <2>1. CASE Unmoved(q) \/ NoneLeft(q)
    BY <1>2, <2>1, UnmovedKeeps
  <2>2. CASE req'[q].pc = "insert"
    BY <2>2
  <2> QED
    BY <2>1, <2>2
<1> QED
  BY <1>1, <1>2 DEF LocksInv

LEMMA NextLocks == LocksInv /\ [Next]_vars => LocksInv'
<1> SUFFICES ASSUME LocksInv, [Next]_vars PROVE LocksInv'
  OBVIOUS
<1>1. TypeOK /\ TypeOK'
  BY NextType DEF LocksInv
<1> DEFINE Less ==
             /\ \A o \in Owners : lock'[o] # None => lock[o] # None
             /\ \A r \in Requests :
                   \/ Unmoved(r) \/ NoneLeft(r)
                   \/ LocksKept(r) /\ req'[r].pc = "insert"
<1>2. ASSUME UNCHANGED <<req, lock>> PROVE Less
  BY <1>2 DEF Unmoved, LocksKept
<1>3. ASSUME NEW r \in Requests, lock' = Unlocked(r),
             \A q \in Requests : q # r => req'[q] = req[q]
      PROVE  Less
  <2>1. /\ NoneLeft(r) /\ \A q \in Requests : q # r => LocksKept(q)
        /\ \A o \in Owners : lock'[o] # None => lock[o] # None
    BY <1>1, <1>3, UnlockedLocks
  <2> QED
    BY <1>3, <2>1 DEF Unmoved
<1>4. ASSUME NEW w \in Workspaces, lock' = Unlocked(w), UNCHANGED req PROVE Less
  <2>1. /\ \A q \in Requests : q # w => LocksKept(q)
        /\ \A o \in Owners : lock'[o] # None => lock[o] # None
    BY <1>1, <1>4, UnlockedLocks
  <2> QED
    BY <1>4, <2>1 DEF Unmoved
<1>5. ASSUME NEW r \in Requests, Ask(r) PROVE Less
  <2>1. /\ lock' = lock /\ (\A q \in Requests : q # r => req'[q] = req[q])
        /\ req[r].pc = "idle"
    BY <1>1, <1>5 DEF Ask, TypeOK
  <2>2. NoneLeft(r)
    BY <2>1 DEF LocksInv, NoneLeft
  <2> QED
    BY <2>1, <2>2 DEF Unmoved, LocksKept
<1>6. ASSUME NEW r \in Requests, Reserve(r) PROVE Less
  <2>1. /\ lock' = lock /\ (\A q \in Requests : q # r => req'[q] = req[q])
        /\ req'[r].pc = "insert"
    BY <1>1, <1>6 DEF Reserve, Goto, TypeOK
  <2> QED
    BY <2>1 DEF Unmoved, LocksKept
<1>7. ASSUME NEW r \in Requests, Insert(r) \/ Cancel(r) \/ Transfer(r) \/ GiveUp(r)
      PROVE  Less
  <2>1. lock' = Unlocked(r) /\ \A q \in Requests : q # r => req'[q] = req[q]
    BY <1>1, <1>7 DEF Insert, Cancel, Transfer, GiveUp, Ends, Goto, TypeOK
  <2> QED
    BY <1>3, <2>1
<1>8. ASSUME NEW r \in Requests, QueueStart(r) PROVE Less
  <2>1. /\ req[r].ws \in Workspaces /\ req[r].pc = "queue"
        /\ lock' = Unlocked(req[r].ws) /\ req' = [req EXCEPT ![r] = NoCall]
    BY <1>1, <1>8 DEF QueueStart, Queue, TypeOK
  <2>2. /\ \A q \in Requests : LocksKept(q)
        /\ \A o \in Owners : lock'[o] # None => lock[o] # None
    BY <1>1, <2>1, UnlockedLocks
  <2>3. NoneLeft(r)
    BY <2>1, <2>2 DEF LocksInv, NoneLeft, LocksKept
  <2> QED
    BY <1>1, <2>1, <2>2, <2>3 DEF Unmoved, TypeOK
<1>9. ASSUME NEW w \in Workspaces, RunStep(w) \/ RowStep(w), ~Check(w) PROVE Less
  <2>1. UNCHANGED req /\ (UNCHANGED lock \/ lock' = Unlocked(w))
    BY <1>9 DEF RunStep, RowStep, Input, Progress, Complete, StartFails, Undo, Release,
       TeardownFails, Dies, Finish, Erase, QueueStop, QueueDelete, Queue, QueueFails,
       Recreate, Observe
  <2> QED
    BY <1>2, <1>4, <2>1
<1>10. Less => LocksInv'
  BY <1>1, OthersLocks
<1> HIDE DEF Less
<1>11. CASE UNCHANGED vars
  BY <1>2, <1>10, <1>11 DEF vars
<1>12. CASE Next
  BY <1>1, <1>5, <1>6, <1>7, <1>8, <1>9, <1>10, <1>12, AcquireLocks, CheckLocks
     DEF Next, RequestStep
<1> QED
  BY <1>11, <1>12

LEMMA LocksInvDrain == LocksInv => LocksDrain
<1> SUFFICES ASSUME LocksInv, NEW first \in Owners, lock[first] # None
             PROVE  \E o \in Owners : lock[o] # None /\ ~Waits(lock[o])
  BY DEF LocksDrain
<1> DEFINE Locked == {o \in Owners : lock[o] # None}
<1>1. PICK last \in Locked : \A o \in Locked : o <= last
  <2>1. Locked \subseteq Nat /\ Locked # {} /\ \E b \in Nat : \A o \in Locked : o <= b
    BY Sets DEF LocksInv
  <2> HIDE DEF Locked
  <2> QED
    BY <2>1, Greatest
<1>2. SUFFICES ASSUME Waits(lock[last]) PROVE FALSE
  BY <1>1
<1>3. PICK r \in Requests : /\ lock[last] = r /\ req[r].pc = "lock" /\ ~HasLocks(r)
                           /\ \A o \in LockNext(r) : lock[o] # None
  BY <1>2 DEF Waits
<1>4. Missing(r) \subseteq Owners /\ Missing(r) # {}
  BY <1>3 DEF HasLocks, Missing, Wanted, LocksInv, TypeOK
<1>5. PICK next \in Missing(r) : \A o \in Missing(r) : next <= o
  BY <1>4, Least
<1>6. next \in LockNext(r) /\ next \in Locked
  BY <1>3, <1>4, <1>5 DEF LockNext
<1>7. last < next /\ next <= last /\ next \in Nat /\ last \in Nat
  BY <1>1, <1>3, <1>4, <1>6 DEF LocksInv
<1> QED
  BY <1>7

\* Requests that hold locks on owners never wait for each other in a circle:
\* lockComputeOwners takes them in the order of their ids, so whoever holds the
\* last of them can go on.
THEOREM LocksAlwaysDrain == Spec => []LocksDrain
<1>1. Init => LocksInv
  <2> SUFFICES ASSUME Init PROVE LocksInv
    OBVIOUS
  <2>1. \A o \in Owners : lock[o] = None
    BY DEF Init
  <2> QED
    BY <2>1, InitType DEF LocksInv
<1> QED
  BY <1>1, NextLocks, LocksInvDrain, PTL DEF Spec
=============================================================================
