---------------------------- MODULE MemberProofs ----------------------------
(***************************************************************************)
(* Proofs about Membership for every set of users and requests and every   *)
(* number of links.                                                        *)
(***************************************************************************)
EXTENDS MemberProperties, TLAPS

Request == [pc : Pcs, caller : Users \cup {None}, target : Users \cup {None},
            to : Roles \cup {None}, was : Roles \cup {None}, token : Nat]

\* What a request at some point carries: who asks, of whom, and for which role;
\* only a transfer and a change that is still to be checked may say "owner".
WellAsked(q) ==
    /\ q.pc # "idle" => q.caller \in Users
    /\ q.pc \in {"look", "check", "insert", "update", "grant", "promote", "remove"} =>
         q.target \in Users
    /\ q.pc = "check" => q.to \in Roles
    /\ q.pc \in {"look", "insert", "update", "join"} => q.to \in Invited
    /\ q.pc = "share" => q.to \in Invited \cup {None}
    /\ q.pc = "join" => q.token # 0

Asked == \A r \in Requests : WellAsked(req[r])

\* The link that is active was minted after everybody's removal.
LinkFresh ==
    /\ link.token <= minted
    /\ link.token # 0 => link.role \in Invited
    /\ \A u \in Users :
         /\ barred[u] <= minted
         /\ link.token # 0 => barred[u] < link.token

Inv == TypeOK /\ Asked /\ LinkFresh /\ OwnerAlone

\* The types of the requests apart from those of the rows.
RowsTyped ==
    /\ accounts \subseteq Users
    /\ owner \in accounts
    /\ deleting \in BOOLEAN
    /\ role \in [Users -> Roles \cup {None}]
    /\ \A u \in Users : role[u] # None => u \in accounts
    /\ link \in [token : Nat, role : Invited \cup {None}, by : Users \cup {None}]
    /\ minted \in Nat
    /\ barred \in [Users -> Nat]

Rows == RowsTyped /\ LinkFresh /\ OwnerAlone
Asking == req \in [Requests -> Request] /\ Asked

LEMMA Parts == Inv <=> Rows /\ Asking
BY DEF Inv, TypeOK, Rows, RowsTyped, Asking, Request

LEMMA IdleAsks == Idle \in Request /\ WellAsked(Idle) /\ Idle.pc = "idle"
BY DEF Idle, Request, WellAsked, Pcs

LEMMA GoesAsks ==
    ASSUME Asking, NEW r \in Requests, NEW next \in Request, WellAsked(next),
           Goes(r, next)
    PROVE  Asking'
BY DEF Asking, Asked, Goes

LEMMA EndsAsks ==
    ASSUME Asking, NEW r \in Requests, Ends(r)
    PROVE  Asking'
BY IdleAsks, GoesAsks DEF Ends

LEMMA InitInv == Init => Inv
<1> SUFFICES ASSUME Init PROVE Inv
  OBVIOUS
<1>1. Asking
  BY IdleAsks DEF Init, Asking, Asked
<1>2. RowsTyped
  BY DEF Init, RowsTyped, NoLink, Roles
<1>3. LinkFresh
  BY DEF Init, LinkFresh, NoLink
<1>4. OwnerAlone
  BY MembersAssumption DEF Init, OwnerAlone
<1> QED
  BY <1>1, <1>2, <1>3, <1>4, Parts DEF Rows

-----------------------------------------------------------------------------
(* Requests keep their shape.                                              *)

LEMMA ArrivesAsks ==
    ASSUME Inv, NEW r \in Requests, Arrives(r)
    PROVE  Asking'
<1>0. Asking /\ RowsTyped /\ LinkFresh
  BY Parts DEF Rows
<1> DEFINE New(pc, u, v, to) ==
      [Idle EXCEPT !.pc = pc, !.caller = u, !.target = v, !.to = to,
                   !.was = IF pc = "look" THEN role[u] ELSE None]
<1>1. ASSUME NEW pc \in Pcs, NEW u \in Users, NEW v \in Users \cup {None},
             NEW to \in Roles \cup {None}, Asks(r, pc, u, v, to),
             WellAsked(New(pc, u, v, to))
      PROVE  Asking'
  <2>1. New(pc, u, v, to) \in Request
    BY <1>0 DEF Idle, Request, RowsTyped
  <2>2. Goes(r, New(pc, u, v, to))
    BY <1>1 DEF Asks
  <2> HIDE DEF New
  <2> QED
    BY <1>0, <1>1, <2>1, <2>2, GoesAsks
<1>2. PICK u \in Users :
        \/ AsksLink(r, u) \/ AsksJoin(r, u) \/ AsksDelete(r, u)
        \/ \E v \in Users : AsksAdd(r, u, v) \/ AsksChange(r, u, v) \/ AsksRemove(r, u, v)
  BY DEF Arrives
<1>3. CASE AsksLink(r, u)
  <2>1. PICK to \in Invited \cup {None} : Asks(r, "share", u, None, to)
    BY <1>3 DEF AsksLink
  <2>2. WellAsked(New("share", u, None, to)) /\ to \in Roles \cup {None}
    BY DEF WellAsked, Idle, Roles, Invited
  <2> QED
    BY <1>1, <2>1, <2>2 DEF Pcs
<1>4. CASE AsksJoin(r, u)
  <2> DEFINE next == [Idle EXCEPT !.pc = "join", !.caller = u,
                                  !.token = link.token, !.to = link.role]
  <2>1. Goes(r, next) /\ link.token # 0
    BY <1>4 DEF AsksJoin
  <2>2. link.token \in Nat /\ link.role \in Invited
    BY <1>0, <2>1 DEF RowsTyped, LinkFresh
  <2>3. next \in Request
    BY <2>2 DEF Idle, Request, Pcs, Invited, Roles
  <2>4. WellAsked(next)
    BY <2>1, <2>2 DEF WellAsked, Idle
  <2> HIDE DEF next
  <2> QED
    BY <1>0, <2>1, <2>3, <2>4, GoesAsks
<1>5. CASE AsksDelete(r, u)
  <2>1. WellAsked(New("delete", u, None, None))
    BY DEF WellAsked, Idle
  <2> QED
    BY <1>1, <1>5, <2>1 DEF AsksDelete, Pcs
<1>6. ASSUME NEW v \in Users, AsksAdd(r, u, v)
      PROVE  Asking'
  <2>1. CASE \E to \in Invited : Asks(r, "look", u, v, to)
    <3>1. PICK to \in Invited : Asks(r, "look", u, v, to)
      BY <2>1
    <3>2. WellAsked(New("look", u, v, to)) /\ to \in Roles
      BY DEF WellAsked, Idle, Roles, Invited
    <3> QED
      BY <1>1, <3>1, <3>2 DEF Pcs
  <2>2. CASE Asks(r, "grant", u, v, "owner")
    <3>1. WellAsked(New("grant", u, v, "owner"))
      BY DEF WellAsked, Idle
    <3> QED
      BY <1>1, <2>2, <3>1 DEF Pcs, Roles
  <2> QED
    BY <1>6, <2>1, <2>2 DEF AsksAdd
<1>7. ASSUME NEW v \in Users, AsksChange(r, u, v)
      PROVE  Asking'
  <2>1. PICK to \in Roles : Asks(r, "check", u, v, to)
    BY <1>7 DEF AsksChange
  <2>2. WellAsked(New("check", u, v, to))
    BY DEF WellAsked, Idle
  <2> QED
    BY <1>1, <2>1, <2>2 DEF Pcs
<1>8. ASSUME NEW v \in Users, AsksRemove(r, u, v)
      PROVE  Asking'
  <2>1. WellAsked(New("remove", u, v, None))
    BY DEF WellAsked, Idle
  <2> QED
    BY <1>1, <1>8, <2>1 DEF AsksRemove, Pcs
<1> QED
  BY <1>2, <1>3, <1>4, <1>5, <1>6, <1>7, <1>8

LEMMA MovesAsks ==
    ASSUME Asking, NEW r \in Requests, NEW pc \in Pcs, Moves(r, pc),
           WellAsked([req[r] EXCEPT !.pc = pc, !.was = None])
    PROVE  Asking'
<1> DEFINE next == [req[r] EXCEPT !.pc = pc, !.was = None]
<1>1. next \in Request
  BY DEF Asking, Request
<1>2. Goes(r, next)
  BY DEF Moves
<1> HIDE DEF next
<1> QED
  BY <1>1, <1>2, GoesAsks DEF next

LEMMA ActsAsks ==
    ASSUME Inv, NEW r \in Requests, Acts(r)
    PROVE  Asking'
<1>0. Asking /\ req[r] \in Request /\ WellAsked(req[r])
  BY Parts DEF Asking, Asked
<1>1. CASE Looks(r)
  <2>1. PICK pc \in {"insert", "update"} : Moves(r, pc)
    BY <1>1 DEF Looks
  <2>2. WellAsked([req[r] EXCEPT !.pc = pc, !.was = None])
    BY <1>0, <1>1 DEF Looks, WellAsked, Request
  <2> QED
    BY <1>0, <2>1, <2>2, MovesAsks DEF Pcs
<1>2. CASE Checks(r)
  <2> DEFINE pc == IF req[r].to = "owner" THEN "promote" ELSE "update"
  <2>1. Moves(r, pc)
    BY <1>2 DEF Checks
  <2>2. req[r].to \in Roles /\ req[r].target \in Users /\ req[r].caller \in Users
    BY <1>0, <1>2 DEF Checks, WellAsked
  <2>3. WellAsked([req[r] EXCEPT !.pc = pc, !.was = None])
    BY <1>0, <2>2 DEF WellAsked, Request, Roles, Invited
  <2> QED
    BY <1>0, <2>1, <2>3, MovesAsks DEF Pcs
<1>3. CASE Ends(r)
  BY <1>0, <1>3, EndsAsks
<1> QED
  BY <1>1, <1>2, <1>3 DEF Acts, Reuses, Mints, Joins, Inserts, Updates, Transfers,
     Removes, Deletes

-----------------------------------------------------------------------------
(* The rows: types, the link and the owner's role.                         *)

UnchangedRows == UNCHANGED <<accounts, owner, deleting, role, link, minted, barred>>

LEMMA QuietRows ==
    ASSUME Rows, UnchangedRows
    PROVE  Rows'
BY DEF Rows, RowsTyped, LinkFresh, OwnerAlone, UnchangedRows

\* A role that is written without the row's lock is never the owner's.
LEMMA RoleRows ==
    ASSUME Rows, NEW u \in accounts, NEW to \in Invited,
           role' = [role EXCEPT ![u] = to],
           UNCHANGED <<accounts, owner, deleting, link, minted, barred>>
    PROVE  Rows'
<1>1. u \in Users /\ to \in Roles \cup {None} /\ to # "owner"
  BY DEF Rows, RowsTyped, Roles, Invited
<1>2. RowsTyped'
  BY <1>1 DEF Rows, RowsTyped
<1>3. LinkFresh'
  BY DEF Rows, LinkFresh
<1>4. OwnerAlone'
  BY <1>1 DEF Rows, RowsTyped, OwnerAlone
<1> QED
  BY <1>2, <1>3, <1>4 DEF Rows

LEMMA MintsRows ==
    ASSUME Inv, NEW r \in Requests, Mints(r)
    PROVE  Rows'
<1>0. Rows /\ req[r] \in Request /\ WellAsked(req[r])
  BY Parts DEF Asking, Asked
<1> DEFINE to == LinkRole(req[r].to)
<1>1. to \in Invited
  BY <1>0, MembersAssumption DEF Mints, WellAsked, LinkRole, Invited
<1>2. req[r].caller \in Users
  BY <1>0 DEF Mints, WellAsked
<1>3. /\ link' = [token |-> minted + 1, role |-> to, by |-> req[r].caller]
      /\ minted' = minted + 1 /\ minted \in Nat
  BY <1>0 DEF Mints, Rows, RowsTyped
<1> HIDE DEF to
<1>4. RowsTyped'
  BY <1>0, <1>1, <1>2, <1>3 DEF Mints, Rows, RowsTyped
<1>5. LinkFresh'
  BY <1>0, <1>1, <1>3 DEF Mints, Rows, RowsTyped, LinkFresh
<1>6. OwnerAlone'
  BY <1>0 DEF Mints, Rows, OwnerAlone
<1> QED
  BY <1>4, <1>5, <1>6 DEF Rows

LEMMA WritesRows ==
    ASSUME Inv, NEW r \in Requests, Joins(r) \/ Inserts(r) \/ Updates(r)
    PROVE  Rows'
<1>0. Rows /\ RowsTyped /\ req[r] \in Request /\ WellAsked(req[r])
  BY Parts DEF Asking, Asked, Rows
<1>1. CASE Joins(r)
  <2>1. req[r].caller \in accounts /\ req[r].to \in Invited
    BY <1>0, <1>1 DEF Joins, WellAsked
  <2>2. CASE role[req[r].caller] = None
    BY <1>0, <1>1, <2>1, <2>2, RoleRows DEF Joins, RowsTyped
  <2>3. CASE role[req[r].caller] # None
    <3>1. role' = role
      BY <1>0, <1>1, <2>1, <2>3 DEF Joins, RowsTyped
    <3> QED
      BY <1>0, <1>1, <3>1, QuietRows DEF Joins, UnchangedRows
  <2> QED
    BY <2>2, <2>3
<1>2. CASE Inserts(r)
  <2>1. req[r].target \in accounts /\ req[r].to \in Invited
    BY <1>0, <1>2 DEF Inserts, WellAsked
  <2> QED
    BY <1>0, <1>2, <2>1, RoleRows DEF Inserts
<1>3. CASE Updates(r)
  <2>1. req[r].target \in Users /\ req[r].to \in Invited
    BY <1>0, <1>3 DEF Updates, WellAsked
  <2>2. CASE role[req[r].target] = None
    <3>1. role' = role
      BY <1>0, <1>3, <2>1, <2>2 DEF Updates, RowsTyped
    <3> QED
      BY <1>0, <1>3, <3>1, QuietRows DEF Updates, UnchangedRows
  <2>3. CASE role[req[r].target] # None
    <3>1. req[r].target \in accounts
      BY <1>0, <2>1, <2>3 DEF RowsTyped
    <3>2. role' = [role EXCEPT ![req[r].target] = req[r].to]
      BY <1>0, <1>3, <2>1, <2>3 DEF Updates, RowsTyped
    <3> QED
      BY <1>0, <1>3, <2>1, <3>1, <3>2, RoleRows DEF Updates
  <2> QED
    BY <2>2, <2>3
<1> QED
  BY <1>1, <1>2, <1>3

LEMMA TransfersRows ==
    ASSUME Inv, NEW r \in Requests, Transfers(r)
    PROVE  Rows'
<1>0. Rows /\ RowsTyped /\ req[r] \in Request /\ WellAsked(req[r])
  BY Parts DEF Asking, Asked, Rows
<1> DEFINE t == req[r].target
<1>1. t \in accounts /\ t \in Users /\ owner' = t
  BY <1>0 DEF Transfers, MayTransfer, WellAsked
<1>2. /\ Demoted \in [Users -> Roles \cup {None}]
      /\ \A u \in Users : Demoted[u] # "owner" /\ (Demoted[u] # None => u \in accounts)
  BY <1>0, MembersAssumption DEF Demoted, RowsTyped, Roles
<1>3. \/ role' = [Demoted EXCEPT ![t] = "owner"]
      \/ role' = Demoted
  BY DEF Transfers
<1>4. /\ role' \in [Users -> Roles \cup {None}]
      /\ \A u \in Users : role'[u] # None => u \in accounts
      /\ \A u \in Users : role'[u] = "owner" => u = t
  <2> HIDE DEF t
  <2> QED
    BY <1>1, <1>2, <1>3 DEF Roles
<1>5. /\ link' = [link EXCEPT !.token = 0]
      /\ UNCHANGED <<accounts, deleting, minted, barred>>
  BY DEF Transfers
<1> HIDE DEF t
<1>6. RowsTyped'
  BY <1>0, <1>1, <1>4, <1>5 DEF RowsTyped
<1>7. LinkFresh'
  BY <1>0, <1>5 DEF Rows, RowsTyped, LinkFresh
<1>8. OwnerAlone'
  BY <1>1, <1>4 DEF OwnerAlone
<1> QED
  BY <1>6, <1>7, <1>8 DEF Rows

LEMMA RemovesRows ==
    ASSUME Inv, NEW r \in Requests, Removes(r)
    PROVE  Rows'
<1>0. Rows /\ RowsTyped /\ req[r] \in Request /\ WellAsked(req[r])
  BY Parts DEF Asking, Asked, Rows
<1>1. req[r].target \in Users
  BY <1>0 DEF Removes, WellAsked
<1>2. RowsTyped'
  BY <1>0, <1>1 DEF Removes, RowsTyped, NoLink
<1>3. LinkFresh'
  BY <1>0, <1>1 DEF Removes, Rows, RowsTyped, LinkFresh, NoLink
<1>4. OwnerAlone'
  BY <1>0, <1>1, MembersAssumption DEF Removes, Rows, RowsTyped, OwnerAlone
<1> QED
  BY <1>2, <1>3, <1>4 DEF Rows

LEMMA DeletesAccountRows ==
    ASSUME Inv, NEW u \in Users, DeletesAccount(u)
    PROVE  Rows'
<1>0. Rows /\ RowsTyped
  BY Parts DEF Rows
<1>1. /\ role' = [role EXCEPT ![u] = None] /\ accounts' = accounts \ {u}
      /\ owner # u /\ link' \in {link, NoLink}
      /\ UNCHANGED <<owner, deleting, minted, barred>>
  BY DEF DeletesAccount
<1>2. NoLink.token = 0 /\ NoLink \in [token : Nat, role : Invited \cup {None},
                                      by : Users \cup {None}]
  BY DEF NoLink
<1>3. RowsTyped'
  BY <1>0, <1>1, <1>2 DEF RowsTyped
<1>4. LinkFresh'
  BY <1>0, <1>1, <1>2 DEF Rows, RowsTyped, LinkFresh
<1>5. OwnerAlone'
  BY <1>0, <1>1, MembersAssumption DEF Rows, RowsTyped, OwnerAlone
<1> QED
  BY <1>3, <1>4, <1>5 DEF Rows

LEMMA ActsRows ==
    ASSUME Inv, NEW r \in Requests, Acts(r)
    PROVE  Rows'
<1>0. Rows
  BY Parts
<1>1. CASE Reuses(r) \/ Looks(r) \/ Checks(r)
  BY <1>0, <1>1, QuietRows DEF Reuses, Looks, Checks, UnchangedRows
<1>2. CASE Deletes(r)
  BY <1>0, <1>2 DEF Deletes, Rows, RowsTyped, LinkFresh, OwnerAlone
<1> QED
  BY <1>1, <1>2, MintsRows, WritesRows, TransfersRows, RemovesRows DEF Acts

LEMMA ArrivesRows ==
    ASSUME Inv, NEW r \in Requests, Arrives(r)
    PROVE  Rows'
<1>1. UnchangedRows
  BY DEF Arrives, AsksLink, AsksJoin, AsksDelete, AsksAdd, AsksChange, AsksRemove,
     Asks, UnchangedRows
<1> QED
  BY <1>1, Parts, QuietRows

-----------------------------------------------------------------------------
(* The invariant.                                                          *)

LEMMA NextInv ==
    ASSUME Inv, [Next]_vars
    PROVE  Inv'
<1> SUFFICES Rows' /\ Asking'
  <2>1. Inv' <=> Rows' /\ Asking'
    BY DEF Inv, TypeOK, Rows, RowsTyped, Asking, Request
  <2> QED
    BY <2>1
<1>0. Rows /\ Asking
  BY Parts
<1>1. ASSUME NEW r \in Requests, Arrives(r)
      PROVE  Rows' /\ Asking'
  BY <1>1, ArrivesAsks, ArrivesRows
<1>2. ASSUME NEW r \in Requests, Acts(r)
      PROVE  Rows' /\ Asking'
  BY <1>2, ActsAsks, ActsRows
<1>3. ASSUME NEW r \in Requests, Dies(r)
      PROVE  Rows' /\ Asking'
  BY <1>0, <1>3, EndsAsks, QuietRows DEF Dies, UnchangedRows
<1>4. CASE Expires
  <2>0. link' = [link EXCEPT !.token = 0]
    BY <1>4 DEF Expires
  <2>1. RowsTyped'
    BY <1>0, <1>4, <2>0 DEF Expires, Rows, RowsTyped
  <2>2. LinkFresh'
    BY <1>0, <1>4, <2>0 DEF Expires, Rows, RowsTyped, LinkFresh
  <2>3. OwnerAlone'
    BY <1>0, <1>4 DEF Expires, Rows, OwnerAlone
  <2>4. Asking'
    BY <1>0, <1>4 DEF Expires, Asking, Asked
  <2> QED
    BY <2>1, <2>2, <2>3, <2>4 DEF Rows
<1>5. ASSUME NEW u \in Users, DeletesAccount(u)
      PROVE  Rows' /\ Asking'
  <2>1. Asking'
    BY <1>0, <1>5 DEF DeletesAccount, Asking, Asked
  <2> QED
    BY <1>5, <2>1, DeletesAccountRows
<1>6. CASE UNCHANGED vars
  <2>1. Asking'
    BY <1>0, <1>6 DEF vars, Asking, Asked
  <2>2. Rows'
    BY <1>0, <1>6, QuietRows DEF vars, UnchangedRows
  <2> QED
    BY <2>1, <2>2
<1> QED
  BY <1>1, <1>2, <1>3, <1>4, <1>5, <1>6 DEF Next

\* Everything below holds in every state of every behaviour of Membership.
THEOREM InvariantHolds == Spec => []Inv
<1> QED
  BY InitInv, NextInv, PTL DEF Spec

\* The state is well formed, and only accounts that exist are members.
THEOREM TypeCorrect == Spec => []TypeOK
<1>1. Inv => TypeOK
  BY DEF Inv
<1> QED
  BY <1>1, InvariantHolds, PTL

\* Nobody but the owner of the row has the owner's role, for any number of
\* transfers and role changes that overlap.
THEOREM OwnerIsAlone == Spec => []OwnerAlone
<1>1. Inv => OwnerAlone
  BY DEF Inv
<1> QED
  BY <1>1, InvariantHolds, PTL

-----------------------------------------------------------------------------
(* What a step may do.                                                     *)

LEMMA EndedBy ==
    ASSUME Inv, NEW r \in Requests, req[r].pc # "idle", Ends(r)
    PROVE  Ended(r)
BY Parts DEF Ends, Goes, Ended, Asking

LEMMA EndedAlone ==
    ASSUME Inv, NEW r \in Requests, NEW next, Goes(r, next),
           NEW q \in Requests, Ended(q)
    PROVE  q = r
BY Parts, IdleAsks DEF Goes, Ended, Asking

\* Of a request that acts: who is behind the change it makes.
LEMMA ActsDecided ==
    ASSUME Inv, NEW r \in Requests, Acts(r)
    PROVE  /\ owner' # owner => By({owner})
           /\ \A u \in Users :
                role[u] # None /\ role'[u] = None => By({owner, u})
           /\ ~deleting /\ deleting' => By({owner})
<1>0. /\ Rows /\ RowsTyped /\ req[r] \in Request /\ WellAsked(req[r])
      /\ role \in [Users -> Roles \cup {None}] /\ owner \in Users
  BY Parts DEF Asking, Asked, Rows, RowsTyped
<1>1. CASE Reuses(r) \/ Mints(r) \/ Looks(r) \/ Checks(r)
  BY <1>1 DEF Reuses, Mints, Looks, Checks
<1>2. CASE Joins(r)
  BY <1>0, <1>2, MembersAssumption DEF Joins, WellAsked, Invited
<1>3. CASE Inserts(r)
  BY <1>0, <1>3, MembersAssumption DEF Inserts, WellAsked, Invited
<1>4. CASE Updates(r)
  BY <1>0, <1>4, MembersAssumption DEF Updates, WellAsked, Invited
<1>5. CASE Transfers(r)
  <2>1. req[r].caller = owner /\ By({owner})
    BY <1>5, EndedBy DEF Transfers, MayTransfer, By
  <2>2. \A u \in Users : role[u] # None => role'[u] # None
    BY <1>0, <1>5, MembersAssumption DEF Transfers, Demoted
  <2> QED
    BY <1>5, <2>1, <2>2 DEF Transfers
<1>6. CASE Removes(r)
  <2>1. Ended(r)
    BY <1>6, EndedBy DEF Removes
  <2>2. \A u \in Users : role[u] # None /\ role'[u] = None => u = req[r].target
    BY <1>0, <1>6 DEF Removes
  <2>3. req[r].caller \in {owner, req[r].target}
    BY <1>6 DEF Removes, MayRemove
  <2> QED
    BY <1>6, <2>1, <2>2, <2>3 DEF Removes, By
<1>7. CASE Deletes(r)
  BY <1>7, EndedBy DEF Deletes, By
<1> QED
  BY <1>1, <1>2, <1>3, <1>4, <1>5, <1>6, <1>7 DEF Acts

LEMMA StepDecided ==
    ASSUME Inv, Next
    PROVE  /\ owner' # owner => By({owner})
           /\ \A u \in Users :
                role[u] # None /\ role'[u] = None /\ u \in accounts' => By({owner, u})
           /\ ~deleting /\ deleting' => By({owner})
<1>0. RowsTyped
  BY Parts DEF Rows
<1>1. ASSUME NEW r \in Requests, Arrives(r) \/ Dies(r)
      PROVE  UNCHANGED <<owner, deleting, role>>
  BY <1>1 DEF Dies, Arrives, AsksLink, AsksJoin, AsksDelete, AsksAdd, AsksChange,
     AsksRemove, Asks
<1>2. CASE Expires
  BY <1>2 DEF Expires
<1>3. ASSUME NEW u \in Users, DeletesAccount(u)
      PROVE  /\ UNCHANGED <<owner, deleting>>
             /\ \A v \in Users : v \in accounts' => role'[v] = role[v]
  BY <1>0, <1>3 DEF DeletesAccount, RowsTyped
<1> QED
  BY <1>1, <1>2, <1>3, ActsDecided DEF Next

\* What only the owner may do takes effect only while he owns the workspace:
\* another owner, a removal of somebody else, the deletion.
THEOREM OwnerOnlyDecides == Spec => OwnerDecides
<1>1. Inv /\ [Next]_vars =>
        [/\ owner' # owner => By({owner})
         /\ \A u \in Users :
              role[u] # None /\ role'[u] = None /\ u \in accounts' => By({owner, u})
         /\ ~deleting /\ deleting' => By({owner})]_vars
  BY StepDecided
<1> QED
  BY <1>1, InvariantHolds, PTL DEF Spec, OwnerDecides

\* Nobody who was removed comes back with a link from before his removal.
THEOREM RemovedKeptOut == Spec => KeptOut
<1>1. ASSUME Inv, Next, NEW q \in Requests,
             Ended(q), req[q].pc = "join",
             role[req[q].caller] = None, role'[req[q].caller] # None
      PROVE  req[q].token > barred[req[q].caller]
  <2>0. /\ Rows /\ req[q] \in Request /\ WellAsked(req[q])
        /\ role \in [Users -> Roles \cup {None}]
    BY <1>1, Parts DEF Asking, Asked, Rows, RowsTyped
  <2>1. req[q].caller \in Users /\ req[q].token # 0
    BY <1>1, <2>0 DEF WellAsked
  <2>2. ~UNCHANGED role
    BY <1>1
  <2>3. req' # req
    BY <1>1 DEF Ended, Idle
  <2>4. PICK r \in Requests : Acts(r)
    <3>1. ~Expires /\ \A u \in Users : ~DeletesAccount(u)
      BY <2>3 DEF Expires, DeletesAccount
    <3>2. ASSUME NEW r \in Requests, Arrives(r) \/ Dies(r)
          PROVE  UNCHANGED role
      BY <3>2 DEF Dies, Arrives, AsksLink, AsksJoin, AsksDelete, AsksAdd, AsksChange,
         AsksRemove, Asks
    <3> QED
      BY <1>1, <2>2, <3>1, <3>2 DEF Next
  <2>5. PICK next : Goes(r, next)
    BY <2>4 DEF Acts, Reuses, Mints, Joins, Looks, Checks, Inserts, Updates, Transfers,
       Removes, Deletes, Ends, Moves
  <2>6. q = r
    BY <1>1, <2>5, EndedAlone
  <2>7. Joins(q)
    BY <1>1, <2>4, <2>6 DEF Acts, Reuses, Mints, Looks, Checks, Inserts, Updates,
       Transfers, Removes, Deletes
  <2>8. link.token = req[q].token
    BY <2>7 DEF Joins, StillActive
  <2>9. barred[req[q].caller] < link.token /\ barred[req[q].caller] \in Nat
        /\ link.token \in Nat
    BY <2>0, <2>1, <2>8 DEF Rows, RowsTyped, LinkFresh
  <2> QED
    BY <2>8, <2>9
<1> DEFINE Out ==
      \A r \in Requests :
        LET u == req[r].caller IN
        Ended(r) /\ req[r].pc = "join" /\ role[u] = None /\ role'[u] # None =>
           req[r].token > barred[u]
<1>2. Inv /\ [Next]_vars => [Out]_vars
  BY <1>1
<1> QED
  BY <1>2, InvariantHolds, PTL DEF Spec, KeptOut
=============================================================================
