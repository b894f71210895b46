------------------------------ MODULE TurnProofs ------------------------------
(***************************************************************************)
(* Proofs about AgentTurns for any number of turns and pollers, any amount *)
(* of output and any number of mishaps and handlers under way.             *)
(***************************************************************************)
EXTENDS TurnProperties, TLAPS

-----------------------------------------------------------------------------
(* The invariant *)

StartPcs == {"idle", "seat", "ask", "answer", "record", "retag", "unseat",
             "lease", "mark", "unlease", "fail", "done", "failed", "dead"}

ArmPcs == {"ask", "commit"}
DirectPcs == {"save", "reply", "respond"}
RunPcs == {"host", "record", "beat", "message", "capture", "finish",
           "unseat", "unlease", "dispose"}
PollPcs == {"idle", "seatBack"} \cup ArmPcs \cup DirectPcs \cup RunPcs

PathTyped == path \in [Turns -> {"superset", "native"}]
             /\ runtime \in {"azure_arm", "firecracker"}
StartTyped == start \in [Turns -> StartPcs]
PollTyped == poll \in [Pollers -> [pc : PollPcs, turn : Turns \cup {None}, exited : BOOLEAN,
                                   lease : BOOLEAN, from : Nat, to : Nat, next : Nat]]
RowTyped == row \in [Turns -> {"absent", "open", "exited"}]
RepliesTyped == replies \in [Turns -> Seq(Seq(0..MaxChunks))]
SeatTyped == seat \in [ref : Refs \cup {None}, fresh : BOOLEAN]
MishapsTyped == mishaps \in 0..MaxMishaps
GuestTyped == guest \in [Turns -> [at : {"none", "asked", "open", "gone"},
                                   lo : 1..MaxChunks + 1, next : 1..MaxChunks + 1,
                                   eof : BOOLEAN, code : BOOLEAN]]
CursorTyped == cursor \in [Turns -> 0..MaxChunks + 1]
OutputTyped == output \in [Turns -> Seq(0..MaxChunks)]
LockTyped == lock \in [Turns -> Pollers \cup {None}]
AfterTyped == after \in [Turns -> 0..MaxChunks + 1]
RunTyped == run \in [Turns -> [status : Statuses, lease : BOOLEAN, agent : BOOLEAN]]
AgentTyped == agent \in [Turns -> Terminals]
CancelTyped == cancel \in [Turns -> Handlers(
                   {"idle", "stop", "unseat", "unlease", "finish", "recover"})]
MonitorTyped == monitor \in [Turns -> Handlers(
                   {"idle", "check", "recover", "unseat", "unlease"})]

RecordsTyped ==
    /\ PathTyped /\ StartTyped /\ PollTyped /\ RowTyped /\ RepliesTyped
    /\ SeatTyped /\ MishapsTyped
NativeTyped == GuestTyped /\ CursorTyped /\ OutputTyped /\ LockTyped /\ AfterTyped
RunsTyped == RunTyped /\ AgentTyped /\ CancelTyped /\ MonitorTyped
AheadTyped == ahead \in [Turns -> 0..Others]
Typed == RecordsTyped /\ NativeTyped /\ RunsTyped

\* A session that the guest has not begun has no output.
Unbegun ==
    \A t \in Turns : guest[t].at \in {"none", "asked"} =>
        guest[t].lo = 1 /\ guest[t].next = 1 /\ ~guest[t].eof

\* What is acknowledged is committed, and what is committed was returned.
Cursors ==
    \A t \in Turns :
        /\ cursor[t] <= guest[t].next
        /\ Durable(t) => /\ guest[t].lo <= Most(cursor[t], 1)
                         /\ output[t] = Kept!Text(Most(cursor[t], 1) - 1)

\* Which polls are of which kind of turn.
PollOf(p, t) ==
    /\ poll[p].pc # "idle" => t \in Turns
    /\ poll[p].pc \in ArmPcs => Durable(t) /\ lock[t] = p /\ row[t] = "open"
    /\ poll[p].pc \in DirectPcs => path[t] = "native" /\ runtime = "firecracker"
    /\ poll[p].pc \in RunPcs => path[t] = "superset"
Polls == \A p \in Pollers : PollOf(p, poll[p].turn)

\* A poll that is about to commit holds what follows the cursor, and the end of
\* the output only if there is no more to come.
Holding(h, s) ==
    /\ h.from >= 1 /\ h.to < h.next /\ h.next <= s.next
    /\ h.exited => s.eof /\ h.next = s.next
Answers ==
    \A p \in Pollers : poll[p].pc \in {"commit", "save"} =>
        LET t == poll[p].turn IN
        /\ Holding(poll[p], guest[t])
        /\ poll[p].pc = "commit" /\ poll[p].from <= poll[p].to =>
             poll[p].from = Most(cursor[t], 1)
Nexts == \A p \in Pollers : poll[p].pc = "respond" => poll[p].next <= MaxChunks + 1

\* Whoever ends a turn writes its message, and nobody else does.
Ending(p, t) == poll[p].pc \in {"message", "reply"} /\ poll[p].turn = t
Replied ==
    \A t \in Turns :
        /\ row[t] # "exited" => replies[t] = <<>> /\ \A p \in Pollers : ~Ending(p, t)
        /\ \A p, q \in Pollers : Ending(p, t) /\ Ending(q, t) => p = q
        /\ \A p \in Pollers : Ending(p, t) => replies[t] = <<>>
        /\ Len(replies[t]) <= 1

IInv ==
    /\ Typed /\ Unbegun /\ Cursors /\ Polls /\ Answers /\ Nexts /\ Replied

-----------------------------------------------------------------------------
(* Numbers and sequences *)

LEMMA MostNat ==
    ASSUME NEW a \in Nat, NEW b \in Nat
    PROVE  /\ Most(a, b) \in Nat /\ Most(a, b) >= a /\ Most(a, b) >= b
           /\ Most(a, b) = a \/ Most(a, b) = b
BY DEF Most

LEMMA LeastNat ==
    ASSUME NEW a \in Nat, NEW b \in Nat
    PROVE  /\ Least(a, b) \in Nat /\ Least(a, b) <= a /\ Least(a, b) <= b
           /\ Least(a, b) = a \/ Least(a, b) = b
BY DEF Least

LEMMA RangeSeq ==
    ASSUME NEW a \in Nat \ {0}, NEW b \in Nat, b <= MaxChunks
    PROVE  /\ Range(a, b) \in Seq(0..MaxChunks)
           /\ Len(Range(a, b)) = IF b >= a THEN b + 1 - a ELSE 0
           /\ \A i \in 1..Len(Range(a, b)) : Range(a, b)[i] = a + i - 1
<1>1. CASE b >= a
  BY <1>1, NativeAssumption DEF Range
<1>2. CASE b < a
  <2>1. 1..(b + 1 - a) = {}
    BY <1>2
  <2>2. Range(a, b) = <<>>
    BY <2>1 DEF Range
  <2> QED
    BY <1>2, <2>2
<1> QED
  BY <1>1, <1>2

LEMMA ElementOf ==
    ASSUME NEW S, NEW s \in Seq(S), NEW i \in DOMAIN s
    PROVE  s[i] \in S
<1>1. DOMAIN s = 1..Len(s)
  OBVIOUS
<1> QED
  BY <1>1

LEMMA SeqOf ==
    ASSUME NEW n \in Nat, NEW S, NEW f \in [1..n -> S]
    PROVE  f \in Seq(S) /\ Len(f) = n
OBVIOUS

\* A text, and how far it goes.
LEMMA TextSeq ==
    ASSUME NEW n \in Nat, n <= MaxChunks
    PROVE  /\ Kept!Text(n) \in Seq(0..MaxChunks)
           /\ Len(Kept!Text(n)) = IF n <= 2 * Half THEN n ELSE 2 * Half + 1
           /\ Kept!Upto(Kept!Text(n)) = n
<1> DEFINE s == Kept!Text(n)
<1>1. CASE n <= 2 * Half
  <2>1. s = [i \in 1..n |-> i]
    BY <1>1 DEF Kept!Text
  <2>2. s \in [1..n -> 0..MaxChunks]
    BY <2>1, NativeAssumption
  <2> HIDE DEF s
  <2>3. s \in Seq(0..MaxChunks) /\ Len(s) = n
    BY <2>2, SeqOf
  <2>4. Kept!Upto(s) = n
    <3>1. CASE n = 0
      BY <2>3, <3>1 DEF Kept!Upto
    <3>2. CASE n > 0
      <4>1. s # <<>> /\ s[n] = n
        BY <2>1, <2>3, <3>2
      <4> QED
        BY <2>3, <4>1 DEF Kept!Upto
    <3> QED
      BY <3>1, <3>2
  <2> QED
    BY <1>1, <2>3, <2>4 DEF s
<1>2. CASE ~(n <= 2 * Half)
  <2> DEFINE k == 2 * Half + 1
  <2>1. k \in Nat /\ Half \in Nat \ {0} /\ k = 2 * Half + 1 /\ k <= n
    BY <1>2, NativeAssumption
  <2>2. s = [i \in 1..k |-> IF i <= Half THEN i ELSE IF i = Half + 1 THEN 0 ELSE n - k + i]
    BY <1>2 DEF Kept!Text
  <2> HIDE DEF s, k
  <2>3. \A i \in 1..k : s[i] \in 0..MaxChunks
    BY <2>1, <2>2, NativeAssumption
  <2>4. s \in [1..k -> 0..MaxChunks]
    BY <2>2, <2>3
  <2>5. s \in Seq(0..MaxChunks) /\ Len(s) = k
    BY <2>1, <2>4, SeqOf
  <2>6. s # <<>> /\ s[k] = n
    BY <2>1, <2>2, <2>5
  <2>7. Kept!Upto(s) = n
    BY <2>5, <2>6 DEF Kept!Upto
  <2> QED
    BY <1>2, <2>1, <2>5, <2>7 DEF s, k
<1> QED
  BY <1>1, <1>2

LEMMA CapTyped ==
    ASSUME NEW s \in Seq(0..MaxChunks)
    PROVE  capTurnOutput(s) \in Seq(0..MaxChunks)
<1>1. CASE Len(s) <= 2 * Half
  BY <1>1 DEF capTurnOutput
<1>2. CASE ~(Len(s) <= 2 * Half)
  <2> DEFINE k == 2 * Half + 1
             u == capTurnOutput(s)
             n == Len(s)
  <2>1. k \in Nat /\ Half \in Nat \ {0} /\ k = 2 * Half + 1 /\ k <= n /\ n \in Nat
    BY <1>2, NativeAssumption
  <2>2. u = [i \in 1..k |-> IF i <= Half THEN s[i]
                            ELSE IF i = Half + 1 THEN Gap ELSE s[n - k + i]]
    BY <1>2 DEF capTurnOutput
  <2>3. ASSUME NEW i \in 1..n PROVE s[i] \in 0..MaxChunks
    <3>1. i \in DOMAIN s
      OBVIOUS
    <3> QED
      BY <3>1, ElementOf
  <2>4. Gap \in 0..MaxChunks
    BY NativeAssumption DEF Gap
  <2> HIDE DEF k, u, n
  <2>5. \A i \in 1..k : (i <= Half => i \in 1..n) /\ (i > Half + 1 => n - k + i \in 1..n)
    BY <2>1
  <2>6. \A i \in 1..k : u[i] \in 0..MaxChunks
    <3> SUFFICES ASSUME NEW i \in 1..k PROVE u[i] \in 0..MaxChunks
      OBVIOUS
    <3>1. u[i] = IF i <= Half THEN s[i] ELSE IF i = Half + 1 THEN Gap ELSE s[n - k + i]
      BY <2>2
    <3>2. CASE i <= Half
      BY <2>3, <2>5, <3>1, <3>2
    <3>3. CASE i = Half + 1
      BY <2>1, <2>4, <3>1, <3>3
    <3>4. CASE i > Half + 1
      <4>1. u[i] = s[n - k + i] /\ n - k + i \in 1..n
        BY <2>1, <2>5, <3>1, <3>4
      <4> QED
        BY <2>3, <4>1
    <3> QED
      BY <2>1, <3>2, <3>3, <3>4
  <2>7. u \in [1..k -> 0..MaxChunks]
    BY <2>2, <2>6
  <2>8. u \in Seq(0..MaxChunks)
    BY <2>1, <2>7, SeqOf
  <2> QED
    BY <2>8 DEF u
<1> QED
  BY <1>1, <1>2

\* What follows a text of the first n chunks makes a text of the first m, although
\* its middle may have been cut before.
LEMMA Follows ==
    ASSUME NEW n \in Nat, NEW m \in Nat, n <= m, m <= MaxChunks,
           NEW s, s = Kept!Text(n)
    PROVE  capTurnOutput(s \o Range(n + 1, m)) = Kept!Text(m)
<1> DEFINE r == Range(n + 1, m)
           u == s \o r
           k == 2 * Half + 1
<1> SUFFICES capTurnOutput(u) = Kept!Text(m)
  OBVIOUS
<1>1. /\ r \in Seq(0..MaxChunks) /\ Len(r) = m - n
      /\ \A i \in 1..Len(r) : r[i] = n + i
  <2> DEFINE a == n + 1
  <2>1. a \in Nat \ {0} /\ r = Range(a, m)
    OBVIOUS
  <2> HIDE DEF a, r
  <2>2. /\ r \in Seq(0..MaxChunks) /\ Len(r) = IF m >= a THEN m + 1 - a ELSE 0
        /\ \A i \in 1..Len(r) : r[i] = a + i - 1
    BY <2>1, RangeSeq
  <2> QED
    BY <2>2 DEF a
<1>0. n <= MaxChunks
  BY NativeAssumption
<1>2. /\ s \in Seq(0..MaxChunks)
      /\ Len(s) = IF n <= 2 * Half THEN n ELSE 2 * Half + 1
  BY <1>0, TextSeq
<1>3. k \in Nat /\ Half \in Nat \ {0} /\ k = 2 * Half + 1
  BY NativeAssumption
<1>4. Kept!Text(m) = IF m <= 2 * Half THEN [i \in 1..m |-> i]
                     ELSE [i \in 1..k |-> IF i <= Half THEN i
                                          ELSE IF i = Half + 1 THEN 0 ELSE m - k + i]
  BY DEF Kept!Text
<1>5. capTurnOutput(u) = IF Len(u) <= 2 * Half THEN u
                         ELSE [i \in 1..k |-> IF i <= Half THEN u[i]
                                              ELSE IF i = Half + 1 THEN 0
                                              ELSE u[Len(u) - k + i]]
  BY DEF capTurnOutput, Gap
<1>6. s = IF n <= 2 * Half THEN [i \in 1..n |-> i]
          ELSE [i \in 1..k |-> IF i <= Half THEN i
                               ELSE IF i = Half + 1 THEN 0 ELSE n - k + i]
  BY DEF Kept!Text
<1>7. Len(s) = IF n <= 2 * Half THEN n ELSE k
  BY <1>2
<1> HIDE DEF r, k
<1>8. /\ u \in Seq(0..MaxChunks) /\ Len(u) = Len(s) + (m - n)
      /\ \A i \in 1..Len(u) : u[i] = IF i <= Len(s) THEN s[i] ELSE r[i - Len(s)]
  BY <1>1, <1>2
<1> HIDE DEF u
<1>9. CASE n <= 2 * Half
  <2>1. Len(s) = n /\ Len(u) = m
    BY <1>7, <1>8, <1>9
  <2>2. \A i \in 1..n : s[i] = i
    BY <1>6, <1>9
  <2>3. \A i \in 1..m : u[i] = i
    BY <1>1, <1>8, <2>1, <2>2
  <2>4. CASE m <= 2 * Half
    <3>1. u = [i \in 1..m |-> i]
      BY <1>8, <2>1, <2>3
    <3>2. capTurnOutput(u) = u
      BY <1>5, <2>1, <2>4
    <3>3. Kept!Text(m) = [i \in 1..m |-> i]
      BY <1>4, <2>4
    <3> QED
      BY <3>1, <3>2, <3>3
  <2>5. CASE ~(m <= 2 * Half)
    <3>1. \A i \in 1..k : i <= Half => u[i] = i
      BY <1>3, <2>3, <2>5
    <3>2. \A i \in 1..k : m - k + i \in 1..m
      BY <1>3, <2>5
    <3>3. \A i \in 1..k : u[m - k + i] = m - k + i
      BY <2>3, <3>2
    <3>4. /\ Kept!Text(m) = [i \in 1..k |-> IF i <= Half THEN i
                                            ELSE IF i = Half + 1 THEN 0 ELSE m - k + i]
          /\ capTurnOutput(u) = [i \in 1..k |-> IF i <= Half THEN u[i]
                                                ELSE IF i = Half + 1 THEN 0
                                                ELSE u[m - k + i]]
      BY <1>4, <1>5, <2>1, <2>5
    <3>5. \A i \in 1..k :
            (IF i <= Half THEN u[i] ELSE IF i = Half + 1 THEN 0 ELSE u[m - k + i])
            = IF i <= Half THEN i ELSE IF i = Half + 1 THEN 0 ELSE m - k + i
      BY <3>1, <3>3
    <3> QED
      BY <3>4, <3>5
  <2> QED
    BY <2>4, <2>5
<1>10. CASE ~(n <= 2 * Half)
  <2>1. Len(s) = k /\ Len(u) = k + (m - n) /\ Len(u) - k = m - n /\ ~(Len(u) <= 2 * Half)
    BY <1>3, <1>7, <1>8, <1>10
  <2>2. \A i \in 1..k : s[i] = IF i <= Half THEN i
                               ELSE IF i = Half + 1 THEN 0 ELSE n - k + i
    BY <1>6, <1>10
  <2>3. ASSUME NEW i \in 1..k, i <= Half PROVE u[i] = i
    <3>1. i \in 1..Len(u) /\ i <= Len(s)
      BY <1>3, <2>1, <2>3
    <3> QED
      BY <1>8, <2>2, <2>3, <3>1
  <2>4. ASSUME NEW i \in 1..k, i > Half + 1
        PROVE  u[(m - n) + i] = m - k + i
    <3> DEFINE j == (m - n) + i
    <3>1. j \in 1..Len(u) /\ j > Half + 1 /\ j = (m - n) + i /\ j \in Nat
      BY <1>3, <2>1, <2>4
    <3> HIDE DEF j
    <3>2. CASE j <= k
      <4>0. j \in 1..k /\ j <= Len(s)
        BY <1>3, <2>1, <3>1, <3>2
      <4>1. u[j] = s[j] /\ j \in 1..k
        BY <1>8, <3>1, <4>0
      <4>2. s[j] = n - k + j
        BY <1>3, <2>2, <3>1, <4>1
      <4> QED
        BY <1>3, <3>1, <4>1, <4>2 DEF j
    <3>3. CASE j > k
      <4>1. u[j] = r[j - k] /\ j - k \in 1..Len(r)
        BY <1>1, <1>3, <1>8, <2>1, <3>1, <3>3
      <4>2. r[j - k] = n + (j - k)
        BY <1>1, <4>1
      <4> QED
        BY <1>3, <3>1, <4>1, <4>2 DEF j
    <3> QED
      BY <1>3, <3>1, <3>2, <3>3
  <2>5. ~(m <= 2 * Half)
    BY <1>3, <1>10
  <2>6. \A i \in 1..k : i > Half + 1 => u[Len(u) - k + i] = m - k + i
    BY <2>1, <2>4
  <2>7. /\ Kept!Text(m) = [i \in 1..k |-> IF i <= Half THEN i
                                          ELSE IF i = Half + 1 THEN 0 ELSE m - k + i]
        /\ capTurnOutput(u) = [i \in 1..k |-> IF i <= Half THEN u[i]
                                              ELSE IF i = Half + 1 THEN 0
                                              ELSE u[Len(u) - k + i]]
    BY <1>4, <1>5, <2>1, <2>5
  <2>8. \A i \in 1..k :
          (IF i <= Half THEN u[i] ELSE IF i = Half + 1 THEN 0 ELSE u[Len(u) - k + i])
          = IF i <= Half THEN i ELSE IF i = Half + 1 THEN 0 ELSE m - k + i
    BY <1>3, <2>3, <2>6
  <2> QED
    BY <2>7, <2>8
<1> QED
  BY <1>9, <1>10
-----------------------------------------------------------------------------
(* Types: a variable keeps its type when it keeps its value, and whenever one *)
(* of the steps that set it is taken.                                        *)

LEMMA Constants == NativeAssumption /\ TurnsAssumption
BY NativeAssumption, TurnsAssumption

LEMMA TypedIsOK == Typed /\ AheadTyped => TypeOK
<1> SUFFICES ASSUME Typed, AheadTyped PROVE TypeOK
  OBVIOUS
<1>1. RunsType
  BY DEF Typed, RunsTyped, RunTyped, AgentTyped, CancelTyped, MonitorTyped, RunsType
<1>2. NativeType
  <2>1. ASSUME NEW t \in Turns, NEW i \in DOMAIN output[t]
        PROVE  output[t][i] \in 0..MaxChunks
    <3>1. output[t] \in Seq(0..MaxChunks)
      BY DEF Typed, NativeTyped, OutputTyped
    <3> QED
      BY <3>1, ElementOf
  <2> QED
    BY <2>1 DEF Typed, NativeTyped, GuestTyped, CursorTyped, LockTyped, AfterTyped, NativeType
<1>3. RecordsType
  BY DEF Typed, RecordsTyped, PathTyped, PollTyped, RowTyped, SeatTyped, MishapsTyped,
         RecordsType
<1> QED
  BY <1>1, <1>2, <1>3 DEF TypeOK, AheadTyped

LEMMA PathSame == PathTyped /\ UNCHANGED <<path, runtime>> => PathTyped'
BY DEF PathTyped
LEMMA StartSame == StartTyped /\ UNCHANGED start => StartTyped'
BY DEF StartTyped
LEMMA PollSame == PollTyped /\ UNCHANGED poll => PollTyped'
BY DEF PollTyped
LEMMA RowSame == RowTyped /\ UNCHANGED row => RowTyped'
BY DEF RowTyped
LEMMA RepliesSame == RepliesTyped /\ UNCHANGED replies => RepliesTyped'
BY DEF RepliesTyped
LEMMA SeatSame == SeatTyped /\ UNCHANGED seat => SeatTyped'
BY DEF SeatTyped
LEMMA MishapsSame == MishapsTyped /\ UNCHANGED mishaps => MishapsTyped'
BY DEF MishapsTyped
LEMMA NativeSame == NativeTyped /\ UNCHANGED native => NativeTyped'
BY DEF NativeTyped, GuestTyped, CursorTyped, OutputTyped, LockTyped, AfterTyped, native
LEMMA RestSame ==
    CursorTyped /\ OutputTyped /\ LockTyped /\ AfterTyped
      /\ UNCHANGED <<cursor, output, lock, after>>
    => CursorTyped' /\ OutputTyped' /\ LockTyped' /\ AfterTyped'
BY DEF CursorTyped, OutputTyped, LockTyped, AfterTyped
LEMMA RunsSame == RunsTyped /\ UNCHANGED runs => RunsTyped'
BY DEF RunsTyped, RunTyped, AgentTyped, CancelTyped, MonitorTyped, runs
LEMMA RunSame == RunTyped /\ UNCHANGED run => RunTyped'
BY DEF RunTyped
LEMMA AgentSame == AgentTyped /\ UNCHANGED agent => AgentTyped'
BY DEF AgentTyped
LEMMA CancelSame == CancelTyped /\ UNCHANGED cancel => CancelTyped'
BY DEF CancelTyped
LEMMA MonitorSame == MonitorTyped /\ UNCHANGED monitor => MonitorTyped'
BY DEF MonitorTyped

LEMMA StartSet ==
    ASSUME StartTyped, NEW t \in Turns, NEW pc \in StartPcs, StartGoes(t, pc)
    PROVE  StartTyped'
BY DEF StartTyped, StartGoes

LEMMA PollSet ==
    ASSUME PollTyped, NEW p \in Pollers, NEW pc \in PollPcs,
           PollGoes(p, pc) \/ PollEnds(p)
    PROVE  PollTyped'
<1>1. NoPoll \in [pc : PollPcs, turn : Turns \cup {None}, exited : BOOLEAN,
                  lease : BOOLEAN, from : Nat, to : Nat, next : Nat]
  BY DEF NoPoll, PollPcs
<1>2. CASE PollGoes(p, pc)
  BY <1>2 DEF PollTyped, PollGoes
<1>3. CASE PollEnds(p)
  BY <1>1, <1>3 DEF PollTyped, PollEnds
<1> QED
  BY <1>2, <1>3

LEMMA SeatSet ==
    ASSUME SeatTyped, NEW ref \in Refs,
           \/ ReleaseCredentialSeat(ref) \/ HeartbeatCredentialSeat(ref)
           \/ ClaimCredentialSeat(ref)
    PROVE  SeatTyped'
<1>1. CASE ReleaseCredentialSeat(ref)
  BY <1>1 DEF SeatTyped, NoSeat, ReleaseCredentialSeat
<1>2. CASE HeartbeatCredentialSeat(ref)
  BY <1>2 DEF SeatTyped, HeartbeatCredentialSeat
<1>3. CASE ClaimCredentialSeat(ref)
  BY <1>3 DEF SeatTyped, ClaimCredentialSeat
<1> QED
  BY <1>1, <1>2, <1>3

LEMMA AllRefs == Room \in Refs /\ \A t \in Turns : t \in Refs /\ Key(t) \in Refs
BY DEF Refs

LEMMA MishapSet == MishapsTyped /\ Mishap => MishapsTyped'
BY TurnsAssumption DEF MishapsTyped, Mishap

LEMMA RowSet ==
    ASSUME RowTyped, NEW t \in Turns, CreateGen2Turn(t) \/ ClaimExit(t)
    PROVE  RowTyped'
BY DEF RowTyped, CreateGen2Turn, ClaimExit

LEMMA MarkSet ==
    ASSUME RunTyped, NEW t \in Turns, NEW s \in Statuses, Mark(t, s) \/ ReleaseLease(t)
    PROVE  RunTyped'
BY DEF RunTyped, Mark, ReleaseLease

LEMMA AgentSet ==
    ASSUME AgentTyped, NEW t \in Turns, NEW s \in Terminals, SetAgent(t, s)
    PROVE  AgentTyped'
BY DEF AgentTyped, SetAgent

LEMMA CancelSet ==
    ASSUME CancelTyped, NEW t \in Turns,
           NEW pc \in {"idle", "stop", "unseat", "unlease", "finish", "recover"},
           CancelGoes(t, pc) \/ cancel' = [cancel EXCEPT ![t] = NoHandler]
    PROVE  CancelTyped'
<1>1. NoHandler \in Handlers({"idle", "stop", "unseat", "unlease", "finish", "recover"})
  BY DEF NoHandler, Handlers
<1>2. \A h \in Handlers({"idle", "stop", "unseat", "unlease", "finish", "recover"}) :
        [h EXCEPT !.pc = pc] \in Handlers({"idle", "stop", "unseat", "unlease", "finish", "recover"})
  BY DEF Handlers
<1> QED
  BY <1>1, <1>2 DEF CancelTyped, CancelGoes

LEMMA MonitorSet ==
    ASSUME MonitorTyped, NEW t \in Turns,
           NEW pc \in {"idle", "check", "recover", "unseat", "unlease"},
           MonitorGoes(t, pc) \/ MonitorEnds(t)
    PROVE  MonitorTyped'
<1>1. NoHandler \in Handlers({"idle", "check", "recover", "unseat", "unlease"})
  BY DEF NoHandler, Handlers
<1>2. \A h \in Handlers({"idle", "check", "recover", "unseat", "unlease"}) :
        [h EXCEPT !.pc = pc] \in Handlers({"idle", "check", "recover", "unseat", "unlease"})
  BY DEF Handlers
<1> QED
  BY <1>1, <1>2 DEF MonitorTyped, MonitorGoes, MonitorEnds
-----------------------------------------------------------------------------
(* Steps that touch neither the guest nor a poll, a row or a reply           *)

LEMMA FrameInv ==
    ASSUME IInv, Typed', UNCHANGED <<path, runtime, poll, row, replies, native>>
    PROVE  IInv'
<1>1. \A t \in Turns : Durable(t)' = Durable(t)
  BY DEF Durable
<1>2. UNCHANGED <<guest, cursor, output, lock, after>>
  BY DEF native
<1>3. Unbegun' /\ Cursors'
  BY <1>1, <1>2 DEF IInv, Unbegun, Cursors
<1>4. Polls' /\ Answers' /\ Nexts'
  BY <1>1, <1>2 DEF IInv, Polls, PollOf, Answers, Nexts, Durable
<1>5. Replied'
  BY DEF IInv, Replied, Ending
<1> QED
  BY <1>3, <1>4, <1>5 DEF IInv

Framed == UNCHANGED <<path, runtime, poll, row, replies, native>>

LEMMA TypedSeatSteps ==
    ASSUME Typed, SeatGoesStale \/ RoomReply, UNCHANGED <<native, runs>>
    PROVE  Typed' /\ Framed
<1>1. CASE SeatGoesStale
  BY <1>1, PathSame, StartSame, PollSame, RowSame, RepliesSame, SeatSame, MishapsSame, NativeSame, RunsSame,
     StartSame
     DEF SeatGoesStale, SeatTyped, Typed, RecordsTyped, RunsTyped, StartPcs, Statuses, Terminals, Framed,
         records, native, runs
<1>2. CASE RoomReply
  BY <1>2, PathSame, StartSame, PollSame, RowSame, RepliesSame, SeatSame, MishapsSame, NativeSame, RunsSame,
     SeatSet, AllRefs
     DEF RoomReply, Typed, RecordsTyped, RunsTyped, StartPcs, Statuses, Terminals, Framed,
         records, native, runs
<1> QED
  BY <1>1, <1>2

LEMMA TypedRecordSteps ==
    ASSUME Typed, NEW t \in Turns,
           \/ StartDies(t) /\ UNCHANGED <<native, runs>>
           \/ NativeBegins(t) /\ UNCHANGED runs
           \/ NativeClaims(t) /\ UNCHANGED runs
           \/ NativeRetags(t) /\ UNCHANGED runs
           \/ NativeUnseats(t) /\ UNCHANGED runs
    PROVE  Typed' /\ Framed
<1>1. CASE StartDies(t) /\ UNCHANGED <<native, runs>>
  BY <1>1, PathSame, StartSame, PollSame, RowSame, RepliesSame, SeatSame, MishapsSame, NativeSame, RunsSame,
     StartSet, MishapSet
     DEF StartDies, Typed, RecordsTyped, RunsTyped, StartPcs, Statuses, Terminals, Framed,
         records, native, runs
<1>2. CASE NativeBegins(t) /\ UNCHANGED runs
  BY <1>2, PathSame, StartSame, PollSame, RowSame, RepliesSame, SeatSame, MishapsSame, NativeSame, RunsSame,
     StartSet
     DEF NativeBegins, Typed, RecordsTyped, RunsTyped, StartPcs, Statuses, Terminals, Framed,
         records, native, runs
<1>3. CASE NativeClaims(t) /\ UNCHANGED runs
  BY <1>3, PathSame, StartSame, PollSame, RowSame, RepliesSame, SeatSame, MishapsSame, NativeSame, RunsSame,
     StartSet, SeatSet, AllRefs
     DEF NativeClaims, Typed, RecordsTyped, RunsTyped, StartPcs, Statuses, Terminals, Framed,
         records, native, runs
<1>4. CASE NativeRetags(t) /\ UNCHANGED runs
  BY <1>4, PathSame, StartSame, PollSame, RowSame, RepliesSame, SeatSame, MishapsSame, NativeSame, RunsSame,
     StartSet, SeatSet, AllRefs
     DEF NativeRetags, RetagCredentialSeat, SeatTyped, Typed, RecordsTyped, RunsTyped, StartPcs, Statuses, Terminals, Framed,
         records, native, runs
<1>5. CASE NativeUnseats(t) /\ UNCHANGED runs
  BY <1>5, PathSame, StartSame, PollSame, RowSame, RepliesSame, SeatSame, MishapsSame, NativeSame, RunsSame,
     StartSet, SeatSet, AllRefs
     DEF NativeUnseats, Typed, RecordsTyped, RunsTyped, StartPcs, Statuses, Terminals, Framed,
         records, native, runs
<1> QED
  BY <1>1, <1>2, <1>3, <1>4, <1>5

LEMMA TypedRunStart ==
    ASSUME Typed, NEW t \in Turns,
           \/ RunRegisters(t) /\ UNCHANGED native
           \/ RunClaims(t) /\ UNCHANGED native
           \/ RunLeases(t) /\ UNCHANGED native
           \/ RunAsks(t) /\ UNCHANGED native
           \/ RunAnswered(t) /\ UNCHANGED native
           \/ RunStarted(t) /\ UNCHANGED native
           \/ RunStartFails(t) /\ UNCHANGED native
           \/ RunRetried(t) /\ UNCHANGED native
    PROVE  Typed' /\ Framed
<1>1. CASE RunRegisters(t) /\ UNCHANGED native
  BY <1>1, PathSame, StartSame, PollSame, RowSame, RepliesSame, SeatSame, MishapsSame, NativeSame, RunsSame,
     StartSet, MarkSet, RunSame, AgentSame, CancelSame, MonitorSame
     DEF RunRegisters, Typed, RecordsTyped, RunsTyped, StartPcs, Statuses, Terminals, Framed,
         records, native, runs
<1>2. CASE RunClaims(t) /\ UNCHANGED native
  BY <1>2, PathSame, StartSame, PollSame, RowSame, RepliesSame, SeatSame, MishapsSame, NativeSame, RunsSame,
     StartSet, MarkSet, SeatSet, AllRefs, RunSame, AgentSame, CancelSame, MonitorSame
     DEF RunClaims, Typed, RecordsTyped, RunsTyped, StartPcs, Statuses, Terminals, Framed,
         records, native, runs
<1>3. CASE RunLeases(t) /\ UNCHANGED native
  BY <1>3, PathSame, StartSame, PollSame, RowSame, RepliesSame, SeatSame, MishapsSame, NativeSame, RunsSame,
     StartSet, RunSame, AgentSame, CancelSame, MonitorSame
     DEF RunLeases, RunTyped, Typed, RecordsTyped, RunsTyped, StartPcs, Statuses, Terminals, Framed,
         records, native, runs
<1>4. CASE RunAsks(t) /\ UNCHANGED native
  BY <1>4, PathSame, StartSame, PollSame, RowSame, RepliesSame, SeatSame, MishapsSame, NativeSame, RunsSame,
     StartSet, AgentSet, RunSame, AgentSame, CancelSame, MonitorSame
     DEF RunAsks, AgentTyped, Typed, RecordsTyped, RunsTyped, StartPcs, Statuses, Terminals, Framed,
         records, native, runs
<1>5. CASE RunAnswered(t) /\ UNCHANGED native
  BY <1>5, PathSame, StartSame, PollSame, RowSame, RepliesSame, SeatSame, MishapsSame, NativeSame, RunsSame,
     StartSet, MishapSet, AgentSet, RunSame, AgentSame, CancelSame, MonitorSame
     DEF RunAnswered, Typed, RecordsTyped, RunsTyped, StartPcs, Statuses, Terminals, Framed,
         records, native, runs
<1>6. CASE RunStarted(t) /\ UNCHANGED native
  BY <1>6, PathSame, StartSame, PollSame, RowSame, RepliesSame, SeatSame, MishapsSame, NativeSame, RunsSame,
     StartSet, MishapSet, RunSame, AgentSame, CancelSame, MonitorSame
     DEF RunStarted, RunTyped, Typed, RecordsTyped, RunsTyped, StartPcs, Statuses, Terminals, Framed,
         records, native, runs
<1>7. CASE RunStartFails(t) /\ UNCHANGED native
  BY <1>7, PathSame, StartSame, PollSame, RowSame, RepliesSame, SeatSame, MishapsSame, NativeSame, RunsSame,
     StartSet, MarkSet, SeatSet, AllRefs, RunSame, AgentSame, CancelSame, MonitorSame
     DEF RunStartFails, Typed, RecordsTyped, RunsTyped, StartPcs, Statuses, Terminals, Framed,
         records, native, runs
<1>8. CASE RunRetried(t) /\ UNCHANGED native
  BY <1>8, PathSame, StartSame, PollSame, RowSame, RepliesSame, SeatSame, MishapsSame, NativeSame, RunsSame,
     StartSet
     DEF RunRetried, Typed, RecordsTyped, RunsTyped, StartPcs, Statuses, Terminals, Framed,
         records, native, runs
<1> QED
  BY <1>1, <1>2, <1>3, <1>4, <1>5, <1>6, <1>7, <1>8

LEMMA TypedRun ==
    ASSUME Typed, NEW t \in Turns,
           \/ HostLaunches(t) /\ UNCHANGED native
           \/ AgentEnds(t) /\ UNCHANGED native
           \/ CancelBegins(t) /\ UNCHANGED native
           \/ CancelStops(t) /\ UNCHANGED native
           \/ CancelEnds(t) /\ UNCHANGED native
           \/ MonitorLists(t) /\ UNCHANGED native
           \/ MonitorChecks(t) /\ UNCHANGED native
           \/ MonitorRecovers(t) /\ UNCHANGED native
           \/ HandlerDies(t) /\ UNCHANGED native
    PROVE  Typed' /\ Framed
<1>1. CASE HostLaunches(t) /\ UNCHANGED native
  BY <1>1, PathSame, StartSame, PollSame, RowSame, RepliesSame, SeatSame, MishapsSame, NativeSame, RunsSame,
     AgentSet, RunSame, AgentSame, CancelSame, MonitorSame
     DEF HostLaunches, Typed, RecordsTyped, RunsTyped, StartPcs, Statuses, Terminals, Framed,
         records, native, runs
<1>2. CASE AgentEnds(t) /\ UNCHANGED native
  BY <1>2, PathSame, StartSame, PollSame, RowSame, RepliesSame, SeatSame, MishapsSame, NativeSame, RunsSame,
     AgentSet, RunSame, AgentSame, CancelSame, MonitorSame
     DEF AgentEnds, Typed, RecordsTyped, RunsTyped, StartPcs, Statuses, Terminals, Framed,
         records, native, runs
<1>3. CASE CancelBegins(t) /\ UNCHANGED native
  BY <1>3, PathSame, StartSame, PollSame, RowSame, RepliesSame, SeatSame, MishapsSame, NativeSame, RunsSame,
     MarkSet, RunSame, AgentSame, CancelSame, MonitorSame
     DEF CancelBegins, CancelTyped, RunTyped, Handlers, Typed, RecordsTyped, RunsTyped, StartPcs, Statuses, Terminals, Framed,
         records, native, runs
<1>4. CASE CancelStops(t) /\ UNCHANGED native
  BY <1>4, PathSame, StartSame, PollSame, RowSame, RepliesSame, SeatSame, MishapsSame, NativeSame, RunsSame,
     CancelSet, AgentSet, MishapSet, RunSame, AgentSame, CancelSame, MonitorSame
     DEF CancelStops, Typed, RecordsTyped, RunsTyped, StartPcs, Statuses, Terminals, Framed,
         records, native, runs
<1>5. CASE CancelEnds(t) /\ UNCHANGED native
  BY <1>5, PathSame, StartSame, PollSame, RowSame, RepliesSame, SeatSame, MishapsSame, NativeSame, RunsSame,
     CancelSet, MarkSet, SeatSet, AllRefs, RunSame, AgentSame, CancelSame, MonitorSame
     DEF CancelEnds, ReleaseIfLeased, Typed, RecordsTyped, RunsTyped, StartPcs, Statuses, Terminals, Framed,
         records, native, runs
<1>6. CASE MonitorLists(t) /\ UNCHANGED native
  BY <1>6, PathSame, StartSame, PollSame, RowSame, RepliesSame, SeatSame, MishapsSame, NativeSame, RunsSame,
     RunSame, AgentSame, CancelSame, MonitorSame
     DEF MonitorLists, MonitorTyped, RunTyped, Handlers, Typed, RecordsTyped, RunsTyped, StartPcs, Statuses, Terminals, Framed,
         records, native, runs
<1>7. CASE MonitorChecks(t) /\ UNCHANGED native
  BY <1>7, PathSame, StartSame, PollSame, RowSame, RepliesSame, SeatSame, MishapsSame, NativeSame, RunsSame,
     MonitorSet, MishapSet, SeatSet, AllRefs, RunSame, AgentSame, CancelSame, MonitorSame
     DEF MonitorChecks, BeatIfLeased, Typed, RecordsTyped, RunsTyped, StartPcs, Statuses, Terminals, Framed,
         records, native, runs
<1>8. CASE MonitorRecovers(t) /\ UNCHANGED native
  BY <1>8, PathSame, StartSame, PollSame, RowSame, RepliesSame, SeatSame, MishapsSame, NativeSame, RunsSame,
     MonitorSet, MarkSet, SeatSet, AllRefs, RunSame, AgentSame, CancelSame, MonitorSame
     DEF MonitorRecovers, ReleaseIfLeased, Typed, RecordsTyped, RunsTyped, StartPcs, Statuses, Terminals, Framed,
         records, native, runs
<1>9. CASE HandlerDies(t) /\ UNCHANGED native
  BY <1>9, PathSame, StartSame, PollSame, RowSame, RepliesSame, SeatSame, MishapsSame, NativeSame, RunsSame,
     CancelSet, MonitorSet, MishapSet, RunSame, AgentSame, CancelSame, MonitorSame
     DEF HandlerDies, Typed, RecordsTyped, RunsTyped, StartPcs, Statuses, Terminals, Framed,
         records, native, runs
<1> QED
  BY <1>1, <1>2, <1>3, <1>4, <1>5, <1>6, <1>7, <1>8, <1>9

-----------------------------------------------------------------------------
(* The initial state, rows and the guest                                     *)

LEMMA InitInv == Init => IInv
<1> SUFFICES ASSUME Init PROVE IInv
  OBVIOUS
<1> USE DEF Init, RecordsInit, NativeInit, RunsInit
<1>1. PathTyped /\ StartTyped /\ RowTyped /\ RepliesTyped /\ MishapsTyped
  BY Constants DEF PathTyped, StartTyped, StartPcs, RowTyped, RepliesTyped, MishapsTyped
<1>2. PollTyped /\ SeatTyped
  BY DEF PollTyped, NoPoll, PollPcs, SeatTyped, NoSeat
<1>3. NativeTyped
  <2>1. 1 \in 1..MaxChunks + 1 /\ 0 \in 0..MaxChunks + 1
    BY Constants
  <2> QED
    BY <2>1 DEF NativeTyped, GuestTyped, NoSession, CursorTyped, OutputTyped, LockTyped, AfterTyped
<1>4. RunsTyped
  BY DEF RunsTyped, RunTyped, Statuses, AgentTyped, Terminals, CancelTyped, MonitorTyped,
         Handlers, NoHandler
<1>5. Typed
  BY <1>1, <1>2, <1>3, <1>4 DEF Typed, RecordsTyped
<1>6. Unbegun
  BY DEF Unbegun, NoSession
<1>7. Cursors
  <2>1. Most(0, 1) = 1
    BY DEF Most
  <2>2. Kept!Text(Most(0, 1) - 1) = <<>>
    BY <2>1, NativeAssumption DEF Kept!Text
  <2>3. ASSUME NEW t \in Turns
        PROVE  /\ cursor[t] = 0 /\ output[t] = <<>>
               /\ guest[t].lo = 1 /\ guest[t].next = 1
    BY DEF NoSession
  <2> HIDE DEF Init, RecordsInit, NativeInit, RunsInit
  <2>4. ASSUME NEW t \in Turns
        PROVE  /\ cursor[t] <= guest[t].next /\ guest[t].lo <= Most(cursor[t], 1)
               /\ output[t] = Kept!Text(Most(cursor[t], 1) - 1)
    BY <2>1, <2>2, <2>3
  <2> QED
    BY <2>4 DEF Cursors
<1>8. Polls /\ Answers /\ Nexts /\ Replied
  BY DEF Polls, PollOf, ArmPcs, DirectPcs, RunPcs, Answers, Nexts, Replied, Ending, NoPoll
<1> QED
  BY <1>5, <1>6, <1>7, <1>8 DEF IInv

\* A row that is created changes nothing for a poll.
LEMMA RowOpens ==
    ASSUME IInv, Typed', NEW t \in Turns, CreateGen2Turn(t),
           UNCHANGED <<path, runtime, poll, replies, native>>
    PROVE  IInv'
<1>1. \A u \in Turns : /\ Durable(u)' = Durable(u)
                       /\ row'[u] = "exited" <=> row[u] = "exited"
                       /\ row[u] = "open" => row'[u] = "open"
  BY DEF Durable, CreateGen2Turn, IInv, Typed, RecordsTyped, RowTyped
<1>2. UNCHANGED <<guest, cursor, output, lock, after>>
  BY DEF native
<1>3. Unbegun' /\ Cursors'
  BY <1>1, <1>2 DEF IInv, Unbegun, Cursors
<1>4. ASSUME NEW p \in Pollers PROVE PollOf(p, poll[p].turn)'
  <2>1. PollOf(p, poll[p].turn)
    BY DEF IInv, Polls
  <2> QED
    BY <1>1, <1>2, <2>1 DEF PollOf, ArmPcs, DirectPcs, RunPcs
<1>5. Polls' /\ Answers' /\ Nexts'
  BY <1>2, <1>4 DEF IInv, Polls, Answers, Nexts
<1>6. Replied'
  BY <1>1 DEF IInv, Replied, Ending
<1> QED
  BY <1>3, <1>5, <1>6 DEF IInv

LEMMA RecordsInv ==
    ASSUME IInv, NEW t \in Turns,
           \/ NativeRecords(t) /\ UNCHANGED runs
           \/ RunRecords(t) /\ UNCHANGED native
    PROVE  IInv'
<1> USE PathSame, StartSame, PollSame, RowSame, RepliesSame, SeatSame, MishapsSame,
        NativeSame, RunsSame, StartSet, MishapSet, RowSet
<1>1. CASE NativeRecords(t) /\ UNCHANGED runs
  <2>1. Typed'
    BY <1>1 DEF NativeRecords, IInv, Typed, RecordsTyped, StartPcs
  <2>2. CASE CreateGen2Turn(t)
    BY <1>1, <2>1, <2>2, RowOpens DEF NativeRecords
  <2>3. CASE UNCHANGED row
    BY <1>1, <2>1, <2>3, FrameInv DEF NativeRecords
  <2> QED
    BY <1>1, <2>2, <2>3 DEF NativeRecords
<1>2. CASE RunRecords(t) /\ UNCHANGED native
  <2>1. Typed'
    BY <1>2 DEF RunRecords, IInv, Typed, RecordsTyped, StartPcs
  <2> QED
    BY <1>2, <2>1, RowOpens DEF RunRecords
<1> QED
  BY <1>1, <1>2

\* What the guest does: it writes on until the end, and drops nothing.
Grows ==
    \A t \in Turns :
        /\ guest'[t].lo = guest[t].lo /\ guest'[t].next >= guest[t].next
        /\ guest[t].eof => guest'[t].eof /\ guest'[t].next = guest[t].next

LEMMA GuestInv ==
    ASSUME IInv, Typed', Unbegun', Grows,
           UNCHANGED <<path, runtime, poll, row, replies, cursor, output, lock, after>>
    PROVE  IInv'
<1>1. \A t \in Turns : Durable(t)' = Durable(t)
  BY DEF Durable
<1>2. \A t \in Turns : /\ guest[t].next \in Nat /\ guest'[t].next \in Nat
                       /\ cursor[t] \in Nat
  BY Constants DEF IInv, Typed, NativeTyped, GuestTyped, CursorTyped
<1>3. Cursors'
  BY <1>1, <1>2 DEF IInv, Cursors, Grows
<1>4. Polls' /\ Nexts'
  BY DEF IInv, Polls, PollOf, Nexts, Durable
<1>5. ASSUME NEW p \in Pollers, poll[p].pc \in {"commit", "save"}
      PROVE  Holding(poll[p], guest'[poll[p].turn])
  <2>1. poll[p].turn \in Turns
    BY <1>5 DEF IInv, Polls, PollOf
  <2>2. Holding(poll[p], guest[poll[p].turn])
    BY <1>5 DEF IInv, Answers
  <2>3. poll[p].from \in Nat /\ poll[p].to \in Nat /\ poll[p].next \in Nat
    BY DEF IInv, Typed, RecordsTyped, PollTyped
  <2> QED
    BY <1>2, <2>1, <2>2, <2>3 DEF Holding, Grows
<1>6. Answers'
  BY <1>5 DEF IInv, Answers
<1>7. Replied'
  BY DEF IInv, Replied, Ending
<1> QED
  BY <1>3, <1>4, <1>6, <1>7 DEF IInv

LEMMA GuestTypes ==
    ASSUME IInv, NEW t \in Turns, Guest(t)
    PROVE  GuestTyped' /\ Unbegun' /\ Grows
<1> USE DEF IInv, Typed, NativeTyped, GuestTyped
<1>1. \A u \in Turns : /\ guest[u].next \in Nat /\ guest[u].lo \in Nat
                       /\ guest[u].next \in 1..MaxChunks + 1
  BY Constants
<1>2. CASE GuestStarts(t)
  <2>1. \A u \in Turns : /\ guest'[u].lo = guest[u].lo /\ guest'[u].next = guest[u].next
                         /\ guest'[u].eof = guest[u].eof
                         /\ guest'[u].at \in {"none", "asked"} => guest[u].at \in {"none", "asked"}
    BY <1>2 DEF GuestStarts, Unbegun, NoSession
  <2>2. GuestTyped'
    <3>1. 1 \in 1..MaxChunks + 1
      BY Constants
    <3> QED
      BY <1>2, <3>1 DEF GuestStarts, NoSession
  <2> QED
    BY <1>1, <2>1, <2>2 DEF Unbegun, Grows
<1>3. CASE GuestReads(t)
  <2>1. guest[t].next + 1 \in 1..MaxChunks + 1
    BY <1>1, <1>3, Constants DEF GuestReads
  <2>2. GuestTyped'
    BY <1>3, <2>1 DEF GuestReads
  <2>3. Unbegun' /\ Grows
    BY <1>1, <1>3 DEF GuestReads, Unbegun, Grows
  <2> QED
    BY <2>2, <2>3
<1>4. CASE GuestReadsEnd(t)
  <2>1. GuestTyped'
    BY <1>4 DEF GuestReadsEnd
  <2>2. Unbegun' /\ Grows
    BY <1>1, <1>4 DEF GuestReadsEnd, Unbegun, Grows
  <2> QED
    BY <2>1, <2>2
<1>5. CASE GuestReaps(t)
  <2>1. GuestTyped'
    BY <1>5 DEF GuestReaps
  <2>2. Unbegun' /\ Grows
    BY <1>1, <1>5 DEF GuestReaps, Unbegun, Grows
  <2> QED
    BY <2>1, <2>2
<1> QED
  BY <1>2, <1>3, <1>4, <1>5 DEF Guest

LEMMA SessionTypes ==
    ASSUME IInv, NEW t \in Turns,
           NativeAsks(t) \/ NativeAnswered(t) \/ NativeCancel(t)
    PROVE  GuestTyped' /\ Unbegun' /\ Grows
<1> USE DEF IInv, Typed, NativeTyped, GuestTyped
<1>1. \A u \in Turns : guest[u].next \in Nat /\ guest[u].lo \in Nat
  BY Constants
<1>2. CASE UNCHANGED guest
  BY <1>1, <1>2 DEF Unbegun, Grows
<1>3. CASE NativeAsks(t)
  BY <1>1, <1>3 DEF NativeAsks, Unbegun, Grows
<1>4. CASE NativeAnswered(t)
  BY <1>1, <1>2, <1>4 DEF NativeAnswered, Unbegun, Grows
<1>5. CASE NativeCancel(t)
  BY <1>1, <1>2, <1>5 DEF NativeCancel, Unbegun, Grows
<1> QED
  BY <1>3, <1>4, <1>5

LEMMA GuestSteps ==
    ASSUME IInv, NEW t \in Turns,
           \/ Guest(t) /\ UNCHANGED runs
           \/ NativeAsks(t) /\ UNCHANGED runs
           \/ NativeAnswered(t) /\ UNCHANGED runs
           \/ NativeCancel(t) /\ UNCHANGED runs
    PROVE  IInv' /\ Grows
<1>1. GuestTyped' /\ Unbegun' /\ Grows
  BY GuestTypes, SessionTypes
<1> USE DEF IInv, Typed, RecordsTyped, NativeTyped, RunsTyped
<1>2. CASE Guest(t) /\ UNCHANGED runs
  <2>1. UNCHANGED <<records, cursor, output, lock, after, runs>>
    BY <1>2 DEF Guest, GuestStarts, GuestReads, GuestReadsEnd, GuestReaps
  <2>2. Typed'
    BY <1>1, <2>1, PathSame, StartSame, PollSame, RowSame, RepliesSame, SeatSame,
       MishapsSame, RestSame, RunsSame DEF records
  <2> QED
    BY <1>1, <2>1, <2>2, GuestInv DEF records
<1>3. CASE NativeAsks(t) /\ UNCHANGED runs
  <2>1. Typed'
    BY <1>1, <1>3, PathSame, StartSet, PollSame, RowSame, RepliesSame, SeatSame,
       MishapsSame, RestSame, RunsSame DEF NativeAsks, StartPcs
  <2> QED
    BY <1>1, <1>3, <2>1, GuestInv DEF NativeAsks
<1>4. CASE NativeAnswered(t) /\ UNCHANGED runs
  <2>1. Typed'
    BY <1>1, <1>4, PathSame, StartSet, PollSame, RowSame, RepliesSame, SeatSame,
       MishapsSame, MishapSet, RestSame, RunsSame DEF NativeAnswered, StartPcs
  <2> QED
    BY <1>1, <1>4, <2>1, GuestInv DEF NativeAnswered
<1>5. CASE NativeCancel(t) /\ UNCHANGED runs
  <2>1. Typed'
    BY <1>1, <1>5, PathSame, StartSame, PollSame, RowSame, RepliesSame, SeatSet, AllRefs,
       MishapsSame, MishapSet, RestSame, RunsSame DEF NativeCancel
  <2> QED
    BY <1>1, <1>5, <2>1, GuestInv DEF NativeCancel
<1> QED
  BY <1>2, <1>3, <1>4, <1>5

LEMMA VmStopsInv ==
    ASSUME IInv, VmStops
    PROVE  IInv' /\ Grows
<1> USE DEF IInv, Typed, RecordsTyped, NativeTyped, RunsTyped
<1>1. \A u \in Turns : guest[u].next \in Nat /\ guest[u].lo \in Nat
  BY Constants DEF GuestTyped
<1>2. \A u \in Turns : /\ guest'[u].lo = guest[u].lo /\ guest'[u].next = guest[u].next
                       /\ guest[u].eof => guest'[u].eof
                       /\ guest'[u].at \in {"none", "asked"} => guest'[u] = NoSession
  BY DEF VmStops, GuestLost, NoSession, Unbegun, GuestTyped
<1>3. GuestTyped'
  <2>1. 1 \in 1..MaxChunks + 1
    BY Constants
  <2> QED
    BY <2>1 DEF VmStops, GuestLost, NoSession, GuestTyped
<1>4. Unbegun' /\ Grows
  BY <1>1, <1>2 DEF Unbegun, Grows, NoSession
<1>5. AgentTyped'
  BY DEF VmStops, HostLost, AgentTyped, Terminals
<1>6. Typed'
  BY <1>3, <1>5, PathSame, StartSame, PollSame, RowSame, RepliesSame, SeatSame,
     MishapSet, RestSame, RunSame, CancelSame, MonitorSame DEF VmStops
<1> QED
  BY <1>4, <1>6, GuestInv DEF VmStops
-----------------------------------------------------------------------------
(* What a step of a poll must show                                           *)

\* The other polls do not move.
Alone(p) == \A q \in Pollers \ {p} : poll'[q] = poll[q]

\* Nor does what they rely on: the lock, the cursor and the row of a durable
\* turn belong to the poll that has the lock.
Untouched(p) ==
    \A q \in Pollers \ {p} : poll[q].pc \in ArmPcs =>
        LET u == poll[q].turn IN
        lock'[u] = lock[u] /\ row'[u] = row[u] /\ cursor'[u] = cursor[u]

\* The guest keeps what it has not returned.
Heard == \A t \in Turns : guest'[t].next = guest[t].next /\ guest'[t].eof = guest[t].eof

Fair(p) == PollOf(p, poll[p].turn)
AnswerOf(p) ==
    poll[p].pc \in {"commit", "save"} =>
        LET t == poll[p].turn IN
        /\ Holding(poll[p], guest[t])
        /\ poll[p].pc = "commit" /\ poll[p].from <= poll[p].to =>
             poll[p].from = Most(cursor[t], 1)
NextOf(p) == poll[p].pc = "respond" => poll[p].next <= MaxChunks + 1

LEMMA Goes ==
    ASSUME PollTyped, NEW p \in Pollers, NEW pc \in PollPcs, PollGoes(p, pc)
    PROVE  /\ Alone(p) /\ poll'[p].pc = pc
           /\ poll'[p].turn = poll[p].turn /\ poll'[p].exited = poll[p].exited
           /\ poll'[p].from = poll[p].from /\ poll'[p].to = poll[p].to
           /\ poll'[p].next = poll[p].next
BY DEF PollTyped, PollGoes, Alone

LEMMA Ends ==
    ASSUME PollTyped, NEW p \in Pollers, PollEnds(p)
    PROVE  Alone(p) /\ poll'[p] = NoPoll
BY DEF PollTyped, PollEnds, Alone

LEMMA PollInv ==
    ASSUME IInv, Typed', NEW p \in Pollers,
           Alone(p), Untouched(p), Heard, UNCHANGED <<path, runtime>>,
           Unbegun', Cursors', Fair(p)', AnswerOf(p)', NextOf(p)', Replied'
    PROVE  IInv'
<1>1. ASSUME NEW q \in Pollers PROVE Fair(q)'
  <2>1. CASE q = p
    BY <2>1
  <2>2. CASE q # p
    <3>1. poll'[q] = poll[q] /\ PollOf(q, poll[q].turn)
      BY <2>2 DEF Alone, IInv, Polls
    <3>2. poll[q].pc \in ArmPcs =>
            lock'[poll[q].turn] = lock[poll[q].turn] /\ row'[poll[q].turn] = row[poll[q].turn]
      BY <2>2 DEF Untouched
    <3> QED
      BY <3>1, <3>2 DEF Fair, PollOf, Durable
  <2> QED
    BY <2>1, <2>2
<1>2. ASSUME NEW q \in Pollers PROVE AnswerOf(q)' /\ NextOf(q)'
  <2>1. CASE q = p
    BY <2>1
  <2>2. CASE q # p
    <3>1. /\ poll'[q] = poll[q] /\ PollOf(q, poll[q].turn)
          /\ AnswerOf(q) /\ NextOf(q)
      BY <2>2 DEF Alone, IInv, Polls, Answers, Nexts, AnswerOf, NextOf
    <3>2. CASE poll[q].pc \in {"commit", "save"}
      <4>1. poll[q].turn \in Turns
        BY <3>1, <3>2 DEF PollOf
      <4>2. Holding(poll[q], guest'[poll[q].turn])
        BY <3>1, <3>2, <4>1 DEF AnswerOf, Holding, Heard
      <4>3. poll[q].pc = "commit" => cursor'[poll[q].turn] = cursor[poll[q].turn]
        BY <2>2 DEF Untouched, ArmPcs
      <4> QED
        BY <3>1, <3>2, <4>2, <4>3 DEF AnswerOf, NextOf
    <3>3. CASE poll[q].pc \notin {"commit", "save"}
      BY <3>1, <3>3 DEF AnswerOf, NextOf
    <3> QED
      BY <3>2, <3>3
  <2> QED
    BY <2>1, <2>2
<1>3. Polls' /\ Answers' /\ Nexts'
  BY <1>1, <1>2 DEF Polls, Answers, Nexts, Fair, AnswerOf, NextOf
<1> QED
  BY <1>3 DEF IInv

\* Who writes the message of a turn, step by step: nobody new, the poll that has
\* claimed the exit, and nobody any more.
LEMMA SilentStep ==
    ASSUME IInv, NEW p \in Pollers, Alone(p), UNCHANGED <<row, replies>>,
           poll'[p].pc \notin {"message", "reply"}
    PROVE  Replied'
<1>1. \A q \in Pollers, t \in Turns : Ending(q, t)' => Ending(q, t)
  BY DEF Alone, Ending
<1> QED
  BY <1>1 DEF IInv, Replied

LEMMA ClaimStep ==
    ASSUME IInv, NEW p \in Pollers, NEW t \in Turns, Alone(p), ClaimExit(t), UNCHANGED replies,
           poll'[p].turn = t
    PROVE  Replied'
<1>1. /\ row[t] = "open" /\ row'[t] = "exited"
      /\ \A u \in Turns \ {t} : row'[u] = row[u]
  BY DEF ClaimExit, IInv, Typed, RecordsTyped, RowTyped
<1>2. replies[t] = <<>> /\ \A q \in Pollers : ~Ending(q, t)
  BY <1>1 DEF IInv, Replied
<1>3. \A q \in Pollers : /\ Ending(q, t)' => q = p
                         /\ \A u \in Turns \ {t} : Ending(q, u)' => Ending(q, u)
  BY <1>2 DEF Alone, Ending
<1>4. Len(replies[t]) <= 1
  BY DEF IInv, Replied
<1> QED
  BY <1>1, <1>2, <1>3, <1>4 DEF IInv, Replied

LEMMA ToldStep ==
    ASSUME IInv, NEW p \in Pollers, NEW t \in Turns, NEW text \in Seq(0..MaxChunks), Alone(p),
           AppendReply(t, text), poll'[p].pc \notin {"message", "reply"},
           \/ Ending(p, t) /\ UNCHANGED row
           \/ ClaimExit(t)
    PROVE  Replied'
<1>1. /\ row'[t] = "exited" /\ \A u \in Turns \ {t} : row'[u] = row[u]
      /\ replies[t] = <<>> /\ \A q \in Pollers : Ending(q, t) => q = p
  BY DEF ClaimExit, IInv, Typed, RecordsTyped, RowTyped, Replied
<1>2. /\ replies'[t] = <<text>> /\ \A u \in Turns \ {t} : replies'[u] = replies[u]
  <2>1. replies[t] \in Seq(Seq(0..MaxChunks))
    BY DEF IInv, Typed, RecordsTyped, RepliesTyped
  <2> QED
    BY <1>1, <2>1 DEF AppendReply, IInv, Typed, RecordsTyped, RepliesTyped
<1>3. Len(replies'[t]) = 1
  BY <1>2
<1>4. \A q \in Pollers : /\ ~Ending(q, t)'
                         /\ \A u \in Turns : Ending(q, u)' => Ending(q, u)
  BY <1>1 DEF Alone, Ending
<1>5. ASSUME NEW u \in Turns
      PROVE  /\ row'[u] # "exited" => replies'[u] = <<>> /\ \A q \in Pollers : ~Ending(q, u)'
             /\ \A q, r \in Pollers : Ending(q, u)' /\ Ending(r, u)' => q = r
             /\ \A q \in Pollers : Ending(q, u)' => replies'[u] = <<>>
             /\ Len(replies'[u]) <= 1
  <2>1. CASE u = t
    <3>1. row'[u] = "exited" /\ Len(replies'[u]) = 1
      BY <1>1, <1>3, <2>1
    <3>2. \A q \in Pollers : ~Ending(q, u)'
      BY <1>4, <2>1 DEF Ending
    <3> QED
      BY <3>1, <3>2
  <2>2. CASE u # t
    BY <1>1, <1>2, <1>4, <2>2 DEF IInv, Replied, Ending
  <2> QED
    BY <2>1, <2>2
<1> QED
  BY <1>5 DEF Replied, Ending
-----------------------------------------------------------------------------
(* Polls of runs                                                             *)

LEMMA NativeKept ==
    ASSUME IInv, UNCHANGED <<path, runtime, native>>
    PROVE  Unbegun' /\ Cursors' /\ Heard
BY DEF IInv, native, Unbegun, Cursors, Durable, Heard

LEMMA ElsewhereExits ==
    ASSUME IInv, NEW p \in Pollers, NEW t \in Turns, ~Durable(t),
           UNCHANGED lock, UNCHANGED cursor, UNCHANGED row \/ ClaimExit(t)
    PROVE  Untouched(p)
<1>1. ASSUME NEW q \in Pollers, poll[q].pc \in ArmPcs
      PROVE  row'[poll[q].turn] = row[poll[q].turn]
  <2>1. poll[q].turn \in Turns /\ Durable(poll[q].turn)
    BY <1>1 DEF IInv, Polls, PollOf, ArmPcs
  <2>2. poll[q].turn # t
    BY <2>1
  <2> QED
    BY <2>1, <2>2 DEF ClaimExit, IInv, Typed, RecordsTyped, RowTyped
<1> QED
  BY <1>1 DEF Untouched

\* A poll that is neither durable nor about to write a message.
Plain(p) ==
    \/ PollEnds(p)
    \/ /\ Alone(p) /\ poll'[p].turn \in Turns
       /\ \/ poll'[p].pc \in RunPcs \ {"message"} /\ path[poll'[p].turn] = "superset"
          \/ poll'[p].pc = "seatBack"

LEMMA PlainFacts ==
    ASSUME PollTyped, NEW p \in Pollers, Plain(p), UNCHANGED <<path, runtime>>
    PROVE  /\ Alone(p) /\ Fair(p)' /\ AnswerOf(p)' /\ NextOf(p)'
           /\ poll'[p].pc \notin {"message", "reply"}
<1>1. CASE PollEnds(p)
  <2>1. Alone(p) /\ poll'[p] = NoPoll
    BY <1>1, Ends
  <2> QED
    BY <2>1 DEF NoPoll, Fair, PollOf, AnswerOf, NextOf, ArmPcs, DirectPcs, RunPcs
<1>2. CASE ~PollEnds(p)
  BY <1>2 DEF Plain, Fair, PollOf, AnswerOf, NextOf, ArmPcs, DirectPcs, RunPcs
<1> QED
  BY <1>1, <1>2

LEMMA PlainStep ==
    ASSUME IInv, Typed', NEW p \in Pollers, Plain(p),
           UNCHANGED <<path, runtime, native, row, replies>>
    PROVE  IInv'
<1>1. /\ Alone(p) /\ Fair(p)' /\ AnswerOf(p)' /\ NextOf(p)'
      /\ poll'[p].pc \notin {"message", "reply"}
  BY PlainFacts DEF IInv, Typed, RecordsTyped
<1>2. Unbegun' /\ Cursors' /\ Heard
  BY NativeKept
<1>3. Untouched(p)
  BY DEF Untouched, native
<1>4. Replied'
  BY <1>1, SilentStep
<1> QED
  BY <1>1, <1>2, <1>3, <1>4, PollInv

\* What a poll of a run may do next.
LEMMA PlainGoes ==
    ASSUME IInv, NEW p \in Pollers, poll[p].pc \in RunPcs, UNCHANGED path,
           NEW pc \in RunPcs \ {"message"}, PollGoes(p, pc)
    PROVE  Plain(p)
<1>1. /\ poll[p].turn \in Turns /\ path[poll[p].turn] = "superset"
  BY DEF IInv, Polls, PollOf, RunPcs
<1>2. Alone(p) /\ poll'[p].pc = pc /\ poll'[p].turn = poll[p].turn
  <2>1. pc \in PollPcs
    BY DEF PollPcs
  <2> QED
    BY <2>1, Goes DEF IInv, Typed, RecordsTyped
<1> QED
  BY <1>1, <1>2 DEF Plain

\* The types of the steps below.
RunKept == UNCHANGED <<path, runtime, start, replies, native>>

LEMMA RunPollTypes ==
    ASSUME Typed, PollTyped', RowTyped', SeatTyped', MishapsTyped', RunTyped', AgentTyped',
           RunKept, UNCHANGED <<cancel, monitor>>
    PROVE  Typed'
BY PathSame, StartSame, RepliesSame, NativeSame, CancelSame, MonitorSame
   DEF Typed, RecordsTyped, RunsTyped, RunKept

LEMMA RunPollBeginsInv ==
    ASSUME IInv, NEW p \in Pollers, NEW t \in Turns, RunPollBegins(p, t), UNCHANGED native
    PROVE  IInv'
<1> USE DEF IInv, Typed, RecordsTyped, RunsTyped
<1>1. PollTyped'
  BY DEF RunPollBegins, PollTyped, NoPoll, PollPcs, RunPcs, RunTyped
<1>2. Typed'
  BY <1>1, RunPollTypes, RowSame, SeatSame, MishapsSame, RunsSame
     DEF RunPollBegins, RunKept, runs
<1>3. Plain(p)
  BY DEF RunPollBegins, Plain, PollTyped, NoPoll, Alone, RunPcs
<1> QED
  BY <1>2, <1>3, PlainStep DEF RunPollBegins

LEMMA RunPollAsksInv ==
    ASSUME IInv, NEW p \in Pollers, RunPollAsks(p), UNCHANGED native
    PROVE  IInv'
<1> USE DEF IInv, Typed, RecordsTyped, RunsTyped
<1>1. poll[p].pc \in RunPcs /\ poll[p].turn \in Turns /\ path[poll[p].turn] = "superset"
  BY DEF RunPollAsks, Polls, PollOf, RunPcs
<1>2. PollTyped' /\ Plain(p)
  <2>1. CASE PollEnds(p)
    BY <2>1, PollSet DEF PollPcs, Plain
  <2>2. CASE ~PollEnds(p)
    BY <1>1, <2>2 DEF RunPollAsks, PollTyped, PollPcs, RunPcs, Plain, Alone
  <2> QED
    BY <2>1, <2>2
<1>3. Typed'
  BY <1>2, RunPollTypes, RowSame, SeatSame, MishapsSame, MishapSet, RunsSame
     DEF RunPollAsks, RunKept, runs
<1> QED
  BY <1>2, <1>3, PlainStep DEF RunPollAsks

LEMMA RunPollBeatsInv ==
    ASSUME IInv, NEW p \in Pollers, RunPollBeats(p), UNCHANGED native
    PROVE  IInv'
<1> USE DEF IInv, Typed, RecordsTyped, RunsTyped
<1>1. poll[p].turn \in Turns
  BY DEF RunPollBeats, Polls, PollOf
<1>2. PollTyped' /\ Plain(p)
  BY PollSet DEF RunPollBeats, PollPcs, Plain
<1>3. SeatTyped'
  BY <1>1, SeatSet, SeatSame, AllRefs DEF RunPollBeats, BeatIfLeased
<1>4. Typed'
  BY <1>2, <1>3, RunPollTypes, RowSame, MishapsSame, RunsSame DEF RunPollBeats, RunKept, runs
<1> QED
  BY <1>2, <1>4, PlainStep DEF RunPollBeats

LEMMA RunPollFinishesInv ==
    ASSUME IInv, NEW p \in Pollers, RunPollFinishes(p), UNCHANGED native
    PROVE  IInv'
<1> USE DEF IInv, Typed, RecordsTyped, RunsTyped
<1> DEFINE t == poll[p].turn
<1>1. t \in Turns /\ poll[p].pc \in RunPcs
  BY DEF RunPollFinishes, Polls, PollOf, RunPcs
<1>2. \/ PollEnds(p)
      \/ \E pc \in {"finish", "unseat", "unlease", "dispose"} : PollGoes(p, pc)
  BY DEF RunPollFinishes
<1>3. PollTyped' /\ Plain(p)
  <2>1. CASE PollEnds(p)
    BY <2>1, PollSet DEF PollPcs, Plain
  <2>2. ASSUME NEW pc \in {"finish", "unseat", "unlease", "dispose"}, PollGoes(p, pc)
        PROVE  PollTyped' /\ Plain(p)
    <3>1. pc \in RunPcs \ {"message"} /\ pc \in PollPcs
      BY DEF RunPcs, PollPcs
    <3> QED
      BY <1>1, <2>2, <3>1, PollSet, PlainGoes DEF RunPollFinishes
  <2> QED
    BY <1>2, <2>1, <2>2
<1>4. SeatTyped'
  BY <1>1, SeatSet, SeatSame, AllRefs DEF RunPollFinishes, ReleaseIfLeased
<1>5. MishapsTyped'
  BY MishapSet, MishapsSame DEF RunPollFinishes
<1>6. RunTyped'
  <2>1. "recovery_required" \in Statuses /\ "finished" \in Statuses
    BY DEF Statuses
  <2> QED
    BY <1>1, <2>1, MarkSet, RunSame DEF RunPollFinishes
<1>7. AgentTyped'
  <2>1. "disposed" \in Terminals
    BY DEF Terminals
  <2> QED
    BY <1>1, <2>1, AgentSet, AgentSame DEF RunPollFinishes
<1>8. Typed'
  BY <1>3, <1>4, <1>5, <1>6, <1>7, RunPollTypes, RowSame DEF RunPollFinishes, RunKept
<1> QED
  BY <1>3, <1>8, PlainStep DEF RunPollFinishes

LEMMA RunPollRecordsInv ==
    ASSUME IInv, NEW p \in Pollers, RunPollRecords(p), UNCHANGED native
    PROVE  IInv'
<1> USE DEF IInv, Typed, RecordsTyped, RunsTyped
<1> DEFINE t == poll[p].turn
<1>1. t \in Turns /\ poll[p].pc \in RunPcs /\ path[t] = "superset"
  BY DEF RunPollRecords, Polls, PollOf, RunPcs
<1>2. CASE ClaimExit(t) /\ PollGoes(p, "message") /\ UNCHANGED mishaps
  <2>1. "message" \in PollPcs
    BY DEF PollPcs, RunPcs
  <2>2. Alone(p) /\ poll'[p].pc = "message" /\ poll'[p].turn = t
    BY <1>2, <2>1, Goes
  <2>3. Typed'
    BY <1>1, <1>2, <2>1, PollSet, RowSet, RunPollTypes, SeatSame, MishapsSame, RunsSame
       DEF RunPollRecords, RunKept, runs
  <2>4. Unbegun' /\ Cursors' /\ Heard
    BY NativeKept DEF RunPollRecords
  <2>5. Untouched(p)
    BY <1>1, <1>2, ElsewhereExits DEF Durable, native
  <2>6. Fair(p)' /\ AnswerOf(p)' /\ NextOf(p)'
    BY <1>1, <2>2 DEF RunPollRecords, Fair, PollOf, AnswerOf, NextOf, ArmPcs, DirectPcs
  <2>7. Replied'
    BY <1>1, <1>2, <2>2, ClaimStep DEF RunPollRecords
  <2> QED
    BY <2>2, <2>3, <2>4, <2>5, <2>6, <2>7, PollInv DEF RunPollRecords
<1>3. CASE /\ PollGoes(p, "beat") \/ PollGoes(p, "capture")
           /\ UNCHANGED row
           /\ Mishap \/ UNCHANGED mishaps
  <2>1. "beat" \in PollPcs /\ "capture" \in PollPcs
    BY DEF PollPcs, RunPcs
  <2>2. Typed'
    BY <1>3, <2>1, PollSet, RunPollTypes, RowSame, SeatSame, MishapsSame, MishapSet, RunsSame
       DEF RunPollRecords, RunKept, runs
  <2>3. Plain(p)
    BY <1>1, <1>3, PlainGoes DEF RunPollRecords, RunPcs
  <2> QED
    BY <1>3, <2>2, <2>3, PlainStep DEF RunPollRecords
<1> QED
  BY <1>2, <1>3 DEF RunPollRecords

LEMMA RunPollRepliesInv ==
    ASSUME IInv, NEW p \in Pollers, RunPollReplies(p), UNCHANGED native
    PROVE  IInv'
<1> USE DEF IInv, Typed, RecordsTyped, RunsTyped
<1> DEFINE t == poll[p].turn
<1>1. t \in Turns /\ poll[p].pc \in RunPcs /\ path[t] = "superset" /\ Ending(p, t)
  BY DEF RunPollReplies, Polls, PollOf, RunPcs, Ending
<1>2. "capture" \in RunPcs \ {"message"} /\ "capture" \in PollPcs
  BY DEF RunPcs, PollPcs
<1>3. PollTyped' /\ Plain(p)
  BY <1>1, <1>2, PollSet, PlainGoes DEF RunPollReplies
<1>4. <<>> \in Seq(0..MaxChunks)
  OBVIOUS
<1>5. RepliesTyped'
  BY <1>1, <1>4 DEF RunPollReplies, AppendReply, RepliesTyped
<1>6. Typed'
  BY <1>3, <1>5, PathSame, StartSame, RowSame, SeatSame, MishapsSame, NativeSame, RunsSame
     DEF RunPollReplies
<1>7. Alone(p) /\ Fair(p)' /\ AnswerOf(p)' /\ NextOf(p)' /\ poll'[p].pc \notin {"message", "reply"}
  BY <1>3, PlainFacts DEF RunPollReplies
<1>8. Replied'
  BY <1>1, <1>4, <1>7, ToldStep DEF RunPollReplies
<1>9. Unbegun' /\ Cursors' /\ Heard /\ Untouched(p)
  BY NativeKept DEF RunPollReplies, Untouched, native
<1> QED
  BY <1>6, <1>7, <1>8, <1>9, PollInv DEF RunPollReplies
-----------------------------------------------------------------------------
(* Polls of native turns                                                     *)

LEMMA NativePollTypes ==
    ASSUME Typed, PollTyped', RowTyped', RepliesTyped', SeatTyped', MishapsTyped',
           NativeTyped', UNCHANGED <<path, runtime, start, runs>>
    PROVE  Typed'
BY PathSame, StartSame, RunsSame DEF Typed, RecordsTyped

\* Only the poll that has the lock of a durable turn relies on it.
LEMMA Locked ==
    ASSUME IInv, NEW p \in Pollers \cup {None}, NEW t \in Turns, lock[t] = p,
           NEW q \in Pollers \ {p}, poll[q].pc \in ArmPcs
    PROVE  poll[q].turn \in Turns /\ poll[q].turn # t /\ lock[poll[q].turn] = q
BY DEF IInv, Polls, PollOf, ArmPcs

LEMMA ArmPollBeginsInv ==
    ASSUME IInv, NEW p \in Pollers, NEW t \in Turns, ArmPollBegins(p, t), UNCHANGED runs
    PROVE  IInv'
<1> USE DEF IInv, Typed, RecordsTyped
<1>1. /\ PollTyped' /\ Alone(p)
      /\ poll'[p].pc = "ask" /\ poll'[p].turn = t
  BY DEF ArmPollBegins, PollTyped, NoPoll, PollPcs, ArmPcs, Alone
<1>2. LockTyped' /\ lock'[t] = p /\ \A u \in Turns \ {t} : lock'[u] = lock[u]
  BY DEF ArmPollBegins, NativeTyped, LockTyped
<1>3. NativeTyped'
  BY <1>2 DEF ArmPollBegins, NativeTyped, GuestTyped, CursorTyped, OutputTyped, AfterTyped
<1>4. Typed'
  BY <1>1, <1>3, NativePollTypes, RowSame, RepliesSame, SeatSame, MishapsSame
     DEF ArmPollBegins
<1>5. Untouched(p)
  <2>1. ASSUME NEW q \in Pollers \ {p}, poll[q].pc \in ArmPcs
        PROVE  lock'[poll[q].turn] = lock[poll[q].turn]
    <3>1. None \notin Pollers
      BY Constants
    <3>2. q \in Pollers \ {None}
      BY <3>1
    <3> QED
      BY <1>2, <2>1, <3>2, Locked DEF ArmPollBegins
  <2> QED
    BY <2>1 DEF Untouched, ArmPollBegins
<1>6. Fair(p)' /\ AnswerOf(p)' /\ NextOf(p)'
  BY <1>1, <1>2
     DEF ArmPollBegins, Fair, PollOf, AnswerOf, NextOf, ArmPcs, DirectPcs, RunPcs, Durable
<1>7. Replied'
  BY <1>1, SilentStep DEF ArmPollBegins
<1>8. Unbegun' /\ Cursors' /\ Heard
  BY DEF ArmPollBegins, Unbegun, Cursors, Durable, Heard
<1> QED
  BY <1>1, <1>4, <1>5, <1>6, <1>7, <1>8, PollInv DEF ArmPollBegins

\* What the guest drops is what it is told to, and it has returned it all.
LEMMA Acknowledged ==
    ASSUME IInv, NEW t \in Turns, NEW n \in Nat, guest[t].at = "open", Acknowledge(t, n)
    PROVE  /\ GuestTyped' /\ Unbegun' /\ Heard
           /\ guest'[t].lo = Most(guest[t].lo, Least(n, guest[t].next))
           /\ \A u \in Turns \ {t} : guest'[u] = guest[u]
<1> USE DEF IInv, Typed, NativeTyped, GuestTyped
<1>1. guest[t].lo \in 1..MaxChunks + 1 /\ guest[t].next \in 1..MaxChunks + 1
  OBVIOUS
<1>2. Most(guest[t].lo, Least(n, guest[t].next)) \in 1..MaxChunks + 1
  BY <1>1, Constants DEF Most, Least
<1>3. GuestTyped'
  BY <1>2 DEF Acknowledge
<1>4. Unbegun'
  BY DEF Acknowledge, Unbegun
<1> QED
  BY <1>3, <1>4 DEF Acknowledge, Heard

\* What it returns lies within what it has.
LEMMA ReturnedFits ==
    ASSUME IInv, NEW t \in Turns, NEW n \in Nat
    PROVE  /\ Returned(t, n).from \in Nat /\ Returned(t, n).to \in Nat
           /\ Returned(t, n).from = Most(guest[t].lo, n) /\ Returned(t, n).from >= 1
           /\ Returned(t, n).to < guest[t].next
<1>1. guest[t].lo \in Nat \ {0} /\ guest[t].next \in Nat \ {0}
  BY Constants DEF IInv, Typed, NativeTyped, GuestTyped
<1>2. Most(guest[t].lo, n) \in Nat \ {0}
  BY <1>1 DEF Most
<1>3. Least(guest[t].next - 1, Most(guest[t].lo, n) + Batch - 1) \in 0..guest[t].next - 1
  BY <1>1, <1>2, Constants DEF Least
<1> QED
  BY <1>1, <1>2, <1>3 DEF Returned

LEMMA ArmPollAsksInv ==
    ASSUME IInv, NEW p \in Pollers, ArmPollAsks(p), UNCHANGED runs
    PROVE  IInv'
<1> USE DEF IInv, Typed, RecordsTyped
<1> DEFINE t == poll[p].turn
<1>1. t \in Turns /\ Durable(t) /\ lock[t] = p /\ row[t] = "open"
  BY DEF ArmPollAsks, Polls, PollOf, ArmPcs
<1>2. \A u \in Turns : cursor[u] \in Nat /\ cursor[u] <= MaxChunks + 1
  BY Constants DEF NativeTyped, CursorTyped
<1>a. guest[t].lo \in Nat \ {0}
  BY <1>1, Constants DEF NativeTyped, GuestTyped
<1>b. guest[t].lo <= Most(cursor[t], 1)
  <2>1. Cursors
    OBVIOUS
  <2> HIDE DEF IInv
  <2> QED
    BY <1>1, <2>1 DEF Cursors
<1>3. CASE guest[t].at = "open"
  <2> DEFINE r == Returned(t, cursor[t])
  <2>1. Acknowledge(t, cursor[t]) /\ UNCHANGED lock
    BY <1>3 DEF ArmPollAsks
  <2>2. /\ GuestTyped' /\ Unbegun' /\ Heard
        /\ guest'[t].lo = Most(guest[t].lo, Least(cursor[t], guest[t].next))
        /\ \A u \in Turns \ {t} : guest'[u] = guest[u]
    BY <1>1, <1>2, <1>3, <2>1, Acknowledged
  <2>3. /\ r.from \in Nat /\ r.to \in Nat /\ r.from = Most(guest[t].lo, cursor[t])
        /\ r.from >= 1 /\ r.to < guest[t].next
    BY <1>1, <1>2, ReturnedFits
  <2>4. guest[t].next \in Nat /\ guest[t].eof \in BOOLEAN /\ guest[t].code \in BOOLEAN
    BY <1>1, Constants DEF NativeTyped, GuestTyped
  <2>5. /\ poll' = [poll EXCEPT ![p] = [@ EXCEPT !.pc = "commit", !.exited = Exited(guest[t]),
                      !.from = r.from, !.to = r.to, !.next = guest[t].next]]
    BY <1>3 DEF ArmPollAsks
  <2> HIDE DEF r
  <2>6. /\ PollTyped' /\ Alone(p)
        /\ poll'[p].pc = "commit" /\ poll'[p].turn = t /\ poll'[p].exited = Exited(guest[t])
        /\ poll'[p].from = r.from /\ poll'[p].to = r.to /\ poll'[p].next = guest[t].next
    BY <2>3, <2>4, <2>5 DEF PollTyped, PollPcs, ArmPcs, Alone, Exited
  <2>7. Typed'
    BY <2>1, <2>2, <2>6, NativePollTypes, RestSame, RowSame, RepliesSame, SeatSame, MishapsSame
       DEF ArmPollAsks, NativeTyped
  <2>8. Cursors'
    <3>1. guest[t].lo \in Nat /\ guest[t].lo <= Most(cursor[t], 1)
      BY <1>a, <1>b
    <3>2. guest'[t].lo <= Most(cursor[t], 1)
      <4> DEFINE n == cursor[t]
                 a == guest[t].lo
                 b == guest[t].next
      <4>1. n \in Nat /\ a \in Nat /\ b \in Nat /\ a <= Most(n, 1)
        BY <1>1, <1>2, <2>4, <3>1
      <4> HIDE DEF n, a, b
      <4>2. Most(a, Least(n, b)) <= Most(n, 1)
        BY <4>1 DEF Most, Least
      <4> QED
        BY <1>1, <2>2, <4>2 DEF n, a, b
    <3>3. \A u \in Turns : Durable(u)' = Durable(u)
      BY DEF ArmPollAsks, Durable
    <3> QED
      BY <1>1, <2>2, <3>2, <3>3 DEF Cursors, Heard, ArmPollAsks
  <2>9. Fair(p)' /\ NextOf(p)'
    BY <1>1, <2>1, <2>6 DEF ArmPollAsks, Fair, PollOf, NextOf, ArmPcs, DirectPcs, RunPcs, Durable
  <2>10. AnswerOf(p)'
    <3>1. Holding(poll'[p], guest'[t])
      BY <1>1, <2>2, <2>3, <2>4, <2>6 DEF Holding, Heard, Exited
    <3>2. r.from = Most(cursor[t], 1)
      <4>1. guest[t].lo \in Nat \ {0} /\ guest[t].lo <= Most(cursor[t], 1)
        BY <1>a, <1>b
      <4> DEFINE n == cursor[t]
                 a == guest[t].lo
      <4>2. n \in Nat /\ a \in Nat \ {0} /\ a <= Most(n, 1) /\ r.from = Most(a, n)
        BY <1>1, <1>2, <2>3, <4>1
      <4> HIDE DEF n, a
      <4>3. Most(a, n) = Most(n, 1)
        BY <4>2 DEF Most
      <4> QED
        BY <4>2, <4>3 DEF n
    <3>3. cursor' = cursor
      BY DEF ArmPollAsks
    <3> QED
      BY <2>6, <3>1, <3>2, <3>3 DEF AnswerOf
  <2>11. Untouched(p)
    BY <2>1 DEF Untouched, ArmPollAsks
  <2>12. Replied'
    BY <2>6, SilentStep DEF ArmPollAsks
  <2> QED
    BY <2>2, <2>6, <2>7, <2>8, <2>9, <2>10, <2>11, <2>12, PollInv DEF ArmPollAsks
<1>4. CASE guest[t].at # "open"
  <2>1. /\ PollGoes(p, "seatBack") \/ PollEnds(p)
        /\ Unlock(t) /\ UNCHANGED guest
    BY <1>4 DEF ArmPollAsks
  <2>2. PollTyped' /\ Plain(p)
    <3>1. "seatBack" \in PollPcs
      BY DEF PollPcs
    <3> QED
      BY <1>1, <2>1, <3>1, PollSet, Goes DEF Plain
  <2>3. Alone(p) /\ Fair(p)' /\ AnswerOf(p)' /\ NextOf(p)' /\ poll'[p].pc \notin {"message", "reply"}
    BY <2>2, PlainFacts DEF ArmPollAsks
  <2>4. LockTyped' /\ \A u \in Turns \ {t} : lock'[u] = lock[u]
    BY <2>1 DEF Unlock, NativeTyped, LockTyped
  <2>5. NativeTyped'
    BY <2>1, <2>4 DEF ArmPollAsks, NativeTyped, GuestTyped, CursorTyped, OutputTyped, AfterTyped
  <2>6. Typed'
    BY <2>2, <2>5, NativePollTypes, RowSame, RepliesSame, SeatSame, MishapsSame DEF ArmPollAsks
  <2>7. Untouched(p)
    BY <1>1, <2>4, Locked DEF Untouched, ArmPollAsks
  <2>8. Unbegun' /\ Cursors' /\ Heard
    BY <2>1 DEF ArmPollAsks, Unbegun, Cursors, Durable, Heard
  <2>9. Replied'
    BY <2>3, SilentStep DEF ArmPollAsks
  <2> QED
    BY <2>3, <2>6, <2>7, <2>8, <2>9, PollInv DEF ArmPollAsks
<1> QED
  BY <1>3, <1>4
\* What a commit writes is the text up to the new cursor; the turn is over only
\* when that is all there is.
CommitText(p) ==
    capTurnOutput(output[poll[p].turn] \o Range(poll[p].from, poll[p].to))
CommitEnds(p) ==
    EndOfOutput(poll[p].exited, NextSequence(p, poll[p].turn), poll[p].next)

LEMMA NothingMore ==
    ASSUME NEW a \in Nat, NEW b \in Nat, a > b, NEW S, NEW s \in Seq(S)
    PROVE  s \o Range(a, b) = s
<1>1. 1..(b + 1 - a) = {}
  OBVIOUS
<1>2. Range(a, b) = <<>>
  BY <1>1 DEF Range
<1> QED
  BY <1>2

LEMMA CommitFacts ==
    ASSUME IInv, NEW p \in Pollers, NEW t \in Turns, NEW n,
           poll[p].pc = "commit", t = poll[p].turn, n = NextSequence(p, t)
    PROVE  /\ n \in Nat /\ cursor[t] \in Nat /\ guest[t].next \in 1..MaxChunks + 1
           /\ cursor[t] <= n /\ n <= guest[t].next /\ cursor[t] <= guest[t].next
           /\ output[t] = Kept!Text(Most(cursor[t], 1) - 1)
           /\ CommitText(p) = Kept!Text(Most(n, 1) - 1)
           /\ CommitEnds(p) => guest[t].eof /\ n = guest[t].next
<1> DEFINE a == poll[p].from
           b == poll[p].to
           c == cursor[t]
           g == guest[t].next
           k == poll[p].next
           x == poll[p].exited
           o == output[t]
<1>1. a \in Nat /\ b \in Nat /\ k \in Nat /\ x \in BOOLEAN
  BY DEF IInv, Typed, RecordsTyped, PollTyped
<1>2. c \in Nat /\ g \in 1..MaxChunks + 1 /\ g \in Nat
  BY Constants DEF IInv, Typed, NativeTyped, CursorTyped, GuestTyped
<1>3. Holding(poll[p], guest[t]) /\ (a <= b => a = Most(c, 1))
  BY DEF IInv, Answers
<1>4. a >= 1 /\ b < k /\ k <= g /\ (x => guest[t].eof /\ k = g)
  BY <1>3 DEF Holding
<1>5. Durable(t)
  BY DEF IInv, Polls, PollOf, ArmPcs
<1>6. c <= g /\ o = Kept!Text(Most(c, 1) - 1)
  BY <1>5 DEF IInv, Cursors
<1>7. o \in Seq(0..MaxChunks)
  BY DEF IInv, Typed, NativeTyped, OutputTyped
<1>8. /\ n = IF a > b THEN c ELSE b + 1
      /\ CommitText(p) = capTurnOutput(o \o Range(a, b))
      /\ CommitEnds(p) => x /\ n >= k
  BY DEF NextSequence, CommitText, CommitEnds, EndOfOutput
<1> DEFINE e == guest[t].eof
           new == CommitText(p)
           over == CommitEnds(p)
           Fits == /\ c <= n /\ n <= g
                   /\ new = Kept!Text(Most(n, 1) - 1)
                   /\ over => e /\ n = g
<1>0. /\ x => e /\ k = g
      /\ new = capTurnOutput(o \o Range(a, b))
      /\ over => x /\ n >= k
  BY <1>4, <1>8
<1>b. n \in Nat
  BY <1>1, <1>2, <1>8
<1> HIDE DEF a, b, c, g, k, x, o, e, new, over
<1>c. ASSUME n <= g, over PROVE e /\ n = g
  <2>1. e /\ k = g /\ n >= k
    BY <1>0, <1>c
  <2> QED
    BY <1>b, <1>1, <1>2, <1>c, <2>1
<1>9. ASSUME a > b PROVE Fits
  <2>1. capTurnOutput(o \o Range(a, b)) = o
    <3> DEFINE m == Most(c, 1) - 1
    <3>1. m \in Nat /\ m <= MaxChunks /\ m + 1 > m /\ m + 1 \in Nat
      BY <1>2, <1>6, Constants DEF Most
    <3>2. o = Kept!Text(m)
      BY <1>6
    <3> HIDE DEF m
    <3>3. o \o Range(a, b) = o /\ o \o Range(m + 1, m) = o
      BY <1>1, <1>7, <1>9, <3>1, NothingMore
    <3>4. capTurnOutput(o \o Range(m + 1, m)) = Kept!Text(m)
      BY <3>1, <3>2, Follows
    <3> QED
      BY <3>2, <3>3, <3>4
  <2> QED
    <3>1. n = c
      BY <1>8, <1>9
    <3>2. new = Kept!Text(Most(n, 1) - 1)
      BY <1>0, <1>6, <2>1, <3>1
    <3>3. n <= g
      BY <1>6, <3>1
    <3> QED
      BY <1>c, <1>2, <3>1, <3>2, <3>3
<1>10. ASSUME a <= b PROVE Fits
  <2>1. a = Most(c, 1) /\ n = b + 1 /\ Most(n, 1) = b + 1 /\ c <= n /\ n <= g
    BY <1>1, <1>2, <1>3, <1>4, <1>8, <1>10 DEF Most
  <2>2. b \in Nat /\ a - 1 \in Nat /\ a - 1 <= b /\ b <= MaxChunks
    BY <1>1, <1>2, <1>4, <1>10, Constants
  <2>3. o = Kept!Text(a - 1)
    BY <1>6, <2>1
  <2>4. capTurnOutput(o \o Range((a - 1) + 1, b)) = Kept!Text(b)
    <3> DEFINE m == a - 1
    <3>1. m \in Nat /\ m <= b /\ o = Kept!Text(m)
      BY <2>2, <2>3
    <3> HIDE DEF m
    <3>2. capTurnOutput(o \o Range(m + 1, b)) = Kept!Text(b)
      BY <2>2, <3>1, Follows
    <3> QED
      BY <3>2 DEF m
  <2>5. (a - 1) + 1 = a /\ Most(n, 1) - 1 = b
    BY <1>1, <2>1
  <2> QED
    <3>1. new = Kept!Text(Most(n, 1) - 1)
      BY <1>0, <2>4, <2>5
    <3> QED
      BY <1>c, <2>1, <3>1
<1>11. Fits
  BY <1>1, <1>9, <1>10
<1> QED
  BY <1>b, <1>2, <1>6, <1>11 DEF c, g, o, e, new, over

LEMMA ArmPollCommitsInv ==
    ASSUME IInv, NEW p \in Pollers, ArmPollCommits(p), UNCHANGED runs
    PROVE  IInv'
<1> USE DEF IInv, Typed, RecordsTyped
<1> DEFINE t == poll[p].turn
           n == NextSequence(p, t)
           text == CommitText(p)
<1>1. t \in Turns /\ Durable(t) /\ lock[t] = p /\ row[t] = "open" /\ poll[p].pc = "commit"
  BY DEF ArmPollCommits, Polls, PollOf, ArmPcs
<1>2. /\ n \in Nat /\ cursor[t] \in Nat /\ guest[t].next \in 1..MaxChunks + 1
      /\ cursor[t] <= n /\ n <= guest[t].next
      /\ text = Kept!Text(Most(n, 1) - 1)
  <2>1. t = poll[p].turn /\ n = NextSequence(p, t) /\ text = CommitText(p)
    OBVIOUS
  <2>2. poll[p].pc = "commit" /\ t \in Turns
    BY <1>1
  <2> HIDE DEF IInv, t, n, text
  <2>3. /\ n \in Nat /\ cursor[t] \in Nat /\ guest[t].next \in 1..MaxChunks + 1
        /\ cursor[t] <= n /\ n <= guest[t].next
        /\ CommitText(p) = Kept!Text(Most(n, 1) - 1)
    BY <2>1, <2>2, CommitFacts
  <2> QED
    BY <2>1, <2>3
<1>3. /\ Unlock(t) /\ cursor' = [cursor EXCEPT ![t] = n]
      /\ output' = [output EXCEPT ![t] = text]
      /\ \/ ClaimExit(t) /\ AppendReply(t, text) /\ PollGoes(p, "seatBack")
         \/ PollEnds(p) /\ UNCHANGED <<row, replies>>
      /\ UNCHANGED <<path, runtime, start, seat, mishaps, guest, after>>
  BY DEF ArmPollCommits, CommitText
<1> HIDE DEF n, text
<1>4. PollTyped' /\ Plain(p)
  <2>1. "seatBack" \in PollPcs
    BY DEF PollPcs
  <2> QED
    BY <1>1, <1>3, <2>1, PollSet, Goes DEF Plain
<1>5. Alone(p) /\ Fair(p)' /\ AnswerOf(p)' /\ NextOf(p)' /\ poll'[p].pc \notin {"message", "reply"}
  BY <1>3, <1>4, PlainFacts
<1>6. text \in Seq(0..MaxChunks)
  <2> DEFINE m == Most(n, 1) - 1
  <2>1. m \in Nat /\ m <= MaxChunks
    BY <1>2, Constants DEF Most
  <2>2. text = Kept!Text(m)
    BY <1>2
  <2> HIDE DEF m
  <2> QED
    BY <2>1, <2>2, TextSeq
<1>7. /\ LockTyped' /\ CursorTyped' /\ OutputTyped'
      /\ \A u \in Turns \ {t} : /\ lock'[u] = lock[u] /\ cursor'[u] = cursor[u]
                                /\ output'[u] = output[u]
      /\ cursor'[t] = n /\ output'[t] = text
  <2>1. n \in 0..MaxChunks + 1
    BY <1>2, Constants
  <2> QED
    BY <1>1, <1>3, <1>6, <2>1 DEF Unlock, NativeTyped, LockTyped, CursorTyped, OutputTyped
<1>8. /\ RowTyped' /\ RepliesTyped' /\ \A u \in Turns \ {t} : row'[u] = row[u]
  <2>1. RowTyped' /\ \A u \in Turns \ {t} : row'[u] = row[u]
    BY <1>1, <1>3 DEF ClaimExit, RowTyped
  <2>2. replies[t] \in Seq(Seq(0..MaxChunks))
    BY <1>1 DEF RepliesTyped
  <2>3. Append(replies[t], text) \in Seq(Seq(0..MaxChunks))
    BY <1>6, <2>2
  <2>4. RepliesTyped'
    BY <1>1, <1>3, <2>3 DEF AppendReply, RepliesTyped
  <2> QED
    BY <2>1, <2>4
<1>9. Typed'
  <2>1. GuestTyped' /\ AfterTyped'
    BY <1>3 DEF NativeTyped, GuestTyped, AfterTyped
  <2> QED
    BY <1>3, <1>4, <1>7, <1>8, <2>1, NativePollTypes, SeatSame, MishapsSame DEF NativeTyped
<1>10. Untouched(p)
  <2> HIDE DEF IInv
  <2>1. ASSUME NEW q \in Pollers \ {p}, poll[q].pc \in ArmPcs
        PROVE  poll[q].turn \in Turns \ {t}
    BY <1>1, <2>1, Locked
  <2> QED
    BY <1>7, <1>8, <2>1 DEF Untouched
<1>11. Unbegun' /\ Heard
  BY <1>3 DEF Unbegun, Heard
<1>12. Cursors'
  <2>1. \A u \in Turns : Durable(u)' = Durable(u)
    BY <1>3 DEF Durable
  <2>2. \A u \in Turns \ {t} :
          /\ cursor'[u] <= guest'[u].next
          /\ Durable(u)' => /\ guest'[u].lo <= Most(cursor'[u], 1)
                            /\ output'[u] = Kept!Text(Most(cursor'[u], 1) - 1)
    BY <1>3, <1>7, <2>1 DEF Cursors
  <2>3. guest[t].lo <= Most(n, 1)
    <3>1. guest[t].lo \in Nat /\ guest[t].lo <= Most(cursor[t], 1)
      <4>1. guest[t].lo \in Nat
        BY <1>1, Constants DEF NativeTyped, GuestTyped
      <4>2. Cursors
        OBVIOUS
      <4> HIDE DEF IInv
      <4> QED
        BY <1>1, <4>1, <4>2 DEF Cursors
    <3> QED
      BY <1>2, <3>1 DEF Most
  <2> QED
    BY <1>2, <1>3, <1>7, <2>2, <2>3 DEF Cursors
<1>13. Replied'
  <2> HIDE DEF IInv
  <2> QED
    BY <1>1, <1>3, <1>5, <1>6, SilentStep, ToldStep
<1> QED
  BY <1>3, <1>5, <1>9, <1>10, <1>11, <1>12, <1>13, PollInv
LEMMA DirectPollAsksInv ==
    ASSUME IInv, NEW p \in Pollers, NEW t \in Turns, DirectPollAsks(p, t), UNCHANGED runs
    PROVE  IInv'
<1> USE DEF IInv, Typed, RecordsTyped
<1> DEFINE r == Returned(t, after[t])
<1>1. ~Durable(t) /\ guest[t].at = "open" /\ after[t] \in Nat
  BY Constants DEF DirectPollAsks, Durable, NativeTyped, AfterTyped
<1>2. Acknowledge(t, after[t]) /\ UNCHANGED <<path, runtime, row, replies, cursor, output, lock, after>>
  BY DEF DirectPollAsks
<1>3. /\ GuestTyped' /\ Unbegun' /\ Heard
      /\ \A u \in Turns \ {t} : guest'[u] = guest[u]
  BY <1>1, <1>2, Acknowledged
<1>4. r.from \in Nat /\ r.to \in Nat /\ r.from >= 1 /\ r.to < guest[t].next
  BY <1>1, ReturnedFits
<1>5. guest[t].next \in Nat /\ guest[t].eof \in BOOLEAN /\ guest[t].code \in BOOLEAN
  BY Constants DEF NativeTyped, GuestTyped
<1>6. poll' = [poll EXCEPT ![p] =
         [pc |-> "save", turn |-> t, exited |-> Exited(guest[t]), lease |-> FALSE,
          from |-> r.from, to |-> r.to, next |-> guest[t].next]]
  BY DEF DirectPollAsks
<1> HIDE DEF r
<1>7. /\ PollTyped' /\ Alone(p)
      /\ poll'[p].pc = "save" /\ poll'[p].turn = t /\ poll'[p].exited = Exited(guest[t])
      /\ poll'[p].from = r.from /\ poll'[p].to = r.to /\ poll'[p].next = guest[t].next
  BY <1>4, <1>5, <1>6 DEF PollTyped, PollPcs, DirectPcs, Alone, Exited
<1>8. Typed'
  BY <1>2, <1>3, <1>7, NativePollTypes, RestSame, RowSame, RepliesSame, SeatSame, MishapsSame
     DEF DirectPollAsks, NativeTyped
<1>9. Cursors'
  <2>1. \A u \in Turns : Durable(u)' = Durable(u)
    BY <1>2 DEF Durable
  <2> QED
    BY <1>1, <1>2, <1>3, <2>1 DEF Cursors, Heard
<1>10. Fair(p)' /\ NextOf(p)'
  BY <1>7 DEF DirectPollAsks, Fair, PollOf, NextOf, ArmPcs, DirectPcs, RunPcs
<1>11. AnswerOf(p)'
  <2>1. Holding(poll'[p], guest'[t])
    BY <1>3, <1>4, <1>5, <1>7 DEF Holding, Heard, Exited
  <2> QED
    BY <1>7, <2>1 DEF AnswerOf
<1>12. Untouched(p) /\ Replied'
  BY <1>2, <1>7, SilentStep DEF Untouched
<1> QED
  BY <1>2, <1>3, <1>7, <1>8, <1>9, <1>10, <1>11, <1>12, PollInv

\* A poll that finds the turn ended, or no session, goes on to the seat.
LEMMA SeatBackInv ==
    ASSUME IInv, NEW p \in Pollers, NEW t \in Turns,
           ArmPollSaved(p, t) \/ DirectPollMisses(p, t), UNCHANGED runs
    PROVE  IInv'
<1> USE DEF IInv, Typed, RecordsTyped
<1>1. /\ poll' = [poll EXCEPT ![p] = [NoPoll EXCEPT !.pc = "seatBack", !.turn = t]]
      /\ UNCHANGED <<path, runtime, start, row, replies, seat, mishaps, native>>
  BY DEF ArmPollSaved, DirectPollMisses
<1>2. PollTyped' /\ Plain(p)
  BY <1>1 DEF PollTyped, PollPcs, NoPoll, Plain, Alone
<1>3. Typed'
  BY <1>1, <1>2, NativePollTypes, NativeSame, RowSame, RepliesSame, SeatSame, MishapsSame
<1> QED
  BY <1>1, <1>2, <1>3, PlainStep

LEMMA PollReturnsSeatInv ==
    ASSUME IInv, NEW p \in Pollers, PollReturnsSeat(p), UNCHANGED runs
    PROVE  IInv'
<1> USE DEF IInv, Typed, RecordsTyped
<1>1. poll[p].turn \in Turns
  BY DEF PollReturnsSeat, Polls, PollOf
<1>2. PollTyped' /\ Plain(p)
  BY PollSet DEF PollReturnsSeat, Plain, PollPcs
<1>3. SeatTyped'
  BY <1>1, SeatSet, AllRefs DEF PollReturnsSeat
<1>4. Typed'
  BY <1>2, <1>3, NativePollTypes, NativeSame, RowSame, RepliesSame, MishapsSame
     DEF PollReturnsSeat
<1> QED
  BY <1>2, <1>4, PlainStep DEF PollReturnsSeat

LEMMA DirectPollAnswersInv ==
    ASSUME IInv, NEW p \in Pollers, DirectPollAnswers(p), UNCHANGED runs
    PROVE  IInv'
<1> USE DEF IInv, Typed, RecordsTyped
<1>1. PollTyped' /\ Plain(p)
  BY PollSet DEF DirectPollAnswers, Plain, PollPcs
<1>2. poll[p].turn \in Turns /\ poll[p].next \in 0..MaxChunks + 1
  BY Constants DEF DirectPollAnswers, Polls, PollOf, Nexts, PollTyped
<1>3. NativeTyped'
  BY <1>2 DEF DirectPollAnswers, NativeTyped, GuestTyped, CursorTyped, OutputTyped, LockTyped,
              AfterTyped
<1>4. Typed'
  BY <1>1, <1>3, NativePollTypes, RowSame, RepliesSame, SeatSame, MishapsSame
     DEF DirectPollAnswers
<1>5. Alone(p) /\ Fair(p)' /\ AnswerOf(p)' /\ NextOf(p)' /\ poll'[p].pc \notin {"message", "reply"}
  BY <1>1, PlainFacts DEF DirectPollAnswers
<1>6. Unbegun' /\ Cursors' /\ Heard /\ Untouched(p)
  BY DEF DirectPollAnswers, Unbegun, Cursors, Durable, Heard, Untouched
<1>7. Replied'
  BY <1>5, SilentStep DEF DirectPollAnswers
<1> QED
  BY <1>4, <1>5, <1>6, <1>7, PollInv DEF DirectPollAnswers

LEMMA DirectPollRepliesInv ==
    ASSUME IInv, NEW p \in Pollers, DirectPollReplies(p), UNCHANGED runs
    PROVE  IInv'
<1> USE DEF IInv, Typed, RecordsTyped
<1> DEFINE t == poll[p].turn
<1>1. t \in Turns /\ Ending(p, t)
  BY DEF DirectPollReplies, Polls, PollOf, Ending
<1>2. output[t] \in Seq(0..MaxChunks)
  BY <1>1 DEF NativeTyped, OutputTyped
<1>3. "seatBack" \in PollPcs
  BY DEF PollPcs
<1>4. PollTyped' /\ Plain(p)
  BY <1>1, <1>3, PollSet, Goes DEF DirectPollReplies, Plain
<1>5. RepliesTyped'
  <2>1. Append(replies[t], output[t]) \in Seq(Seq(0..MaxChunks))
    <3>1. replies[t] \in Seq(Seq(0..MaxChunks))
      BY <1>1 DEF RepliesTyped
    <3> QED
      BY <1>2, <3>1
  <2> QED
    BY <1>1, <2>1 DEF DirectPollReplies, AppendReply, RepliesTyped
<1>6. Typed'
  BY <1>4, <1>5, NativePollTypes, NativeSame, RowSame, SeatSame, MishapsSame
     DEF DirectPollReplies
<1>7. Alone(p) /\ Fair(p)' /\ AnswerOf(p)' /\ NextOf(p)' /\ poll'[p].pc \notin {"message", "reply"}
  BY <1>4, PlainFacts DEF DirectPollReplies
<1>8. Replied'
  BY <1>1, <1>2, <1>7, ToldStep DEF DirectPollReplies
<1>9. Unbegun' /\ Cursors' /\ Heard /\ Untouched(p)
  BY NativeKept DEF DirectPollReplies, Untouched, native
<1> QED
  BY <1>6, <1>7, <1>8, <1>9, PollInv DEF DirectPollReplies

LEMMA DirectPollSavesInv ==
    ASSUME IInv, NEW p \in Pollers, DirectPollSaves(p), UNCHANGED runs
    PROVE  IInv'
<1> USE DEF IInv, Typed, RecordsTyped
<1> DEFINE t == poll[p].turn
           a == poll[p].from
           b == poll[p].to
           k == poll[p].next
           text == capTurnOutput(output[t] \o Range(a, b))
<1>1. /\ t \in Turns /\ path[t] = "native" /\ runtime = "firecracker" /\ ~Durable(t)
      /\ Holding(poll[p], guest[t])
  BY DEF DirectPollSaves, Polls, PollOf, DirectPcs, Answers, Durable
<1>2. a \in Nat \ {0} /\ b \in Nat /\ b <= MaxChunks /\ k \in Nat /\ k <= MaxChunks + 1
  <2>1. guest[t].next \in Nat /\ guest[t].next <= MaxChunks + 1
    BY <1>1, Constants DEF NativeTyped, GuestTyped
  <2>2. a \in Nat /\ b \in Nat /\ k \in Nat
    BY DEF PollTyped
  <2>3. a >= 1 /\ b < k /\ k <= guest[t].next
    BY <1>1 DEF Holding
  <2> HIDE DEF a, b, k
  <2> QED
    BY <2>1, <2>2, <2>3, Constants
<1>3. text \in Seq(0..MaxChunks)
  <2>1. output[t] \in Seq(0..MaxChunks)
    BY <1>1 DEF NativeTyped, OutputTyped
  <2>2. Range(a, b) \in Seq(0..MaxChunks)
    <3> HIDE DEF a, b
    <3> QED
      BY <1>2, RangeSeq
  <2>3. output[t] \o Range(a, b) \in Seq(0..MaxChunks)
    BY <2>1, <2>2
  <2> QED
    BY <2>3, CapTyped
<1>4. /\ output' = [output EXCEPT ![t] = text] \/ UNCHANGED output
      /\ \/ UNCHANGED row
         \/ ClaimExit(t) /\ PollGoes(p, "reply")
      /\ \/ ClaimExit(t) /\ PollGoes(p, "reply")
         \/ UNCHANGED row /\ (PollGoes(p, "respond") \/ PollGoes(p, "seatBack"))
      /\ Mishap \/ UNCHANGED mishaps
      /\ UNCHANGED <<path, runtime, start, replies, seat, guest, cursor, lock, after>>
  BY DEF DirectPollSaves
<1>5. /\ PollTyped' /\ Alone(p) /\ poll'[p].turn = t /\ poll'[p].next = k
      /\ poll'[p].pc \in {"reply", "respond", "seatBack"}
      /\ UNCHANGED row => poll'[p].pc # "reply"
  <2>1. "reply" \in PollPcs /\ "respond" \in PollPcs /\ "seatBack" \in PollPcs
    BY DEF PollPcs, DirectPcs
  <2>2. ClaimExit(t) => row' # row
    BY <1>1 DEF ClaimExit, RowTyped
  <2> QED
    BY <1>4, <2>1, <2>2, PollSet, Goes
<1>6. OutputTyped'
  BY <1>1, <1>3, <1>4 DEF NativeTyped, OutputTyped
<1>7. NativeTyped' /\ RowTyped'
  BY <1>1, <1>4, <1>6, RowSet, RowSame DEF NativeTyped, GuestTyped, CursorTyped, LockTyped, AfterTyped
<1>8. Typed'
  BY <1>4, <1>5, <1>7, NativePollTypes, RepliesSame, SeatSame, MishapsSame, MishapSet
     DEF DirectPollSaves
<1>9. Untouched(p)
  <2> HIDE DEF IInv, t
  <2> QED
    BY <1>1, <1>4, ElsewhereExits
<1>10. Unbegun' /\ Heard
  BY <1>4 DEF Unbegun, Heard
<1>11. Cursors'
  <2>1. \A u \in Turns : Durable(u)' = Durable(u)
    BY <1>4 DEF Durable
  <2>2. \A u \in Turns : Durable(u) => output'[u] = output[u]
    BY <1>1, <1>4 DEF NativeTyped, OutputTyped
  <2>3. Cursors
    OBVIOUS
  <2> HIDE DEF IInv
  <2> QED
    BY <1>4, <2>1, <2>2, <2>3 DEF Cursors
<1>12. Fair(p)' /\ AnswerOf(p)' /\ NextOf(p)'
  BY <1>1, <1>2, <1>4, <1>5 DEF Fair, PollOf, AnswerOf, NextOf, ArmPcs, DirectPcs, RunPcs
<1>13. Replied'
  <2>1. CASE UNCHANGED row
    BY <1>4, <1>5, <2>1, SilentStep
  <2>2. CASE ClaimExit(t)
    BY <1>1, <1>4, <1>5, <2>2, ClaimStep
  <2> QED
    BY <1>4, <2>1, <2>2
<1> QED
  BY <1>4, <1>5, <1>8, <1>9, <1>10, <1>11, <1>12, <1>13, PollInv

LEMMA PollDiesInv ==
    ASSUME IInv, NEW p \in Pollers, PollDies(p)
    PROVE  IInv'
<1> USE DEF IInv, Typed, RecordsTyped
<1>1. PollTyped' /\ Plain(p)
  BY PollSet DEF PollDies, Plain, PollPcs
<1>2. NativeTyped'
  BY DEF PollDies, NativeTyped, GuestTyped, CursorTyped, OutputTyped, LockTyped, AfterTyped
<1>3. Typed'
  BY <1>1, <1>2, NativePollTypes, RowSame, RepliesSame, SeatSame, MishapSet DEF PollDies
<1>4. Alone(p) /\ Fair(p)' /\ AnswerOf(p)' /\ NextOf(p)' /\ poll'[p].pc \notin {"message", "reply"}
  BY <1>1, PlainFacts DEF PollDies
<1>5. Untouched(p)
  <2>1. ASSUME NEW q \in Pollers \ {p}, poll[q].pc \in ArmPcs
        PROVE  lock'[poll[q].turn] = lock[poll[q].turn]
    <3>1. poll[q].turn \in Turns /\ lock[poll[q].turn] = q
      BY <2>1 DEF Polls, PollOf, ArmPcs
    <3> QED
      BY <3>1 DEF PollDies
  <2> QED
    BY <2>1 DEF Untouched, PollDies
<1>6. Unbegun' /\ Cursors' /\ Heard
  BY DEF PollDies, Unbegun, Cursors, Durable, Heard
<1>7. Replied'
  BY <1>4, SilentStep DEF PollDies
<1> QED
  BY <1>3, <1>4, <1>5, <1>6, <1>7, PollInv DEF PollDies
-----------------------------------------------------------------------------
(* The invariant: the steps by what they may change                          *)

SeatStep == (SeatGoesStale \/ RoomReply) /\ UNCHANGED <<native, runs>>

\* Handlers that touch neither the turn's row nor the guest.
NativeHandler(t) ==
    /\ UNCHANGED runs
    /\ NativeBegins(t) \/ NativeClaims(t) \/ NativeRetags(t) \/ NativeUnseats(t)
RunHandler(t) ==
    /\ UNCHANGED native
    /\ \/ RunRegisters(t) \/ RunClaims(t) \/ RunLeases(t) \/ RunAsks(t) \/ RunAnswered(t)
       \/ RunStarted(t) \/ RunStartFails(t) \/ RunRetried(t)
       \/ HostLaunches(t) \/ AgentEnds(t) \/ CancelBegins(t) \/ CancelStops(t)
       \/ CancelEnds(t) \/ MonitorLists(t) \/ MonitorChecks(t) \/ MonitorRecovers(t)
       \/ HandlerDies(t)
HandlerStep(t) ==
    \/ StartDies(t) /\ UNCHANGED <<native, runs>>
    \/ NativeHandler(t) \/ RunHandler(t)

RecordStep(t) ==
    \/ NativeRecords(t) /\ UNCHANGED runs
    \/ RunRecords(t) /\ UNCHANGED native

SessionStep(t) ==
    /\ UNCHANGED runs
    /\ Guest(t) \/ NativeAsks(t) \/ NativeAnswered(t) \/ NativeCancel(t)

BeginStep(p, t) ==
    \/ /\ UNCHANGED runs
       /\ \/ ArmPollBegins(p, t) \/ ArmPollSaved(p, t)
          \/ DirectPollAsks(p, t) \/ DirectPollMisses(p, t)
    \/ RunPollBegins(p, t) /\ UNCHANGED native

CommitStep(p) == ArmPollCommits(p) /\ UNCHANGED runs

\* The queue of the cron moves, or nothing does.
QueueStep == UNCHANGED <<records, native, runs>>

PollStep(p) ==
    \/ /\ UNCHANGED runs
       /\ \/ ArmPollAsks(p) \/ PollReturnsSeat(p) \/ DirectPollSaves(p)
          \/ DirectPollReplies(p) \/ DirectPollAnswers(p)
    \/ RunPoll(p) /\ UNCHANGED native
    \/ PollDies(p)

LEMMA Steps ==
    ASSUME Next
    PROVE  \/ SeatStep \/ VmStops \/ QueueStep
           \/ \E t \in Turns : HandlerStep(t) \/ RecordStep(t) \/ SessionStep(t)
           \/ \E p \in Pollers : CommitStep(p) \/ PollStep(p)
           \/ \E p \in Pollers, t \in Turns : BeginStep(p, t)
<1> USE DEF Next
<1>1. CASE NativeNext
  <2>1. CASE \E p \in Pollers, t \in Turns : NativeBegin(p, t)
    <3> SUFFICES ASSUME NEW p \in Pollers, NEW t \in Turns, NativeBegin(p, t), UNCHANGED runs
                 PROVE  HandlerStep(t) \/ BeginStep(p, t)
      BY <1>1, <2>1 DEF NativeNext
    <3> QED
      BY DEF NativeBegin, HandlerStep, NativeHandler, BeginStep
  <2>2. CASE \E t \in Turns : Guest(t) \/ NativeStart(t) \/ NativeCancel(t)
    <3> SUFFICES ASSUME NEW t \in Turns, UNCHANGED runs,
                        Guest(t) \/ NativeStart(t) \/ NativeCancel(t)
                 PROVE  HandlerStep(t) \/ RecordStep(t) \/ SessionStep(t)
      BY <1>1, <2>2 DEF NativeNext
    <3> QED
      BY DEF NativeStart, HandlerStep, NativeHandler, RecordStep, SessionStep
  <2>3. CASE \E p \in Pollers : NativePoll(p)
    BY <1>1, <2>3 DEF NativeNext, NativePoll, CommitStep, PollStep
  <2> QED
    BY <1>1, <2>1, <2>2, <2>3 DEF NativeNext
<1>2. CASE RunNext
  <2>1. CASE \E p \in Pollers, t \in Turns : RunBegin(p, t)
    <3> SUFFICES ASSUME NEW p \in Pollers, NEW t \in Turns, RunBegin(p, t), UNCHANGED native
                 PROVE  HandlerStep(t) \/ BeginStep(p, t)
      BY <1>2, <2>1 DEF RunNext
    <3> QED
      BY DEF RunBegin, HandlerStep, RunHandler, BeginStep
  <2>2. CASE \E t \in Turns :
               \/ RunStart(t) \/ HostLaunches(t) \/ AgentEnds(t)
               \/ CancelStops(t) \/ CancelEnds(t)
               \/ MonitorChecks(t) \/ MonitorRecovers(t) \/ HandlerDies(t)
    <3> SUFFICES ASSUME NEW t \in Turns, UNCHANGED native,
                        \/ RunStart(t) \/ HostLaunches(t) \/ AgentEnds(t)
                        \/ CancelStops(t) \/ CancelEnds(t)
                        \/ MonitorChecks(t) \/ MonitorRecovers(t) \/ HandlerDies(t)
                 PROVE  HandlerStep(t) \/ RecordStep(t)
      BY <1>2, <2>2 DEF RunNext
    <3> QED
      BY DEF RunStart, HandlerStep, RunHandler, RecordStep
  <2>3. CASE \E p \in Pollers : RunPoll(p)
    BY <1>2, <2>3 DEF RunNext, PollStep
  <2> QED
    BY <1>2, <2>1, <2>2, <2>3 DEF RunNext
<1>3. CASE RecordsNext
  BY <1>3 DEF RecordsNext, SeatStep, HandlerStep
<1>4. CASE VmStops \/ \E p \in Pollers : PollDies(p)
  BY <1>4 DEF PollStep
<1>5. CASE QueueNext
  BY <1>5 DEF QueueNext, Served, CronMeetsLock, QueueStep
<1> QED
  BY <1>1, <1>2, <1>3, <1>4, <1>5

LEMMA HandlerInv ==
    ASSUME IInv, NEW t \in Turns, HandlerStep(t)
    PROVE  IInv' /\ Framed
<1>1. Typed' /\ Framed
  <2>1. CASE \/ StartDies(t) /\ UNCHANGED <<native, runs>>
             \/ NativeHandler(t)
    BY <2>1, TypedRecordSteps DEF NativeHandler, IInv
  <2>2. CASE RunHandler(t)
    BY <2>2, TypedRunStart, TypedRun DEF RunHandler, IInv
  <2> QED
    BY <2>1, <2>2 DEF HandlerStep
<1> QED
  BY <1>1, FrameInv DEF Framed

LEMMA SeatStepInv ==
    ASSUME IInv, SeatStep
    PROVE  IInv' /\ Framed
<1>1. Typed' /\ Framed
  BY TypedSeatSteps DEF SeatStep, IInv
<1> QED
  BY <1>1, FrameInv DEF Framed

LEMMA PollStepInv ==
    ASSUME IInv, NEW p \in Pollers, PollStep(p)
    PROVE  IInv'
<1>1. CASE /\ UNCHANGED runs
           /\ \/ ArmPollAsks(p) \/ PollReturnsSeat(p) \/ DirectPollSaves(p)
              \/ DirectPollReplies(p) \/ DirectPollAnswers(p)
  BY <1>1, ArmPollAsksInv, PollReturnsSeatInv, DirectPollSavesInv, DirectPollRepliesInv,
     DirectPollAnswersInv
<1>2. CASE RunPoll(p) /\ UNCHANGED native
  BY <1>2, RunPollAsksInv, RunPollRecordsInv, RunPollRepliesInv, RunPollBeatsInv,
     RunPollFinishesInv DEF RunPoll
<1>3. CASE PollDies(p)
  BY <1>3, PollDiesInv
<1> QED
  BY <1>1, <1>2, <1>3 DEF PollStep

LEMMA QueueInv == IInv /\ QueueStep => IInv'
<1> SUFFICES ASSUME IInv, QueueStep PROVE IInv'
  OBVIOUS
<1>1. UNCHANGED <<records, native, runs>>
  BY DEF QueueStep
<1>2. Typed'
  BY <1>1, PathSame, StartSame, PollSame, RowSame, RepliesSame, SeatSame, MishapsSame,
     NativeSame, RunsSame DEF records, IInv, Typed, RecordsTyped
<1> QED
  BY <1>1, <1>2, FrameInv DEF records

LEMMA StepInv == IInv /\ Next => IInv'
<1> SUFFICES ASSUME IInv, Next PROVE IInv'
  OBVIOUS
<1>1. CASE SeatStep \/ VmStops \/ QueueStep
  BY <1>1, SeatStepInv, VmStopsInv, QueueInv
<1>2. ASSUME NEW t \in Turns, HandlerStep(t) \/ RecordStep(t) \/ SessionStep(t) PROVE IInv'
  BY <1>2, HandlerInv, RecordsInv, GuestSteps DEF RecordStep, SessionStep
<1>3. ASSUME NEW p \in Pollers, CommitStep(p) \/ PollStep(p) PROVE IInv'
  BY <1>3, ArmPollCommitsInv, PollStepInv DEF CommitStep
<1>4. ASSUME NEW p \in Pollers, NEW t \in Turns, BeginStep(p, t) PROVE IInv'
  BY <1>4, ArmPollBeginsInv, SeatBackInv, DirectPollAsksInv, RunPollBeginsInv DEF BeginStep
<1> QED
  BY <1>1, <1>2, <1>3, <1>4, Steps

LEMMA StutterInv == IInv /\ UNCHANGED vars => IInv'
BY QueueInv DEF vars, QueueStep

\* A turn's place in the queue stays within it.
LEMMA AheadStep == AheadTyped /\ [Next]_vars => AheadTyped'
<1> SUFFICES ASSUME AheadTyped, [Next]_vars PROVE AheadTyped'
  OBVIOUS
<1>1. Others \in 0..Others
  BY QueueAssumption
<1>2. ASSUME NEW t, Last(t) PROVE AheadTyped'
  BY <1>1, <1>2 DEF AheadTyped, Last
<1>3. CASE UNCHANGED ahead
  BY <1>3 DEF AheadTyped
<1>4. ASSUME NEW t \in Turns, Served(t) PROVE AheadTyped'
  <2>1. ahead[t] \in 0..Others /\ ahead[t] > Stuck /\ Stuck \in 0..Others
    BY <1>4, QueueAssumption DEF Served, AheadTyped
  <2>2. ahead[t] - 1 \in 0..Others
    BY <2>1, QueueAssumption
  <2> QED
    BY <1>4, <2>2 DEF AheadTyped, Served, Rotated
<1>5. CASE QueueNext
  BY <1>2, <1>4, <1>5 DEF QueueNext, CronMeetsLock
<1>6. CASE NativeNext
  BY <1>2, <1>3, <1>6 DEF NativeNext, NativePoll, Requeues
<1>7. CASE RunNext
  BY <1>2, <1>3, <1>7 DEF RunNext, RunPoll, Requeues
<1>8. CASE RecordsNext \/ VmStops \/ \E p \in Pollers : PollDies(p)
  BY <1>3, <1>8 DEF RecordsNext, VmStops, PollDies
<1>9. CASE UNCHANGED vars
  BY <1>3, <1>9 DEF vars
<1> QED
  BY <1>5, <1>6, <1>7, <1>8, <1>9 DEF Next

\* The inductive invariant: acknowledged is what is committed, committed is what was
\* returned, and of all handlers that have seen the end of a turn one ends it.
THEOREM InvariantHolds == Spec => []IInv
<1>1. IInv /\ [Next]_vars => IInv'
  BY StepInv, StutterInv
<1> QED
  BY InitInv, <1>1, PTL DEF Spec

\* Records, sessions, runs and handlers are well formed, whatever overlaps.
THEOREM TypeCorrect == Spec => []TypeOK
<1>1. IInv /\ AheadTyped => TypeOK
  BY TypedIsOK DEF IInv
<1>2. Init => AheadTyped
  BY QueueAssumption DEF Init, AheadTyped
<1> QED
  BY <1>1, <1>2, AheadStep, InvariantHolds, PTL DEF Spec

\* A turn ends with one message, however many polls see its end (turn-chunks.ts,
\* superset-runs.ts).
THEOREM RepliesOnce == Spec => []ReplyOnce
<1>1. IInv => ReplyOnce
  BY DEF IInv, Replied, ReplyOnce
<1> QED
  BY <1>1, InvariantHolds, PTL
=============================================================================
