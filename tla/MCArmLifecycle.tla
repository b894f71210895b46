--------------------------- MODULE MCArmLifecycle ---------------------------
(* ArmLifecycle and its properties on small instances.                     *)
EXTENDS ArmProperties, TLC

Interchangeable == Permutations(Requests)

\* Bound: two requests race for the first operation, before any fault; after that
\* one request at a time races with the cron and the workflows.
RaceEarly ==
    \/ Cardinality({r \in Requests : req[r].pc # "idle"}) <= 1
    \/ faults = 0 /\ nextOp <= 2

\* Bounds of the handoff run: once a run has handed over there are two operations
\* and one fault at most; after both, the runs alone go on.
CronIdle == cron.pc = "idle"
RequestsIdle == \A r \in Requests : req[r].pc = "idle"
HandedOver == \E o \in OpIds : o[2] > 0 /\ wf[o].pc # "none"
FewHandoffs ==
    HandedOver =>
       /\ nextOp <= 3 /\ faults <= 1
       /\ nextOp = 3 /\ faults = 1 => CronIdle /\ RequestsIdle
=============================================================================
