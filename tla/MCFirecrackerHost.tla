-------------------------- MODULE MCFirecrackerHost --------------------------
(* FirecrackerHost and its properties on small instances.                  *)
EXTENDS FirecrackerProperties, TLC

\* Bound: one failure, or exits of guests.
OneMishap == faults <= 1 /\ (faults = 0 \/ exits = 0)
=============================================================================
