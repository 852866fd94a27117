---------------------------- MODULE MCTelemetry ----------------------------
(* Telemetry on small instances.                                            *)
EXTENDS Telemetry, TLC

CONSTANTS j1, j2

(* Odd rows belong to one job, even rows to the other.                      *)
TwoJobs == [i \in 1 .. MaxId |-> IF i % 2 = 1 THEN j1 ELSE j2]
=============================================================================
