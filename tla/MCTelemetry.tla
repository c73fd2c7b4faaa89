------------------------------ MODULE MCTelemetry ------------------------------
(***************************************************************************)
(* Small instance of Telemetry: two requests, so that one can come while   *)
(* another holds the lock that the loop waits for, and two values of each  *)
(* field, so that parts of two snapshots make up a third.  The trough is   *)
(* given in the configurations: one wakeup, so that a count above zero may *)
(* pass it, and none, which is the default of 0.10 in whole wakeups.       *)
(***************************************************************************)
EXTENDS Telemetry

CONSTANTS r1, r2
MCHandler == {r1, r2}
MCLevel == {0, 4}
MCFrag == {0, 9}
MCFragThreshold == 7
MCMaxCount == 2

=============================================================================
