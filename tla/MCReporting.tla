----------------------------- MODULE MCReporting -----------------------------
(***************************************************************************)
(* Small instance of Reporting: a heartbeat every three seconds and ticks  *)
(* of one or two seconds, so that a heartbeat falls due on a tick, or      *)
(* between two.                                                            *)
(***************************************************************************)
EXTENDS Reporting

MCTickTimes == {1, 2}

=============================================================================
