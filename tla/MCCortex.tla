------------------------------ MODULE MCCortex ------------------------------
(***************************************************************************)
(* Small instance of CortexHysteresis.  The distances are 0 and one value  *)
(* at each threshold of the package (3.5, 5.5, 8.0, 12.0 in half units),   *)
(* so that every level is demanded by magnitude; a second takes the        *)
(* derivative over the escalation threshold, ten seconds do not.           *)
(***************************************************************************)
EXTENDS CortexHysteresis

MCDMs     == {0, 6, 7, 10, 11, 15, 16, 23, 24, 30}
MCElapsed == {0, 1, 10}
Unset     == 0

=============================================================================
