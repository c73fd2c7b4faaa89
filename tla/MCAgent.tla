------------------------------- MODULE MCAgent -------------------------------
(***************************************************************************)
(* Small instance of HosaAgent.  One distance per level, so that every     *)
(* level is demanded and every pair of levels is linked by a rise and a    *)
(* descent; three hysteresis cycles.  The knobs that can fail are one of the *)
(* offender, one of the vital group, and all of them at once.              *)
(***************************************************************************)
EXTENDS HosaAgent

MCDMs     == {0, 7, 11, 16, 24}
MCElapsed == {1, 10}
MCTargets == {"offender", "vital"}
MCFaults  == {{}, {"offender.cpu.weight"}, {"vital.swap.max"}, Survival!Knob}
Unset     == 0

=============================================================================
