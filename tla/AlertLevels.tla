----------------------------- MODULE AlertLevels -----------------------------
(***************************************************************************)
(* The five response levels of HOSA.  brain.AlertLevel and                 *)
(* motor.ContainmentLevel are two Go types with the same values; the agent *)
(* converts one into the other unchanged.                                  *)
(***************************************************************************)
EXTENDS Naturals

LevelHomeostasis == 0
LevelVigilance   == 1
LevelContainment == 2
LevelProtection  == 3
LevelSurvival    == 4

Level == LevelHomeostasis .. LevelSurvival

=============================================================================
