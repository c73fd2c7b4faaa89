-------------------------- MODULE MCConfiguration --------------------------
(***************************************************************************)
(* Two or three values per setting: for the thresholds, values on either   *)
(* side of a neighbour's default and values that are not positive; for a   *)
(* setting with a flag, the default as well, which a flag may repeat.      *)
(***************************************************************************)
EXTENDS Configuration

MCWritten ==
  [s \in Setting |->
     CASE s = "vigilance" -> {0, 7, 12}
       [] s = "containment" -> {6, 11, 20}
       [] s = "protection" -> {10, 16, 26}
       [] s = "survival" -> {16, 24, 30}
       [] s = "survival_enabled" -> {0, 1}
       [] s = "alpha" -> {0, 20, 120}
       [] s = "min_samples" -> {1, 2, 30}
       [] s = "escalate" -> {0, 3}
       [] s = "relax" -> {-1, 2}
       [] s = "hysteresis" -> {0, 1, 5}
       [] s = "normal_ms" -> {0, 50, 1000}
       [] s = "vigilance_ms" -> {0, 50, 100}
       [] s = "containment_frac" -> {30, 100}
       [] s = "high_frac" -> {0, 20, 80}
       [] s = "max_frac" -> {0, 60}
       [] s = "frag_entropy" -> {0, 78}
       [] s = "cpu_weight" -> {0, 100}]
=============================================================================
