--------------------------- MODULE HysteresisLevel ---------------------------
(***************************************************************************)
(* What the Predictive Cortex promises about the alert level, stated       *)
(* without a counter: the level follows a higher demand at once, and it    *)
(* falls only when the last H readings, all taken while this level was in  *)
(* force, demanded less and were calm.                                     *)
(***************************************************************************)
EXTENDS AlertLevels

CONSTANT H      \* how many consecutive calm readings a descent takes, at least 1

VARIABLES
  level,
  window        \* the last H readings, the newest at 1

Entry == [demand : Level, relaxes : BOOLEAN, held : Level]

\* A reading that lets level l go: it was taken at l, asked for less, calmly.
Calm(entry, l) == entry.held = l /\ entry.demand < l /\ entry.relaxes

Push(entry) == [i \in 1 .. H |-> IF i = 1 THEN entry ELSE window[i - 1]]

\* Before any reading: entries that are calm for no level.
Blank == [demand |-> LevelHomeostasis, relaxes |-> FALSE, held |-> LevelHomeostasis]

Init ==
  /\ level = LevelHomeostasis
  /\ window = [i \in 1 .. H |-> Blank]

Observe(demand, relaxes) ==
  /\ window' = Push([demand |-> demand, relaxes |-> relaxes, held |-> level])
  /\ level' = IF demand >= level \/ \A i \in 1 .. H : Calm(window'[i], level)
                THEN demand ELSE level

Next == \E demand \in Level, relaxes \in BOOLEAN : Observe(demand, relaxes)

Spec == Init /\ [][Next]_<<level, window>>

=============================================================================
