--------------------------- MODULE RecentReadings ---------------------------
(***************************************************************************)
(* What the short-term memory promises: it holds the last Capacity         *)
(* readings of this process, in the order they came, and loses nothing     *)
(* younger; with the process it loses everything.                          *)
(***************************************************************************)
EXTENDS Sequences, Naturals

CONSTANTS Capacity, Reading

VARIABLE recent     \* the readings held, the oldest first

Init == recent = <<>>

Remember(r) ==
  recent' = Append(IF Len(recent) < Capacity THEN recent ELSE Tail(recent), r)

Forget == recent' = <<>>

Next == (\E r \in Reading : Remember(r)) \/ Forget

Spec == Init /\ [][Next]_recent

=============================================================================
