--------------------------- MODULE ShortTermMemory ---------------------------
(***************************************************************************)
(* The short-term memory (internal/state/memory.go), a ring buffer of      *)
(* readings, and what the Predictive Cortex takes out of it: once per tick *)
(* the main loop inserts the new reading, and Analyze learns and judges    *)
(* the last row of a snapshot of the buffer.                               *)
(*                                                                         *)
(* The buffer has a lock, but the main loop is its only user: Insert and   *)
(* Analyze follow each other in one goroutine, so a tick is one step.  A   *)
(* reading has the dimension of the buffer by construction, so Insert does *)
(* not fail.                                                               *)
(***************************************************************************)
EXTENDS Integers

CONSTANTS
  Capacity,       \* rows of the buffer
  Reading,        \* the readings the sensors can deliver
  NoReading       \* a row not yet written; nothing analysed yet

ASSUME CapacityAssumption == Capacity \in Nat \ {0, 1}
ASSUME ReadingAssumption == NoReading \notin Reading

VARIABLES
  data,           \* rb.data, one reading per row
  head,           \* rb.head, the row the next Insert writes
  count,          \* rb.count
  analysed        \* the reading the last Analyze learnt and judged

memVars == <<data, head, count, analysed>>

EmptyData == [row \in 0 .. Capacity - 1 |-> NoReading]

MemInit ==
  /\ data = EmptyData
  /\ head = 0
  /\ count = 0
  /\ analysed = NoReading

\* Slip: the head wraps one row early.
InsertEarlyWrap(r) ==
  /\ data' = [data EXCEPT ![head] = r]
  /\ head' = (head + 1) % (Capacity - 1)
  /\ count' = IF count < Capacity THEN count + 1 ELSE count

\* The new reading overwrites the row at the head, the oldest once the buffer
\* is full.
Insert(r) ==
  /\ data' = [data EXCEPT ![head] = r]
  /\ head' = (head + 1) % Capacity
  /\ count' = IF count < Capacity THEN count + 1 ELSE count

\* Slip: Analyze takes the first row.
LastRowFirst == data[0]

\* The rows 0 .. count - 1 in the order of the memory underneath; the last of
\* them is the reading Analyze takes.
LastRow == data[count - 1]

\* Analyze does nothing before the second reading.
Analyse ==
  analysed' = IF count' > 1 THEN LastRow' ELSE analysed

MemTick(r) == Insert(r) /\ Analyse

\* The memory is lost with the process; its successor begins with an empty one.
MemRestart ==
  /\ data' = EmptyData
  /\ head' = 0
  /\ count' = 0
  /\ analysed' = NoReading

MemNext == (\E r \in Reading : MemTick(r)) \/ MemRestart

MemSpec == MemInit /\ [][MemNext]_memVars

-----------------------------------------------------------------------------
(* Properties.                                                             *)

\* The buffer has the declared shape; it fills from the first row on, and the
\* rows a snapshot copies have all been written.
TypeOK ==
  /\ data \in [0 .. Capacity - 1 -> Reading \cup {NoReading}]
  /\ \A row \in 0 .. count - 1 : data[row] \in Reading
  /\ head \in 0 .. Capacity - 1
  /\ count \in 0 .. Capacity
  /\ count < Capacity => head = count
  /\ analysed \in Reading \cup {NoReading}

\* The row that holds the i-th oldest reading.
Row(i) == (head + Capacity - count + i - 1) % Capacity

Chronological == [i \in 1 .. count |-> data[Row(i)]]

Recent == INSTANCE RecentReadings WITH recent <- Chronological

\* The buffer implements the window of recent readings: wrapping around loses,
\* repeats and reorders nothing.
ImplementsRecentReadings == Recent!Spec

\* How many readings old the analysed one is: none until the buffer has wrapped,
\* then as many as rows were written since row 0.
Age == IF count < Capacity THEN 0 ELSE head

\* The reading Analyze judges is the one Age readings old: the newest until the
\* buffer wraps, and afterwards, unless head is 0, an older one, although
\* predictor.go:133 says of Analyze "Incorpora a leitura mais recente ao
\* WelfordState".
AnalysedAge == count > 1 => analysed = Chronological[count - Age]

=============================================================================
