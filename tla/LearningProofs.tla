---------------------------- MODULE LearningProofs ----------------------------
(***************************************************************************)
(* Proofs about the short-term memory and the baseline, for every capacity *)
(* and set of readings, number of samples and scale.                       *)
(*                                                                         *)
(* The memory.  While the buffer fills, row i - 1 holds the i-th oldest    *)
(* reading; from then on the oldest one is at the head.  RowValue says so  *)
(* without a modulus, and the rest is a case distinction on it.  Learning  *)
(* does not disturb it.                                                    *)
(*                                                                         *)
(* A constant variable keeps the cortex in its cold start.  As long as a   *)
(* variable is constant its mean is its value, so the distance of every    *)
(* further reading from the mean is zero in that variable, before and      *)
(* after, and so are all products.  The first reading is its own mean.  No *)
(* division leaves a remainder there, so it holds for any scale, and for   *)
(* the floating-point numbers of the code.                                 *)
(*                                                                         *)
(* The other three results are of exact arithmetic (ExactAssumption).  A   *)
(* reading adds the square of its distance from the mean to the products,  *)
(* so the covariance never has a negative square, its determinant never    *)
(* falls, and the distance of the reading just learnt is bounded by how    *)
(* much it has grown.  And the mean and the products are those of the sums *)
(* of all readings and of their products, which is what the batch          *)
(* computation comes to as well.                                           *)
(***************************************************************************)
EXTENDS Learning, FiniteSetTheorems, SequenceTheorems, TLAPS

-----------------------------------------------------------------------------
(* The memory by itself.                                                   *)

\* One step around the buffer.
LEMMA NextRow ==
  ASSUME NEW h \in 0 .. Capacity - 1
  PROVE  (h + 1) % Capacity = IF h + 1 = Capacity THEN 0 ELSE h + 1
  BY CapacityAssumption

\* A position at most one lap ahead.
LEMMA Wrapped ==
  ASSUME NEW n \in 0 .. 2 * Capacity - 1
  PROVE  n % Capacity = IF n < Capacity THEN n ELSE n - Capacity
  BY CapacityAssumption

\* The part of TypeOK about the two counters.
Shape ==
  /\ head \in 0 .. Capacity - 1
  /\ count \in 0 .. Capacity
  /\ count < Capacity => head = count

\* Where the i-th oldest reading is.
RowOf(i) ==
  IF count < Capacity THEN i - 1
  ELSE IF head + i - 1 < Capacity THEN head + i - 1
  ELSE head + i - 1 - Capacity

\* The modulus of Row is at most one lap.
LEMMA RowValue == Shape => \A i \in 1 .. count : Row(i) = RowOf(i)
<1> SUFFICES ASSUME Shape, NEW i \in 1 .. count PROVE Row(i) = RowOf(i)
  OBVIOUS
<1>1. CASE count < Capacity
  <2>1. head + Capacity - count + i - 1 = Capacity + i - 1
    BY <1>1, CapacityAssumption DEF Shape
  <2>2. (Capacity + i - 1) % Capacity = i - 1
    BY <1>1, CapacityAssumption, Wrapped DEF Shape
  <2>3. QED  BY <1>1, <2>1, <2>2 DEF Row, RowOf
<1>2. CASE count = Capacity
  <2>1. head + Capacity - count + i - 1 = head + i - 1
    BY <1>2, CapacityAssumption DEF Shape
  <2>2. head + i - 1 \in 0 .. 2 * Capacity - 1
    BY <1>2, CapacityAssumption DEF Shape
  <2>3. (head + i - 1) % Capacity
          = IF head + i - 1 < Capacity THEN head + i - 1 ELSE head + i - 1 - Capacity
    <3>1. PICK n \in 0 .. 2 * Capacity - 1 : n = head + i - 1  BY <2>2
    <3>2. n % Capacity = IF n < Capacity THEN n ELSE n - Capacity  BY Wrapped
    <3>3. QED  BY <1>2, <3>1, <3>2, CapacityAssumption DEF Shape
  <2>4. QED  BY <1>2, <2>1, <2>3, CapacityAssumption DEF Row, RowOf
<1>3. QED  BY <1>1, <1>2, CapacityAssumption DEF Shape

\* The shape of the buffer after an insertion.
LEMMA InsertShape ==
  ASSUME TypeOK, NEW r \in Reading, Insert(r)
  PROVE  /\ Shape /\ Shape'
         /\ head' = IF head + 1 = Capacity THEN 0 ELSE head + 1
         /\ count' = IF count < Capacity THEN count + 1 ELSE count
         /\ count' > 0
         /\ data' \in [0 .. Capacity - 1 -> Reading \cup {NoReading}]
         /\ \A row \in 0 .. Capacity - 1 : data'[row] = IF row = head THEN r ELSE data[row]
<1>1. Shape
  BY DEF TypeOK, Shape
<1>2. head' = IF head + 1 = Capacity THEN 0 ELSE head + 1
  BY <1>1, NextRow DEF Insert, Shape
<1>3. count' = IF count < Capacity THEN count + 1 ELSE count
  BY DEF Insert
<1>4. Shape' /\ count' > 0
  BY <1>1, <1>2, <1>3, CapacityAssumption DEF Shape
<1>5. /\ data' \in [0 .. Capacity - 1 -> Reading \cup {NoReading}]
      /\ \A row \in 0 .. Capacity - 1 : data'[row] = IF row = head THEN r ELSE data[row]
  BY DEF Insert, TypeOK
<1>6. QED  BY <1>1, <1>2, <1>3, <1>4, <1>5

\* The inductive invariant.
MemInv == TypeOK /\ AnalysedAge

\* The last row is the one that is Age readings old.
LEMMA LastRowAge ==
  Shape /\ count > 1 => count - Age \in 1 .. count /\ Row(count - Age) = count - 1
<1> SUFFICES ASSUME Shape, count > 1
             PROVE  count - Age \in 1 .. count /\ Row(count - Age) = count - 1
  OBVIOUS
<1>1. count - Age \in 1 .. count
  BY CapacityAssumption DEF Shape, Age
<1>2. Row(count - Age) = RowOf(count - Age)
  BY <1>1, RowValue
<1>3. QED
  BY <1>1, <1>2, CapacityAssumption DEF Shape, Age, RowOf

\* A tick preserves the shape and the age of the reading analysed.
LEMMA TickInvariant ==
  ASSUME MemInv, NEW r \in Reading, MemTick(r)
  PROVE  MemInv'
<1>1. TypeOK /\ Insert(r) /\ Analyse
  BY DEF MemInv, MemTick
<1>2. /\ Shape /\ Shape' /\ count' > 0
      /\ head' = IF head + 1 = Capacity THEN 0 ELSE head + 1
      /\ count' = IF count < Capacity THEN count + 1 ELSE count
      /\ data' \in [0 .. Capacity - 1 -> Reading \cup {NoReading}]
      /\ \A row \in 0 .. Capacity - 1 : data'[row] = IF row = head THEN r ELSE data[row]
  BY <1>1, InsertShape
<1>3. ASSUME NEW row \in 0 .. count' - 1 PROVE data'[row] \in Reading
  <2>1. row = head \/ row \in 0 .. count - 1
    BY <1>2, CapacityAssumption DEF Shape
  <2>2. row \in 0 .. Capacity - 1
    BY <1>2, CapacityAssumption DEF Shape
  <2>3. QED  BY <1>1, <1>2, <2>1, <2>2 DEF TypeOK
<1>4. analysed' \in Reading \cup {NoReading}
  <2>1. count' > 1 => count' - 1 \in 0 .. count' - 1
    BY <1>2 DEF Shape
  <2>2. QED  BY <1>1, <1>3, <2>1 DEF TypeOK, Analyse, LastRow
<1>5. TypeOK'
  BY <1>2, <1>3, <1>4 DEF TypeOK, Shape
<1>6. AnalysedAge'
  <2>1. SUFFICES ASSUME count' > 1 PROVE analysed' = Chronological'[count' - Age']
    BY DEF AnalysedAge
  <2>2. analysed' = data'[count' - 1]
    BY <1>1, <2>1 DEF Analyse, LastRow
  <2>3. (Shape /\ count > 1 => count - Age \in 1 .. count /\ Row(count - Age) = count - 1)'
    BY LastRowAge, PTL
  <2>4. count' - Age' \in 1 .. count' /\ Row(count - Age)' = count' - 1
    BY <1>2, <2>1, <2>3
  <2>5. QED  BY <2>2, <2>4 DEF Chronological, Row
<1>7. QED  BY <1>5, <1>6 DEF MemInv

\* TypeOK and AnalysedAge hold in every reachable state.
THEOREM MemoryInvariant == MemSpec => [](TypeOK /\ AnalysedAge)
<1>1. MemInit => MemInv
  BY CapacityAssumption DEF MemInit, EmptyData, MemInv, TypeOK, AnalysedAge
<1>2. MemInv /\ [MemNext]_memVars => MemInv'
  <2> SUFFICES ASSUME MemInv, [MemNext]_memVars PROVE MemInv'  OBVIOUS
  <2>1. ASSUME NEW r \in Reading, MemTick(r) PROVE MemInv'
    BY <2>1, TickInvariant
  <2>2. CASE MemRestart
    BY <2>2, CapacityAssumption DEF MemRestart, EmptyData, MemInv, TypeOK, AnalysedAge
  <2>3. CASE UNCHANGED memVars
    BY <2>3 DEF memVars, MemInv, TypeOK, AnalysedAge, Age, Chronological, Row
  <2>4. QED  BY <2>1, <2>2, <2>3 DEF MemNext
<1>3. QED  BY <1>1, <1>2, PTL DEF MemSpec, MemInv

-----------------------------------------------------------------------------
(* Refinement.                                                             *)

\* One tick slides the window of recent readings.
LEMMA TickSlides ==
  ASSUME MemInv, NEW r \in Reading, MemTick(r)
  PROVE  Recent!Remember(r)
<1>1. /\ Shape /\ Shape'
      /\ head' = IF head + 1 = Capacity THEN 0 ELSE head + 1
      /\ count' = IF count < Capacity THEN count + 1 ELSE count
      /\ \A row \in 0 .. Capacity - 1 : data'[row] = IF row = head THEN r ELSE data[row]
  BY InsertShape DEF MemInv, MemTick
<1>2. /\ \A i \in 1 .. count : Row(i) = RowOf(i)
      /\ \A i \in 1 .. count' : Row(i)' = RowOf(i)'
  <2>1. (Shape => \A i \in 1 .. count : Row(i) = RowOf(i))'
    BY RowValue, PTL
  <2>2. QED  BY <1>1, <2>1, RowValue
<1>3. \A i \in 1 .. count : Row(i) \in 0 .. count - 1
  BY <1>1, <1>2, CapacityAssumption DEF Shape, RowOf
<1>4. Chronological \in Seq(Reading) /\ Len(Chronological) = count
  <2>1. \A i \in 1 .. count : data[Row(i)] \in Reading
    BY <1>3 DEF MemInv, TypeOK
  <2>2. Chronological \in [1 .. count -> Reading]
    BY <2>1 DEF Chronological
  <2>3. QED  BY <1>1, <2>2 DEF Shape, Chronological
<1>5. PICK n \in Nat : n = IF count < Capacity THEN count ELSE count - 1
  BY <1>1, CapacityAssumption DEF Shape
<1>6. count' = n + 1 /\ (count < Capacity => n = count) /\ (count = Capacity => n = count - 1)
  BY <1>1, <1>5, CapacityAssumption DEF Shape
<1> DEFINE kept == IF count < Capacity THEN Chronological ELSE Tail(Chronological)
<1>7. /\ kept \in Seq(Reading) /\ Len(kept) = n
      /\ count < Capacity => \A i \in 1 .. n : kept[i] = Chronological[i]
      /\ count = Capacity => \A i \in 1 .. n : kept[i] = Chronological[i + 1]
  <2>1. CASE count < Capacity
    BY <1>4, <1>6, <2>1
  <2>2. CASE count = Capacity
    <3>1. Chronological # << >> /\ kept = Tail(Chronological)
      BY <1>4, <2>2, CapacityAssumption
    <3>2. QED  BY <1>4, <1>6, <2>2, <3>1, CapacityAssumption
  <2>3. QED  BY <1>1, <2>1, <2>2, CapacityAssumption DEF Shape
<1> HIDE DEF kept
<1>8. ASSUME NEW i \in 1 .. n PROVE Chronological'[i] = kept[i]
  <2>1. Chronological'[i] = data'[RowOf(i)']
    BY <1>2, <1>6 DEF Chronological
  <2>2. CASE count < Capacity
    <3>1. RowOf(i)' = i - 1 /\ i - 1 # head /\ i - 1 \in 0 .. Capacity - 1 /\ i \in 1 .. count
      BY <1>1, <1>6, <2>2, CapacityAssumption DEF Shape, RowOf
    <3>2. Chronological[i] = data[i - 1]
      BY <1>2, <2>2, <3>1 DEF Chronological, RowOf
    <3>3. data'[i - 1] = data[i - 1]
      BY <1>1, <3>1
    <3>4. QED  BY <1>7, <2>1, <2>2, <3>1, <3>2, <3>3
  <2>3. CASE count = Capacity
    <3>1. i + 1 \in 1 .. count
      BY <1>6, <2>3, CapacityAssumption
    <3>2. RowOf(i)' = RowOf(i + 1) /\ RowOf(i + 1) # head /\ RowOf(i + 1) \in 0 .. Capacity - 1
      BY <1>1, <1>6, <2>3, CapacityAssumption DEF Shape, RowOf
    <3>3. Chronological[i + 1] = data[RowOf(i + 1)]
      BY <1>2, <3>1 DEF Chronological
    <3>4. data'[RowOf(i + 1)] = data[RowOf(i + 1)]
      BY <1>1, <3>2
    <3>5. QED  BY <1>7, <2>1, <2>3, <3>2, <3>3, <3>4
  <2>4. QED  BY <1>1, <2>2, <2>3, CapacityAssumption DEF Shape
<1>9. Chronological'[n + 1] = r
  <2>1. Chronological'[n + 1] = data'[RowOf(n + 1)']
    BY <1>2, <1>6 DEF Chronological
  <2>2. RowOf(n + 1)' = head
    BY <1>1, <1>6, CapacityAssumption DEF Shape, RowOf
  <2>3. QED  BY <1>1, <2>1, <2>2 DEF Shape
<1>10. Chronological' \in Seq(Reading) /\ Len(Chronological') = n + 1
  <2>1. \A i \in 1 .. n + 1 : Chronological'[i] \in Reading
    BY <1>7, <1>8, <1>9
  <2>2. Chronological' = [i \in 1 .. n + 1 |-> Chronological'[i]]
    BY <1>6 DEF Chronological
  <2> DEFINE after == Chronological'
  <2> HIDE DEF after
  <2>3. after \in [1 .. n + 1 -> Reading]
    BY <2>1, <2>2 DEF after
  <2>4. after \in Seq(Reading) /\ Len(after) = n + 1
    BY <2>3
  <2>5. QED  BY <2>4 DEF after
<1>11. /\ Append(kept, r) \in Seq(Reading) /\ Len(Append(kept, r)) = n + 1
       /\ \A i \in 1 .. n : Append(kept, r)[i] = kept[i]
       /\ Append(kept, r)[n + 1] = r
  BY <1>7
<1>12. Chronological' = Append(kept, r)
  <2>1. \A i \in 1 .. n + 1 : Chronological'[i] = Append(kept, r)[i]
    BY <1>8, <1>9, <1>11
  <2>2. QED  BY <1>10, <1>11, <2>1, SeqEqual
<1>13. QED
  BY <1>4, <1>12 DEF Recent!Remember, kept

\* The ring buffer holds exactly the last Capacity readings, in order.
THEOREM MemoryRefinement == MemSpec => ImplementsRecentReadings
<1>1. MemInit => Recent!Init
  <2> SUFFICES ASSUME MemInit PROVE Chronological = << >>
    BY DEF Recent!Init
  <2>1. count = 0  BY DEF MemInit
  <2>2. QED  BY <2>1 DEF Chronological
<1>2. MemInv /\ [MemNext]_memVars => [Recent!Next]_Chronological
  <2>1. ASSUME MemInv, NEW r \in Reading, MemTick(r) PROVE Recent!Next
    BY <2>1, TickSlides DEF Recent!Next
  <2>2. ASSUME MemRestart PROVE Recent!Next
    <3>1. count' = 0
      BY <2>2 DEF MemRestart
    <3>2. Chronological' = << >>
      BY <3>1 DEF Chronological
    <3>3. QED  BY <3>2 DEF Recent!Next, Recent!Forget
  <2>3. UNCHANGED memVars => UNCHANGED Chronological
    BY DEF memVars, Chronological, Row
  <2>4. QED  BY <2>1, <2>2, <2>3 DEF MemNext
<1>3. QED
  BY <1>1, <1>2, MemoryInvariant, PTL DEF MemSpec, MemInv, ImplementsRecentReadings, Recent!Spec

-----------------------------------------------------------------------------
(* The memory and the baseline.                                            *)

BaselineType ==
  [n : Nat, mean : [Vars -> Int], m2 : [Entries -> Int]]

ConstantIn(j) == \A i, k \in DOMAIN learnt : learnt[i][j] = learnt[k][j]

\* The mean and the products of a variable that has been constant.
FlatVariable(j) ==
  /\ learnt # <<>> => baseline.mean[j] = Scale * learnt[1][j]
  /\ \A k \in Vars : baseline.m2[<<j, k>>] = 0 /\ baseline.m2[<<k, j>>] = 0

LearnInv ==
  /\ MemInv
  /\ learnt \in Seq(Reading)
  /\ baseline \in BaselineType
  /\ baseline.n = Len(learnt)
  /\ learnt = <<>> => baseline = NewBaseline
  /\ \A j \in Vars : ConstantIn(j) => FlatVariable(j)
  /\ ConstantVariableBlinds

-----------------------------------------------------------------------------
(* The memory underneath.                                                  *)

LEMMA LearnMemoryStep == [LearnNext]_learnVars => [MemNext]_memVars
  BY DEF LearnNext, LearnTick, LearnRestart, learnVars, MemNext, memVars

\* Analyze reads the memory and leaves it as it is.
THEOREM LearningKeepsMemory == LearnSpec => MemSpec
  BY LearnMemoryStep, PTL DEF LearnSpec, LearnInit, MemSpec

\* What was proved of the memory alone holds under the cortex: the reading it
\* judges is as old as the head says.
THEOREM LearningMemoryInvariant == LearnSpec => [](TypeOK /\ AnalysedAge)
  BY LearningKeepsMemory, MemoryInvariant

\* The memory stays well typed under the cortex.
THEOREM LearningTypes == LearnSpec => []TypeOK
  BY LearningMemoryInvariant, PTL

\* The memory under the cortex is the window of the last readings.
THEOREM LearningMemoryRefinement == LearnSpec => ImplementsRecentReadings
  BY LearningKeepsMemory, MemoryRefinement

-----------------------------------------------------------------------------
(* A constant variable.                                                    *)

LEMMA ZeroQuotient == ASSUME NEW k \in Nat \ {0} PROVE 0 \div k = 0
  OBVIOUS

LEMMA WholeQuotient == ASSUME NEW i \in Int PROVE i \div 1 = i
  OBVIOUS

\* What Update computes, part by part.
LEMMA UpdateParts ==
  ASSUME NEW b \in BaselineType, NEW x \in Reading
  PROVE  LET d == Delta(x, b.mean)
             u == Update(b, x)
         IN  /\ u.n = b.n + 1
             /\ \A j \in Vars : u.mean[j] = b.mean[j] + d[j] \div (b.n + 1)
             /\ \A j, k \in Vars :
                  u.m2[<<j, k>>] = b.m2[<<j, k>>] + (d[j] * Delta(x, u.mean)[k]) \div Scale
             /\ u \in BaselineType
<1> DEFINE d == Delta(x, b.mean)
           u == Update(b, x)
<1>1. d \in [Vars -> Int]
  BY VectorAssumption, ScaleAssumption DEF Delta, BaselineType
<1>2. b.n + 1 \in Nat \ {0}
  BY DEF BaselineType
<1>3. /\ u.n = b.n + 1
      /\ u.mean = [j \in Vars |-> b.mean[j] + d[j] \div (b.n + 1)]
      /\ u.m2 = [e \in Entries |-> b.m2[e] + Outer(d, Delta(x, u.mean))[e]]
      /\ u = [n |-> u.n, mean |-> u.mean, m2 |-> u.m2]
  BY DEF Update
<1>4. u.mean \in [Vars -> Int]
  BY <1>1, <1>2, <1>3 DEF BaselineType
<1>5. Delta(x, u.mean) \in [Vars -> Int]
  BY <1>4, VectorAssumption, ScaleAssumption DEF Delta
<1>6. Outer(d, Delta(x, u.mean)) \in [Entries -> Int]
  BY <1>1, <1>5, ScaleAssumption DEF Outer, Entries
<1>7. u.m2 \in [Entries -> Int]
  BY <1>3, <1>6 DEF BaselineType
<1>8. \A j, k \in Vars : u.m2[<<j, k>>] = b.m2[<<j, k>>] + (d[j] * Delta(x, u.mean)[k]) \div Scale
  BY <1>3 DEF Outer, Entries
<1>9. u \in BaselineType
  BY <1>2, <1>3, <1>4, <1>7 DEF BaselineType
<1> QED  BY <1>3, <1>8, <1>9

\* The first reading is its own mean, and has no products.
LEMMA FirstReading ==
  ASSUME NEW x \in Reading
  PROVE  /\ \A j \in Vars : Update(NewBaseline, x).mean[j] = Scale * x[j]
         /\ \A e \in Entries : Update(NewBaseline, x).m2[e] = 0
<1> DEFINE d == Delta(x, NewBaseline.mean)
           u == Update(NewBaseline, x)
<1>1. NewBaseline \in BaselineType
  BY DEF NewBaseline, BaselineType
<1>2. \A j \in Vars : Scale * x[j] \in Int /\ d[j] = Scale * x[j]
  BY VectorAssumption, ScaleAssumption DEF Delta, NewBaseline
<1>3. ASSUME NEW j \in Vars PROVE u.mean[j] = Scale * x[j]
  <2>1. u.mean[j] = d[j] \div 1
    BY <1>2 DEF Update, NewBaseline
  <2> QED  BY <2>1, <1>2, WholeQuotient
<1>4. ASSUME NEW k \in Vars PROVE Delta(x, u.mean)[k] = 0
  <2>1. Delta(x, u.mean)[k] = Scale * x[k] - u.mean[k]
    BY DEF Delta
  <2> QED  BY <2>1, <1>2, <1>3
<1>5. ASSUME NEW e \in Entries PROVE u.m2[e] = 0
  <2>1. e[1] \in Vars /\ e[2] \in Vars /\ e = <<e[1], e[2]>>
    BY DEF Entries
  <2>2. u.m2[e] = (d[e[1]] * Delta(x, u.mean)[e[2]]) \div Scale
    <3>1. u.m2[<<e[1], e[2]>>] =
            NewBaseline.m2[<<e[1], e[2]>>] + (d[e[1]] * Delta(x, u.mean)[e[2]]) \div Scale
      BY <1>1, <2>1, UpdateParts
    <3>2. NewBaseline.m2[e] = 0
      BY DEF NewBaseline
    <3>3. (d[e[1]] * Delta(x, u.mean)[e[2]]) \div Scale = 0
      BY <2>1, <1>2, <1>4, ScaleAssumption, ZeroQuotient
    <3> QED  BY <2>1, <3>1, <3>2, <3>3
  <2>3. d[e[1]] * Delta(x, u.mean)[e[2]] = 0
    BY <2>1, <1>2, <1>4
  <2> QED  BY <2>2, <2>3, ScaleAssumption, ZeroQuotient
<1> QED  BY <1>3, <1>5

\* A reading that agrees with the mean in a variable moves nothing there.
LEMMA SameReading ==
  ASSUME NEW b \in BaselineType, NEW x \in Reading, NEW j \in Vars,
         b.mean[j] = Scale * x[j]
  PROVE  /\ Update(b, x).mean[j] = b.mean[j]
         /\ \A k \in Vars : /\ Update(b, x).m2[<<j, k>>] = b.m2[<<j, k>>]
                            /\ Update(b, x).m2[<<k, j>>] = b.m2[<<k, j>>]
<1> DEFINE d == Delta(x, b.mean)
           u == Update(b, x)
<1>1. d[j] = 0
  BY VectorAssumption, ScaleAssumption DEF Delta, BaselineType
<1>2. u.mean[j] = b.mean[j]
  <2>1. u.mean[j] = b.mean[j] + d[j] \div (b.n + 1)
    BY UpdateParts
  <2>2. b.n + 1 \in Nat \ {0} /\ b.mean[j] \in Int
    BY DEF BaselineType
  <2> QED  BY <2>1, <2>2, <1>1, ZeroQuotient
<1>3. Delta(x, u.mean)[j] = 0
  <2>1. Delta(x, u.mean)[j] = Scale * x[j] - u.mean[j]
    BY DEF Delta
  <2>2. Scale * x[j] \in Int
    BY VectorAssumption, ScaleAssumption
  <2> QED  BY <2>1, <2>2, <1>2
<1>4. u \in BaselineType
  BY UpdateParts
<1>5. ASSUME NEW k \in Vars
      PROVE  u.m2[<<j, k>>] = b.m2[<<j, k>>] /\ u.m2[<<k, j>>] = b.m2[<<k, j>>]
  <2>1. /\ u.m2[<<j, k>>] = b.m2[<<j, k>>] + (d[j] * Delta(x, u.mean)[k]) \div Scale
        /\ u.m2[<<k, j>>] = b.m2[<<k, j>>] + (d[k] * Delta(x, u.mean)[j]) \div Scale
    BY UpdateParts
  <2>2. d[k] \in Int /\ Delta(x, u.mean)[k] \in Int
    BY <1>4, VectorAssumption, ScaleAssumption DEF Delta, BaselineType
  <2>3. d[j] * Delta(x, u.mean)[k] = 0 /\ d[k] * Delta(x, u.mean)[j] = 0
    BY <2>2, <1>1, <1>3
  <2>4. b.m2[<<j, k>>] \in Int /\ b.m2[<<k, j>>] \in Int
    BY DEF BaselineType, Entries
  <2> QED  BY <2>1, <2>3, <2>4, ScaleAssumption, ZeroQuotient
<1> QED  BY <1>2, <1>5

\* A variable without products leaves the covariance without an inverse.
LEMMA FlatIsSingular ==
  ASSUME NEW b \in BaselineType, NEW j \in Vars,
         \A k \in Vars : b.m2[<<j, k>>] = 0 /\ b.m2[<<k, j>>] = 0
  PROVE  Singular(b.m2)
<1> DEFINE p == b.m2[<<1, 1>>]
           q == b.m2[<<1, 2>>]
           r == b.m2[<<2, 1>>]
           t == b.m2[<<2, 2>>]
<1>1. p \in Int /\ q \in Int /\ r \in Int /\ t \in Int
  BY DEF BaselineType, Entries, Vars
<1>2. (p = 0 /\ q = 0) \/ (q = 0 /\ t = 0)
  BY DEF Vars
<1>3. p * t - q * r = 0
  <2> HIDE DEF p, q, r, t
  <2>1. q * r = 0
    BY <1>1, <1>2
  <2>2. p * t = 0
    BY <1>1, <1>2
  <2> QED  BY <2>1, <2>2
<1> QED  BY <1>3 DEF Singular, Determinant

\* Learning keeps what is known of the constant variables.
LEMMA LearnStep ==
  ASSUME LearnInv, NEW x \in Reading, Learn(x)
  PROVE  /\ learnt' \in Seq(Reading)
         /\ baseline' \in BaselineType
         /\ baseline'.n = Len(learnt')
         /\ learnt' # <<>>
         /\ \A j \in Vars : ConstantIn(j)' => FlatVariable(j)'
         /\ ConstantVariableBlinds'
<1>1. /\ learnt \in Seq(Reading) /\ learnt' = Append(learnt, x)
      /\ baseline \in BaselineType /\ baseline' = Update(baseline, x)
      /\ distance' = Judged(baseline', x)
  BY DEF LearnInv, Learn
<1>2. /\ learnt' \in Seq(Reading) /\ learnt' # <<>>
      /\ Len(learnt') = Len(learnt) + 1
      /\ DOMAIN learnt \subseteq DOMAIN learnt' /\ Len(learnt) + 1 \in DOMAIN learnt'
      /\ learnt'[Len(learnt) + 1] = x /\ \A i \in DOMAIN learnt : learnt'[i] = learnt[i]
  BY <1>1
<1>3. baseline' \in BaselineType /\ baseline'.n = Len(learnt')
  BY <1>1, <1>2, UpdateParts DEF LearnInv
<1>4. ASSUME NEW j \in Vars, ConstantIn(j)' PROVE FlatVariable(j)'
  <2>1. CASE learnt = <<>>
    <3>1. baseline = NewBaseline /\ learnt'[1] = x
      BY <2>1, <1>2 DEF LearnInv
    <3>2. \A k \in Vars : <<j, k>> \in Entries /\ <<k, j>> \in Entries
      BY DEF Entries
    <3> QED  BY <3>1, <3>2, <1>1, FirstReading DEF FlatVariable
  <2>2. CASE learnt # <<>>
    <3>1. 1 \in DOMAIN learnt /\ learnt'[1] = learnt[1]
      BY <2>2, <1>1, <1>2
    <3>2. ConstantIn(j)
      <4> SUFFICES ASSUME NEW i \in DOMAIN learnt, NEW k \in DOMAIN learnt
                   PROVE  learnt[i][j] = learnt[k][j]
        BY DEF ConstantIn
      <4>1. learnt'[i] = learnt[i] /\ learnt'[k] = learnt[k]
        BY <1>2
      <4>2. learnt'[i][j] = learnt'[k][j]
        BY <1>2, <1>4 DEF ConstantIn
      <4> QED  BY <4>1, <4>2
    <3>3. x[j] = learnt[1][j]
      BY <3>1, <1>1, <1>2, <1>4 DEF ConstantIn
    <3>4. FlatVariable(j)
      BY <3>2 DEF LearnInv
    <3>5. baseline.mean[j] = Scale * x[j]
      BY <3>3, <3>4, <2>2 DEF FlatVariable
    <3> QED  BY <3>1, <3>4, <3>5, <2>2, <1>1, SameReading DEF FlatVariable
  <2> QED  BY <2>1, <2>2
<1>5. ConstantVariableBlinds'
  <2> SUFFICES ASSUME NEW j \in Vars, ConstantIn(j)' PROVE distance' = NoDistance
    BY DEF ConstantVariableBlinds, ConstantIn
  <2>1. Singular(baseline'.m2)
    BY <1>3, <1>4, FlatIsSingular DEF FlatVariable
  <2> QED  BY <2>1, <1>1 DEF Judged
<1> QED  BY <1>2, <1>3, <1>4, <1>5

LEMMA LearnInvInit == LearnInit => LearnInv
<1> SUFFICES ASSUME LearnInit PROVE LearnInv
  OBVIOUS
<1>1. MemInv
  BY CapacityAssumption DEF LearnInit, MemInit, EmptyData, MemInv, TypeOK, AnalysedAge
<1>2. baseline = NewBaseline /\ distance = NoDistance /\ learnt = <<>>
  BY DEF LearnInit
<1>3. NewBaseline \in BaselineType /\ NewBaseline.n = 0
  BY DEF NewBaseline, BaselineType
<1>4. \A j \in Vars : FlatVariable(j)
  BY <1>2 DEF FlatVariable, NewBaseline, Entries
<1> QED  BY <1>1, <1>2, <1>3, <1>4 DEF LearnInv, ConstantVariableBlinds

\* The reading that Analyze learns is one of the readings.
LEMMA AnalysedReading ==
  ASSUME MemInv', NEW r \in Reading, LearnTick(r), count' > 1
  PROVE  analysed' \in Reading /\ Learn(analysed')
<1>1. analysed' = data'[count' - 1]
  BY DEF LearnTick, MemTick, Analyse, LastRow
<1>2. count' \in 0 .. Capacity /\ \A row \in 0 .. count' - 1 : data'[row] \in Reading
  BY DEF MemInv, TypeOK
<1>3. \A c \in 0 .. Capacity : c > 1 => c - 1 \in 0 .. c - 1
  BY CapacityAssumption
<1>4. count' - 1 \in 0 .. count' - 1
  BY <1>2, <1>3
<1>5. Learn(analysed')
  BY DEF LearnTick
<1> QED  BY <1>1, <1>2, <1>4, <1>5

LEMMA LearnInvStep == LearnInv /\ MemInv' /\ [LearnNext]_learnVars => LearnInv'
<1> SUFFICES ASSUME LearnInv, MemInv', [LearnNext]_learnVars PROVE LearnInv'
  OBVIOUS
<1>1. ASSUME NEW r \in Reading, LearnTick(r) PROVE LearnInv'
  <2>1. CASE count' > 1
    BY <1>1, <2>1, AnalysedReading, LearnStep DEF LearnInv
  <2>2. CASE ~(count' > 1)
    BY <1>1, <2>2
    DEF LearnTick, LearnInv, FlatVariable, ConstantIn, ConstantVariableBlinds
  <2> QED  BY <2>1, <2>2
<1>2. CASE LearnRestart
  <2>1. baseline' = NewBaseline /\ distance' = NoDistance /\ learnt' = <<>>
    BY <1>2 DEF LearnRestart
  <2>2. NewBaseline \in BaselineType /\ NewBaseline.n = 0
    BY DEF NewBaseline, BaselineType
  <2>3. \A j \in Vars : FlatVariable(j)'
    BY <2>1 DEF FlatVariable, NewBaseline, Entries
  <2> QED  BY <2>1, <2>2, <2>3 DEF LearnInv, ConstantVariableBlinds
<1>3. CASE UNCHANGED learnVars
  BY <1>3 DEF learnVars, LearnInv, FlatVariable, ConstantIn, ConstantVariableBlinds
<1> QED  BY <1>1, <1>2, <1>3 DEF LearnNext

\* The baseline is well typed and counts the readings learnt, and is flat in
\* every variable that has been constant.
THEOREM BaselineInvariant == LearnSpec => []LearnInv
<1>1. LearnSpec => []MemInv
  BY LearningMemoryInvariant, PTL DEF MemInv
<1> QED  BY <1>1, LearnInvInit, LearnInvStep, PTL DEF LearnSpec

\* A variable that has been constant keeps the agent from judging anything, for
\* every number of samples and every scale.
THEOREM ConstantVariableTheorem == LearnSpec => []ConstantVariableBlinds
<1>1. LearnInv => ConstantVariableBlinds
  BY DEF LearnInv
<1> QED  BY <1>1, BaselineInvariant, PTL

-----------------------------------------------------------------------------
(* A reading within its baseline, in exact arithmetic.                     *)
(*                                                                         *)
(* Write n for the samples so far, S for their sum and u = n x - S.  The   *)
(* mean is S / n and the reading x lies u / n from it, so Update adds      *)
(* u u^T / (n (n + 1)) to the products.  For two variables the quadratic   *)
(* form of the adjugate in u is the same before and after, as that of      *)
(* u u^T in u is zero: the determinant grows by its value, which is what   *)
(* the numerator of the distance is a multiple of.                         *)

LEMMA Cancelled ==
  ASSUME NEW n \in Nat \ {0}, NEW i \in Int, NEW k \in Int, n * i = n * k
  PROVE  i = k
<1>1. n * (i - k) = 0
  OBVIOUS
<1> QED  BY <1>1

LEMMA ExactQuotient ==
  ASSUME NEW n \in Nat \ {0}, NEW i \in Int
  PROVE  (n * i) \div n = i
  OBVIOUS

\* The distances of the next reading from the mean before and after, for one
\* variable: s is the sum and m the mean of n readings.
LEMMA NextReading ==
  \A n, k \in Nat \ {0} : \A z, s, m, y, u \in Int :
    z = n * (n + 1) * k /\ u = n * y - s /\ n * m = z * s
      => /\ z * y - m = (n + 1) * (k * u)
         /\ z * y - (m + k * u) = n * k * u
         /\ (n + 1) * (m + k * u) = z * (s + y)
<1> SUFFICES ASSUME NEW n \in Nat \ {0}, NEW k \in Nat \ {0}, NEW s \in Int, NEW m \in Int,
                    NEW y \in Int, n * m = (n * (n + 1) * k) * s
             PROVE  LET z == n * (n + 1) * k
                        u == n * y - s
                    IN  /\ z * y - m = (n + 1) * (k * u)
                        /\ z * y - (m + k * u) = n * k * u
                        /\ (n + 1) * (m + k * u) = z * (s + y)
  OBVIOUS
<1>1. m = (n + 1) * (k * s)
  <2>1. (n + 1) * (k * s) \in Int
    OBVIOUS
  <2>2. n * m = n * ((n + 1) * (k * s))
    OBVIOUS
  <2> QED  BY <2>1, <2>2, Cancelled
<1> QED  BY <1>1

\* A symmetric matrix of products with rows <<p, r>> and <<r, t>> that has no
\* negative square has none for its adjugate either.
LEMMA FormNonNegative ==
  ASSUME NEW p \in Nat, NEW r \in Int, NEW t \in Nat, p * t - r * r >= 0,
         NEW u \in Int, NEW v \in Int
  PROVE  u * u * t - 2 * (u * v * r) + v * v * p >= 0
<1> DEFINE q == u * u * t - 2 * (u * v * r) + v * v * p
<1>1. CASE p = 0
  <2>1. r = 0
    BY <1>1
  <2> QED  BY <1>1, <2>1
<1>2. CASE p > 0
  <2>1. p * q = (p * v - r * u) * (p * v - r * u) + (u * u) * (p * t - r * r)
    OBVIOUS
  <2>2. (p * v - r * u) * (p * v - r * u) >= 0
    OBVIOUS
  <2>3. (u * u) * (p * t - r * r) >= 0
    OBVIOUS
  <2>4. p * q >= 0 /\ q \in Int
    BY <2>1, <2>2, <2>3
  <2> HIDE DEF q
  <2>5. q >= 0
    BY <2>4, <1>2
  <2> QED  BY <2>5 DEF q
<1> QED  BY <1>1, <1>2

\* Symmetric products without a negative square.
SemiDefinite(m2) ==
  /\ m2[<<1, 2>>] = m2[<<2, 1>>]
  /\ m2[<<1, 1>>] >= 0
  /\ m2[<<2, 2>>] >= 0
  /\ Determinant(m2) >= 0

\* The mean is the quotient of a sum of readings and their number.
MeanOfSums(b) ==
  \E sums \in [Vars -> Int] : \A j \in Vars : b.n * b.mean[j] = Scale * sums[j]

\* What Update does, without divisions.
LEMMA ExactUpdate ==
  ASSUME NEW b \in BaselineType, b.n \in 1 .. MaxSamples - 1, MeanOfSums(b), NEW x \in Reading
  PROVE  \E k \in Nat \ {0}, u \in [Vars -> Int] :
           /\ Scale = b.n * (b.n + 1) * k
           /\ \A j \in Vars : Delta(x, b.mean)[j] = (b.n + 1) * (k * u[j])
           /\ \A j \in Vars : Delta(x, Update(b, x).mean)[j] = b.n * k * u[j]
           /\ \A i, j \in Vars :
                Update(b, x).m2[<<i, j>>] = b.m2[<<i, j>>] + k * (u[i] * u[j])
           /\ MeanOfSums(Update(b, x))
<1> DEFINE d == Delta(x, b.mean)
           w == Update(b, x)
           e == Delta(x, w.mean)
<1>1. PICK n \in Nat \ {0} : n = b.n /\ n * (n + 1) \in Nat \ {0} /\ Scale % (n * (n + 1)) = 0
  BY ExactAssumption
<1>2. PICK k \in Nat \ {0} : Scale = n * (n + 1) * k
  <2> DEFINE m == n * (n + 1)
  <2>1. m \in Nat \ {0} /\ Scale % m = 0
    BY <1>1
  <2> HIDE DEF m
  <2>2. Scale = m * (Scale \div m) /\ Scale \div m \in Nat \ {0}
    BY <2>1, ScaleAssumption
  <2> QED  BY <2>2 DEF m
<1>3. PICK sums \in [Vars -> Int] : \A j \in Vars : n * b.mean[j] = Scale * sums[j]
  BY <1>1 DEF MeanOfSums
<1> DEFINE u == [j \in Vars |-> n * x[j] - sums[j]]
<1>4. u \in [Vars -> Int] /\ \A j \in Vars : x[j] \in Int /\ sums[j] \in Int /\ b.mean[j] \in Int
  BY <1>1, VectorAssumption DEF BaselineType
<1>5. w.n = n + 1 /\ w \in BaselineType
  BY <1>1, UpdateParts
<1>6. ASSUME NEW j \in Vars
      PROVE  /\ d[j] = (n + 1) * (k * u[j])
             /\ e[j] = n * k * u[j]
             /\ (n + 1) * w.mean[j] = Scale * (sums[j] + x[j])
  <2>1. PICK z, s, m, y, v \in Int :
          z = Scale /\ s = sums[j] /\ m = b.mean[j] /\ y = x[j] /\ v = u[j]
    BY <1>4, ScaleAssumption
  <2>2. v = n * y - s
    BY <2>1
  <2>3. d[j] = z * y - m /\ e[j] = z * y - w.mean[j]
    BY <2>1 DEF Delta
  <2>4. w.mean[j] = m + d[j] \div (n + 1)
    BY <2>1, <1>1, UpdateParts
  <2> HIDE DEF u, d, e, w
  <2>5. z = n * (n + 1) * k /\ n * m = z * s
    BY <2>1, <1>2, <1>3
  <2>6. /\ z * y - m = (n + 1) * (k * v)
        /\ z * y - (m + k * v) = n * k * v
        /\ (n + 1) * (m + k * v) = z * (s + y)
    BY <2>2, <2>5, NextReading
  <2>7. d[j] \div (n + 1) = k * v
    <3>1. k * v \in Int /\ n + 1 \in Nat \ {0}
      OBVIOUS
    <3>2. d[j] = (n + 1) * (k * v)
      BY <2>3, <2>6
    <3> QED  BY <3>1, <3>2, ExactQuotient
  <2> QED  BY <2>1, <2>3, <2>4, <2>6, <2>7
<1>7. ASSUME NEW i \in Vars, NEW j \in Vars
      PROVE  w.m2[<<i, j>>] = b.m2[<<i, j>>] + k * (u[i] * u[j])
  <2>1. w.m2[<<i, j>>] = b.m2[<<i, j>>] + (d[i] * e[j]) \div Scale
    BY UpdateParts
  <2>2. PICK f, g \in Int : f = u[i] /\ g = u[j]
    BY <1>4
  <2>3. d[i] = (n + 1) * (k * f) /\ e[j] = n * k * g
    BY <1>6, <2>2
  <2> HIDE DEF u, d, e, w
  <2>4. d[i] * e[j] = Scale * (k * (f * g))
    <3>1. ((n + 1) * (k * f)) * (n * k * g) = (n * (n + 1) * k) * (k * (f * g))
      OBVIOUS
    <3> QED  BY <3>1, <2>3, <1>2
  <2>5. (d[i] * e[j]) \div Scale = k * (f * g)
    <3>1. k * (f * g) \in Int
      OBVIOUS
    <3> QED  BY <2>4, <3>1, ScaleAssumption, ExactQuotient
  <2> QED  BY <2>1, <2>2, <2>5 DEF d, e
<1>8. MeanOfSums(w)
  <2> DEFINE more == [j \in Vars |-> sums[j] + x[j]]
  <2>1. more \in [Vars -> Int]
    BY <1>4
  <2>2. \A j \in Vars : w.n * w.mean[j] = Scale * more[j]
    BY <1>5, <1>6
  <2> QED  BY <2>1, <2>2 DEF MeanOfSums
<1>9. u \in [Vars -> Int] /\ n = b.n
  BY <1>1, <1>4
<1>10. /\ \A j \in Vars : d[j] = (b.n + 1) * (k * u[j])
       /\ \A j \in Vars : e[j] = b.n * k * u[j]
  BY <1>6, <1>9
<1> HIDE DEF u, d, e, w
<1> QED  BY <1>2, <1>7, <1>8, <1>9, <1>10 DEF d, e, w

\* The same matrix after the products of u / n and u are added: its determinant
\* grows by a multiple of the form of u, and so does its form in n k u.
LEMMA GrownForm ==
  ASSUME NEW n \in Nat \ {0}, NEW k \in Nat \ {0}, NEW p \in Nat, NEW r \in Int, NEW t \in Nat,
         p * t - r * r >= 0, NEW f \in Int, NEW g \in Int,
         NEW p2 \in Int, p2 = p + k * (f * f),
         NEW r2 \in Int, r2 = r + k * (f * g),
         NEW t2 \in Int, t2 = t + k * (g * g),
         NEW det \in Int, det = p2 * t2 - r2 * r2,
         NEW a \in Int, a = n * k * f,
         NEW c \in Int, c = n * k * g,
         NEW num \in Int, num = a * a * t2 - a * c * (r2 + r2) + c * c * p2,
         NEW den \in Int, den = (n * (n + 1) * k) * det
  PROVE  /\ p2 >= 0 /\ t2 >= 0 /\ det >= p * t - r * r
         /\ num >= 0
         /\ num <= (n * den) \div (n + 1)
<1> DEFINE form == f * f * t - 2 * (f * g * r) + g * g * p
<1>1. form \in Nat
  BY FormNonNegative
<1>2. det = (p * t - r * r) + k * form
  OBVIOUS
<1>3. num = ((n * k) * (n * k)) * form
  OBVIOUS
<1> HIDE DEF form
<1>4. p2 >= 0 /\ t2 >= 0
  <2>1. k * (f * f) >= 0 /\ k * (g * g) >= 0
    OBVIOUS
  <2> QED  BY <2>1
<1>5. k * form >= 0
  BY <1>1
<1>6. num >= 0
  <2>1. (n * k) * (n * k) \in Nat
    OBVIOUS
  <2> QED  BY <2>1, <1>1, <1>3
<1>7. (n * den) \div (n + 1) = (n * n * k) * det
  <2>1. n + 1 \in Nat \ {0} /\ (n * n * k) * det \in Int
    OBVIOUS
  <2>2. n * den = (n + 1) * ((n * n * k) * det)
    OBVIOUS
  <2> QED  BY <2>1, <2>2, ExactQuotient
<1>8. num <= (n * n * k) * det
  <2>1. (n * n * k) * det = (n * n * k) * (p * t - r * r) + num
    BY <1>1, <1>2, <1>3
  <2>2. n * n * k \in Nat
    OBVIOUS
  <2>3. (n * n * k) * (p * t - r * r) >= 0
    BY <2>2
  <2> QED  BY <2>1, <2>3
<1> QED  BY <1>2, <1>4, <1>5, <1>6, <1>7, <1>8

\* How far a reading can be from a baseline that has just learnt it.
Bounded(b, q) == q.den > 0 /\ q.num \in 0 .. ((b.n - 1) * q.den) \div b.n

\* One more sample: the products stay without a negative square, the determinant
\* never falls, and where it is positive the distance is bounded.
LEMMA SemiDefiniteStep ==
  ASSUME NEW b \in BaselineType, b.n \in 1 .. MaxSamples - 1, MeanOfSums(b),
         SemiDefinite(b.m2), NEW x \in Reading
  PROVE  /\ MeanOfSums(Update(b, x))
         /\ SemiDefinite(Update(b, x).m2)
         /\ Determinant(Update(b, x).m2) >= Determinant(b.m2)
         /\ Determinant(Update(b, x).m2) > 0
              => Bounded(Update(b, x), SquaredDistance(Update(b, x), x))
<1> DEFINE w == Update(b, x)
           e == Delta(x, w.mean)
<1>1. PICK k \in Nat \ {0}, u \in [Vars -> Int] :
        /\ Scale = b.n * (b.n + 1) * k
        /\ \A j \in Vars : e[j] = b.n * k * u[j]
        /\ \A i, j \in Vars : w.m2[<<i, j>>] = b.m2[<<i, j>>] + k * (u[i] * u[j])
        /\ MeanOfSums(w)
  BY ExactUpdate
<1>2. 1 \in Vars /\ 2 \in Vars
  BY DEF Vars
<1>3. PICK n \in Nat \ {0} : n = b.n /\ w.n = n + 1
  BY ExactAssumption, UpdateParts
<1>4. PICK p, t \in Nat, r \in Int :
        p = b.m2[<<1, 1>>] /\ t = b.m2[<<2, 2>>] /\ r = b.m2[<<1, 2>>] /\ r = b.m2[<<2, 1>>]
  BY <1>2 DEF SemiDefinite, BaselineType, Entries
<1>5. PICK f, g \in Int : f = u[1] /\ g = u[2]
  BY <1>1, <1>2
<1>6. p * t - r * r >= 0 /\ Determinant(b.m2) = p * t - r * r
  BY <1>4 DEF SemiDefinite, Determinant
<1> HIDE DEF w, e
<1>7. PICK p2, t2, r2 \in Int :
        /\ p2 = w.m2[<<1, 1>>] /\ p2 = p + k * (f * f)
        /\ t2 = w.m2[<<2, 2>>] /\ t2 = t + k * (g * g)
        /\ r2 = w.m2[<<1, 2>>] /\ r2 = w.m2[<<2, 1>>] /\ r2 = r + k * (f * g)
  <2>1. /\ p + k * (f * f) \in Int /\ t + k * (g * g) \in Int /\ r + k * (f * g) \in Int
        /\ g * f = f * g
    OBVIOUS
  <2>2. /\ w.m2[<<1, 1>>] = b.m2[<<1, 1>>] + k * (u[1] * u[1])
        /\ w.m2[<<2, 2>>] = b.m2[<<2, 2>>] + k * (u[2] * u[2])
        /\ w.m2[<<1, 2>>] = b.m2[<<1, 2>>] + k * (u[1] * u[2])
        /\ w.m2[<<2, 1>>] = b.m2[<<2, 1>>] + k * (u[2] * u[1])
    BY <1>1, <1>2
  <2>3. /\ w.m2[<<1, 1>>] = p + k * (f * f) /\ w.m2[<<2, 2>>] = t + k * (g * g)
        /\ w.m2[<<1, 2>>] = r + k * (f * g) /\ w.m2[<<2, 1>>] = r + k * (f * g)
    BY <2>1, <2>2, <1>4, <1>5
  <2> QED  BY <2>1, <2>3
<1>8. PICK det \in Int : det = Determinant(w.m2) /\ det = p2 * t2 - r2 * r2
  BY <1>7 DEF Determinant
<1>9. PICK a, c \in Int : a = e[1] /\ c = e[2] /\ a = n * k * f /\ c = n * k * g
  <2>1. n * k * f \in Int /\ n * k * g \in Int
    OBVIOUS
  <2>2. e[1] = n * k * f /\ e[2] = n * k * g
    BY <1>1, <1>2, <1>3, <1>5
  <2> QED  BY <2>1, <2>2
<1>10. PICK num, den \in Int :
         /\ num = SquaredDistance(w, x).num /\ num = a * a * t2 - a * c * (r2 + r2) + c * c * p2
         /\ den = SquaredDistance(w, x).den /\ den = (n * (n + 1) * k) * det
  <2>1. /\ a * a * t2 - a * c * (r2 + r2) + c * c * p2 \in Int
        /\ (n * (n + 1) * k) * det \in Int
    OBVIOUS
  <2>2. SquaredDistance(w, x).num = a * a * t2 - a * c * (r2 + r2) + c * c * p2
    BY <1>7, <1>9 DEF SquaredDistance, e
  <2>3. SquaredDistance(w, x).den = (n * (n + 1) * k) * det
    BY <1>1, <1>3, <1>8 DEF SquaredDistance
  <2> QED  BY <2>1, <2>2, <2>3
<1>11. /\ p2 >= 0 /\ t2 >= 0 /\ det >= p * t - r * r
       /\ num >= 0
       /\ num <= (n * den) \div (n + 1)
  BY <1>6, <1>7, <1>8, <1>9, <1>10, GrownForm
<1>12. SemiDefinite(w.m2) /\ Determinant(w.m2) >= Determinant(b.m2)
  BY <1>6, <1>7, <1>8, <1>11 DEF SemiDefinite
<1>13. ASSUME det > 0 PROVE Bounded(w, SquaredDistance(w, x))
  <2>1. den > 0
    <3>1. n * (n + 1) * k \in Nat \ {0}
      OBVIOUS
    <3> QED  BY <3>1, <1>10, <1>13
  <2>2. (n * den) \div (n + 1) \in Int
    OBVIOUS
  <2> QED  BY <2>1, <2>2, <1>3, <1>10, <1>11 DEF Bounded
<1> QED  BY <1>1, <1>8, <1>12, <1>13 DEF w

\* What is known of the baseline as long as no division leaves a remainder.
ExactInv ==
  /\ baseline.n > 0 => MeanOfSums(baseline)
  /\ SemiDefinite(baseline.m2)
  /\ distance # NoDistance =>
       /\ baseline.n >= MinSamples
       /\ Determinant(baseline.m2) > 0
       /\ Bounded(baseline, distance)

\* A new process knows nothing.
LEMMA FreshExact ==
  ASSUME baseline = NewBaseline, distance = NoDistance
  PROVE  ExactInv
<1>1. \A e \in Entries : NewBaseline.m2[e] = 0
  BY DEF NewBaseline
<1>2. <<1, 1>> \in Entries /\ <<1, 2>> \in Entries /\ <<2, 1>> \in Entries /\ <<2, 2>> \in Entries
  BY DEF Entries, Vars
<1>3. SemiDefinite(NewBaseline.m2)
  BY <1>1, <1>2 DEF SemiDefinite, Determinant
<1>4. NewBaseline.n = 0
  BY DEF NewBaseline
<1> QED  BY <1>3, <1>4 DEF ExactInv

\* Learning one more reading, the first or a later one.
LEMMA LearnExact ==
  ASSUME LearnInv, ExactInv, baseline.n < MaxSamples, NEW x \in Reading, Learn(x)
  PROVE  ExactInv' /\ (distance # NoDistance => distance' # NoDistance)
<1> DEFINE b == baseline
           w == Update(b, x)
<1>1. b \in BaselineType /\ baseline' = w /\ distance' = Judged(w, x) /\ w.n = b.n + 1
  BY UpdateParts DEF LearnInv, Learn
<1>2. b.n \in Nat /\ MaxSamples \in Nat /\ MinSamples \in Nat \ {0, 1}
  BY <1>1, ExactAssumption, MinSamplesAssumption DEF BaselineType
<1> HIDE DEF b, w
<1>3. CASE b.n = 0
  <2>1. b = NewBaseline
    <3>1. learnt \in Seq(Reading) /\ Len(learnt) = 0
      BY <1>3 DEF LearnInv, b
    <3>2. learnt = <<>>
      BY <3>1
    <3> QED  BY <3>2 DEF LearnInv, b
  <2>2. /\ \A j \in Vars : w.mean[j] = Scale * x[j]
        /\ \A e \in Entries : w.m2[e] = 0
    BY <2>1, FirstReading DEF w
  <2>3. MeanOfSums(w)
    <3>1. [j \in Vars |-> x[j]] \in [Vars -> Int]
      BY VectorAssumption
    <3>2. \A j \in Vars : w.n * w.mean[j] = Scale * [i \in Vars |-> x[i]][j]
      BY <1>1, <1>3, <2>2, VectorAssumption, ScaleAssumption
    <3> QED  BY <3>1, <3>2 DEF MeanOfSums
  <2>4. SemiDefinite(w.m2)
    <3>1. /\ <<1, 1>> \in Entries /\ <<1, 2>> \in Entries
          /\ <<2, 1>> \in Entries /\ <<2, 2>> \in Entries
      BY DEF Entries, Vars
    <3> QED  BY <2>2, <3>1 DEF SemiDefinite, Determinant
  <2>5. distance' = NoDistance
    BY <1>1, <1>2, <1>3 DEF Judged
  <2>6. distance = NoDistance
    BY <1>2, <1>3 DEF ExactInv, b
  <2> QED  BY <1>1, <2>3, <2>4, <2>5, <2>6 DEF ExactInv
<1>4. CASE b.n > 0
  <2>1. b.n \in 1 .. MaxSamples - 1 /\ MeanOfSums(b) /\ SemiDefinite(b.m2)
    BY <1>2, <1>4 DEF ExactInv, b
  <2>2. /\ MeanOfSums(w) /\ SemiDefinite(w.m2)
        /\ Determinant(w.m2) >= Determinant(b.m2)
        /\ Determinant(w.m2) > 0 => Bounded(w, SquaredDistance(w, x))
    BY <1>1, <2>1, SemiDefiniteStep DEF w
  <2>3. Determinant(b.m2) \in Int /\ Determinant(w.m2) \in Int
    <3>1. w \in BaselineType
      BY <1>1, UpdateParts DEF w
    <3> QED  BY <1>1, <3>1 DEF Determinant, BaselineType, Entries, Vars
  <2>4. distance' # NoDistance =>
          w.n >= MinSamples /\ Determinant(w.m2) > 0 /\ distance' = SquaredDistance(w, x)
    BY <1>1, <1>2, <2>2, <2>3 DEF Judged, Singular, SemiDefinite
  <2>5. ASSUME distance # NoDistance PROVE distance' # NoDistance
    <3>1. b.n >= MinSamples /\ Determinant(b.m2) > 0
      BY <2>5 DEF ExactInv, b
    <3>2. w.n >= MinSamples /\ Determinant(w.m2) > 0
      BY <1>1, <1>2, <2>2, <2>3, <3>1
    <3>3. distance' = SquaredDistance(w, x)
      BY <1>1, <1>2, <3>2 DEF Judged, Singular
    <3>4. SquaredDistance(w, x).num >= 0
      BY <2>2, <3>2 DEF Bounded
    <3> QED  BY <3>3, <3>4 DEF NoDistance
  <2> QED  BY <1>1, <2>2, <2>4, <2>5 DEF ExactInv
<1> QED  BY <1>2, <1>3, <1>4

LEMMA ExactStep ==
  ASSUME LearnInv, MemInv', ExactInv, [LearnNext]_learnVars
  PROVE  /\ ExactInv'
         /\ distance # NoDistance /\ baseline'.n > 0 => distance' # NoDistance
<1>1. ASSUME NEW r \in Reading, LearnTick(r)
      PROVE  ExactInv' /\ (distance # NoDistance => distance' # NoDistance)
  <2>1. CASE count' > 1
    <3>1. baseline.n < MaxSamples
      BY <1>1 DEF LearnTick
    <3> QED  BY <1>1, <2>1, <3>1, AnalysedReading, LearnExact
  <2>2. CASE ~(count' > 1)
    BY <1>1, <2>2 DEF LearnTick, ExactInv
  <2> QED  BY <2>1, <2>2
<1>2. CASE LearnRestart
  <2>1. baseline' = NewBaseline /\ distance' = NoDistance /\ NewBaseline.n = 0
    BY <1>2 DEF LearnRestart, NewBaseline
  <2>2. SemiDefinite(NewBaseline.m2)
    <3>1. \A e \in Entries : NewBaseline.m2[e] = 0
      BY DEF NewBaseline
    <3>2. /\ <<1, 1>> \in Entries /\ <<1, 2>> \in Entries
          /\ <<2, 1>> \in Entries /\ <<2, 2>> \in Entries
      BY DEF Entries, Vars
    <3> QED  BY <3>1, <3>2 DEF SemiDefinite, Determinant
  <2> QED  BY <2>1, <2>2 DEF ExactInv
<1>3. CASE UNCHANGED learnVars
  BY <1>3 DEF learnVars, ExactInv
<1> QED  BY <1>1, <1>2, <1>3 DEF LearnNext

\* The covariance never has a negative square, its determinant never falls, and
\* a distance is one from a baseline that holds the reading.
THEOREM ExactInvariant == LearnSpec => []ExactInv
<1>1. LearnInit => ExactInv
  BY FreshExact DEF LearnInit
<1>2. LearnInv /\ MemInv' /\ ExactInv /\ [LearnNext]_learnVars => ExactInv'
  BY ExactStep
<1>3. LearnSpec => []MemInv
  BY LearningMemoryInvariant, PTL DEF MemInv
<1> QED  BY <1>1, <1>2, <1>3, BaselineInvariant, PTL DEF LearnSpec

\* However extreme a reading is, its squared distance from a baseline of n
\* samples that holds it is at most (n - 1)^2 / n.
THEOREM DistanceTheorem == LearnSpec => []DistanceBounded
<1>1. ExactInv => DistanceBounded
  BY DEF ExactInv, DistanceBounded, Bounded
<1> QED  BY <1>1, ExactInvariant, PTL

\* Once the cortex has judged a reading it judges all the later ones.
THEOREM JudgingTheorem == LearnSpec => JudgedForGood
<1>1. LearnInv /\ MemInv' /\ ExactInv /\ [LearnNext]_learnVars =>
        [distance # NoDistance /\ baseline'.n > 0 => distance' # NoDistance]_learnVars
  BY ExactStep
<1>2. LearnSpec => []MemInv
  BY LearningMemoryInvariant, PTL DEF MemInv
<1> QED  BY <1>1, <1>2, BaselineInvariant, ExactInvariant, PTL DEF LearnSpec, JudgedForGood

-----------------------------------------------------------------------------
(* Sums.                                                                   *)

\* A non-empty set of naturals has a smallest member.
LEMMA LeastNatural ==
  ASSUME NEW T \in SUBSET Nat, T # {}
  PROVE  \E m \in T : \A y \in T : m <= y
<1> DEFINE Less == {p \in Nat \X Nat : p[1] < p[2]}
<1>1. IsWellFoundedOn(Less, Nat)
  BY NatLessThanWellFounded DEF OpToRel
<1> HIDE DEF Less
<1>2. PICK m \in T : \A y \in T : ~ (<<y, m>> \in Less)
  BY <1>1, WFMin
<1>3. ASSUME NEW y \in T PROVE m <= y
  <2>1. y \in Nat /\ m \in Nat
    OBVIOUS
  <2>2. y < m => <<y, m>> \in Less
    BY <2>1 DEF Less
  <2> QED  BY <1>2, <2>1, <2>2
<1> QED  BY <1>3

\* g adds up the first n members of a sequence, one by one.
SumsTo(g, values, n) ==
  g = [i \in 0 .. n |-> IF i = 0 THEN 0 ELSE g[i - 1] + values[i]]

\* There are such sums, up to any number of members: were there a smallest number
\* up to which there are none, the sums up to the one before could be continued.
LEMMA SumsExist == \A values : \A n \in Nat : \E g : SumsTo(g, values, n)
<1> SUFFICES ASSUME NEW values PROVE \A n \in Nat : \E g : SumsTo(g, values, n)
  OBVIOUS
<1> DEFINE Without == {n \in Nat : ~ \E g : SumsTo(g, values, n)}
<1>1. SUFFICES ASSUME Without # {} PROVE FALSE
  OBVIOUS
<1>2. PICK m \in Without : \A n \in Without : m <= n
  BY <1>1, LeastNatural
<1>3. m # 0
  <2> DEFINE zero == [i \in 0 .. 0 |-> 0]
  <2>1. SumsTo(zero, values, 0)
    BY DEF SumsTo
  <2> QED  BY <1>2, <2>1
<1>4. PICK k \in Nat : m = k + 1
  <2>1. m - 1 \in Nat /\ m = (m - 1) + 1
    BY <1>2, <1>3
  <2> QED  BY <2>1
<1>5. PICK g : SumsTo(g, values, k)
  BY <1>2, <1>4
<1> DEFINE h == [i \in 0 .. k + 1 |-> IF i = k + 1 THEN g[k] + values[k + 1] ELSE g[i]]
<1>6. ASSUME NEW i \in 0 .. k + 1 PROVE h[i] = IF i = 0 THEN 0 ELSE h[i - 1] + values[i]
  <2>1. CASE i = k + 1
    BY <2>1
  <2>2. CASE i # k + 1
    <3>1. i \in 0 .. k /\ h[i] = g[i]
      BY <2>2
    <3>2. g[i] = IF i = 0 THEN 0 ELSE g[i - 1] + values[i]
      <4> DEFINE gg == [l \in 0 .. k |-> IF l = 0 THEN 0 ELSE g[l - 1] + values[l]]
      <4>1. g = gg
        BY <1>5 DEF SumsTo
      <4>2. gg[i] = IF i = 0 THEN 0 ELSE g[i - 1] + values[i]
        BY <3>1
      <4> QED  BY <4>1, <4>2
    <3>3. i # 0 => h[i - 1] = g[i - 1]
      BY <3>1
    <3> QED  BY <3>1, <3>2, <3>3
  <2> QED  BY <2>1, <2>2
<1>7. SumsTo(h, values, k + 1)
  <2> DEFINE hh == [i \in 0 .. k + 1 |-> IF i = 0 THEN 0 ELSE h[i - 1] + values[i]]
  <2>1. \A i \in 0 .. k + 1 : h[i] = hh[i]
    BY <1>6
  <2>2. h = hh
    BY <2>1
  <2> QED  BY <2>2 DEF SumsTo
<1> QED  BY <1>2, <1>4, <1>7

\* A function that starts at zero and grows by every member ends at the total.
LEMMA TotalReached ==
  ASSUME NEW values \in Seq(Int), NEW g, g[0] = 0,
         \A i \in 1 .. Len(values) : g[i] = g[i - 1] + values[i]
  PROVE  Total(values) = g[Len(values)]
<1> DEFINE n == Len(values)
           f == CHOOSE h : SumsTo(h, values, n)
           Apart == {i \in 0 .. n : f[i] # g[i]}
<1>1. n \in Nat
  OBVIOUS
<1>2. SumsTo(f, values, n)
  BY <1>1, SumsExist
<1>3. Total(values) = f[n]
  BY DEF Total, SumsTo
<1> HIDE DEF f
<1>4. \A i \in 0 .. n : f[i] = IF i = 0 THEN 0 ELSE f[i - 1] + values[i]
  <2> DEFINE ff == [l \in 0 .. n |-> IF l = 0 THEN 0 ELSE f[l - 1] + values[l]]
  <2>1. f = ff
    BY <1>2 DEF SumsTo
  <2>2. \A i \in 0 .. n : ff[i] = IF i = 0 THEN 0 ELSE f[i - 1] + values[i]
    OBVIOUS
  <2> QED  BY <2>1, <2>2
<1>5. Apart = {}
  <2>1. SUFFICES ASSUME Apart # {} PROVE FALSE
    OBVIOUS
  <2>2. PICK m \in Apart : \A i \in Apart : m <= i
    <3>1. Apart \in SUBSET Nat
      BY <1>1
    <3> HIDE DEF Apart
    <3> QED  BY <2>1, <3>1, LeastNatural
  <2>3. m \in 0 .. n /\ f[m] # g[m]
    OBVIOUS
  <2>4. m # 0
    BY <1>1, <1>4, <2>3
  <2>5. m - 1 \in 0 .. n /\ m \in 1 .. n /\ ~(m <= m - 1)
    BY <1>1, <2>3, <2>4
  <2>6. f[m - 1] = g[m - 1]
    BY <2>2, <2>5
  <2>7. f[m] = f[m - 1] + values[m] /\ g[m] = g[m - 1] + values[m]
    BY <1>4, <2>4, <2>5
  <2> QED  BY <2>3, <2>6, <2>7
<1> QED  BY <1>1, <1>3, <1>5

\* The total is the last of the sums of the first members.
LEMMA PartialSums ==
  ASSUME NEW values \in Seq(Int)
  PROVE  \E g : /\ \A i \in 0 .. Len(values) : g[i] \in Int
                /\ g[0] = 0
                /\ \A i \in 1 .. Len(values) : g[i] = g[i - 1] + values[i]
                /\ Total(values) = g[Len(values)]
<1> DEFINE n == Len(values)
<1>1. n \in Nat
  OBVIOUS
<1>2. PICK g : SumsTo(g, values, n)
  BY <1>1, SumsExist
<1>3. \A i \in 0 .. n : g[i] = IF i = 0 THEN 0 ELSE g[i - 1] + values[i]
  <2> DEFINE gg == [l \in 0 .. n |-> IF l = 0 THEN 0 ELSE g[l - 1] + values[l]]
  <2>1. g = gg
    BY <1>2 DEF SumsTo
  <2>2. \A i \in 0 .. n : gg[i] = IF i = 0 THEN 0 ELSE g[i - 1] + values[i]
    OBVIOUS
  <2> QED  BY <2>1, <2>2
<1>4. g[0] = 0 /\ \A i \in 1 .. n : g[i] = g[i - 1] + values[i]
  BY <1>1, <1>3
<1>5. Total(values) = g[n]
  BY <1>4, TotalReached
<1>6. \A i \in 0 .. n : g[i] \in Int
  <2> DEFINE Odd == {i \in 0 .. n : g[i] \notin Int}
  <2>1. SUFFICES ASSUME Odd # {} PROVE FALSE
    OBVIOUS
  <2>2. PICK m \in Odd : \A i \in Odd : m <= i
    <3>1. Odd \in SUBSET Nat
      BY <1>1
    <3> HIDE DEF Odd
    <3> QED  BY <2>1, <3>1, LeastNatural
  <2>3. m \in 0 .. n /\ g[m] \notin Int /\ m # 0
    BY <1>4
  <2>4. m - 1 \in 0 .. n /\ m \in 1 .. n /\ ~(m <= m - 1)
    BY <1>1, <2>3
  <2>5. g[m - 1] \in Int
    BY <2>2, <2>4
  <2>6. g[m] = g[m - 1] + values[m] /\ values[m] \in Int
    BY <1>4, <2>4
  <2> QED  BY <2>3, <2>5, <2>6
<1> QED  BY <1>4, <1>5, <1>6

LEMMA TotalType ==
  ASSUME NEW values \in Seq(Int)
  PROVE  Total(values) \in Int
  BY PartialSums

\* One more member adds itself to the total.
LEMMA TotalAppended ==
  ASSUME NEW values \in Seq(Int), NEW x \in Int
  PROVE  Total(Append(values, x)) = Total(values) + x
<1>1. PICK g : /\ \A i \in 0 .. Len(values) : g[i] \in Int
               /\ g[0] = 0
               /\ \A i \in 1 .. Len(values) : g[i] = g[i - 1] + values[i]
               /\ Total(values) = g[Len(values)]
  BY PartialSums
<1>2. PICK n \in Nat : n = Len(values)
  OBVIOUS
<1> DEFINE more == Append(values, x)
           h == [i \in 0 .. n + 1 |-> IF i = n + 1 THEN g[n] + x ELSE g[i]]
<1>3. /\ more \in Seq(Int) /\ Len(more) = n + 1 /\ more[n + 1] = x
      /\ \A i \in 1 .. n : more[i] = values[i]
  BY <1>2, AppendProperties
<1>4. h[0] = 0 /\ h[n + 1] = g[n] + x
  BY <1>1
<1>5. ASSUME NEW i \in 1 .. n + 1 PROVE h[i] = h[i - 1] + more[i]
  <2>1. CASE i = n + 1
    BY <1>3, <2>1
  <2>2. CASE i # n + 1
    <3>1. i \in 1 .. n /\ h[i] = g[i] /\ h[i - 1] = g[i - 1]
      BY <2>2
    <3> QED  BY <1>1, <1>2, <1>3, <3>1
  <2> QED  BY <2>1, <2>2
<1> HIDE DEF h, more
<1>6. Total(more) = h[n + 1]
  BY <1>3, <1>4, <1>5, TotalReached
<1> QED  BY <1>1, <1>2, <1>4, <1>6 DEF more

LEMMA TotalNothing == Total(<< >>) = 0
<1> DEFINE zero == [i \in 0 .. 0 |-> 0]
<1>1. /\ << >> \in Seq(Int) /\ Len(<< >>) = 0 /\ zero[0] = 0
      /\ \A i \in 1 .. Len(<< >>) : zero[i] = zero[i - 1] + << >>[i]
  OBVIOUS
<1> HIDE DEF zero
<1>2. Total(<< >>) = zero[Len(<< >>)]
  BY <1>1, TotalReached
<1> QED  BY <1>1, <1>2

-----------------------------------------------------------------------------
(* The sums behind the baseline.                                           *)

\* The products of two variables, reading by reading.
Products(samples, j, k) == [i \in DOMAIN samples |-> samples[i][j] * samples[i][k]]

LEMMA ColumnTypes ==
  ASSUME NEW s \in Seq(Reading), NEW j \in Vars, NEW k \in Vars
  PROVE  /\ Column(s, j) \in Seq(Int) /\ Len(Column(s, j)) = Len(s)
         /\ Products(s, j, k) \in Seq(Int) /\ Len(Products(s, j, k)) = Len(s)
<1>1. PICK n \in Nat : n = Len(s) /\ DOMAIN s = 1 .. n
  OBVIOUS
<1>2. \A i \in 1 .. n : s[i][j] \in Int /\ s[i][j] * s[i][k] \in Int
  BY <1>1, VectorAssumption
<1>3. Column(s, j) \in [1 .. n -> Int] /\ Products(s, j, k) \in [1 .. n -> Int]
  BY <1>1, <1>2 DEF Column, Products
<1> QED  BY <1>1, <1>3, SeqDef

LEMMA ColumnAppended ==
  ASSUME NEW s \in Seq(Reading), NEW x \in Reading, NEW j \in Vars, NEW k \in Vars
  PROVE  /\ Total(Column(Append(s, x), j)) = Total(Column(s, j)) + x[j]
         /\ Total(Products(Append(s, x), j, k)) = Total(Products(s, j, k)) + x[j] * x[k]
<1>1. PICK n \in Nat : n = Len(s) /\ DOMAIN s = 1 .. n
  OBVIOUS
<1>2. /\ DOMAIN Append(s, x) = 1 .. n + 1 /\ Append(s, x)[n + 1] = x
      /\ \A i \in 1 .. n : Append(s, x)[i] = s[i]
  BY <1>1, AppendProperties
<1>3. x[j] \in Int /\ x[j] * x[k] \in Int
  BY VectorAssumption
<1>4. Column(Append(s, x), j) = Append(Column(s, j), x[j])
  <2> DEFINE new == Append(Column(s, j), x[j])
  <2>1. /\ new \in Seq(Int) /\ DOMAIN new = 1 .. n + 1 /\ new[n + 1] = x[j]
        /\ \A i \in 1 .. n : new[i] = s[i][j]
    <3> DEFINE old == Column(s, j)
    <3>1. /\ old \in Seq(Int) /\ Len(old) = n
          /\ \A i \in 1 .. n : old[i] = s[i][j]
      BY <1>1, ColumnTypes DEF Column
    <3> HIDE DEF old
    <3>2. PICK y \in Int : y = x[j]
      BY <1>3
    <3>3. /\ Append(old, y) \in Seq(Int) /\ DOMAIN Append(old, y) = 1 .. n + 1
          /\ Append(old, y)[n + 1] = y
          /\ \A i \in 1 .. n : Append(old, y)[i] = old[i]
      BY <3>1, AppendProperties
    <3> QED  BY <3>1, <3>2, <3>3 DEF old
  <2> HIDE DEF new
  <2>2. new = [i \in 1 .. n + 1 |-> Append(s, x)[i][j]]
    BY <1>2, <2>1
  <2> QED  BY <1>2, <2>2 DEF new, Column
<1>5. Products(Append(s, x), j, k) = Append(Products(s, j, k), x[j] * x[k])
  <2> DEFINE new == Append(Products(s, j, k), x[j] * x[k])
  <2>1. /\ new \in Seq(Int) /\ DOMAIN new = 1 .. n + 1 /\ new[n + 1] = x[j] * x[k]
        /\ \A i \in 1 .. n : new[i] = s[i][j] * s[i][k]
    <3> DEFINE old == Products(s, j, k)
    <3>1. /\ old \in Seq(Int) /\ Len(old) = n
          /\ \A i \in 1 .. n : old[i] = s[i][j] * s[i][k]
      BY <1>1, ColumnTypes DEF Products
    <3> HIDE DEF old
    <3>2. PICK y \in Int : y = x[j] * x[k]
      BY <1>3
    <3>3. /\ Append(old, y) \in Seq(Int) /\ DOMAIN Append(old, y) = 1 .. n + 1
          /\ Append(old, y)[n + 1] = y
          /\ \A i \in 1 .. n : Append(old, y)[i] = old[i]
      BY <3>1, AppendProperties
    <3> QED  BY <3>1, <3>2, <3>3 DEF old
  <2> HIDE DEF new
  <2>2. new = [i \in 1 .. n + 1 |-> Append(s, x)[i][j] * Append(s, x)[i][k]]
    BY <1>2, <2>1
  <2> QED  BY <1>2, <2>2 DEF new, Products
<1> QED  BY <1>3, <1>4, <1>5, ColumnTypes, TotalAppended

\* One summand of CentredTotal, expanded.
LEMMA CentredProduct ==
  \A z, a, b, y, w, i, p, q, r : z \in Int /\ a \in Int /\ b \in Int /\ y \in Int /\ w \in Int
      /\ i \in Int /\ p \in Int /\ q \in Int /\ r \in Int =>
    z * z * (p + y * w) - z * b * (q + y) - z * a * (r + w) + i * (a * b)
      = (z * z * p - z * b * q - z * a * r + (i - 1) * (a * b)) + (z * y - a) * (z * w - b)
  OBVIOUS

\* The products of the distances from any vector, from the sums of the readings
\* and of their products.
LEMMA CentredTotal ==
  ASSUME NEW s \in Seq(Reading), NEW m \in [Vars -> Int], NEW j \in Vars, NEW k \in Vars
  PROVE  Total([i \in DOMAIN s |-> Delta(s[i], m)[j] * Delta(s[i], m)[k]]) =
           Scale * Scale * Total(Products(s, j, k)) - Scale * m[k] * Total(Column(s, j))
             - Scale * m[j] * Total(Column(s, k)) + Len(s) * (m[j] * m[k])
<1>1. PICK n \in Nat : n = Len(s) /\ DOMAIN s = 1 .. n
  OBVIOUS
<1>2. PICK z, a, b \in Int : z = Scale /\ a = m[j] /\ b = m[k]
  BY ScaleAssumption
<1>3. PICK p : /\ \A i \in 0 .. n : p[i] \in Int
               /\ p[0] = 0
               /\ \A i \in 1 .. n : p[i] = p[i - 1] + s[i][j] * s[i][k]
               /\ Total(Products(s, j, k)) = p[n]
  <2> DEFINE c == Products(s, j, k)
  <2>1. c \in Seq(Int) /\ Len(c) = n /\ \A i \in 1 .. n : c[i] = s[i][j] * s[i][k]
    BY <1>1, ColumnTypes DEF Products
  <2> HIDE DEF c
  <2>2. PICK g : /\ \A i \in 0 .. n : g[i] \in Int
                 /\ g[0] = 0
                 /\ \A i \in 1 .. n : g[i] = g[i - 1] + c[i]
                 /\ Total(c) = g[n]
    BY <2>1, PartialSums
  <2>3. \A i \in 1 .. n : g[i] = g[i - 1] + s[i][j] * s[i][k]
    BY <2>1, <2>2
  <2> QED  BY <2>2, <2>3 DEF c
<1>4. PICK q : /\ \A i \in 0 .. n : q[i] \in Int
               /\ q[0] = 0
               /\ \A i \in 1 .. n : q[i] = q[i - 1] + s[i][j]
               /\ Total(Column(s, j)) = q[n]
  <2> DEFINE c == Column(s, j)
  <2>1. c \in Seq(Int) /\ Len(c) = n /\ \A i \in 1 .. n : c[i] = s[i][j]
    BY <1>1, ColumnTypes DEF Column
  <2> HIDE DEF c
  <2>2. PICK g : /\ \A i \in 0 .. n : g[i] \in Int
                 /\ g[0] = 0
                 /\ \A i \in 1 .. n : g[i] = g[i - 1] + c[i]
                 /\ Total(c) = g[n]
    BY <2>1, PartialSums
  <2>3. \A i \in 1 .. n : g[i] = g[i - 1] + s[i][j]
    BY <2>1, <2>2
  <2> QED  BY <2>2, <2>3 DEF c
<1>5. PICK r : /\ \A i \in 0 .. n : r[i] \in Int
               /\ r[0] = 0
               /\ \A i \in 1 .. n : r[i] = r[i - 1] + s[i][k]
               /\ Total(Column(s, k)) = r[n]
  <2> DEFINE c == Column(s, k)
  <2>1. c \in Seq(Int) /\ Len(c) = n /\ \A i \in 1 .. n : c[i] = s[i][k]
    BY <1>1, ColumnTypes DEF Column
  <2> HIDE DEF c
  <2>2. PICK g : /\ \A i \in 0 .. n : g[i] \in Int
                 /\ g[0] = 0
                 /\ \A i \in 1 .. n : g[i] = g[i - 1] + c[i]
                 /\ Total(c) = g[n]
    BY <2>1, PartialSums
  <2>3. \A i \in 1 .. n : g[i] = g[i - 1] + s[i][k]
    BY <2>1, <2>2
  <2> QED  BY <2>2, <2>3 DEF c
<1> DEFINE values == [i \in DOMAIN s |-> Delta(s[i], m)[j] * Delta(s[i], m)[k]]
           h == [i \in 0 .. n |-> z * z * p[i] - z * b * q[i] - z * a * r[i] + i * (a * b)]
<1>6. ASSUME NEW i \in 1 .. n
      PROVE  values[i] \in Int /\ h[i] = h[i - 1] + values[i]
  <2>1. PICK y, w \in Int : y = s[i][j] /\ w = s[i][k]
    BY <1>1, VectorAssumption
  <2>2. values[i] = (z * y - a) * (z * w - b)
    BY <1>1, <1>2, <2>1 DEF Delta
  <2>3. i - 1 \in 0 .. n /\ i \in 0 .. n
    OBVIOUS
  <2>4. PICK p0, q0, r0 \in Int : p0 = p[i - 1] /\ q0 = q[i - 1] /\ r0 = r[i - 1]
    BY <1>3, <1>4, <1>5, <2>3
  <2>5. p[i] = p0 + y * w /\ q[i] = q0 + y /\ r[i] = r0 + w
    BY <1>3, <1>4, <1>5, <2>1, <2>4
  <2>6. h[i] = z * z * (p0 + y * w) - z * b * (q0 + y) - z * a * (r0 + w) + i * (a * b)
    BY <2>3, <2>5
  <2>7. h[i - 1] = z * z * p0 - z * b * q0 - z * a * r0 + (i - 1) * (a * b)
    BY <2>3, <2>4
  <2>8. (z * y - a) * (z * w - b) \in Int
    OBVIOUS
  <2> HIDE DEF h, values
  <2>9. h[i] = h[i - 1] + (z * y - a) * (z * w - b)
    BY <2>6, <2>7, CentredProduct
  <2> QED  BY <2>2, <2>8, <2>9
<1>7. values \in Seq(Int) /\ Len(values) = n
  <2>1. values \in [1 .. n -> Int]
    BY <1>1, <1>6
  <2> HIDE DEF values
  <2> QED  BY <2>1, SeqDef
<1>8. h[0] = 0
  BY <1>3, <1>4, <1>5
<1>9. h[n] = z * z * p[n] - z * b * q[n] - z * a * r[n] + n * (a * b)
  OBVIOUS
<1> HIDE DEF h, values
<1>10. Total(values) = h[n]
  BY <1>6, <1>7, <1>8, TotalReached
<1> QED  BY <1>1, <1>2, <1>3, <1>4, <1>5, <1>9, <1>10 DEF values

-----------------------------------------------------------------------------
(* One reading at a time, and all at once.                                 *)

\* The baseline of n readings has n mean = Scale * sum, and the products of the
\* sums of products, less those of the mean.
BatchInv ==
  /\ \A j \in Vars : baseline.n * baseline.mean[j] = Scale * Total(Column(learnt, j))
  /\ \A j, k \in Vars :
       Scale * baseline.m2[<<j, k>>] =
         Scale * Scale * Total(Products(learnt, j, k))
           - baseline.n * (baseline.mean[j] * baseline.mean[k])

\* The arithmetic of one more reading, for two variables with the means m and o
\* before and m2 and o2 after it.
LEMMA GrownSum ==
  ASSUME NEW n \in Nat, NEW k \in Nat, NEW z \in Int, z = n * (n + 1) * k,
         NEW y \in Int, NEW u \in Int,
         NEW m \in Int, m = z * y - (n + 1) * (k * u),
         NEW m2 \in Int, m2 = z * y - n * k * u,
         NEW x \in Int, n * m = z * x
  PROVE  (n + 1) * m2 = z * (x + y)
<1>1. (n + 1) * m2 = n * m + z * y
  OBVIOUS
<1> QED  BY <1>1

\* The product of two differences.
LEMMA ExpandedProduct ==
  ASSUME NEW a \in Int, NEW b \in Int, NEW c \in Int, NEW f \in Int, NEW g \in Int
  PROVE  (a - c * f) * (b - c * g) = a * b - c * (a * g + f * b) + c * c * (f * g)
  OBVIOUS

\* What a reading adds to the sum of the products is what the mean takes from it.
LEMMA Balanced ==
  ASSUME NEW n \in Int, NEW e \in Int, NEW s \in Int, NEW h \in Int
  PROVE  n * (n + 1) * h = n * (e - (n + 1) * s + (n + 1) * (n + 1) * h) + e
                             - (n + 1) * (e - n * s + n * n * h)
  OBVIOUS

LEMMA GrownProducts ==
  ASSUME NEW n \in Nat, NEW k \in Nat, NEW z \in Int, z = n * (n + 1) * k,
         NEW y \in Int, NEW u \in Int, NEW w \in Int, NEW v \in Int,
         NEW m \in Int, m = z * y - (n + 1) * (k * u),
         NEW o \in Int, o = z * w - (n + 1) * (k * v),
         NEW m2 \in Int, m2 = z * y - n * k * u,
         NEW o2 \in Int, o2 = z * w - n * k * v,
         NEW p \in Int, NEW q \in Int, z * q = z * z * p - n * (m * o)
  PROVE  z * (q + k * (u * v)) = z * z * (p + y * w) - (n + 1) * (m2 * o2)
<1> DEFINE f == k * u
           g == k * v
           a == z * y
           b == z * w
<1>1. f \in Int /\ g \in Int /\ a \in Int /\ b \in Int
  OBVIOUS
<1>2. z * (k * (u * v)) = n * (n + 1) * (f * g)
  OBVIOUS
<1>3. z * z * (y * w) = a * b
  OBVIOUS
<1>4. /\ m = a - (n + 1) * f /\ m2 = a - n * f
      /\ o = b - (n + 1) * g /\ o2 = b - n * g
  OBVIOUS
<1> HIDE DEF f, g, a, b
<1>5. n * (n + 1) * (f * g) = n * (m * o) + a * b - (n + 1) * (m2 * o2)
  <2>1. PICK e, s, h \in Int : e = a * b /\ s = a * g + f * b /\ h = f * g
    BY <1>1
  <2>2. m * o = e - (n + 1) * s + (n + 1) * (n + 1) * h
    <3>1. n + 1 \in Int
      OBVIOUS
    <3>2. (a - (n + 1) * f) * (b - (n + 1) * g)
            = a * b - (n + 1) * (a * g + f * b) + (n + 1) * (n + 1) * (f * g)
      BY <1>1, <3>1, ExpandedProduct
    <3> QED  BY <1>4, <2>1, <3>2, Zenon
  <2>3. m2 * o2 = e - n * s + n * n * h
    <3>1. (a - n * f) * (b - n * g) = a * b - n * (a * g + f * b) + n * n * (f * g)
      BY <1>1, ExpandedProduct
    <3> QED  BY <1>4, <2>1, <3>1, Zenon
  <2>4. n * (n + 1) * h = n * (e - (n + 1) * s + (n + 1) * (n + 1) * h) + e
                            - (n + 1) * (e - n * s + n * n * h)
    BY Balanced
  <2> QED  BY <2>1, <2>2, <2>3, <2>4
<1> QED  BY <1>1, <1>2, <1>3, <1>5

LEMMA BatchStart ==
  ASSUME baseline = NewBaseline, learnt = << >>
  PROVE  BatchInv
<1>1. \A j, k \in Vars : Column(learnt, j) = << >> /\ Products(learnt, j, k) = << >>
  BY DEF Column, Products
<1>2. /\ baseline.n = 0
      /\ \A j \in Vars : baseline.mean[j] = 0
      /\ \A j, k \in Vars : baseline.m2[<<j, k>>] = 0
  BY DEF NewBaseline, Entries
<1> QED  BY <1>1, <1>2, TotalNothing, ScaleAssumption DEF BatchInv

LEMMA BatchLearn ==
  ASSUME LearnInv, BatchInv, baseline.n < MaxSamples, NEW x \in Reading, Learn(x)
  PROVE  BatchInv'
<1> DEFINE b == baseline
           w == Update(b, x)
<1>1. /\ b \in BaselineType /\ baseline' = w /\ w \in BaselineType /\ w.n = b.n + 1
      /\ learnt \in Seq(Reading) /\ learnt' = Append(learnt, x)
  BY UpdateParts DEF LearnInv, Learn
<1>2. PICK n \in Nat : n = b.n /\ n < MaxSamples
  BY <1>1 DEF BaselineType
<1>3. ASSUME NEW j \in Vars, NEW k \in Vars
      PROVE  /\ b.mean[j] \in Int /\ w.mean[j] \in Int /\ x[j] \in Int
             /\ b.m2[<<j, k>>] \in Int
             /\ Total(Column(learnt, j)) \in Int /\ Total(Products(learnt, j, k)) \in Int
             /\ Total(Column(learnt', j)) = Total(Column(learnt, j)) + x[j]
             /\ Total(Products(learnt', j, k)) = Total(Products(learnt, j, k)) + x[j] * x[k]
             /\ n * b.mean[j] = Scale * Total(Column(learnt, j))
             /\ Scale * b.m2[<<j, k>>] =
                  Scale * Scale * Total(Products(learnt, j, k)) - n * (b.mean[j] * b.mean[k])
  BY <1>1, <1>2, VectorAssumption, ColumnTypes, ColumnAppended, TotalType
     DEF BaselineType, Entries, BatchInv
<1>4. baseline'.n = n + 1 /\ baseline'.mean = w.mean /\ baseline'.m2 = w.m2
  BY <1>1, <1>2
<1>7. \A j \in Vars :
        (n + 1) * w.mean[j] = Scale * (Total(Column(learnt, j)) + x[j])
          => baseline'.n * baseline'.mean[j] = Scale * Total(Column(learnt', j))
  BY <1>3, <1>4
<1>8. \A j, k \in Vars :
        Scale * w.m2[<<j, k>>] =
            Scale * Scale * (Total(Products(learnt, j, k)) + x[j] * x[k])
              - (n + 1) * (w.mean[j] * w.mean[k])
          => Scale * baseline'.m2[<<j, k>>] =
               Scale * Scale * Total(Products(learnt', j, k))
                 - baseline'.n * (baseline'.mean[j] * baseline'.mean[k])
  BY <1>3, <1>4
<1>9. SUFFICES ASSUME NEW j \in Vars, NEW k \in Vars
               PROVE  /\ (n + 1) * w.mean[j] = Scale * (Total(Column(learnt, j)) + x[j])
                      /\ Scale * w.m2[<<j, k>>] =
                           Scale * Scale * (Total(Products(learnt, j, k)) + x[j] * x[k])
                             - (n + 1) * (w.mean[j] * w.mean[k])
  BY <1>7, <1>8 DEF BatchInv
<1>5. CASE n = 0
  <2>1. b = NewBaseline
    <3>1. Len(learnt) = 0
      BY <1>2, <1>5 DEF LearnInv
    <3>2. learnt = << >>
      BY <1>1, <3>1
    <3> QED  BY <3>2 DEF LearnInv
  <2>2. /\ w.mean[j] = Scale * x[j] /\ w.mean[k] = Scale * x[k] /\ w.m2[<<j, k>>] = 0
    BY <2>1, FirstReading DEF Entries
  <2>3. Total(Column(learnt, j)) = 0 /\ Total(Products(learnt, j, k)) = 0
    <3>1. learnt = << >>
      <4>1. Len(learnt) = 0
        BY <1>2, <1>5 DEF LearnInv
      <4> QED  BY <1>1, <4>1
    <3>2. Column(learnt, j) = << >> /\ Products(learnt, j, k) = << >>
      BY <3>1 DEF Column, Products
    <3> QED  BY <3>2, TotalNothing
  <2>4. PICK z, y, v \in Int : z = Scale /\ y = x[j] /\ v = x[k]
    <3>1. Scale \in Int /\ x[j] \in Int /\ x[k] \in Int
      BY VectorAssumption, ScaleAssumption
    <3> QED  BY <3>1
  <2>5. z * z * (y * v) = (z * y) * (z * v)
    OBVIOUS
  <2> QED  BY <1>5, <2>2, <2>3, <2>4, <2>5
<1>6. CASE n > 0
  <2>1. MeanOfSums(b) /\ b.n \in 1 .. MaxSamples - 1
    <3> DEFINE sums == [i \in Vars |-> Total(Column(learnt, i))]
    <3>1. sums \in [Vars -> Int] /\ \A i \in Vars : b.n * b.mean[i] = Scale * sums[i]
      BY <1>2, <1>3
    <3>2. MeanOfSums(b)
      BY <3>1 DEF MeanOfSums
    <3> QED  BY <1>2, <1>6, <3>2, ExactAssumption
  <2>2. PICK c \in Nat \ {0}, u \in [Vars -> Int] :
          /\ Scale = b.n * (b.n + 1) * c
          /\ \A i \in Vars : Delta(x, b.mean)[i] = (b.n + 1) * (c * u[i])
          /\ \A i \in Vars : Delta(x, w.mean)[i] = b.n * c * u[i]
          /\ \A i, l \in Vars : w.m2[<<i, l>>] = b.m2[<<i, l>>] + c * (u[i] * u[l])
    <3>1. b \in BaselineType
      BY <1>1
    <3> HIDE DEF b
    <3> QED  BY <2>1, <3>1, ExactUpdate DEF w
  <2>3. PICK z, m, o, m2, o2, y, v, f, g, p, q, t \in Int :
          /\ z = Scale
          /\ m = b.mean[j] /\ o = b.mean[k] /\ m2 = w.mean[j] /\ o2 = w.mean[k]
          /\ y = x[j] /\ v = x[k] /\ f = u[j] /\ g = u[k]
          /\ p = Total(Products(learnt, j, k)) /\ q = b.m2[<<j, k>>]
          /\ t = Total(Column(learnt, j))
    <3>1. /\ Scale \in Int /\ u[j] \in Int /\ u[k] \in Int /\ x[j] \in Int /\ x[k] \in Int
      BY <2>2, VectorAssumption, ScaleAssumption
    <3>2. /\ b.mean \in [Vars -> Int] /\ w.mean \in [Vars -> Int]
      BY <1>1 DEF BaselineType
    <3>3. /\ b.m2[<<j, k>>] \in Int
          /\ Total(Column(learnt, j)) \in Int /\ Total(Products(learnt, j, k)) \in Int
      BY <1>3
    <3> HIDE DEF b, w
    <3> QED  BY <3>1, <3>2, <3>3
  <2> HIDE DEF w, b
  <2>4. /\ z = n * (n + 1) * c
        /\ z * y - m = (n + 1) * (c * f) /\ z * y - m2 = n * c * f
        /\ z * v - o = (n + 1) * (c * g) /\ z * v - o2 = n * c * g
        /\ n * m = z * t /\ z * q = z * z * p - n * (m * o)
        /\ w.m2[<<j, k>>] = q + c * (f * g)
    BY <1>2, <1>3, <2>2, <2>3 DEF Delta
  <2>5. /\ m = z * y - (n + 1) * (c * f) /\ m2 = z * y - n * c * f
        /\ o = z * v - (n + 1) * (c * g) /\ o2 = z * v - n * c * g
    BY <2>4
  <2>6. (n + 1) * m2 = z * (t + y)
    BY <2>4, <2>5, GrownSum
  <2>7. z * (q + c * (f * g)) = z * z * (p + y * v) - (n + 1) * (m2 * o2)
    BY <2>4, <2>5, GrownProducts
  <2> QED  BY <2>3, <2>4, <2>6, <2>7
<1> QED  BY <1>2, <1>5, <1>6

LEMMA BatchStep ==
  LearnInv /\ MemInv' /\ BatchInv /\ [LearnNext]_learnVars => BatchInv'
<1> SUFFICES ASSUME LearnInv, MemInv', BatchInv, [LearnNext]_learnVars PROVE BatchInv'
  OBVIOUS
<1>1. ASSUME NEW r \in Reading, LearnTick(r) PROVE BatchInv'
  <2>1. CASE count' > 1
    <3>1. baseline.n < MaxSamples
      BY <1>1 DEF LearnTick
    <3> QED  BY <1>1, <2>1, <3>1, AnalysedReading, BatchLearn
  <2>2. CASE ~(count' > 1)
    BY <1>1, <2>2 DEF LearnTick, BatchInv
  <2> QED  BY <2>1, <2>2
<1>2. CASE LearnRestart
  <2>1. baseline' = NewBaseline /\ learnt' = << >>
    BY <1>2 DEF LearnRestart
  <2>2. \A j, k \in Vars : Column(learnt', j) = << >> /\ Products(learnt', j, k) = << >>
    BY <2>1 DEF Column, Products
  <2>3. /\ baseline'.n = 0
        /\ \A j \in Vars : baseline'.mean[j] = 0
        /\ \A j, k \in Vars : baseline'.m2[<<j, k>>] = 0
    BY <2>1 DEF NewBaseline, Entries
  <2> QED  BY <2>2, <2>3, TotalNothing, ScaleAssumption DEF BatchInv
<1>3. CASE UNCHANGED learnVars
  BY <1>3 DEF learnVars, BatchInv
<1> QED  BY <1>1, <1>2, <1>3 DEF LearnNext

\* The sums behind the baseline are those of the readings learnt.
THEOREM BatchInvariant == LearnSpec => []BatchInv
<1>1. LearnInit => BatchInv
  BY BatchStart DEF LearnInit
<1>2. LearnSpec => []MemInv
  BY LearningMemoryInvariant, PTL DEF MemInv
<1> QED  BY <1>1, <1>2, BatchStep, BaselineInvariant, PTL DEF LearnSpec

\* The batch computation, from the same sums.
LEMMA BatchMeans ==
  ASSUME LearnInv, BatchInv, learnt # << >>
  PROVE  /\ Len(learnt) \in Nat \ {0}
         /\ baseline.mean = MeanVector(learnt)
         /\ baseline.m2 = CentredProducts(learnt)
<1>1. /\ learnt \in Seq(Reading) /\ baseline \in BaselineType /\ baseline.n = Len(learnt)
  BY DEF LearnInv
<1>2. PICK n \in Nat \ {0} : n = Len(learnt) /\ n = baseline.n
  BY <1>1
<1>3. baseline.mean \in [Vars -> Int] /\ baseline.m2 \in [Entries -> Int]
  BY <1>1 DEF BaselineType
<1>4. baseline.mean = MeanVector(learnt)
  <2>1. ASSUME NEW j \in Vars PROVE MeanVector(learnt)[j] = baseline.mean[j]
    <3>1. n * baseline.mean[j] = Scale * Total(Column(learnt, j)) /\ baseline.mean[j] \in Int
      BY <1>2, <1>3 DEF BatchInv
    <3>2. (n * baseline.mean[j]) \div n = baseline.mean[j]
      BY <3>1, ExactQuotient
    <3> QED  BY <1>2, <3>1, <3>2 DEF MeanVector
  <2>2. DOMAIN MeanVector(learnt) = Vars /\ MeanVector(learnt) = [j \in Vars |-> MeanVector(learnt)[j]]
    BY DEF MeanVector
  <2> QED  BY <1>3, <2>1, <2>2
<1>5. baseline.m2 = CentredProducts(learnt)
  <2> DEFINE m == MeanVector(learnt)
             products(j, k) == [i \in DOMAIN learnt |-> Delta(learnt[i], m)[j] * Delta(learnt[i], m)[k]]
  <2>1. ASSUME NEW e \in Entries
        PROVE  CentredProducts(learnt)[e] = Total(products(e[1], e[2])) \div Scale
    BY <2>1 DEF CentredProducts
  <2>2. ASSUME NEW j \in Vars, NEW k \in Vars
        PROVE  Total(products(j, k)) = Scale * baseline.m2[<<j, k>>]
    <3>1. m \in [Vars -> Int] /\ m = baseline.mean
      BY <1>3, <1>4
    <3>2. Total(products(j, k)) =
            Scale * Scale * Total(Products(learnt, j, k)) - Scale * m[k] * Total(Column(learnt, j))
              - Scale * m[j] * Total(Column(learnt, k)) + Len(learnt) * (m[j] * m[k])
      BY <1>1, <3>1, CentredTotal
    <3> HIDE DEF m, products
    <3>3. PICK z, a, b, p, q, r \in Int :
            /\ z = Scale /\ a = m[j] /\ b = m[k] /\ p = Total(Products(learnt, j, k))
            /\ q = Total(Column(learnt, j)) /\ r = Total(Column(learnt, k))
      <4>1. Scale \in Int /\ m[j] \in Int /\ m[k] \in Int
        BY <3>1, ScaleAssumption
      <4>2. /\ Total(Products(learnt, j, k)) \in Int
            /\ Total(Column(learnt, j)) \in Int /\ Total(Column(learnt, k)) \in Int
        BY <1>1, ColumnTypes, TotalType
      <4> QED  BY <4>1, <4>2
    <3>4. /\ n * a = z * q /\ n * b = z * r
          /\ Scale * baseline.m2[<<j, k>>] = z * z * p - n * (a * b)
      BY <1>2, <3>1, <3>3 DEF BatchInv
    <3>5. Total(products(j, k)) = z * z * p - z * b * q - z * a * r + n * (a * b)
      BY <1>2, <3>2, <3>3
    <3>6. z * b * q = n * (a * b) /\ z * a * r = n * (a * b)
      <4>1. z * b * q = b * (z * q) /\ z * a * r = a * (z * r)
        OBVIOUS
      <4>2. b * (n * a) = n * (a * b) /\ a * (n * b) = n * (a * b)
        OBVIOUS
      <4> QED  BY <3>4, <4>1, <4>2
    <3> QED  BY <3>4, <3>5, <3>6
  <2> HIDE DEF products, m
  <2>3. ASSUME NEW e \in Entries PROVE CentredProducts(learnt)[e] = baseline.m2[e]
    <3>1. e[1] \in Vars /\ e[2] \in Vars /\ e = <<e[1], e[2]>> /\ baseline.m2[e] \in Int
      BY <1>3 DEF Entries
    <3>2. Total(products(e[1], e[2])) = Scale * baseline.m2[e]
      BY <2>2, <3>1
    <3> QED  BY <2>1, <3>1, <3>2, ScaleAssumption, ExactQuotient
  <2>4. CentredProducts(learnt) = [e \in Entries |-> CentredProducts(learnt)[e]]
    BY DEF CentredProducts
  <2> QED  BY <1>3, <2>3, <2>4
<1> QED  BY <1>2, <1>4, <1>5

\* What Welford's formula has learnt is what statistics.go computes from all the
\* readings at once, for every sequence of readings.
THEOREM BatchTheorem == LearnSpec => []BaselineIsBatch
<1>1. LearnInv /\ BatchInv => BaselineIsBatch
  BY BatchMeans DEF BaselineIsBatch, LearnInv
<1> QED  BY <1>1, BaselineInvariant, BatchInvariant, PTL

=============================================================================
