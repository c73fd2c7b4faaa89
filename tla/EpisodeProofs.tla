----------------------------- MODULE EpisodeProofs -----------------------------
(***************************************************************************)
(* Proofs about SurvivalEpisode, for any number of CPUs and tasks, any     *)
(* hardware and any number of changes of the CPUs on line.                 *)
(*                                                                         *)
(* The CPU sets.  A list of CPUs says what it was written for, whatever    *)
(* the set (ParsedList).  During a walk that nothing disturbs every group  *)
(* is the list of one cache, so two different lists are two caches and     *)
(* share no CPU; the groups keep that after the walk, when CPUs come and   *)
(* go.  The kernel lets tasks run on what the two files say, so the tasks  *)
(* of two siblings are apart as long as each file names a CPU on line; a   *)
(* vital cgroup inside the offender's finds none of its CPUs there, and    *)
(* gets its parent's.                                                      *)
(*                                                                         *)
(* The scheduler.  Every task is at one place (Places), dispatch moves one *)
(* task to a CPU and another one to a queue, and enqueue drops the armed   *)
(* offender whoever hands it over.                                         *)
(***************************************************************************)
EXTENDS SurvivalEpisode, FiniteSetTheorems, SequenceTheorems, TLAPS

-----------------------------------------------------------------------------
(* Sets of naturals.                                                       *)

\* A non-empty set of naturals has a smallest member.
LEMMA LeastNatural ==
  ASSUME NEW T \in SUBSET Nat, T # {}
  PROVE  \E m \in T : \A y \in T : m <= y
<1> DEFINE Less == {p \in Nat \X Nat : p[1] < p[2]}
<1>1. IsWellFoundedOn(Less, Nat)
  BY NatLessThanWellFounded DEF OpToRel
<1> HIDE DEF Less
<1>2. PICK m \in T : \A y \in T : ~ (<<y, m>> \in Less)
  BY <1>1, WFMin
<1>3. ASSUME NEW y \in T PROVE m <= y
  <2>1. y \in Nat /\ m \in Nat
    OBVIOUS
  <2>2. y < m => <<y, m>> \in Less
    BY <2>1 DEF Less
  <2> QED  BY <1>2, <2>1, <2>2
<1> QED  BY <1>3

\* A finite one has an upper bound: a smallest set without one would be without
\* one after the loss of a member.
LEMMA FiniteBounded ==
  ASSUME NEW S \in SUBSET Nat, IsFiniteSet(S)
  PROVE  \E n \in Nat : \A c \in S : c <= n
<1> DEFINE Has(T) == \E n \in Nat : \A c \in T : c <= n
           C == {T \in FiniteSubsetsOf(Nat) : ~Has(T)}
<1>1. SUFFICES ASSUME ~Has(S) PROVE FALSE
  OBVIOUS
<1>2. C \subseteq FiniteSubsetsOf(Nat) /\ S \in C
  BY <1>1 DEF FiniteSubsetsOf
<1>3. PICK T \in C : \A U \in C : <<U, T>> \notin StrictSubsetOrdering(Nat)
  BY <1>2, FS_StrictSubsetOrderingWellFounded, WFMin
<1>4. T \in SUBSET Nat /\ IsFiniteSet(T) /\ ~Has(T)
  BY <1>3 DEF FiniteSubsetsOf
<1>5. PICK x \in T : TRUE
  BY <1>4
<1>6. T \ {x} \in FiniteSubsetsOf(Nat) /\ <<T \ {x}, T>> \in StrictSubsetOrdering(Nat)
  BY <1>4, <1>5, FS_RemoveElement DEF FiniteSubsetsOf, StrictSubsetOrdering
<1>7. PICK n \in Nat : \A c \in T \ {x} : c <= n
  BY <1>3, <1>6
<1>8. \A c \in T : c <= n + x
  BY <1>4, <1>5, <1>7
<1> QED  BY <1>4, <1>5, <1>8

\* The smallest member is what Min says.
LEMMA MinMember ==
  ASSUME NEW T \in SUBSET Nat, T # {}
  PROVE  Min(T) \in T
  BY LeastNatural DEF Min

-----------------------------------------------------------------------------
(* Lists of CPUs.                                                          *)

\* Reading a list of CPUs gives back the set it was written for: every CPU is in
\* one of its ranges, and no range has another CPU.
LEMMA ParsedList ==
  ASSUME NEW S \in SUBSET Nat, IsFiniteSet(S)
  PROVE  ParseCPUList(CPUList(S)) = S
<1>1. ParseCPUList(CPUList(S)) \subseteq S
  BY DEF ParseCPUList, CPUList
<1>2. ASSUME NEW c \in S PROVE c \in ParseCPUList(CPUList(S))
  <2> DEFINE F == {f \in Nat : f <= c /\ f .. c \subseteq S}
             L == {l \in Nat : c <= l /\ l + 1 \notin S}
  <2>1. PICK first \in F : \A f \in F : first <= f
    <3>1. c \in F
      OBVIOUS
    <3> QED  BY <3>1, LeastNatural
  <2>2. PICK last \in L : \A l \in L : last <= l
    <3>1. PICK n \in Nat : \A d \in S : d <= n
      BY FiniteBounded
    <3>2. c <= n /\ n + 1 \notin S
      BY <3>1
    <3>3. n \in L
      BY <3>2
    <3> QED  BY <3>3, LeastNatural
  <2>3. first - 1 \notin S
    <3>1. ASSUME first - 1 \in S PROVE FALSE
      <4>1. first - 1 \in Nat /\ first - 1 <= c
        BY <3>1, <2>1
      <4>2. \A d \in first - 1 .. c : d = first - 1 \/ d \in first .. c
        BY <2>1, <4>1
      <4>3. first - 1 \in F
        BY <2>1, <3>1, <4>1, <4>2
      <4> QED  BY <2>1, <4>1, <4>3
    <3> QED  BY <3>1
  <2>4. ASSUME NEW d \in c .. last PROVE d \in S
    <3>1. SUFFICES ASSUME d \notin S PROVE FALSE
      OBVIOUS
    <3>2. d \in Nat /\ c < d /\ d <= last
      BY <2>2, <2>4, <3>1
    <3>3. d - 1 \in Nat /\ c <= d - 1 /\ (d - 1) + 1 = d
      BY <3>2
    <3>4. d - 1 \in L
      BY <3>1, <3>3
    <3> QED  BY <2>2, <3>2, <3>4
  <2>5. first \in S /\ last \in S /\ first <= c /\ c <= last /\ first .. last \subseteq S
    <3>1. first \in first .. c /\ last \in c .. last /\ first <= c /\ c <= last
      BY <2>1, <2>2
    <3>2. \A d \in first .. last : d \in first .. c \/ d \in c .. last
      BY <2>1, <2>2
    <3> QED  BY <2>1, <2>4, <3>1, <3>2
  <2>6. <<first, last>> \in CPUList(S)
    BY <2>2, <2>3, <2>5 DEF CPUList
  <2> QED  BY <2>1, <2>2, <2>5, <2>6 DEF ParseCPUList
<1> QED  BY <1>1, <1>2

-----------------------------------------------------------------------------
(* The queues.                                                             *)

Queues == [Queue -> Seq(Task)]

\* Task t waits somewhere; it waits at most once.
In(queues, t) == \E q \in Queue : \E i \in DOMAIN queues[q] : queues[q][i] = t

Once(queues, t) ==
  \A p, q \in Queue : \A i \in DOMAIN queues[p], k \in DOMAIN queues[q] :
    queues[p][i] = t /\ queues[q][k] = t => p = q /\ i = k

LEMMA QueuedIn ==
  ASSUME dsq \in Queues, NEW t
  PROVE  Queued(t) <=> In(dsq, t)
<1>1. \A q \in Queue : DOMAIN dsq[q] = 1 .. Len(dsq[q])
  BY DEF Queues
<1> QED  BY <1>1 DEF Queued, In, Contains

\* What is left of a queue when one task is taken out.
LEMMA Removed ==
  ASSUME NEW s \in Seq(Task), NEW i \in 1 .. Len(s)
  PROVE  /\ RemoveAt(s, i) \in Seq(Task)
         /\ DOMAIN RemoveAt(s, i) = 1 .. Len(s) - 1
         /\ \A k \in 1 .. Len(s) - 1 : RemoveAt(s, i)[k] = s[IF k < i THEN k ELSE k + 1]
<1> DEFINE front == SubSeq(s, 1, i - 1)
           back == SubSeq(s, i + 1, Len(s))
<1>1. /\ front \in Seq(Task) /\ Len(front) = i - 1
      /\ \A k \in 1 .. i - 1 : front[k] = s[k]
  BY SubSeqProperties
<1>2. /\ back \in Seq(Task) /\ Len(back) = Len(s) - i
      /\ \A k \in 1 .. Len(s) - i : back[k] = s[i + k]
  BY SubSeqProperties
<1>3. RemoveAt(s, i) = front \o back
  BY DEF RemoveAt
<1> HIDE DEF front, back
<1>4. /\ front \o back \in Seq(Task) /\ Len(front \o back) = Len(s) - 1
      /\ \A k \in 1 .. Len(s) - 1 :
           (front \o back)[k] = IF k <= i - 1 THEN front[k] ELSE back[k - (i - 1)]
  BY <1>1, <1>2, ConcatProperties
<1> QED  BY <1>1, <1>2, <1>3, <1>4

\* The task taken is nowhere afterwards, and no other one has moved in.
LEMMA RemovedOnce ==
  ASSUME NEW queues \in Queues, NEW q \in Queue, NEW i \in DOMAIN queues[q], NEW t,
         Once(queues, t)
  PROVE  LET left == [queues EXCEPT ![q] = RemoveAt(@, i)]
         IN  /\ left \in Queues
             /\ Once(left, t)
             /\ In(left, t) => In(queues, t) /\ queues[q][i] # t
<1> DEFINE left == [queues EXCEPT ![q] = RemoveAt(@, i)]
           From(p, k) == IF p = q /\ k >= i THEN k + 1 ELSE k
<1>1. queues[q] \in Seq(Task) /\ i \in 1 .. Len(queues[q])
  BY DEF Queues
<1>2. left \in Queues
  BY <1>1, Removed DEF Queues
<1>3. ASSUME NEW p \in Queue, NEW k \in DOMAIN left[p]
      PROVE  /\ k \in Nat /\ From(p, k) \in DOMAIN queues[p]
             /\ left[p][k] = queues[p][From(p, k)]
             /\ p = q => From(p, k) # i
  <2>1. CASE p = q
    <3>1. left[p] = RemoveAt(queues[q], i)
      BY <2>1 DEF Queues
    <3>2. k \in 1 .. Len(queues[q]) - 1
      BY <1>1, <1>3, <3>1, Removed
    <3>3. left[p][k] = queues[q][IF k < i THEN k ELSE k + 1]
      BY <1>1, <3>1, <3>2, Removed
    <3>4. Len(queues[q]) \in Nat /\ DOMAIN queues[q] = 1 .. Len(queues[q])
      BY <1>1
    <3> QED  BY <1>1, <2>1, <3>2, <3>3, <3>4
  <2>2. CASE p # q
    <3>1. left[p] = queues[p] /\ queues[p] \in Seq(Task)
      BY <2>2 DEF Queues
    <3> QED  BY <1>3, <2>2, <3>1
  <2> QED  BY <2>1, <2>2
<1>4. Once(left, t)
  <2> SUFFICES ASSUME NEW p \in Queue, NEW r \in Queue,
                      NEW k \in DOMAIN left[p], NEW m \in DOMAIN left[r],
                      left[p][k] = t, left[r][m] = t
               PROVE  p = r /\ k = m
    BY DEF Once
  <2>1. p = r /\ From(p, k) = From(r, m)
    <3>1. /\ From(p, k) \in DOMAIN queues[p] /\ queues[p][From(p, k)] = t
          /\ From(r, m) \in DOMAIN queues[r] /\ queues[r][From(r, m)] = t
      BY <1>3
    <3> HIDE DEF From, left
    <3> QED  BY <3>1 DEF Once
  <2>2. k \in Nat /\ m \in Nat /\ i \in Nat
    BY <1>1, <1>3
  <2> QED  BY <2>1, <2>2
<1>5. ASSUME In(left, t) PROVE In(queues, t) /\ queues[q][i] # t
  <2>1. PICK p \in Queue : \E k \in DOMAIN left[p] : left[p][k] = t
    BY <1>5 DEF In
  <2>2. PICK k \in DOMAIN left[p] : left[p][k] = t
    BY <2>1
  <2>3. /\ From(p, k) \in DOMAIN queues[p] /\ queues[p][From(p, k)] = t
        /\ p = q => From(p, k) # i
    BY <1>3, <2>2
  <2> QED  BY <2>3 DEF In, Once
<1> QED  BY <1>2, <1>4, <1>5

\* Enqueue puts the task at the end of one queue, or drops it.
LEMMA EnqueuedOnce ==
  ASSUME NEW queues \in Queues, NEW t \in Task, NEW u, Once(queues, u),
         u = t => ~In(queues, u)
  PROVE  /\ Enqueue(queues, t) \in Queues
         /\ Once(Enqueue(queues, t), u)
         /\ In(Enqueue(queues, t), u) => In(queues, u) \/ u = t
<1>1. CASE Enqueue(queues, t) = queues
  BY <1>1
<1>2. CASE \E q \in Queue : Enqueue(queues, t) = [queues EXCEPT ![q] = Append(@, t)]
  <2>1. PICK q \in Queue : Enqueue(queues, t) = [queues EXCEPT ![q] = Append(@, t)]
    BY <1>2
  <2> DEFINE now == [queues EXCEPT ![q] = Append(@, t)]
  <2>2. queues[q] \in Seq(Task)
    BY DEF Queues
  <2>3. now \in Queues
    BY <2>2 DEF Queues
  <2>4. ASSUME NEW p \in Queue, NEW k \in DOMAIN now[p]
        PROVE  \/ k \in DOMAIN queues[p] /\ now[p][k] = queues[p][k]
               \/ p = q /\ k = Len(queues[q]) + 1 /\ now[p][k] = t
    <3>1. CASE p = q
      <4>1. now[p] = Append(queues[q], t)
        BY <3>1 DEF Queues
      <4> QED  BY <2>2, <2>4, <3>1, <4>1, AppendProperties
    <3>2. CASE p # q
      BY <2>4, <3>2 DEF Queues
    <3> QED  BY <3>1, <3>2
  <2>5. Once(now, u)
    <3> SUFFICES ASSUME NEW p \in Queue, NEW r \in Queue,
                        NEW k \in DOMAIN now[p], NEW m \in DOMAIN now[r],
                        now[p][k] = u, now[r][m] = u
                 PROVE  p = r /\ k = m
      BY DEF Once
    <3> QED  BY <2>4 DEF Once, In
  <2>6. In(now, u) => In(queues, u) \/ u = t
    BY <2>4 DEF In
  <2> QED  BY <2>1, <2>3, <2>5, <2>6
<1>3. \/ Enqueue(queues, t) = queues
      \/ \E q \in Queue : Enqueue(queues, t) = [queues EXCEPT ![q] = Append(@, t)]
  BY DEF Enqueue, Queue
<1> QED  BY <1>1, <1>2, <1>3

-----------------------------------------------------------------------------
(* The places of the tasks.                                                *)

PlaceTypes ==
  /\ {scx, starving} \subseteq BOOLEAN
  /\ offender \in Suspect \cup {NoTask}
  /\ dsq \in Queues
  /\ running \in [CPUs -> Task \cup {NoTask}]
  /\ asleep \in SUBSET Task

PlaceInv ==
  /\ PlaceTypes
  /\ ~scx => dsq = EmptyQueues /\ running = NoneRunning
  /\ \A t \in Task : OnePlace(t)

\* OnePlace, of any queues, CPUs and sleeping tasks.
Places(queues, on, sleepers, t) ==
  /\ \A c, d \in CPUs : on[c] = t /\ on[d] = t => c = d
  /\ Once(queues, t)
  /\ In(queues, t) => \A c \in CPUs : on[c] # t
  /\ t \in sleepers => ~In(queues, t) /\ \A c \in CPUs : on[c] # t

LEMMA Place ==
  ASSUME dsq \in Queues, NEW t
  PROVE  OnePlace(t) <=> Places(dsq, running, asleep, t)
  BY QueuedIn DEF OnePlace, Once, Places, Running

LEMMA PlaceAfter ==
  ASSUME dsq' \in Queues, NEW t
  PROVE  OnePlace(t)' <=> Places(dsq', running', asleep', t)
<1>1. \A q \in Queue : DOMAIN dsq'[q] = 1 .. Len(dsq'[q])
  BY DEF Queues
<1>2. Queued(t)' <=> In(dsq', t)
  BY <1>1 DEF Queued, In, Contains
<1> QED  BY <1>2 DEF OnePlace, Once, Places, Running

\* Without a scheduler no task is on a CPU or in a queue.
LEMMA NobodyPlaced ==
  ASSUME NEW t \in Task
  PROVE  /\ EmptyQueues \in Queues
         /\ Once(EmptyQueues, t) /\ ~In(EmptyQueues, t)
         /\ NoneRunning \in [CPUs -> Task \cup {NoTask}]
         /\ \A c \in CPUs : NoneRunning[c] # t
<1>1. \A q \in Queue : EmptyQueues[q] = << >> /\ DOMAIN EmptyQueues[q] = {}
  BY DEF EmptyQueues
<1> QED  BY <1>1, TaskAssumption DEF Queues, EmptyQueues, NoneRunning, Once, In

LEMMA EmptyTypes ==
  EmptyQueues \in Queues /\ NoneRunning \in [CPUs -> Task \cup {NoTask}]
  BY DEF EmptyQueues, NoneRunning, Queues

LEMMA PlaceStart ==
  ASSUME SchedInit
  PROVE  PlaceInv
<1>1. PlaceTypes
  BY EmptyTypes DEF SchedInit, PlaceTypes
<1>2. ASSUME NEW t \in Task PROVE OnePlace(t)
  BY <1>1, NobodyPlaced, Place DEF SchedInit, PlaceTypes, Places
<1> QED  BY <1>1, <1>2 DEF PlaceInv, SchedInit

LEMMA PlaceDetach ==
  ASSUME PlaceInv, Detach
  PROVE  PlaceInv'
<1>1. PlaceTypes'
  BY EmptyTypes DEF Detach, PlaceInv, PlaceTypes
<1>2. ASSUME NEW t \in Task PROVE OnePlace(t)'
  BY <1>1, NobodyPlaced, PlaceAfter DEF Detach, PlaceTypes, Places
<1> QED  BY <1>1, <1>2 DEF PlaceInv, Detach

LEMMA PlaceAttach ==
  ASSUME PlaceInv, Attach
  PROVE  PlaceInv'
<1>1. PICK order \in SetToSeqs(Task \ asleep) : dsq' = [dsq EXCEPT !["global"] = order]
  BY DEF Attach
<1>2. IsFiniteSet(Task \ asleep) /\ Cardinality(Task \ asleep) \in Nat
  BY TaskAssumption, FS_Difference, FS_CardinalityType
<1>3. /\ order \in [1 .. Cardinality(Task \ asleep) -> Task \ asleep]
      /\ \A i, k \in DOMAIN order : i # k => order[i] # order[k]
  BY DEF SetToSeqs
<1>4. order \in Seq(Task)
  <2>1. order \in Seq(Task \ asleep)
    BY <1>2, <1>3, SeqDef
  <2> QED  BY <2>1
<1>5. dsq' = [q \in Queue |-> IF q = "global" THEN order ELSE << >>]
  BY <1>1 DEF Attach, PlaceInv, EmptyQueues, Queue
<1>6. PlaceTypes'
  BY <1>4, <1>5 DEF Attach, PlaceInv, PlaceTypes, Queues, ctrlVars
<1>7. ASSUME NEW t \in Task PROVE OnePlace(t)'
  <2>1. running' = NoneRunning /\ asleep' = asleep
    BY DEF Attach, PlaceInv
  <2>2. \A c \in CPUs : running'[c] # t
    BY <2>1, NobodyPlaced
  <2>3. \A q \in Queue : \A i \in DOMAIN dsq'[q] :
          q = "global" /\ i \in DOMAIN order /\ dsq'[q][i] = order[i] /\ order[i] \notin asleep
    <3>1. \A i \in DOMAIN order : order[i] \notin asleep
      BY <1>3
    <3>2. dsq'["global"] = order
      BY <1>5 DEF Queue
    <3>3. \A q \in Queue : q # "global" => dsq'[q] = << >> /\ DOMAIN dsq'[q] = {}
      BY <1>5
    <3> QED  BY <3>1, <3>2, <3>3
  <2>4. Once(dsq', t) /\ (t \in asleep => ~In(dsq', t))
    BY <1>3, <2>3 DEF Once, In
  <2> QED  BY <1>6, <2>1, <2>2, <2>4, PlaceAfter DEF PlaceTypes, Places
<1> QED  BY <1>6, <1>7 DEF PlaceInv, Attach

LEMMA PlaceBlock ==
  ASSUME PlaceInv, NEW cpu \in CPUs, Block(cpu)
  PROVE  PlaceInv'
<1>1. /\ running[cpu] \in Task /\ NoTask \notin Task /\ scx
      /\ running' = [running EXCEPT ![cpu] = NoTask]
      /\ asleep' = asleep \cup {running[cpu]}
      /\ UNCHANGED <<scx, starving, offender, dsq>>
  BY TaskAssumption DEF Block, PlaceInv, PlaceTypes, NoneRunning, ctrlVars
<1>2. PlaceTypes'
  BY <1>1 DEF PlaceInv, PlaceTypes
<1>3. ASSUME NEW t \in Task PROVE OnePlace(t)'
  <2>1. Places(dsq, running, asleep, t)
    BY <1>3, Place DEF PlaceInv, PlaceTypes
  <2>2. \A c \in CPUs : running'[c] = t => c # cpu /\ running[c] = t
    BY <1>1 DEF PlaceInv, PlaceTypes
  <2>3. t = running[cpu] => \A c \in CPUs : running'[c] # t
    BY <2>1, <2>2 DEF Places
  <2> QED  BY <1>1, <1>2, <2>1, <2>2, <2>3, PlaceAfter DEF PlaceTypes, Places
<1> QED  BY <1>1, <1>2, <1>3 DEF PlaceInv

LEMMA PlaceWake ==
  ASSUME PlaceInv, NEW u \in Task, NEW last, Wake(u, last)
  PROVE  PlaceInv'
<1>1. /\ u \in asleep /\ asleep' = asleep \ {u}
      /\ dsq' = IF scx THEN Enqueue(dsq, u) ELSE dsq
      /\ UNCHANGED <<scx, starving, offender, running>>
  BY DEF Wake, ctrlVars
<1>2. ASSUME NEW t \in Task PROVE Places(dsq, running, asleep, t)
  BY <1>2, Place DEF PlaceInv, PlaceTypes
<1>3. dsq \in Queues /\ ~In(dsq, u) /\ Once(dsq, u) /\ \A c \in CPUs : running[c] # u
  BY <1>1, <1>2 DEF PlaceInv, PlaceTypes, Places
<1>4. PlaceTypes'
  <2>1. Enqueue(dsq, u) \in Queues
    BY <1>3, EnqueuedOnce
  <2> QED  BY <1>1, <2>1 DEF PlaceInv, PlaceTypes
<1>5. ASSUME NEW t \in Task PROVE OnePlace(t)'
  <2>1. Places(dsq, running, asleep, t)
    BY <1>2
  <2>2. Once(dsq', t) /\ (In(dsq', t) => In(dsq, t) \/ t = u)
    BY <1>1, <1>3, <2>1, EnqueuedOnce DEF Places
  <2> QED  BY <1>1, <1>3, <1>4, <2>1, <2>2, PlaceAfter DEF PlaceTypes, Places
<1> QED  BY <1>1, <1>4, <1>5 DEF PlaceInv

\* The task that dispatch takes is one of those that may run there.
LEMMA Taken ==
  ASSUME PlaceTypes, NEW c, NEW q \in Consumable(c)
  PROVE  /\ q \in Queue
         /\ Min(Eligible(q, c)) \in DOMAIN dsq[q]
         /\ c \in allowed[dsq[q][Min(Eligible(q, c))]]
<1>1. q \in Queue /\ Eligible(q, c) # {}
  BY DEF Consumable, Queue
<1>2. Eligible(q, c) \in SUBSET Nat
  BY <1>1 DEF PlaceTypes, Queues, Eligible
<1>3. Min(Eligible(q, c)) \in Eligible(q, c)
  BY <1>1, <1>2, MinMember
<1> QED  BY <1>1, <1>3 DEF Eligible

LEMMA PlaceDispatch ==
  ASSUME PlaceInv, NEW cpu \in CPUs, Dispatch(cpu)
  PROVE  PlaceInv'
<1>1. /\ scx /\ scx' = scx /\ starving' = starving /\ offender' = offender /\ asleep' = asleep
      /\ dsq \in Queues /\ running \in [CPUs -> Task \cup {NoTask}] /\ PlaceTypes
      /\ NoTask \notin Task
  BY TaskAssumption DEF Dispatch, PlaceInv, PlaceTypes, ctrlVars
<1>2. ASSUME NEW t \in Task PROVE Places(dsq, running, asleep, t)
  BY <1>1, <1>2, Place DEF PlaceInv
<1>3. CASE UNCHANGED <<dsq, running>>
  <2>1. PlaceTypes'
    BY <1>1, <1>3 DEF PlaceTypes
  <2>2. ASSUME NEW t \in Task PROVE OnePlace(t)'
    BY <1>1, <1>2, <1>3, PlaceAfter DEF Places
  <2> QED  BY <1>1, <1>3, <2>1, <2>2 DEF PlaceInv
<1>4. ASSUME NEW q \in Consumable(cpu), NEW i \in {Min(Eligible(q, cpu))},
             running' = [running EXCEPT ![cpu] = dsq[q][i]],
             dsq' = Requeue([dsq EXCEPT ![q] = RemoveAt(@, i)], running[cpu])
      PROVE  PlaceInv'
  <2> DEFINE left == [dsq EXCEPT ![q] = RemoveAt(@, i)]
             next == dsq[q][i]
             prev == running[cpu]
  <2>1. q \in Queue /\ i \in DOMAIN dsq[q]
    BY <1>1, <1>4, Taken
  <2>2. next \in Task /\ prev \in Task \cup {NoTask}
    BY <1>1, <2>1 DEF Queues
  <2>3. ASSUME NEW t \in Task
        PROVE  left \in Queues /\ Once(left, t) /\ (In(left, t) => In(dsq, t) /\ next # t)
    BY <1>1, <1>2, <2>1, <2>3, RemovedOnce DEF Places
  <2>4. In(dsq, next)
    BY <2>1 DEF In
  <2> HIDE DEF left, next, prev
  <2>5. dsq' = IF prev = NoTask THEN left ELSE Enqueue(left, prev)
    BY <1>4 DEF left, prev, Requeue
  <2>6. ASSUME NEW t \in Task
        PROVE  /\ dsq' \in Queues /\ Once(dsq', t)
               /\ In(dsq', t) => t # next /\ (In(dsq, t) \/ t = prev)
    <3>1. Places(dsq, running, asleep, next) /\ Places(dsq, running, asleep, t)
      BY <1>2, <2>2
    <3>2. next # prev
      BY <2>4, <3>1 DEF Places, prev
    <3>3. CASE prev = NoTask
      BY <2>3, <2>5, <3>3
    <3>4. CASE prev # NoTask
      <4>1. prev \in Task
        BY <2>2, <3>4
      <4>2. t = prev => ~In(left, t)
        BY <2>3, <3>1 DEF Places, prev
      <4>3. /\ Enqueue(left, prev) \in Queues /\ Once(Enqueue(left, prev), t)
            /\ In(Enqueue(left, prev), t) => In(left, t) \/ t = prev
        BY <2>3, <4>1, <4>2, EnqueuedOnce
      <4> QED  BY <2>3, <2>5, <3>2, <3>4, <4>3
    <3> QED  BY <3>3, <3>4
  <2>7. running' = [running EXCEPT ![cpu] = next]
    BY <1>4 DEF next
  <2>8. PlaceTypes'
    BY <1>1, <2>2, <2>6, <2>7 DEF PlaceTypes
  <2>9. ASSUME NEW t \in Task PROVE OnePlace(t)'
    <3>1. Places(dsq, running, asleep, t)
      BY <1>2
    <3>2. \A c \in CPUs : running'[c] = IF c = cpu THEN next ELSE running[c]
      BY <1>1, <2>7
    <3>3. t = next => \A c \in CPUs : running[c] # t
      BY <2>4, <3>1 DEF Places
    <3>4. t = prev => \A c \in CPUs : running'[c] # t
      <4>1. t = prev => t # next
        BY <3>3 DEF prev
      <4> QED  BY <3>1, <3>2, <4>1 DEF Places, prev
    <3>5. t \in asleep => t # next /\ t # prev
      BY <2>4, <3>1 DEF Places, prev
    <3>6. Places(dsq', running', asleep', t)
      BY <1>1, <2>6, <3>1, <3>2, <3>3, <3>4, <3>5 DEF Places
    <3> QED  BY <2>6, <3>6, PlaceAfter
  <2> QED  BY <1>1, <2>8, <2>9 DEF PlaceInv
<1> QED  BY <1>3, <1>4 DEF Dispatch

-----------------------------------------------------------------------------
(* The walk.                                                               *)

WalkInv ==
  /\ online \subseteq Cpu /\ 0 \in online
  /\ steady \in BOOLEAN
  /\ walked \in 0 .. Len(Directories)
  /\ groups \in Seq({CPUList(cpus) : cpus \in SUBSET Cpu})
  /\ steady /\ Walking => \A i \in DOMAIN groups : \E c \in Cpu : groups[i] = SharedCPUList(c)
  /\ steady => \A i, j \in DOMAIN groups :
                 i # j => CacheGroups[i] \cap CacheGroups[j] = {}

LEMMA CpuSet == Cpu \subseteq Nat /\ IsFiniteSet(Cpu) /\ Len(Directories) \in Nat
<1>1. Cpu \subseteq Nat /\ Len(Directories) \in Nat
  BY CpuAssumption DEF Cpu
<1>2. PICK n \in Nat : n = Len(Directories) /\ Directories \in [1 .. n -> Nat]
  BY CpuAssumption
<1>3. IsFiniteSet(1 .. n)
  BY FS_Interval
<1>4. Directories \in Surjection(1 .. n, Cpu)
  BY <1>2 DEF Cpu, Surjection
<1> QED  BY <1>1, <1>3, <1>4, FS_Surjection

\* A set of CPUs is what its list says.
LEMMA ParsedCPUs ==
  ASSUME NEW cpus \in SUBSET Cpu
  PROVE  ParseCPUList(CPUList(cpus)) = cpus
<1>1. cpus \in SUBSET Nat /\ IsFiniteSet(cpus)
  BY CpuSet, FS_Subset
<1> QED  BY <1>1, ParsedList

LEMMA WalkStart == ASSUME TopologyInit PROVE WalkInv
<1>1. groups = << >> /\ DOMAIN groups = {}
  BY DEF TopologyInit
<1> QED  BY <1>1, CpuSet, CpuAssumption DEF TopologyInit, WalkInv

\* Two groups of a steady walk are the CPUs of two caches: were a cache the same,
\* so would be the lists.
LEMMA WalkReadCache ==
  ASSUME WalkInv, ReadCache
  PROVE  WalkInv'
<1> DEFINE cpu == Directories[walked + 1]
           list == SharedCPUList(cpu)
           Shared(c) == {d \in online : hardware[d] = hardware[c]}
<1>1. /\ Walking /\ walked' = walked + 1 /\ walked' \in 0 .. Len(Directories)
      /\ UNCHANGED <<hardware, online, steady>>
  BY CpuSet DEF ReadCache, Walking, WalkInv
<1>2. \A c : Shared(c) \in SUBSET Cpu /\ SharedCPUList(c) = CPUList(Shared(c))
  BY DEF WalkInv, SharedCPUList
<1>3. cpu \in Cpu
  BY <1>1, CpuSet, CpuAssumption DEF Cpu, WalkInv, Walking
<1>4. groups \in Seq({CPUList(cpus) : cpus \in SUBSET Cpu})
  BY DEF WalkInv
<1>5. \A c : SharedCPUList(c)' = SharedCPUList(c)
  BY <1>1 DEF SharedCPUList
<1>6. CASE groups' = groups
  <2>1. Walking' => Walking
    BY <1>1
  <2> QED  BY <1>1, <1>5, <1>6, <2>1 DEF WalkInv, CacheGroups
<1>7. CASE groups' = Append(groups, list) /\ ~Contains(groups, list)
  <2>1. list \in {CPUList(cpus) : cpus \in SUBSET Cpu}
    BY <1>2
  <2> HIDE DEF list
  <2>2. /\ groups' \in Seq({CPUList(cpus) : cpus \in SUBSET Cpu})
        /\ Len(groups) \in Nat
        /\ DOMAIN groups = 1 .. Len(groups) /\ DOMAIN groups' = 1 .. Len(groups) + 1
        /\ \A i \in DOMAIN groups : groups'[i] = groups[i] /\ groups[i] # list
        /\ groups'[Len(groups) + 1] = list
    BY <1>4, <1>7, <2>1, AppendProperties DEF Contains
  <2>3. ASSUME steady'
        PROVE  \A i \in DOMAIN groups' : \E c \in Cpu : groups'[i] = SharedCPUList(c)'
    <3>1. \A i \in DOMAIN groups : \E c \in Cpu : groups[i] = SharedCPUList(c)
      BY <1>1, <2>3 DEF WalkInv
    <3> QED  BY <1>3, <1>5, <2>2, <3>1 DEF list
  <2>4. ASSUME steady', NEW i \in DOMAIN groups', NEW j \in DOMAIN groups', i # j
        PROVE  CacheGroups'[i] \cap CacheGroups'[j] = {}
    <3>1. ASSUME NEW k \in DOMAIN groups PROVE ParseCPUList(groups[k]) \cap ParseCPUList(list) = {}
      <4>1. PICK c \in Cpu : groups[k] = SharedCPUList(c)
        BY <1>1, <2>4, <3>1 DEF WalkInv
      <4>2. SharedCPUList(c) # SharedCPUList(cpu)
        BY <2>2, <3>1, <4>1 DEF list
      <4>3. hardware[c] # hardware[cpu]
        BY <4>2 DEF SharedCPUList
      <4>4. ParseCPUList(groups[k]) = Shared(c) /\ ParseCPUList(list) = Shared(cpu)
        <5>1. /\ groups[k] = CPUList(Shared(c)) /\ list = CPUList(Shared(cpu))
              /\ Shared(c) \in SUBSET Cpu /\ Shared(cpu) \in SUBSET Cpu
          BY <1>2, <4>1 DEF list
        <5> HIDE DEF Shared
        <5> QED  BY <5>1, ParsedCPUs
      <4> QED  BY <4>3, <4>4
    <3>2. \A k, m \in DOMAIN groups :
            k # m => ParseCPUList(groups[k]) \cap ParseCPUList(groups[m]) = {}
      BY <1>1, <2>4 DEF WalkInv, CacheGroups
    <3>3. /\ CacheGroups'[i] = ParseCPUList(groups'[i])
          /\ CacheGroups'[j] = ParseCPUList(groups'[j])
      BY DEF CacheGroups
    <3>4. CASE i = Len(groups) + 1
      <4>1. j \in DOMAIN groups /\ groups'[j] = groups[j] /\ groups'[i] = list
        BY <2>2, <2>4, <3>4
      <4> QED  BY <3>1, <3>3, <4>1
    <3>5. CASE j = Len(groups) + 1
      <4>1. i \in DOMAIN groups /\ groups'[i] = groups[i] /\ groups'[j] = list
        BY <2>2, <2>4, <3>5
      <4> QED  BY <3>1, <3>3, <4>1
    <3>6. CASE i # Len(groups) + 1 /\ j # Len(groups) + 1
      <4>1. i \in DOMAIN groups /\ j \in DOMAIN groups
        BY <2>2, <3>6
      <4>2. groups'[i] = groups[i] /\ groups'[j] = groups[j]
        BY <2>2, <4>1
      <4> QED  BY <2>4, <3>2, <3>3, <4>1, <4>2
    <3> QED  BY <3>4, <3>5, <3>6
  <2> QED  BY <1>1, <2>2, <2>3, <2>4 DEF WalkInv
<1> QED  BY <1>6, <1>7 DEF ReadCache, Meet

LEMMA WalkHotplug ==
  ASSUME WalkInv, NEW cpu \in Cpu, Hotplug(cpu)
  PROVE  WalkInv'
<1>1. /\ online' \subseteq Cpu /\ 0 \in online'
      /\ steady' = (steady /\ ~Walking) /\ walked' = walked /\ groups' = groups
  BY DEF Hotplug, WalkInv
<1>2. Walking' = Walking /\ CacheGroups' = CacheGroups
  BY <1>1 DEF Walking, CacheGroups
<1> QED  BY <1>1, <1>2 DEF WalkInv

\* A step that is not about the CPUs.
LEMMA WalkStutter ==
  ASSUME WalkInv, UNCHANGED topologyVars
  PROVE  WalkInv' /\ online' = online
<1>1. /\ online' = online /\ steady' = steady /\ walked' = walked /\ groups' = groups
      /\ hardware' = hardware
  BY DEF topologyVars
<1>2. Walking' = Walking /\ CacheGroups' = CacheGroups
  BY <1>1 DEF Walking, CacheGroups
<1>3. ASSUME NEW c \in Cpu PROVE SharedCPUList(c)' = SharedCPUList(c)
  BY <1>1 DEF SharedCPUList
<1> QED  BY <1>1, <1>2, <1>3 DEF WalkInv

LEMMA WalkAgain ==
  ASSUME WalkInv, Rediscover
  PROVE  WalkInv'
<1>1. groups' = << >> /\ DOMAIN groups' = {}
  BY DEF Rediscover
<1> QED  BY <1>1, CpuSet DEF Rediscover, WalkInv

-----------------------------------------------------------------------------
(* The episode.                                                            *)

\* The motor's part: the kernel enforces the files, no task runs where they do not
\* let it, and two files that come from one steady walk name different CPUs.
MotorInv ==
  /\ {active, link, nested, pinned} \subseteq BOOLEAN
  /\ scx => link
  /\ link => active
  /\ allowed = AllowedBy(nested, cpuset, online)
  /\ \A c \in CPUs : running[c] \in Task => c \in allowed[running[c]]
  /\ pinned => ParseCPUList(cpuset["offender"]) \cap ParseCPUList(cpuset["vital"]) = {}

EpisodeInv == PlaceInv /\ WalkInv /\ MotorInv

LEMMA MotorStart == ASSUME Init PROVE MotorInv
<1>1. ParseCPUList({}) = {}
  BY DEF ParseCPUList
<1>2. cpuset["offender"] = {} /\ cpuset["vital"] = {} /\ online = CPUs
  BY NodeAssumption DEF Init, TopologyInit
<1>3. AllowedBy(nested, cpuset, online) = [t \in Task |-> CPUs]
  BY <1>1, <1>2 DEF AllowedBy, Effective
<1> QED  BY <1>1, <1>2, <1>3, TaskAssumption DEF Init, SchedInit, MotorInv, NoneRunning

\* The scheduler is gone, whether it was in force or not.
LEMMA NowGone ==
  ASSUME PlaceInv, Gone
  PROVE  PlaceInv' /\ scx' = FALSE /\ running' = NoneRunning
<1>1. CASE scx
  BY <1>1, PlaceDetach DEF Gone, Detach
<1>2. CASE ~scx
  <2>1. UNCHANGED <<scx, offender, starving, dsq, running, asleep>>
    BY <1>2 DEF Gone, ctrlVars, placeVars
  <2>2. PlaceTypes' /\ \A t \in Task : OnePlace(t)'
    BY <2>1 DEF PlaceInv, PlaceTypes, OnePlace, Running, Queued
  <2> QED  BY <1>2, <2>1, <2>2 DEF PlaceInv, PlaceTypes
<1> QED  BY <1>1, <1>2

\* The CPU sets of a steady walk are two of its groups.
LEMMA PinnedApart ==
  ASSUME WalkInv, PinCPUs, pinned'
  PROVE  ParseCPUList(cpuset'["offender"]) \cap ParseCPUList(cpuset'["vital"]) = {}
<1>1. /\ steady /\ SelectOffenderCPUs # {}
      /\ cpuset'["offender"] = CPUList(SelectOffenderCPUs)
      /\ cpuset'["vital"] = CPUList(SelectCacheWarmCPUs)
  <2>1. PICK offenderSet, vitalSet :
          /\ cpuset' = [offender |-> offenderSet, vital |-> vitalSet]
          /\ pinned' = (/\ steady
                        /\ SelectOffenderCPUs # {}
                        /\ offenderSet = CPUList(SelectOffenderCPUs)
                        /\ vitalSet = CPUList(SelectCacheWarmCPUs))
    BY DEF PinCPUs
  <2>2. cpuset'["offender"] = offenderSet /\ cpuset'["vital"] = vitalSet
    BY <2>1
  <2> QED  BY <2>1, <2>2
<1>2. groups \in Seq({CPUList(cpus) : cpus \in SUBSET Cpu})
  BY DEF WalkInv
<1>3. ASSUME NEW i \in DOMAIN groups PROVE CacheGroups[i] \in SUBSET Cpu
  <2>1. PICK cpus \in SUBSET Cpu : groups[i] = CPUList(cpus)
    BY <1>2, <1>3
  <2> QED  BY <2>1, ParsedCPUs DEF CacheGroups
<1>4. CacheGroups \in Seq(SUBSET Cpu) /\ DOMAIN CacheGroups = DOMAIN groups
  <2>1. PICK n \in Nat : DOMAIN groups = 1 .. n
    BY <1>2
  <2> QED  BY <1>3, <2>1, SeqDef DEF CacheGroups
<1>5. ~(Len(CacheGroups) < 2) /\ SelectOffenderCPUs = CacheGroups[2]
  BY <1>1 DEF SelectOffenderCPUs
<1>6. 1 \in DOMAIN groups /\ 2 \in DOMAIN groups /\ CacheGroups # << >>
  BY <1>4, <1>5
<1>7. SelectCacheWarmCPUs = CacheGroups[1]
  BY <1>6 DEF SelectCacheWarmCPUs
<1>8. CacheGroups[2] \cap CacheGroups[1] = {}
  BY <1>1, <1>6 DEF WalkInv
<1> QED  BY <1>1, <1>3, <1>5, <1>6, <1>7, <1>8, ParsedCPUs

\* Writing the control map moves no task.
LEMMA PlaceStutter ==
  ASSUME PlaceInv, UNCHANGED <<scx, dsq, running, asleep>>,
         {starving'} \subseteq BOOLEAN, offender' \in Suspect \cup {NoTask}
  PROVE  PlaceInv'
  BY DEF PlaceInv, PlaceTypes, OnePlace, Running, Queued

\* Nobody comes to run where it may not.
LEMMA DispatchAllowed ==
  ASSUME PlaceInv, MotorInv, NEW cpu \in CPUs, Dispatch(cpu)
  PROVE  \A c \in CPUs : running'[c] \in Task => c \in allowed[running'[c]]
<1>1. CASE UNCHANGED running
  BY <1>1 DEF MotorInv
<1>2. ASSUME NEW q \in Consumable(cpu),
             running' = [running EXCEPT ![cpu] = dsq[q][Min(Eligible(q, cpu))]]
      PROVE  \A c \in CPUs : running'[c] \in Task => c \in allowed[running'[c]]
  <2>1. cpu \in allowed[dsq[q][Min(Eligible(q, cpu))]]
    BY <1>2, Taken DEF PlaceInv
  <2> QED  BY <1>2, <2>1 DEF MotorInv, PlaceInv, PlaceTypes
<1> QED  BY <1>1, <1>2 DEF Dispatch

LEMMA EpisodeStart == Init => EpisodeInv
  BY PlaceStart, WalkStart, MotorStart DEF Init, EpisodeInv

LEMMA EpisodeStep == EpisodeInv /\ [Next]_vars => EpisodeInv'
<1> SUFFICES ASSUME EpisodeInv, [Next]_vars PROVE EpisodeInv'
  OBVIOUS
<1>0. PlaceInv /\ WalkInv /\ MotorInv
  BY DEF EpisodeInv
<1>1. CASE ReadCache /\ UNCHANGED <<schedVars, motorVars>>
  <2>1. WalkInv' /\ UNCHANGED <<online, schedVars, motorVars>>
    BY <1>0, <1>1, WalkReadCache DEF ReadCache
  <2>2. PlaceInv'
    BY <1>0, <2>1, PlaceStutter DEF schedVars, ctrlVars, placeVars, PlaceInv, PlaceTypes
  <2>3. MotorInv'
    BY <1>0, <2>1 DEF MotorInv, schedVars, ctrlVars, placeVars, motorVars
  <2> QED  BY <2>1, <2>2, <2>3 DEF EpisodeInv
<1>2. CASE Engage
  <2>1. PinCPUs /\ active' = TRUE /\ UNCHANGED <<nested, topologyVars>>
    BY <1>2 DEF Engage
  <2>2. WalkInv' /\ online' = online
    BY <1>0, <2>1, WalkStutter
  <2>3. ~scx /\ ~link /\ running = NoneRunning
    BY <1>0, <1>2 DEF Engage, MotorInv, PlaceInv
  <2>4. PlaceInv' /\ running' = running /\ link' \in BOOLEAN /\ (scx' => link')
    <3>1. CASE Attach /\ link' = TRUE
      BY <1>0, <3>1, PlaceAttach DEF Attach
    <3>2. CASE UNCHANGED <<link, scx, ctrlVars, placeVars>>
      BY <1>0, <2>3, <3>2, PlaceStutter
         DEF ctrlVars, placeVars, PlaceInv, PlaceTypes, MotorInv
    <3> QED  BY <1>2, <3>1, <3>2 DEF Engage
  <2>5. \A c \in CPUs : running'[c] \notin Task
    BY <2>3, <2>4, TaskAssumption DEF NoneRunning
  <2>6. allowed' = AllowedBy(nested', cpuset', online') /\ {nested', pinned'} \subseteq BOOLEAN
    <3>1. nested' = nested /\ nested \in BOOLEAN
      BY <1>0, <2>1 DEF MotorInv
    <3>2. allowed' = AllowedBy(nested, cpuset', online) /\ pinned' \in BOOLEAN
      BY <2>1 DEF PinCPUs
    <3> QED  BY <2>2, <3>1, <3>2
  <2>7. pinned' => ParseCPUList(cpuset'["offender"]) \cap ParseCPUList(cpuset'["vital"]) = {}
    BY <1>0, <2>1, PinnedApart
  <2>8. MotorInv'
    BY <2>1, <2>4, <2>5, <2>6, <2>7 DEF MotorInv
  <2> QED  BY <2>2, <2>4, <2>8 DEF EpisodeInv
<1>3. CASE Release
  <2>1. PlaceInv' /\ scx' = FALSE /\ running' = NoneRunning
    BY <1>0, <1>3, NowGone DEF Release
  <2>2. /\ active' = FALSE /\ link' = FALSE
        /\ UNCHANGED <<nested, cpuset, pinned, allowed, topologyVars>>
    BY <1>3 DEF Release
  <2>3. WalkInv' /\ online' = online
    BY <1>0, <2>2, WalkStutter
  <2>4. MotorInv'
    BY <1>0, <2>1, <2>2, <2>3, TaskAssumption DEF MotorInv, NoneRunning
  <2> QED  BY <2>1, <2>3, <2>4 DEF EpisodeInv
<1>4. CASE Crash
  <2>1. PlaceInv' /\ scx' = FALSE /\ running' = NoneRunning
    BY <1>0, <1>4, NowGone DEF Crash
  <2>2. active' = FALSE /\ link' = FALSE /\ UNCHANGED <<nested, cpuset, pinned, allowed>>
    BY <1>4 DEF Crash
  <2>3. WalkInv' /\ online' = online
    BY <1>0, <1>4, WalkAgain DEF Crash, Rediscover
  <2>4. MotorInv'
    BY <1>0, <2>1, <2>2, <2>3, TaskAssumption DEF MotorInv, NoneRunning
  <2> QED  BY <2>1, <2>3, <2>4 DEF EpisodeInv
<1>5. CASE Eject
  <2>1. PlaceInv' /\ scx' = FALSE /\ running' = NoneRunning
    BY <1>0, <1>5, PlaceDetach DEF Eject, Detach
  <2>2. UNCHANGED <<allowed, topologyVars, motorVars>>
    BY <1>5 DEF Eject
  <2>3. WalkInv' /\ online' = online
    BY <1>0, <2>2, WalkStutter
  <2>4. MotorInv'
    BY <1>0, <2>1, <2>2, <2>3, TaskAssumption DEF MotorInv, motorVars, NoneRunning
  <2> QED  BY <2>1, <2>3, <2>4 DEF EpisodeInv
<1>6. ASSUME NEW cpu \in Cpu, ChangeCPUs(cpu) PROVE EpisodeInv'
  <2>1. PlaceInv' /\ scx' = FALSE /\ running' = NoneRunning
    BY <1>0, <1>6, NowGone DEF ChangeCPUs
  <2>2. allowed' = AllowedBy(nested, cpuset, online') /\ UNCHANGED motorVars
    BY <1>6 DEF ChangeCPUs
  <2>3. WalkInv'
    BY <1>0, <1>6, WalkHotplug DEF ChangeCPUs
  <2>4. MotorInv'
    BY <1>0, <2>1, <2>2, TaskAssumption DEF MotorInv, motorVars, NoneRunning
  <2> QED  BY <2>1, <2>3, <2>4 DEF EpisodeInv
<1>7. ASSUME NEW cpu \in Cpu, Run(cpu) PROVE EpisodeInv'
  <2>1. cpu \in CPUs /\ Dispatch(cpu) /\ UNCHANGED <<topologyVars, motorVars, scx, allowed>>
    BY <1>7, NodeAssumption DEF Run, Dispatch
  <2>2. WalkInv' /\ online' = online
    BY <1>0, <2>1, WalkStutter
  <2>3. PlaceInv'
    BY <1>0, <2>1, PlaceDispatch
  <2>4. \A c \in CPUs : running'[c] \in Task => c \in allowed[running'[c]]
    BY <1>0, <2>1, DispatchAllowed
  <2>5. MotorInv'
    BY <1>0, <2>1, <2>2, <2>4 DEF MotorInv, motorVars
  <2> QED  BY <2>2, <2>3, <2>5 DEF EpisodeInv
<1>8. CASE TaskStep
  <2>1. WalkInv' /\ online' = online /\ UNCHANGED motorVars
    BY <1>0, <1>8, WalkStutter DEF TaskStep
  <2>2. ASSUME NEW cpu \in Cpu, Block(cpu) PROVE EpisodeInv'
    <3>1. cpu \in CPUs /\ PlaceInv'
      BY <1>0, <2>2, PlaceBlock, NodeAssumption
    <3>2. UNCHANGED <<scx, allowed>> /\ running' = [running EXCEPT ![cpu] = NoTask]
      BY <2>2 DEF Block
    <3>3. MotorInv'
      BY <1>0, <2>1, <3>2, TaskAssumption DEF MotorInv, motorVars, PlaceInv, PlaceTypes
    <3> QED  BY <2>1, <3>1, <3>3 DEF EpisodeInv
  <2>3. ASSUME NEW t \in Task, NEW last \in Cpu, Wake(t, last) PROVE EpisodeInv'
    <3>1. PlaceInv'
      BY <1>0, <2>3, PlaceWake
    <3>2. UNCHANGED <<scx, allowed, running>>
      BY <2>3 DEF Wake
    <3>3. MotorInv'
      BY <1>0, <2>1, <3>2 DEF MotorInv, motorVars
    <3> QED  BY <2>1, <3>1, <3>3 DEF EpisodeInv
  <2>4. CASE WriteControl
    <3>1. /\ UNCHANGED <<scx, placeVars, allowed>>
          /\ starving' \in BOOLEAN /\ offender' \in Suspect \cup {NoTask}
      BY <1>0, <2>4 DEF WriteControl, PlaceInv, PlaceTypes
    <3>2. PlaceInv'
      BY <1>0, <3>1, PlaceStutter DEF placeVars
    <3>3. MotorInv'
      BY <1>0, <2>1, <3>1 DEF MotorInv, motorVars, placeVars
    <3> QED  BY <2>1, <3>2, <3>3 DEF EpisodeInv
  <2> QED  BY <1>8, <2>2, <2>3, <2>4 DEF TaskStep
<1>9. CASE UNCHANGED vars
  <2>1. UNCHANGED <<topologyVars, schedVars, motorVars>>
    BY <1>9 DEF vars
  <2>2. WalkInv' /\ online' = online
    BY <1>0, <2>1, WalkStutter
  <2>3. PlaceInv'
    BY <1>0, <2>1, PlaceStutter DEF schedVars, ctrlVars, placeVars, PlaceInv, PlaceTypes
  <2>4. MotorInv'
    BY <1>0, <2>1, <2>2 DEF MotorInv, schedVars, ctrlVars, placeVars, motorVars
  <2> QED  BY <2>2, <2>3, <2>4 DEF EpisodeInv
<1> QED  BY <1>1, <1>2, <1>3, <1>4, <1>5, <1>6, <1>7, <1>8, <1>9 DEF Next

\* The inductive invariant.
THEOREM EpisodeInvariant == Spec => []EpisodeInv
  BY EpisodeStart, EpisodeStep, PTL DEF Spec

\* No task is in two places, a scheduler in force is one the motor holds, and the
\* groups of a walk that nothing disturbed are disjoint, on any hardware.
THEOREM EpisodeTypes == Spec => []TypeOK
<1>1. EpisodeInv => TypeOK
  BY DEF EpisodeInv, PlaceInv, PlaceTypes, WalkInv, MotorInv, TypeOK
<1> QED  BY <1>1, EpisodeInvariant, PTL

\* With both CPU sets written from a steady walk, whatever CPUs came and went
\* since then: no task of the offender is on a CPU of the vital tasks of a sibling
\* cgroup, and those of a cgroup inside the offender's have the offender's CPUs.
THEOREM AffinityTheorem == Spec => []OffenderOffVitalCaches
<1>1. EpisodeInv => OffenderOffVitalCaches
  <2> DEFINE Own(cgroup) == ParseCPUList(cpuset[cgroup]) \cap online
  <2> SUFFICES ASSUME EpisodeInv, pinned,
                      Own("offender") # {}, Own("vital") # {},
                      NEW t \in OffenderTasks, NEW u \in VitalTasks
               PROVE  /\ nested => allowed[u] = allowed[t]
                      /\ ~nested => /\ allowed[t] \cap allowed[u] = {}
                                    /\ \A cpu \in allowed[u] : running[cpu] # t
    BY DEF OffenderOffVitalCaches
  <2>1. t \in Task /\ u \in Task /\ t \notin VitalTasks /\ u \notin OffenderTasks
    BY CgroupAssumption
  <2>2. Own("offender") \cap Own("vital") = {}
    BY DEF EpisodeInv, MotorInv
  <2>3. allowed[t] = Own("offender")
    <3>1. allowed = AllowedBy(nested, cpuset, online)
      BY DEF EpisodeInv, MotorInv
    <3>2. AllowedBy(nested, cpuset, online)[t] = Effective(cpuset["offender"], online)
      BY <2>1 DEF AllowedBy
    <3> QED  BY <3>1, <3>2 DEF Effective
  <2>4. allowed[u] = Effective(cpuset["vital"], IF nested THEN Own("offender") ELSE online)
    <3>1. allowed = AllowedBy(nested, cpuset, online)
      BY DEF EpisodeInv, MotorInv
    <3>2. Effective(cpuset["offender"], online) = Own("offender")
      BY DEF Effective
    <3>3. AllowedBy(nested, cpuset, online)[u]
            = Effective(cpuset["vital"],
                        IF nested THEN Effective(cpuset["offender"], online) ELSE online)
      BY <2>1 DEF AllowedBy
    <3> QED  BY <3>1, <3>2, <3>3
  <2>5. ASSUME nested PROVE allowed[u] = allowed[t]
    <3>1. ParseCPUList(cpuset["vital"]) \cap Own("offender") = {}
      BY <2>2
    <3>2. allowed[u] = Effective(cpuset["vital"], Own("offender"))
      BY <2>4, <2>5
    <3> QED  BY <2>3, <3>1, <3>2 DEF Effective
  <2>6. ASSUME ~nested
        PROVE  allowed[t] \cap allowed[u] = {} /\ \A cpu \in allowed[u] : running[cpu] # t
    <3>1. allowed[u] = Own("vital")
      BY <2>4, <2>6 DEF Effective
    <3>2. allowed[t] \cap allowed[u] = {}
      BY <2>2, <2>3, <3>1
    <3>3. allowed[u] \subseteq CPUs
      BY <3>1, NodeAssumption DEF EpisodeInv, WalkInv
    <3> QED  BY <2>1, <3>2, <3>3 DEF EpisodeInv, MotorInv
  <2> QED  BY <2>5, <2>6
<1> QED  BY <1>1, EpisodeInvariant, PTL

-----------------------------------------------------------------------------
(* Starvation.                                                             *)

\* Task t neither waits nor runs.
Out(t) == ~In(dsq, t) /\ \A c \in CPUs : running[c] # t

\* The offender is out, and the scheduler armed against it before and after.
ArmedAgainst(t) ==
  /\ scx /\ starving /\ offender = t /\ Out(t)
  /\ scx' /\ starving' /\ offender' = t

\* Whoever hands tasks to enqueue, the offender is not among those that wait.
LEMMA EnqueueDrops ==
  ASSUME NEW queues \in Queues, NEW u \in Task, starving, NEW t, offender = t, ~In(queues, t)
  PROVE  Enqueue(queues, u) \in Queues /\ ~In(Enqueue(queues, u), t)
<1>1. CASE u = t
  BY <1>1 DEF Enqueue, Role
<1>2. CASE u # t
  <2>1. Once(queues, t)
    BY DEF Once, In
  <2>2. Enqueue(queues, u) \in Queues /\ (In(Enqueue(queues, u), t) => In(queues, t) \/ t = u)
    BY <1>2, <2>1, EnqueuedOnce
  <2> QED  BY <1>2, <2>2
<1> QED  BY <1>1, <1>2

LEMMA StaysOut ==
  ASSUME PlaceInv, [Next]_vars, NEW t \in Task, ArmedAgainst(t)
  PROVE  ~In(dsq', t) /\ \A c \in CPUs : running'[c] # t
<1>1. /\ PlaceTypes /\ scx /\ scx' /\ starving /\ offender = t /\ t # NoTask
      /\ ~In(dsq, t) /\ \A c \in CPUs : running[c] # t
  BY TaskAssumption DEF PlaceInv, ArmedAgainst, Out
<1>2. CASE UNCHANGED <<dsq, running>>
  BY <1>1, <1>2
<1>3. ASSUME NEW cpu \in CPUs, Dispatch(cpu)
      PROVE  ~In(dsq', t) /\ \A c \in CPUs : running'[c] # t
  <2>1. ASSUME NEW q \in Consumable(cpu), NEW i \in {Min(Eligible(q, cpu))},
               running' = [running EXCEPT ![cpu] = dsq[q][i]],
               dsq' = Requeue([dsq EXCEPT ![q] = RemoveAt(@, i)], running[cpu])
        PROVE  ~In(dsq', t) /\ \A c \in CPUs : running'[c] # t
    <3> DEFINE left == [dsq EXCEPT ![q] = RemoveAt(@, i)]
    <3>1. q \in Queue /\ i \in DOMAIN dsq[q]
      BY <1>1, <2>1, Taken
    <3>2. dsq[q][i] # t
      BY <1>1, <3>1 DEF In
    <3>3. left \in Queues /\ ~In(left, t)
      <4>1. dsq \in Queues /\ Once(dsq, t)
        BY <1>1 DEF PlaceTypes, Once, In
      <4> QED  BY <1>1, <3>1, <4>1, RemovedOnce
    <3> HIDE DEF left
    <3>4. dsq' = Requeue(left, running[cpu]) /\ running[cpu] \in Task \cup {NoTask}
      BY <1>1, <2>1 DEF left, PlaceTypes
    <3>5. ~In(dsq', t)
      BY <1>1, <3>3, <3>4, EnqueueDrops DEF Requeue
    <3>6. \A c \in CPUs : running'[c] # t
      BY <1>1, <2>1, <3>2 DEF PlaceTypes
    <3> QED  BY <3>5, <3>6
  <2> QED  BY <1>2, <1>3, <2>1 DEF Dispatch
<1>4. ASSUME NEW cpu \in Cpu, Block(cpu)
      PROVE  ~In(dsq', t) /\ \A c \in CPUs : running'[c] # t
  BY <1>1, <1>4 DEF Block, PlaceTypes
<1>5. ASSUME NEW u \in Task, NEW last, Wake(u, last)
      PROVE  ~In(dsq', t) /\ \A c \in CPUs : running'[c] # t
  <2>1. dsq' = Enqueue(dsq, u) /\ running' = running /\ dsq \in Queues
    BY <1>1, <1>5 DEF Wake, PlaceTypes
  <2> QED  BY <1>1, <2>1, EnqueueDrops
<1>6. CASE TaskStep
  BY <1>2, <1>4, <1>5, <1>6 DEF TaskStep, WriteControl, placeVars
<1>7. CASE ReadCache /\ UNCHANGED <<schedVars, motorVars>>
  BY <1>2, <1>7 DEF schedVars, placeVars
<1>8. CASE Engage
  BY <1>1, <1>2, <1>8 DEF Engage, Attach, placeVars
<1>9. CASE Release \/ Crash \/ Eject \/ \E cpu \in Cpu : ChangeCPUs(cpu)
  BY <1>1, <1>9 DEF Release, Crash, Eject, ChangeCPUs, Gone, Detach
<1>10. ASSUME NEW cpu \in Cpu, Run(cpu)
       PROVE  ~In(dsq', t) /\ \A c \in CPUs : running'[c] # t
  BY <1>3, <1>10, NodeAssumption DEF Run
<1>11. CASE UNCHANGED vars
  BY <1>2, <1>11 DEF vars, schedVars, placeVars
<1> QED  BY <1>6, <1>7, <1>8, <1>9, <1>10, <1>11 DEF Next

\* An armed offender that has lost its CPU gets none while the scheduler is in
\* force and stays armed, in no order of wakeups, dispatches and control writes.
THEOREM StarvationTheorem == Spec => ArmedOffenderStaysOut
<1> DEFINE Stays == \A t \in Task :
             /\ scx /\ starving /\ offender = t /\ ~Queued(t) /\ ~Running(t)
             /\ scx' /\ starving' /\ offender' = t
             => ~Queued(t)' /\ ~Running(t)'
<1>1. EpisodeInv /\ EpisodeInv' /\ [Next]_vars => [Stays]_vars
  <2> SUFFICES ASSUME EpisodeInv, EpisodeInv', [Next]_vars, NEW t \in Task,
                      scx, starving, offender = t, ~Queued(t), ~Running(t),
                      scx', starving', offender' = t
               PROVE  ~Queued(t)' /\ ~Running(t)'
    OBVIOUS
  <2>1. PlaceInv /\ dsq \in Queues /\ dsq' \in Queues
    BY DEF EpisodeInv, PlaceInv, PlaceTypes
  <2>2. ArmedAgainst(t)
    BY <2>1, QueuedIn DEF ArmedAgainst, Out, Running
  <2>3. ~In(dsq', t) /\ \A c \in CPUs : running'[c] # t
    BY <2>1, <2>2, StaysOut
  <2>4. \A q \in Queue : DOMAIN dsq'[q] = 1 .. Len(dsq'[q])
    BY <2>1 DEF Queues
  <2> QED  BY <2>3, <2>4 DEF Queued, Contains, In, Running
<1> QED  BY <1>1, EpisodeInvariant, PTL DEF Spec, ArmedOffenderStaysOut

=============================================================================
