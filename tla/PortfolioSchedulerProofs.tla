---------------------- MODULE PortfolioSchedulerProofs ----------------------
(***************************************************************************)
(* Proofs about PortfolioScheduler, for every set of tasks, every cap,     *)
(* every threshold and every bound: the types, the cap on the workers that *)
(* really run, the two promises of aging, and that no wait is lost.  The   *)
(* cap needs to know that no id is in the queue twice, or in the queue and *)
(* active at once; aging that promotions fall along the queue, as far as   *)
(* ages do; the waits, how a sum over the queue changes with the queue.    *)
(***************************************************************************)
EXTENDS PortfolioScheduler, FiniteSums

(* Sequences keep their element type under a pointwise change.             *)
LEMMA PointwiseSeq ==
    ASSUME NEW S, NEW q \in Seq(S), NEW f \in [DOMAIN q -> S]
    PROVE  f \in Seq(S)
<1>1. DOMAIN q = 1..Len(q) /\ Len(q) \in Nat
  OBVIOUS
<1>2. QED
  BY <1>1

(* What is left of a sequence when one position is taken out.              *)
LEMMA RemoveAtFacts ==
    ASSUME NEW S, NEW q \in Seq(S), NEW i \in DOMAIN q
    PROVE  /\ RemoveAt(q, i) \in Seq(S)
           /\ DOMAIN RemoveAt(q, i) = 1..(Len(q) - 1)
           /\ \A j \in 1..(Len(q) - 1) :
                RemoveAt(q, i)[j] = IF j < i THEN q[j] ELSE q[j + 1]
<1>1. i \in 1..Len(q) /\ Len(q) \in Nat
  OBVIOUS
<1> DEFINE a == SubSeq(q, 1, i - 1)
           b == SubSeq(q, i + 1, Len(q))
<1>2. /\ a \in Seq(S) /\ Len(a) = i - 1
      /\ \A j \in 1..(i - 1) : a[j] = q[j]
  BY <1>1
<1>3. /\ b \in Seq(S) /\ Len(b) = Len(q) - i
      /\ \A j \in 1..(Len(q) - i) : b[j] = q[i + j]
  BY <1>1
<1>4. RemoveAt(q, i) = a \o b
  BY DEF RemoveAt
<1> HIDE DEF a, b
<1>5. /\ a \o b \in Seq(S)
      /\ DOMAIN (a \o b) = 1..(Len(q) - 1)
  BY <1>1, <1>2, <1>3, SMTT(30)
<1>6. ASSUME NEW j \in 1..(Len(q) - 1)
      PROVE  (a \o b)[j] = IF j < i THEN q[j] ELSE q[j + 1]
  BY <1>1, <1>2, <1>3, SMTT(30)
<1>7. QED
  BY <1>4, <1>5, <1>6

-----------------------------------------------------------------------------
(* Types.                                                                  *)

LEMMA TaskOf ==
    ASSUME TypeOK, NEW i \in DOMAIN queued
    PROVE  queued[i] \in Tasks
  BY DEF TypeOK

LEMMA WaitIsNatural ==
    ASSUME NEW task \in Tasks
    PROVE  WaitTicks(task) \in Nat
  BY DEF WaitTicks, Greatest, Tasks

(* Aging keeps a task a task, and its id.                                  *)
LEMMA AgedFacts ==
    ASSUME NEW task \in Tasks, NEW offset \in Int, NEW blockedIds
    PROVE  /\ Aged(task, offset, blockedIds) \in Tasks
           /\ Aged(task, offset, blockedIds).id = task.id
<1> DEFINE w == AgingWindows(task, offset)
<1>1. w \in Nat
  BY SchedulerAssumption DEF AgingWindows, Tasks
<1>2. task.priority \in Int /\ task.promotions \in Nat
  BY DEF Tasks
<1>3. w - task.promotions \in Int /\ task.priority + (w - task.promotions) \in Int
  BY <1>1, <1>2
<1> HIDE DEF w
<1>4. [task EXCEPT !.skipped = TRUE] \in Tasks /\ [task EXCEPT !.skipped = TRUE].id = task.id
  BY DEF Tasks
<1>5. /\ [task EXCEPT !.priority = task.priority + (w - task.promotions), !.promotions = w] \in Tasks
      /\ [task EXCEPT !.priority = task.priority + (w - task.promotions),
                      !.promotions = w].id = task.id
  BY <1>1, <1>3 DEF Tasks
<1>6. QED
  BY <1>4, <1>5 DEF Aged, w

LEMMA TypeInit == Init => TypeOK
  BY DEF Init, TypeOK

(* The steps that rewrite queued tasks in place keep positions and ids.    *)
InPlace ==
    /\ queued' \in Seq(Tasks)
    /\ DOMAIN queued' = DOMAIN queued
    /\ \A i \in DOMAIN queued : queued'[i].id = queued[i].id
    /\ UNCHANGED <<limit, active, totals, longest, workers>>

LEMMA MarkBlockedInPlace ==
    ASSUME TypeOK, NEW i \in DOMAIN queued, NEW b \in BOOLEAN, MarkBlocked(i, b)
    PROVE  InPlace
<1>1. queued' = [queued EXCEPT ![i] = [queued[i] EXCEPT !.blocked = b]]
  BY DEF MarkBlocked
<1>2. /\ [queued[i] EXCEPT !.blocked = b] \in Tasks
      /\ [queued[i] EXCEPT !.blocked = b].id = queued[i].id
  BY TaskOf DEF Tasks
<1>3. queued \in Seq(Tasks)
  BY DEF TypeOK
<1>4. queued' \in Seq(Tasks) /\ DOMAIN queued' = DOMAIN queued
  BY <1>1, <1>2, <1>3
<1>5. \A j \in DOMAIN queued : queued'[j].id = queued[j].id
  BY <1>1, <1>2, <1>3
<1>6. QED
  BY <1>4, <1>5 DEF MarkBlocked, InPlace

LEMMA ApplyAgingInPlace ==
    ASSUME TypeOK, NEW offset \in NowOffsets, NEW blockedIds, ApplyAging(offset, blockedIds)
    PROVE  InPlace
<1>1. offset \in Int
  BY SchedulerAssumption
<1>2. \A i \in DOMAIN queued :
        /\ Aged(queued[i], offset, blockedIds) \in Tasks
        /\ Aged(queued[i], offset, blockedIds).id = queued[i].id
  BY <1>1, TaskOf, AgedFacts
<1>3. queued' = [i \in DOMAIN queued |-> Aged(queued[i], offset, blockedIds)]
  BY DEF ApplyAging
<1>4. queued' \in [DOMAIN queued -> Tasks]
  BY <1>2, <1>3
<1>5. queued' \in Seq(Tasks)
  BY <1>4, PointwiseSeq DEF TypeOK
<1>6. QED
  BY <1>2, <1>3, <1>5 DEF ApplyAging, InPlace

(* A change of the ages alone.                                             *)
LEMMA AgesInPlace ==
    ASSUME TypeOK, NEW a \in [DOMAIN queued -> Int],
           queued' = [i \in DOMAIN queued |-> [queued[i] EXCEPT !.age = a[i]]],
           UNCHANGED <<limit, active, totals, longest, workers>>
    PROVE  InPlace
<1>1. \A i \in DOMAIN queued :
        /\ [queued[i] EXCEPT !.age = a[i]] \in Tasks
        /\ [queued[i] EXCEPT !.age = a[i]].id = queued[i].id
  BY TaskOf DEF Tasks
<1>2. queued' \in [DOMAIN queued -> Tasks]
  BY <1>1
<1>3. queued' \in Seq(Tasks)
  BY <1>2, PointwiseSeq DEF TypeOK
<1>4. QED
  BY <1>1, <1>3 DEF InPlace

LEMMA TickInPlace == TypeOK /\ Tick => InPlace
<1> SUFFICES ASSUME TypeOK, Tick
             PROVE  InPlace
  OBVIOUS
<1> DEFINE a == [i \in DOMAIN queued |-> Least(MaxAge, queued[i].age + 1)]
<1>1. a \in [DOMAIN queued -> Int]
  BY TaskOf, SchedulerAssumption DEF Tasks, Least
<1>2. queued' = [i \in DOMAIN queued |-> [queued[i] EXCEPT !.age = a[i]]]
  BY DEF Tick
<1>3. UNCHANGED <<limit, active, totals, longest, workers>>
  BY DEF Tick
<1> HIDE DEF a
<1>4. QED
  BY <1>1, <1>2, <1>3, AgesInPlace

LEMMA SetBackInPlace == TypeOK /\ SetBack => InPlace
<1> SUFFICES ASSUME TypeOK, SetBack
             PROVE  InPlace
  OBVIOUS
<1> DEFINE a == [i \in DOMAIN queued |-> queued[i].age - 1]
<1>1. a \in [DOMAIN queued -> Int]
  BY TaskOf DEF Tasks
<1>2. queued' = [i \in DOMAIN queued |-> [queued[i] EXCEPT !.age = a[i]]]
  BY DEF SetBack
<1>3. UNCHANGED <<limit, active, totals, longest, workers>>
  BY DEF SetBack
<1> HIDE DEF a
<1>4. QED
  BY <1>1, <1>2, <1>3, AgesInPlace

-----------------------------------------------------------------------------
(* The inductive invariant.  That workers stays a natural number needs the *)
(* cap's half of it, so types and cap are proved together.                 *)

IdsUnique ==
    /\ \A i \in DOMAIN queued : queued[i].id \notin active
    /\ \A i, j \in DOMAIN queued : i # j => queued[i].id # queued[j].id

SchedulerInv ==
    /\ TypeOK
    /\ IsFiniteSet(active)
    /\ IdsUnique
    /\ WorkersWithinCap

LEMMA InvInit == Init => SchedulerInv
<1> SUFFICES ASSUME Init
             PROVE  SchedulerInv
  OBVIOUS
<1>1. active = {} /\ queued = << >> /\ workers = 0 /\ limit \in Nat
  BY SchedulerAssumption DEF Init
<1>2. IsFiniteSet(active) /\ WorkersWithinCap
  BY <1>1, FS_EmptySet DEF WorkersWithinCap
<1>3. IdsUnique
  BY <1>1 DEF IdsUnique
<1>4. QED
  BY <1>2, <1>3, TypeInit DEF SchedulerInv

LEMMA InvEnqueue ==
    ASSUME SchedulerInv, NEW id \in TaskIds, NEW priority \in Priorities,
           NEW blocked \in BOOLEAN, Enqueue(id, priority, blocked)
    PROVE  SchedulerInv'
<1> DEFINE task == [ id |-> id, priority |-> priority, promotions |-> 0,
                     age |-> 0, blocked |-> blocked, skipped |-> FALSE ]
<1>1. task \in Tasks /\ task.id = id
  BY SchedulerAssumption DEF Tasks
<1>2. queued' = Append(queued, task)
  BY DEF Enqueue
<1>3. queued \in Seq(Tasks)
  BY DEF SchedulerInv, TypeOK
<1> HIDE DEF task
<1>4. /\ queued' \in Seq(Tasks)
      /\ DOMAIN queued' = 1..(Len(queued) + 1)
      /\ \A i \in DOMAIN queued : queued'[i] = queued[i]
      /\ queued'[Len(queued) + 1] = task
  BY <1>1, <1>2, <1>3
<1>5. \A i \in DOMAIN queued' : i \in DOMAIN queued \/ i = Len(queued) + 1
  BY <1>3, <1>4
<1>6. id \notin active /\ \A i \in DOMAIN queued : queued[i].id # id
  BY DEF Enqueue, IsScheduled, QueuedIds
<1>7. IdsUnique'
  <2>1. \A i \in DOMAIN queued' :
          \/ i \in DOMAIN queued /\ queued'[i].id = queued[i].id
          \/ i = Len(queued) + 1 /\ queued'[i].id = id
    BY <1>1, <1>4, <1>5
  <2>2. UNCHANGED active
    BY DEF Enqueue
  <2>3. QED
    BY <1>6, <2>1, <2>2 DEF IdsUnique, SchedulerInv
<1>8. TypeOK'
  BY <1>4 DEF Enqueue, SchedulerInv, TypeOK
<1>9. QED
  BY <1>7, <1>8 DEF Enqueue, SchedulerInv, WorkersWithinCap

LEMMA InvStartNext ==
    ASSUME SchedulerInv, NEW i \in DOMAIN queued, StartNext(i)
    PROVE  SchedulerInv'
<1> USE DEF SchedulerInv
<1>1. /\ queued \in Seq(Tasks)
      /\ queued[i].id \in TaskIds
      /\ WaitTicks(queued[i]) \in Nat
      /\ ProjectOf[queued[i].id] \in Projects
  BY TaskOf, WaitIsNatural, SchedulerAssumption DEF Tasks, TypeOK
<1>2. /\ queued' = RemoveAt(queued, i)
      /\ active' = active \cup {queued[i].id}
      /\ workers' = workers + 1
      /\ Cardinality(active) < limit
  BY DEF StartNext, HasFreeSlot
<1>3. /\ queued' \in Seq(Tasks)
      /\ DOMAIN queued' = 1..(Len(queued) - 1)
      /\ \A j \in 1..(Len(queued) - 1) :
           queued'[j] = IF j < i THEN queued[j] ELSE queued[j + 1]
  BY <1>1, <1>2, RemoveAtFacts
<1>4. totals' \in [Projects -> Nat] /\ longest' \in [Projects -> Nat]
  <2>1. \A m, n \in Nat : Least(m, n) \in Nat /\ Greatest(m, n) \in Nat
    BY DEF Least, Greatest
  <2>2. \A p \in Projects : totals[p] \in Nat /\ longest[p] \in Nat
    BY DEF TypeOK
  <2>3. MaxTotal \in Nat
    BY SchedulerAssumption
  <2> DEFINE wait == WaitTicks(queued[i])
             project == ProjectOf[queued[i].id]
  <2>4. /\ totals' = [totals EXCEPT ![project] = Least(MaxTotal, totals[project] + wait)]
        /\ longest' =
             [longest EXCEPT ![project] = Least(MaxTotal, Greatest(longest[project], wait))]
    BY DEF StartNext, RecordStartedWait
  <2>5. wait \in Nat /\ project \in Projects
    BY <1>1
  <2> HIDE DEF wait, project
  <2>6. /\ Least(MaxTotal, totals[project] + wait) \in Nat
        /\ Least(MaxTotal, Greatest(longest[project], wait)) \in Nat
    <3>1. totals[project] + wait \in Nat /\ longest[project] \in Nat
      BY <2>2, <2>5
    <3>2. Greatest(longest[project], wait) \in Nat
      BY <2>1, <2>5, <3>1
    <3>3. QED
      BY <2>1, <2>3, <3>1, <3>2
  <2>7. QED
    BY <2>4, <2>5, <2>6 DEF TypeOK
<1>5. TypeOK'
  BY <1>1, <1>2, <1>3, <1>4 DEF StartNext, TypeOK
<1>6. IdsUnique'
  <2> DEFINE old(j) == IF j < i THEN j ELSE j + 1
  <2>1. \A j \in DOMAIN queued' :
          old(j) \in DOMAIN queued /\ old(j) # i /\ queued'[j] = queued[old(j)]
    BY <1>1, <1>3
  <2>2. \A j, k \in DOMAIN queued' : j # k => old(j) # old(k)
    BY <1>1, <1>3
  <2> HIDE DEF old
  <2>3. QED
    BY <1>2, <2>1, <2>2 DEF IdsUnique
<1>7. IsFiniteSet(active') /\ Cardinality(active') = Cardinality(active) + 1
  <2>1. queued[i].id \notin active
    BY DEF IdsUnique
  <2>2. QED
    BY <1>2, <2>1, FS_AddElement
<1>8. Cardinality(active) \in Nat /\ limit \in Nat /\ limit' = limit
  BY FS_CardinalityType, SchedulerAssumption DEF TypeOK, StartNext
<1>9. WorkersWithinCap'
  BY <1>2, <1>7, <1>8 DEF WorkersWithinCap
<1>10. QED
  BY <1>5, <1>6, <1>7, <1>9

LEMMA InvComplete ==
    ASSUME SchedulerInv, NEW id \in TaskIds, Complete(id)
    PROVE  SchedulerInv'
<1> USE DEF SchedulerInv
<1>1. /\ id \in active /\ active' = active \ {id} /\ workers' = workers - 1
      /\ UNCHANGED <<limit, queued, totals, longest, setBacks>> /\ stretch' = 0
  BY DEF Complete
<1>2. IsFiniteSet(active') /\ Cardinality(active') = Cardinality(active) - 1
  BY <1>1, FS_RemoveElement
<1>3. Cardinality(active) \in Nat /\ Cardinality(active') \in Nat /\ limit \in Nat
  BY <1>2, FS_CardinalityType, SchedulerAssumption DEF TypeOK
<1>4. WorkersWithinCap' /\ workers' \in Nat
  BY <1>1, <1>2, <1>3 DEF WorkersWithinCap
<1>5. TypeOK'
  BY <1>1, <1>4 DEF TypeOK
<1>6. IdsUnique'
  BY <1>1 DEF IdsUnique
<1>7. QED
  BY <1>2, <1>4, <1>5, <1>6

LEMMA InvInPlace ==
    ASSUME SchedulerInv, InPlace, stretch' \in Nat, setBacks' \in Nat
    PROVE  SchedulerInv'
<1>1. TypeOK'
  BY DEF SchedulerInv, TypeOK, InPlace
<1>2. IdsUnique'
  BY DEF SchedulerInv, IdsUnique, InPlace
<1>3. QED
  BY <1>1, <1>2 DEF SchedulerInv, WorkersWithinCap, InPlace

LEMMA InvStep == SchedulerInv /\ [Next]_vars => SchedulerInv'
<1> SUFFICES ASSUME SchedulerInv, [Next]_vars
             PROVE  SchedulerInv'
  OBVIOUS
<1>t. TypeOK /\ stretch \in Nat /\ setBacks \in Nat
  BY DEF SchedulerInv, TypeOK
<1>1. ASSUME NEW i \in DOMAIN queued, NEW blocked \in BOOLEAN, MarkBlocked(i, blocked)
      PROVE  SchedulerInv'
  BY <1>t, <1>1, MarkBlockedInPlace, InvInPlace DEF MarkBlocked
<1>2. ASSUME NEW offset \in NowOffsets, NEW blockedIds \in SUBSET TaskIds,
             ApplyAging(offset, blockedIds)
      PROVE  SchedulerInv'
  BY <1>t, <1>2, ApplyAgingInPlace, InvInPlace DEF ApplyAging
<1>3. CASE Tick
  <2>1. stretch' \in Nat /\ setBacks' \in Nat
    BY <1>t, <1>3 DEF Tick
  <2>2. QED
    BY <1>t, <1>3, <2>1, TickInPlace, InvInPlace
<1>4. CASE SetBack
  <2>1. stretch' \in Nat /\ setBacks' \in Nat
    BY <1>t, <1>4 DEF SetBack
  <2>2. QED
    BY <1>t, <1>4, <2>1, SetBackInPlace, InvInPlace
<1>5. CASE UNCHANGED vars
  BY <1>5 DEF vars, SchedulerInv, TypeOK, IdsUnique, WorkersWithinCap
<1>6. QED
  BY <1>1, <1>2, <1>3, <1>4, <1>5, InvEnqueue, InvStartNext, InvComplete DEF Next

LEMMA InvCorrect == Spec => []SchedulerInv
  BY InvInit, InvStep, PTL DEF Spec

(* The types of the scheduler are invariant.                               *)
THEOREM SchedulerTypeCorrect == Spec => []TypeOK
<1>1. SchedulerInv => TypeOK
  BY DEF SchedulerInv
<1>2. QED
  BY <1>1, InvCorrect, PTL

(* For every cap and every set of tasks, no more workers run than the cap  *)
(* allows, and the scheduler knows how many there are.                     *)
THEOREM CapHolds == Spec => []WorkersWithinCap
<1>1. SchedulerInv => WorkersWithinCap
  BY DEF SchedulerInv
<1>2. QED
  BY <1>1, InvCorrect, PTL

-----------------------------------------------------------------------------
(* Aging.  A task is promoted by the quotient of a division, which is      *)
(* monotone and never rounds up; so promotions follow the order of the     *)
(* queue, and the waits they stand for.                                    *)

LEMMA DivFacts ==
    ASSUME NEW a \in Nat, NEW t \in Nat \ {0}
    PROVE  a \div t \in Nat /\ (a \div t) * t <= a
  BY Z3

LEMMA DivMonotone ==
    ASSUME NEW a \in Nat, NEW b \in Nat, NEW t \in Nat \ {0}, a <= b
    PROVE  a \div t <= b \div t
  BY Z3

LEMMA WindowsFacts ==
    ASSUME NEW task \in Tasks, NEW offset \in Int
    PROVE  /\ AgingWindows(task, offset) \in Nat
           /\ AgingWindows(task, offset) > 0 =>
                  AgingWindows(task, offset) * Threshold <= task.age + offset
<1>1. task.age + offset \in Int /\ Threshold \in Nat \ {0}
  BY SchedulerAssumption DEF Tasks
<1>2. CASE task.age + offset <= Threshold
  BY <1>2 DEF AgingWindows
<1>3. CASE ~ (task.age + offset <= Threshold)
  <2>1. task.age + offset \in Nat
    BY <1>1, <1>3
  <2>2. AgingWindows(task, offset) = (task.age + offset) \div Threshold
    BY <1>3 DEF AgingWindows
  <2>3. QED
    BY <1>1, <2>1, <2>2, DivFacts
<1>4. QED
  BY <1>2, <1>3

LEMMA WindowsMonotone ==
    ASSUME NEW first \in Tasks, NEW second \in Tasks, NEW offset \in Int,
           first.age >= second.age
    PROVE  AgingWindows(first, offset) >= AgingWindows(second, offset)
<1> DEFINE a == first.age + offset
           b == second.age + offset
<1>1. a \in Int /\ b \in Int /\ b <= a /\ Threshold \in Nat \ {0}
  BY SchedulerAssumption DEF Tasks
<1>2. CASE b <= Threshold
  BY <1>2, WindowsFacts DEF AgingWindows
<1>3. CASE ~ (b <= Threshold)
  <2>1. ~ (a <= Threshold) /\ a \in Nat /\ b \in Nat
    BY <1>1, <1>3
  <2>2. b \div Threshold <= a \div Threshold
    BY <1>1, <2>1, DivMonotone
  <2>3. QED
    BY <1>3, <2>1, <2>2 DEF AgingWindows
<1>4. QED
  BY <1>2, <1>3

(* What apply_aging makes of a task: it is passed over, or has the         *)
(* promotions of the windows it has waited, and those it had, the more of  *)
(* both; its priority rises by as much.                                    *)
LEMMA AgedPromotions ==
    ASSUME NEW task \in Tasks, NEW offset \in Int, NEW blockedIds
    PROVE  LET aged == Aged(task, offset, blockedIds)
               w == AgingWindows(task, offset)
           IN  /\ aged.age = task.age
               /\ \/ aged.skipped /\ aged.promotions = task.promotions
                  \/ /\ aged.skipped = task.skipped
                     /\ aged.promotions = IF w <= task.promotions THEN task.promotions ELSE w
               /\ GivenPriority(aged) = GivenPriority(task)
<1> DEFINE w == AgingWindows(task, offset)
<1>1. w \in Nat /\ task.priority \in Int /\ task.promotions \in Nat
  BY WindowsFacts DEF Tasks
<1> HIDE DEF w
<1> DEFINE passed == [task EXCEPT !.skipped = TRUE]
           raised == [task EXCEPT !.priority = task.priority + (w - task.promotions),
                                  !.promotions = w]
<1>2. /\ passed.age = task.age /\ passed.skipped /\ passed.promotions = task.promotions
      /\ passed.priority = task.priority
  BY DEF Tasks
<1>3. /\ raised.age = task.age /\ raised.skipped = task.skipped /\ raised.promotions = w
      /\ raised.priority = task.priority + (w - task.promotions)
  BY DEF Tasks
<1>4. Aged(task, offset, blockedIds) =
         IF task.blocked \/ task.id \in blockedIds THEN passed
         ELSE IF w - task.promotions <= 0 THEN task ELSE raised
  BY DEF Aged, w
<1> HIDE DEF passed, raised
<1>5. /\ GivenPriority(passed) = GivenPriority(task)
      /\ GivenPriority(raised) = GivenPriority(task)
  BY <1>1, <1>2, <1>3 DEF GivenPriority
<1>6. QED
  BY <1>1, <1>2, <1>3, <1>4, <1>5 DEF w

-----------------------------------------------------------------------------
(* The invariant of aging.                                                 *)

AgesWithinBound == \A i \in DOMAIN queued : queued[i].age <= MaxAge

PromotionsInOrder ==
    \A i, j \in DOMAIN queued :
        ( /\ i < j
          /\ ~ queued[i].skipped
          /\ queued[i].age >= queued[j].age
          /\ queued[j].age < MaxAge )
        => queued[i].promotions >= queued[j].promotions

AgingInv == AgesWithinBound /\ PromotionsInOrder /\ OnePromotionPerThreshold

LEMMA AgingInit == Init => AgingInv
  BY DEF Init, AgingInv, AgesWithinBound, PromotionsInOrder, OnePromotionPerThreshold

LEMMA AgingEnqueue ==
    ASSUME TypeOK, AgingInv, NEW id \in TaskIds, NEW priority \in Priorities,
           NEW blocked \in BOOLEAN, Enqueue(id, priority, blocked)
    PROVE  AgingInv'
<1> DEFINE task == [ id |-> id, priority |-> priority, promotions |-> 0,
                     age |-> 0, blocked |-> blocked, skipped |-> FALSE ]
<1>1. task \in Tasks /\ task.promotions = 0 /\ task.age = 0
  BY SchedulerAssumption DEF Tasks
<1>2. queued' = Append(queued, task) /\ queued \in Seq(Tasks) /\ UNCHANGED setBacks
  BY DEF Enqueue, TypeOK
<1> HIDE DEF task
<1>3. /\ DOMAIN queued' = 1..(Len(queued) + 1)
      /\ DOMAIN queued = 1..Len(queued) /\ Len(queued) \in Nat
      /\ \A i \in DOMAIN queued : queued'[i] = queued[i]
      /\ queued'[Len(queued) + 1] = task
  BY <1>1, <1>2
<1>4. \A i \in DOMAIN queued' :
        \/ i \in DOMAIN queued /\ queued'[i] = queued[i]
        \/ i = Len(queued) + 1 /\ queued'[i] = task
  BY <1>3
<1>5. AgesWithinBound'
  BY <1>1, <1>4, SchedulerAssumption DEF AgingInv, AgesWithinBound
<1>6. OnePromotionPerThreshold'
  BY <1>1, <1>2, <1>4 DEF AgingInv, OnePromotionPerThreshold
<1>7. PromotionsInOrder'
  <2> SUFFICES ASSUME NEW i \in DOMAIN queued', NEW j \in DOMAIN queued', i < j,
                      ~ queued'[i].skipped, queued'[i].age >= queued'[j].age,
                      queued'[j].age < MaxAge
               PROVE  queued'[i].promotions >= queued'[j].promotions
    BY DEF PromotionsInOrder
  <2>1. i \in DOMAIN queued /\ queued'[i] = queued[i]
    BY <1>3
  <2>2. CASE j \in DOMAIN queued /\ queued'[j] = queued[j]
    BY <2>1, <2>2 DEF AgingInv, PromotionsInOrder
  <2>3. CASE queued'[j] = task
    BY <1>1, <2>1, <2>3, TaskOf DEF Tasks
  <2>4. QED
    BY <1>4, <2>2, <2>3
<1>8. QED
  BY <1>5, <1>6, <1>7 DEF AgingInv

(* The order of what is left is the order it had.                          *)
LEMMA AgingStartNext ==
    ASSUME TypeOK, AgingInv, NEW i \in DOMAIN queued, StartNext(i)
    PROVE  AgingInv'
<1>1. queued \in Seq(Tasks) /\ queued' = RemoveAt(queued, i) /\ UNCHANGED setBacks
  BY DEF StartNext, TypeOK
<1>2. /\ DOMAIN queued' = 1..(Len(queued) - 1)
      /\ \A j \in 1..(Len(queued) - 1) :
           queued'[j] = IF j < i THEN queued[j] ELSE queued[j + 1]
  BY <1>1, RemoveAtFacts
<1> DEFINE old(j) == IF j < i THEN j ELSE j + 1
<1>3. \A j \in DOMAIN queued' : old(j) \in DOMAIN queued /\ queued'[j] = queued[old(j)]
  BY <1>1, <1>2
<1>4. \A j, k \in DOMAIN queued' : j < k => old(j) < old(k)
  BY <1>1, <1>2
<1> HIDE DEF old
<1>5. AgesWithinBound'
  BY <1>3 DEF AgingInv, AgesWithinBound
<1>6. OnePromotionPerThreshold'
  BY <1>1, <1>3 DEF AgingInv, OnePromotionPerThreshold
<1>7. PromotionsInOrder'
  BY <1>3, <1>4 DEF AgingInv, PromotionsInOrder
<1>8. QED
  BY <1>5, <1>6, <1>7 DEF AgingInv

LEMMA AgingMarkBlocked ==
    ASSUME TypeOK, AgingInv, NEW i \in DOMAIN queued, NEW b \in BOOLEAN, MarkBlocked(i, b)
    PROVE  AgingInv'
<1>1. /\ queued' = [queued EXCEPT ![i] = [queued[i] EXCEPT !.blocked = b]]
      /\ UNCHANGED setBacks
  BY DEF MarkBlocked
<1>2. /\ [queued[i] EXCEPT !.blocked = b].age = queued[i].age
      /\ [queued[i] EXCEPT !.blocked = b].skipped = queued[i].skipped
      /\ [queued[i] EXCEPT !.blocked = b].promotions = queued[i].promotions
  BY TaskOf DEF Tasks
<1>3. /\ DOMAIN queued' = DOMAIN queued
      /\ \A j \in DOMAIN queued : /\ queued'[j].age = queued[j].age
                                  /\ queued'[j].skipped = queued[j].skipped
                                  /\ queued'[j].promotions = queued[j].promotions
  BY <1>1, <1>2
<1>4. QED
  BY <1>1, <1>3
  DEF AgingInv, AgesWithinBound, PromotionsInOrder, OnePromotionPerThreshold

LEMMA AgingApplyAging ==
    ASSUME TypeOK, AgingInv, NEW offset \in NowOffsets, NEW blockedIds,
           ApplyAging(offset, blockedIds)
    PROVE  AgingInv'
<1> DEFINE w(i) == AgingWindows(queued[i], offset)
<1>1. offset \in Int
  BY SchedulerAssumption
<1>2. /\ queued' = [i \in DOMAIN queued |-> Aged(queued[i], offset, blockedIds)]
      /\ UNCHANGED setBacks /\ DOMAIN queued' = DOMAIN queued
  BY DEF ApplyAging
<1>3. \A i \in DOMAIN queued :
        /\ queued'[i].age = queued[i].age
        /\ \/ queued'[i].skipped /\ queued'[i].promotions = queued[i].promotions
           \/ /\ queued'[i].skipped = queued[i].skipped
              /\ queued'[i].promotions =
                     IF w(i) <= queued[i].promotions THEN queued[i].promotions ELSE w(i)
  BY <1>1, <1>2, TaskOf, AgedPromotions
<1>4. \A i \in DOMAIN queued :
        /\ w(i) \in Nat /\ queued[i].age \in Int /\ queued[i].promotions \in Nat
        /\ w(i) > 0 => w(i) * Threshold <= queued[i].age + offset
  BY <1>1, TaskOf, WindowsFacts DEF Tasks
<1>5. \A i, j \in DOMAIN queued : queued[i].age >= queued[j].age => w(i) >= w(j)
  BY <1>1, TaskOf, WindowsMonotone
<1> HIDE DEF w
<1>6. AgesWithinBound'
  BY <1>2, <1>3 DEF AgingInv, AgesWithinBound
<1>7. PromotionsInOrder'
  <2> SUFFICES ASSUME NEW i \in DOMAIN queued, NEW j \in DOMAIN queued, i < j,
                      ~ queued'[i].skipped, queued'[i].age >= queued'[j].age,
                      queued'[j].age < MaxAge
               PROVE  queued'[i].promotions >= queued'[j].promotions
    BY <1>2 DEF PromotionsInOrder
  <2>1. /\ ~ queued[i].skipped
        /\ queued'[i].promotions =
               IF w(i) <= queued[i].promotions THEN queued[i].promotions ELSE w(i)
    BY <1>3
  <2>2. queued[i].age >= queued[j].age /\ queued[j].age < MaxAge
    BY <1>3
  <2>3. queued[i].promotions >= queued[j].promotions
    BY <2>1, <2>2 DEF AgingInv, PromotionsInOrder
  <2>4. w(i) >= w(j)
    BY <1>5, <2>2
  <2>5. \/ queued'[j].promotions = queued[j].promotions
        \/ queued'[j].promotions =
               IF w(j) <= queued[j].promotions THEN queued[j].promotions ELSE w(j)
    BY <1>3
  <2>6. QED
    BY <1>4, <2>1, <2>3, <2>4, <2>5
<1>8. OnePromotionPerThreshold'
  <2> SUFFICES ASSUME NEW i \in DOMAIN queued, queued'[i].promotions > 0
               PROVE  \E latest \in NowOffsets :
                         queued'[i].promotions * Threshold
                             <= queued[i].age + latest + setBacks
    BY <1>2, <1>3 DEF OnePromotionPerThreshold
  <2>1. CASE queued'[i].promotions = queued[i].promotions
    BY <2>1 DEF AgingInv, OnePromotionPerThreshold
  <2>2. CASE queued'[i].promotions = w(i)
    <3>1. /\ queued[i].age + offset \in Int /\ setBacks \in Nat
          /\ w(i) * Threshold \in Int
      BY <1>1, <1>4, SchedulerAssumption DEF TypeOK
    <3>2. w(i) * Threshold <= queued[i].age + offset
      BY <1>4, <2>2
    <3>3. w(i) * Threshold <= queued[i].age + offset + setBacks
      BY <3>1, <3>2
    <3>4. QED
      BY <2>2, <3>3
  <2>3. QED
    BY <1>3, <2>1, <2>2
<1>9. QED
  BY <1>6, <1>7, <1>8 DEF AgingInv

(* A step that changes the ages only, and none of the pairs in order.      *)
LEMMA AgingAges ==
    ASSUME TypeOK, AgingInv, NEW a \in [DOMAIN queued -> Int], setBacks' \in Nat,
           queued' = [i \in DOMAIN queued |-> [queued[i] EXCEPT !.age = a[i]]],
           \A i \in DOMAIN queued :
              /\ a[i] <= MaxAge
              /\ queued[i].age + setBacks <= a[i] + setBacks',
           \A i, j \in DOMAIN queued :
              a[i] >= a[j] /\ a[j] < MaxAge
                  => queued[i].age >= queued[j].age /\ queued[j].age < MaxAge
    PROVE  AgingInv'
<1>1. /\ DOMAIN queued' = DOMAIN queued
      /\ \A i \in DOMAIN queued :
            /\ queued'[i].age = a[i]
            /\ queued'[i].skipped = queued[i].skipped
            /\ queued'[i].promotions = queued[i].promotions
  BY TaskOf DEF Tasks
<1>2. AgesWithinBound'
  BY <1>1 DEF AgesWithinBound
<1>3. PromotionsInOrder'
  BY <1>1 DEF AgingInv, PromotionsInOrder
<1>4. OnePromotionPerThreshold'
  <2> SUFFICES ASSUME NEW i \in DOMAIN queued, queued[i].promotions > 0
               PROVE  \E latest \in NowOffsets :
                         queued[i].promotions * Threshold <= a[i] + latest + setBacks'
    BY <1>1 DEF OnePromotionPerThreshold
  <2>1. PICK latest \in NowOffsets :
           queued[i].promotions * Threshold <= queued[i].age + latest + setBacks
    BY DEF AgingInv, OnePromotionPerThreshold
  <2>2. /\ latest \in Int /\ queued[i].age \in Int /\ a[i] \in Int /\ setBacks \in Nat
        /\ queued[i].promotions \in Nat /\ Threshold \in Nat
    BY TaskOf, SchedulerAssumption DEF Tasks, TypeOK
  <2>3. queued[i].promotions * Threshold <= a[i] + latest + setBacks'
    BY <2>1, <2>2
  <2>4. QED
    BY <2>3
<1>5. QED
  BY <1>2, <1>3, <1>4 DEF AgingInv

LEMMA AgingTick == TypeOK /\ AgingInv /\ Tick => AgingInv'
<1> SUFFICES ASSUME TypeOK, AgingInv, Tick
             PROVE  AgingInv'
  OBVIOUS
<1> DEFINE a == [i \in DOMAIN queued |-> Least(MaxAge, queued[i].age + 1)]
<1>1. /\ \A i \in DOMAIN queued : queued[i].age \in Int /\ queued[i].age <= MaxAge
      /\ MaxAge \in Nat /\ setBacks \in Nat /\ UNCHANGED setBacks
  BY TaskOf, SchedulerAssumption DEF Tasks, Tick, TypeOK, AgingInv, AgesWithinBound
<1>2. a \in [DOMAIN queued -> Int]
  BY <1>1 DEF Least
<1>3. queued' = [i \in DOMAIN queued |-> [queued[i] EXCEPT !.age = a[i]]]
  BY DEF Tick
<1>4. \A i \in DOMAIN queued :
        a[i] <= MaxAge /\ queued[i].age + setBacks <= a[i] + setBacks'
  BY <1>1 DEF Least
<1>5. \A i, j \in DOMAIN queued :
        a[i] >= a[j] /\ a[j] < MaxAge
            => queued[i].age >= queued[j].age /\ queued[j].age < MaxAge
  BY <1>1 DEF Least
<1> HIDE DEF a
<1>6. QED
  BY <1>1, <1>2, <1>3, <1>4, <1>5, AgingAges

LEMMA AgingSetBack == TypeOK /\ AgingInv /\ SetBack => AgingInv'
<1> SUFFICES ASSUME TypeOK, AgingInv, SetBack
             PROVE  AgingInv'
  OBVIOUS
<1> DEFINE a == [i \in DOMAIN queued |-> queued[i].age - 1]
<1>1. /\ \A i \in DOMAIN queued : queued[i].age \in Int /\ queued[i].age < MaxAge
      /\ MaxAge \in Nat /\ setBacks \in Nat /\ setBacks' = setBacks + 1
  BY TaskOf, SchedulerAssumption DEF Tasks, SetBack, TypeOK
<1>2. a \in [DOMAIN queued -> Int]
  BY <1>1
<1>3. queued' = [i \in DOMAIN queued |-> [queued[i] EXCEPT !.age = a[i]]]
  BY DEF SetBack
<1>4. \A i \in DOMAIN queued :
        a[i] <= MaxAge /\ queued[i].age + setBacks <= a[i] + setBacks'
  BY <1>1
<1>5. \A i, j \in DOMAIN queued :
        a[i] >= a[j] /\ a[j] < MaxAge
            => queued[i].age >= queued[j].age /\ queued[j].age < MaxAge
  BY <1>1
<1> HIDE DEF a
<1>6. setBacks' \in Nat
  BY <1>1
<1>7. QED
  BY <1>2, <1>3, <1>4, <1>5, <1>6, AgingAges

LEMMA AgingStep == TypeOK /\ AgingInv /\ [Next]_vars => AgingInv'
<1> SUFFICES ASSUME TypeOK, AgingInv, [Next]_vars
             PROVE  AgingInv'
  OBVIOUS
<1>1. ASSUME NEW id \in TaskIds, Complete(id)
      PROVE  AgingInv'
  BY <1>1 DEF Complete, AgingInv, AgesWithinBound, PromotionsInOrder, OnePromotionPerThreshold
<1>2. CASE UNCHANGED vars
  BY <1>2 DEF vars, AgingInv, AgesWithinBound, PromotionsInOrder, OnePromotionPerThreshold
<1>3. QED
  BY <1>1, <1>2, AgingEnqueue, AgingStartNext, AgingMarkBlocked, AgingApplyAging,
     AgingTick, AgingSetBack DEF Next

LEMMA AgingCorrect == Spec => [](TypeOK /\ AgingInv)
<1>1. SchedulerInv => TypeOK
  BY DEF SchedulerInv
<1>2. QED
  BY <1>1, InvCorrect, AgingInit, AgingStep, PTL DEF Spec

(* For every threshold, every set of `now's and every clock, aging never   *)
(* turns the queue against first in first out.                             *)
THEOREM AgingIsFair == Spec => []AgingKeepsOrder
<1>1. TypeOK /\ AgingInv => AgingKeepsOrder
  <2> SUFFICES ASSUME TypeOK, AgingInv, NEW i \in DOMAIN queued, NEW j \in DOMAIN queued,
                      i < j, ~ queued[i].skipped, queued[i].age >= queued[j].age,
                      queued[j].age < MaxAge,
                      GivenPriority(queued[i]) >= GivenPriority(queued[j])
               PROVE  queued[i].priority >= queued[j].priority
    BY DEF AgingKeepsOrder
  <2>1. queued[i].promotions >= queued[j].promotions
    BY DEF AgingInv, PromotionsInOrder
  <2>2. /\ queued[i].promotions \in Nat /\ queued[i].priority \in Int
        /\ queued[j].promotions \in Nat /\ queued[j].priority \in Int
    BY TaskOf DEF Tasks
  <2>3. QED
    BY <2>1, <2>2 DEF GivenPriority
<1>2. QED
  BY <1>1, AgingCorrect, PTL

(* However often aging is applied, no task is promoted for a wait it has   *)
(* not had.                                                                *)
THEOREM PromotionsAreEarned == Spec => []OnePromotionPerThreshold
<1>1. TypeOK /\ AgingInv => OnePromotionPerThreshold
  BY DEF AgingInv
<1>2. QED
  BY <1>1, AgingCorrect, PTL

-----------------------------------------------------------------------------
(* The waits that are reported.                                            *)

WaitAt(q, project) ==
    [i \in DOMAIN q |-> IF ProjectOf[q[i].id] = project THEN WaitTicks(q[i]) ELSE 0]

WaitOf(q, project) == SumFunctionOnSet(WaitAt(q, project), DOMAIN q)

LEMMA QueuedWaits ==
    ASSUME NEW project
    PROVE  /\ QueuedWait(project) = WaitOf(queued, project)
           /\ QueuedWait(project)' = WaitOf(queued', project)
BY DEF QueuedWait, WaitOf, WaitAt

LEMMA WaitsAreNatural ==
    ASSUME NEW q \in Seq(Tasks), NEW project
    PROVE  /\ \A i \in DOMAIN q : WaitAt(q, project)[i] \in Nat
           /\ IsFiniteSet(DOMAIN q)
           /\ WaitOf(q, project) \in Nat
<1>1. \A i \in DOMAIN q : WaitAt(q, project)[i] \in Nat
  BY WaitIsNatural DEF WaitAt
<1>2. IsFiniteSet(DOMAIN q)
  <2>1. DOMAIN q = 1..Len(q) /\ Len(q) \in Int
    OBVIOUS
  <2> QED
    BY <2>1, FS_Interval
<1> QED
  BY <1>1, <1>2, SumType DEF WaitOf

(* Tasks that stay where they are and get no younger.                      *)
LEMMA WaitsGrow ==
    ASSUME NEW q \in Seq(Tasks), NEW r \in Seq(Tasks), DOMAIN q \subseteq DOMAIN r, NEW project,
           \A i \in DOMAIN q : r[i].id = q[i].id /\ WaitTicks(q[i]) <= WaitTicks(r[i])
    PROVE  WaitOf(q, project) <= WaitOf(r, project)
<1>1. \A i \in DOMAIN q : WaitAt(q, project)[i] <= WaitAt(r, project)[i]
  BY DEF WaitAt
<1>2. /\ \A i \in DOMAIN q : WaitAt(q, project)[i] \in Nat
      /\ \A i \in DOMAIN r : WaitAt(r, project)[i] \in Nat
      /\ IsFiniteSet(DOMAIN r)
  BY WaitsAreNatural
<1> QED
  BY <1>1, <1>2, SumIsMonotone DEF WaitOf

(* The tasks behind the one that is taken out move up by one.              *)
LEMMA WaitsMoveUp ==
    ASSUME NEW q \in Seq(Tasks), NEW i \in DOMAIN q, NEW project
    PROVE  WaitOf(q, project) = WaitAt(q, project)[i] + WaitOf(RemoveAt(q, i), project)
<1> DEFINE r == RemoveAt(q, i)
           S == DOMAIN q \ {i}
           b == [j \in S |-> IF j < i THEN j ELSE j - 1]
           c == [j \in DOMAIN r |-> IF j < i THEN j ELSE j + 1]
<1>0. DOMAIN q = 1..Len(q) /\ Len(q) \in Nat /\ i \in 1..Len(q)
  OBVIOUS
<1>1. /\ r \in Seq(Tasks) /\ DOMAIN r = 1..(Len(q) - 1)
      /\ \A j \in 1..(Len(q) - 1) : r[j] = IF j < i THEN q[j] ELSE q[j + 1]
  BY RemoveAtFacts
<1> HIDE DEF r
<1>2. \A j \in S : b[j] \in DOMAIN r /\ r[b[j]] = q[j]
  BY <1>0, <1>1
<1>3. b \in Injection(S, DOMAIN r)
  <2>1. \A j, k \in S : b[j] = b[k] => j = k
    BY <1>0
  <2>2. b \in [S -> DOMAIN r]
    BY <1>2
  <2> QED
    BY <2>1, <2>2 DEF Injection, IsInjective
<1>c. c \in Injection(DOMAIN r, S) /\ \A j \in DOMAIN r : r[j] = q[c[j]]
  <2>1. \A j \in DOMAIN r : c[j] \in S /\ r[j] = q[c[j]]
    BY <1>0, <1>1
  <2>2. \A j, k \in DOMAIN r : c[j] = c[k] => j = k
    BY <1>0, <1>1
  <2>3. c \in [DOMAIN r -> S]
    BY <2>1
  <2> QED
    BY <2>1, <2>2, <2>3 DEF Injection, IsInjective
<1> HIDE DEF b, c
<1>4. /\ \A j \in S : WaitAt(q, project)[j] = WaitAt(r, project)[b[j]]
      /\ \A j \in DOMAIN r : c[j] \in S /\ WaitAt(r, project)[j] = WaitAt(q, project)[c[j]]
  <2>1. \A j \in DOMAIN r : c[j] \in S
    BY <1>c DEF Injection
  <2> QED
    BY <1>2, <1>c, <2>1 DEF WaitAt
<1>5. /\ \A j \in DOMAIN q : WaitAt(q, project)[j] \in Nat
      /\ \A j \in DOMAIN r : WaitAt(r, project)[j] \in Nat
      /\ IsFiniteSet(DOMAIN q) /\ IsFiniteSet(DOMAIN r) /\ IsFiniteSet(S)
      /\ WaitOf(r, project) \in Nat
  BY <1>1, WaitsAreNatural, FS_Subset
<1>6. SumFunctionOnSet(WaitAt(q, project), S) <= SumFunctionOnSet(WaitAt(r, project), DOMAIN r)
  <2>1. \A j \in S : /\ WaitAt(q, project)[j] \in Nat
                     /\ WaitAt(q, project)[j] <= WaitAt(r, project)[b[j]]
    BY <1>2, <1>4, <1>5
  <2> HIDE DEF S
  <2> QED
    BY <1>3, <1>5, <2>1, SumRenamed
<1>m. SumFunctionOnSet(WaitAt(r, project), DOMAIN r)
        <= SumFunctionOnSet(WaitAt(q, project), S)
  <2>1. \A j \in DOMAIN r : /\ WaitAt(r, project)[j] \in Nat
                            /\ WaitAt(r, project)[j] <= WaitAt(q, project)[c[j]]
    BY <1>4, <1>5
  <2>2. \A j \in S : WaitAt(q, project)[j] \in Nat
    BY <1>5
  <2> HIDE DEF S
  <2> QED
    BY <1>c, <1>5, <2>1, <2>2, SumRenamed
<1>7. WaitOf(q, project) = WaitAt(q, project)[i] + SumFunctionOnSet(WaitAt(q, project), S)
  BY <1>5, SumWithout DEF WaitOf
<1>8. SumFunctionOnSet(WaitAt(q, project), S) \in Nat
  <2>1. \A j \in S : WaitAt(q, project)[j] \in Nat
    BY <1>5
  <2> HIDE DEF S
  <2> QED
    BY <1>5, <2>1, SumType
<1> HIDE DEF S
<1>9. WaitAt(q, project)[i] \in Nat /\ SumFunctionOnSet(WaitAt(r, project), DOMAIN r) = WaitOf(r, project)
  BY <1>5 DEF WaitOf
<1> QED
  BY <1>5, <1>6, <1>m, <1>7, <1>8, <1>9 DEF r

Waited(total, wait) == Least(MaxTotal, total + wait)

LEMMA ReportedWaits ==
    ASSUME NEW project
    PROVE  /\ ReportedWait(project) = Waited(totals[project], WaitOf(queued, project))
           /\ ReportedWait(project)' = Waited(totals'[project], WaitOf(queued', project))
<1>1. ReportedWait(project) = Waited(totals[project], QueuedWait(project))
  BY DEF ReportedWait, Waited
<1>2. ReportedWait(project)' = Waited(totals'[project], QueuedWait(project)')
  BY DEF ReportedWait, Waited
<1> QED
  BY <1>1, <1>2, QueuedWaits

LEMMA WaitedGrows ==
    ASSUME NEW t \in Nat, NEW w \in Nat, NEW v \in Nat, w <= v
    PROVE  Waited(t, v) >= Waited(t, w)
BY SchedulerAssumption DEF Waited, Least

(* Every step but a start leaves the totals alone and lets no wait of the  *)
(* queue drop.                                                             *)
LEMMA QueueWaitsOn ==
    ASSUME TypeOK, queued' \in Seq(Tasks), totals' = totals, DOMAIN queued \subseteq DOMAIN queued',
           \A i \in DOMAIN queued :
               queued'[i].id = queued[i].id /\ WaitTicks(queued[i]) <= WaitTicks(queued'[i]),
           NEW project \in Projects
    PROVE  ReportedWait(project)' >= ReportedWait(project)
<1>1. queued \in Seq(Tasks) /\ totals[project] \in Nat
  BY DEF TypeOK
<1>2. WaitOf(queued, project) <= WaitOf(queued', project)
  BY <1>1, WaitsGrow
<1>3. WaitOf(queued, project) \in Nat /\ WaitOf(queued', project) \in Nat
  BY <1>1, WaitsAreNatural
<1> QED
  BY <1>1, <1>2, <1>3, WaitedGrows, ReportedWaits

LEMMA EnqueueWaitsOn ==
    ASSUME SchedulerInv, SchedulerInv', NEW id \in TaskIds, NEW priority \in Priorities,
           NEW blocked \in BOOLEAN, Enqueue(id, priority, blocked), NEW project \in Projects
    PROVE  ReportedWait(project)' >= ReportedWait(project)
<1> DEFINE new == [ id |-> id, priority |-> priority, promotions |-> 0,
                    age |-> 0, blocked |-> blocked, skipped |-> FALSE ]
<1>1. queued \in Seq(Tasks) /\ queued' \in Seq(Tasks) /\ TypeOK
  BY DEF SchedulerInv, TypeOK
<1>2. queued' = Append(queued, new) /\ totals' = totals
  BY DEF Enqueue
<1> HIDE DEF new
<1>3. DOMAIN queued \subseteq DOMAIN queued' /\ \A i \in DOMAIN queued : queued'[i] = queued[i]
  BY <1>1, <1>2
<1>4. \A i \in DOMAIN queued : WaitTicks(queued[i]) <= WaitTicks(queued'[i])
  <2>1. \A i \in DOMAIN queued : WaitTicks(queued[i]) \in Nat
    BY <1>1, TaskOf, WaitIsNatural
  <2> QED
    BY <1>3, <2>1
<1> QED
  BY <1>1, <1>2, <1>3, <1>4, QueueWaitsOn

(* The project of the task that is started, and no other, gains its wait.  *)
LEMMA StartedTotal ==
    ASSUME SchedulerInv, NEW i \in DOMAIN queued, StartNext(i), NEW project \in Projects
    PROVE  \/ totals'[project] = Least(MaxTotal, totals[project] + WaitAt(queued, project)[i])
           \/ totals'[project] = totals[project] + WaitAt(queued, project)[i]
<1> DEFINE wait == WaitAt(queued, project)[i]
<1>0. totals \in [Projects -> Nat] /\ totals[project] \in Nat
  BY DEF SchedulerInv, TypeOK
<1>1. totals' = [totals EXCEPT ![ProjectOf[queued[i].id]] =
                    Least(MaxTotal, @ + WaitTicks(queued[i]))]
  BY DEF StartNext, RecordStartedWait
<1>2. CASE ProjectOf[queued[i].id] = project
  <2>1. wait = WaitTicks(queued[i])
    BY <1>2 DEF WaitAt
  <2> QED
    BY <1>0, <1>1, <1>2, <2>1
<1>3. CASE ProjectOf[queued[i].id] # project
  <2>1. wait = 0
    BY <1>3 DEF WaitAt
  <2> QED
    BY <1>0, <1>1, <1>3, <2>1
<1> QED
  BY <1>2, <1>3

(* What the queue loses at a start, the project's total gains.             *)
LEMMA StartNextWaitsOn ==
    ASSUME SchedulerInv, NEW i \in DOMAIN queued, StartNext(i), NEW project \in Projects
    PROVE  ReportedWait(project)' >= ReportedWait(project)
<1> DEFINE wait == WaitAt(queued, project)[i]
           rest == WaitOf(queued', project)
           total == totals[project]
<1>1. queued \in Seq(Tasks) /\ total \in Nat /\ totals \in [Projects -> Nat] /\ queued[i] \in Tasks
  BY TaskOf DEF SchedulerInv, TypeOK
<1>2. queued' = RemoveAt(queued, i) /\ queued' \in Seq(Tasks)
  BY <1>1, RemoveAtFacts DEF StartNext
<1>3. WaitOf(queued, project) = wait + rest
  BY <1>1, <1>2, WaitsMoveUp
<1>4. wait \in Nat /\ rest \in Nat /\ WaitOf(queued, project) \in Nat
  BY <1>1, <1>2, WaitsAreNatural
<1>5. totals'[project] = Least(MaxTotal, total + wait) \/ totals'[project] = total + wait
  BY StartedTotal
<1> HIDE DEF wait, rest, total
<1>6. Waited(totals'[project], rest) >= Waited(total, WaitOf(queued, project))
  BY <1>1, <1>3, <1>4, <1>5, SchedulerAssumption DEF Waited, Least
<1> QED
  BY <1>6, ReportedWaits DEF rest, total

(* A task that is rewritten in place waits on if its age does not drop.    *)
LEMMA InPlaceWaitsOn ==
    ASSUME SchedulerInv, InPlace, \A i \in DOMAIN queued : queued[i].age <= queued'[i].age,
           NEW project \in Projects
    PROVE  ReportedWait(project)' >= ReportedWait(project)
<1>1. TypeOK /\ queued' \in Seq(Tasks) /\ DOMAIN queued' = DOMAIN queued /\ totals' = totals
  BY DEF SchedulerInv, InPlace
<1>2. ASSUME NEW i \in DOMAIN queued
      PROVE  queued'[i].id = queued[i].id /\ WaitTicks(queued[i]) <= WaitTicks(queued'[i])
  <2>1. queued[i].age \in Int /\ queued'[i].age \in Int
    <3>1. queued[i] \in Tasks /\ queued'[i] \in Tasks
      BY <1>1, TaskOf
    <3> QED
      BY <3>1 DEF Tasks
  <2> QED
    BY <2>1 DEF InPlace, WaitTicks, Greatest
<1> QED
  BY <1>1, <1>2, QueueWaitsOn

(* Blocking and aging leave every age alone.                               *)
LEMMA MarkBlockedAges ==
    ASSUME TypeOK, NEW i \in DOMAIN queued, NEW blocked \in BOOLEAN, MarkBlocked(i, blocked)
    PROVE  \A j \in DOMAIN queued :
               queued'[j].age <= queued[j].age /\ queued[j].age <= queued'[j].age
<1>1. queued \in Seq(Tasks) /\ \A j \in DOMAIN queued : queued[j] \in Tasks
  BY TaskOf DEF TypeOK
<1>2. queued' = [queued EXCEPT ![i] = [queued[i] EXCEPT !.blocked = blocked]]
  BY DEF MarkBlocked
<1>3. \A j \in DOMAIN queued : queued'[j].age = queued[j].age
  BY <1>1, <1>2 DEF Tasks
<1> QED
  BY <1>1, <1>3 DEF Tasks

LEMMA ApplyAgingAges ==
    ASSUME TypeOK, NEW offset, NEW blockedIds, ApplyAging(offset, blockedIds)
    PROVE  \A j \in DOMAIN queued :
               queued'[j].age <= queued[j].age /\ queued[j].age <= queued'[j].age
<1>1. \A j \in DOMAIN queued : queued[j] \in Tasks
  BY TaskOf
<1>2. \A j \in DOMAIN queued : queued'[j] = Aged(queued[j], offset, blockedIds)
  BY DEF ApplyAging
<1>3. \A j \in DOMAIN queued : queued'[j].age = queued[j].age
  BY <1>1, <1>2 DEF Tasks, Aged
<1> QED
  BY <1>1, <1>3 DEF Tasks

LEMMA StepWaitsOn ==
    ASSUME SchedulerInv, SchedulerInv', AgingInv, Next, setBacks' = setBacks, NEW project \in Projects
    PROVE  ReportedWait(project)' >= ReportedWait(project)
<1>0. TypeOK
  BY DEF SchedulerInv
<1>1. ASSUME NEW id \in TaskIds, Complete(id)
      PROVE  ReportedWait(project)' >= ReportedWait(project)
  <2>1. UNCHANGED <<limit, queued, totals>>
    BY <1>1 DEF Complete
  <2>2. totals[project] \in Nat /\ WaitOf(queued, project) \in Nat
    BY <1>0, WaitsAreNatural DEF TypeOK
  <2> QED
    BY <2>1, <2>2, WaitedGrows, ReportedWaits
<1>2. ASSUME NEW i \in DOMAIN queued, NEW blocked \in BOOLEAN, MarkBlocked(i, blocked)
      PROVE  ReportedWait(project)' >= ReportedWait(project)
  BY <1>0, <1>2, MarkBlockedAges, MarkBlockedInPlace, InPlaceWaitsOn
<1>3. ASSUME NEW offset \in NowOffsets, NEW blockedIds, ApplyAging(offset, blockedIds)
      PROVE  ReportedWait(project)' >= ReportedWait(project)
  BY <1>0, <1>3, ApplyAgingAges, ApplyAgingInPlace, InPlaceWaitsOn
<1>4. CASE Tick
  <2>1. \A j \in DOMAIN queued : queued[j].age <= queued'[j].age
    <3>1. \A j \in DOMAIN queued : queued[j] \in Tasks
      BY <1>0, TaskOf
    <3>2. \A j \in DOMAIN queued : queued'[j].age = Least(MaxAge, queued[j].age + 1)
      BY <1>4, <3>1 DEF Tick, Tasks
    <3> QED
      BY <3>1, <3>2, SchedulerAssumption DEF Tasks, Least, AgingInv, AgesWithinBound
  <2> QED
    BY <1>0, <1>4, <2>1, TickInPlace, InPlaceWaitsOn
<1>5. ~ SetBack
  BY <1>0 DEF SetBack, TypeOK
<1> QED
  BY <1>1, <1>2, <1>3, <1>4, <1>5, EnqueueWaitsOn, StartNextWaitsOn DEF Next

(* The same steps add no wait, unless the clock advances.                  *)
LEMMA EnqueueAddsNoWait ==
    ASSUME SchedulerInv, SchedulerInv', NEW id \in TaskIds, NEW priority \in Priorities,
           NEW blocked \in BOOLEAN, Enqueue(id, priority, blocked), NEW project \in Projects
    PROVE  ReportedWait(project)' <= ReportedWait(project)
<1> DEFINE new == [ id |-> id, priority |-> priority, promotions |-> 0,
                    age |-> 0, blocked |-> blocked, skipped |-> FALSE ]
           n == Len(queued) + 1
           rest == RemoveAt(queued', n)
<1>1. queued \in Seq(Tasks) /\ queued' \in Seq(Tasks) /\ totals[project] \in Nat /\ totals' = totals
  BY DEF SchedulerInv, TypeOK, Enqueue
<1>2. queued' = Append(queued, new)
  BY DEF Enqueue
<1>3. new.age = 0
  OBVIOUS
<1> HIDE DEF new
<1>4. /\ n \in DOMAIN queued' /\ Len(queued') = n /\ queued'[n] = new
      /\ DOMAIN queued = 1..(n - 1) /\ \A i \in DOMAIN queued : queued'[i] = queued[i] /\ i < n
  BY <1>1, <1>2
<1>5. rest \in Seq(Tasks) /\ DOMAIN rest = DOMAIN queued /\ \A i \in DOMAIN queued : rest[i] = queued[i]
  BY <1>1, <1>4, RemoveAtFacts
<1>6. WaitOf(queued', project) = WaitAt(queued', project)[n] + WaitOf(rest, project)
  BY <1>1, <1>4, WaitsMoveUp
<1> HIDE DEF rest, n
<1>7. WaitAt(queued', project)[n] = 0
  BY <1>3, <1>4 DEF WaitAt, WaitTicks, Greatest
<1>8. WaitOf(rest, project) <= WaitOf(queued, project)
  <2>1. \A i \in DOMAIN rest : queued[i].id = rest[i].id /\ WaitTicks(rest[i]) <= WaitTicks(queued[i])
    <3>1. \A i \in DOMAIN queued : WaitTicks(queued[i]) \in Nat
      BY <1>1, WaitIsNatural
    <3> QED
      BY <1>5, <3>1
  <2> QED
    BY <1>1, <1>5, <2>1, WaitsGrow
<1>9. WaitOf(queued, project) \in Nat /\ WaitOf(queued', project) \in Nat /\ WaitOf(rest, project) \in Nat
  BY <1>1, <1>5, WaitsAreNatural
<1> QED
  BY <1>1, <1>6, <1>7, <1>8, <1>9, WaitedGrows, ReportedWaits

LEMMA StartNextAddsNoWait ==
    ASSUME SchedulerInv, NEW i \in DOMAIN queued, StartNext(i), NEW project \in Projects
    PROVE  ReportedWait(project)' <= ReportedWait(project)
<1> DEFINE wait == WaitAt(queued, project)[i]
           rest == WaitOf(queued', project)
           total == totals[project]
<1>1. queued \in Seq(Tasks) /\ total \in Nat /\ totals \in [Projects -> Nat] /\ queued[i] \in Tasks
  BY TaskOf DEF SchedulerInv, TypeOK
<1>2. queued' = RemoveAt(queued, i) /\ queued' \in Seq(Tasks)
  BY <1>1, RemoveAtFacts DEF StartNext
<1>3. WaitOf(queued, project) = wait + rest
  BY <1>1, <1>2, WaitsMoveUp
<1>4. wait \in Nat /\ rest \in Nat
  BY <1>1, <1>2, WaitsAreNatural
<1>5. totals'[project] \in Int /\ totals'[project] <= total + wait
  BY <1>1, <1>4, StartedTotal, SchedulerAssumption DEF Least
<1> HIDE DEF wait, rest, total
<1>6. Waited(totals'[project], rest) <= Waited(total, WaitOf(queued, project))
  BY <1>1, <1>3, <1>4, <1>5, SchedulerAssumption DEF Waited, Least
<1> QED
  BY <1>6, ReportedWaits DEF rest, total

LEMMA InPlaceAddsNoWait ==
    ASSUME SchedulerInv, InPlace, \A i \in DOMAIN queued : queued'[i].age <= queued[i].age,
           NEW project \in Projects
    PROVE  ReportedWait(project)' <= ReportedWait(project)
<1>1. /\ queued \in Seq(Tasks) /\ queued' \in Seq(Tasks) /\ DOMAIN queued' = DOMAIN queued
      /\ totals' = totals /\ totals[project] \in Nat
  BY DEF SchedulerInv, TypeOK, InPlace
<1>2. ASSUME NEW i \in DOMAIN queued'
      PROVE  queued[i].id = queued'[i].id /\ WaitTicks(queued'[i]) <= WaitTicks(queued[i])
  <2>1. queued[i] \in Tasks /\ queued'[i] \in Tasks /\ i \in DOMAIN queued
    BY <1>1
  <2>2. queued[i].age \in Int /\ queued'[i].age \in Int
    BY <2>1 DEF Tasks
  <2> QED
    BY <2>1, <2>2 DEF InPlace, WaitTicks, Greatest
<1>3. WaitOf(queued', project) <= WaitOf(queued, project)
  BY <1>1, <1>2, WaitsGrow
<1>4. WaitOf(queued, project) \in Nat /\ WaitOf(queued', project) \in Nat
  BY <1>1, WaitsAreNatural
<1> QED
  BY <1>1, <1>3, <1>4, WaitedGrows, ReportedWaits

LEMMA StepAddsNoWait ==
    ASSUME SchedulerInv, SchedulerInv', Next, ~ Tick, NEW project \in Projects
    PROVE  ReportedWait(project)' <= ReportedWait(project)
<1>0. TypeOK
  BY DEF SchedulerInv
<1>1. ASSUME NEW id \in TaskIds, Complete(id)
      PROVE  ReportedWait(project)' <= ReportedWait(project)
  <2>1. UNCHANGED <<limit, queued, totals>>
    BY <1>1 DEF Complete
  <2>2. totals[project] \in Nat /\ WaitOf(queued, project) \in Nat
    BY <1>0, WaitsAreNatural DEF TypeOK
  <2> QED
    BY <2>1, <2>2, WaitedGrows, ReportedWaits
<1>2. ASSUME NEW i \in DOMAIN queued, NEW blocked \in BOOLEAN, MarkBlocked(i, blocked)
      PROVE  ReportedWait(project)' <= ReportedWait(project)
  BY <1>0, <1>2, MarkBlockedAges, MarkBlockedInPlace, InPlaceAddsNoWait
<1>3. ASSUME NEW offset \in NowOffsets, NEW blockedIds, ApplyAging(offset, blockedIds)
      PROVE  ReportedWait(project)' <= ReportedWait(project)
  BY <1>0, <1>3, ApplyAgingAges, ApplyAgingInPlace, InPlaceAddsNoWait
<1>4. CASE SetBack
  <2>1. \A j \in DOMAIN queued : queued'[j].age <= queued[j].age
    <3>1. \A j \in DOMAIN queued : queued[j] \in Tasks
      BY <1>0, TaskOf
    <3>2. \A j \in DOMAIN queued : queued'[j].age = queued[j].age - 1
      BY <1>4, <3>1 DEF SetBack, Tasks
    <3> QED
      BY <3>1, <3>2 DEF Tasks
  <2> QED
    BY <1>0, <1>4, <2>1, SetBackInPlace, InPlaceAddsNoWait
<1> QED
  BY <1>1, <1>2, <1>3, <1>4, EnqueueAddsNoWait, StartNextAddsNoWait DEF Next

(* However tasks are queued, aged, blocked, started and completed, what a  *)
(* project is reported to have waited follows the clock: no step loses a   *)
(* wait, or counts one twice.                                              *)
THEOREM WaitsFollowTheClock == Spec => ReportedWaitFollowsTheClock
<1>1. SchedulerInv /\ SchedulerInv' /\ AgingInv /\ [Next]_vars
          => [ \A project \in Projects :
                 /\ setBacks' = setBacks => ReportedWait(project)' >= ReportedWait(project)
                 /\ ~ Tick => ReportedWait(project)' <= ReportedWait(project) ]_vars
  BY StepWaitsOn, StepAddsNoWait
<1> QED
  BY <1>1, InvCorrect, AgingCorrect, PTL DEF Spec, ReportedWaitFollowsTheClock
=============================================================================
