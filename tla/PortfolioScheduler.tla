------------------------- MODULE PortfolioScheduler -------------------------
(***************************************************************************)
(* The portfolio scheduler (scheduler/portfolio.py): a queue of tasks, no  *)
(* more of them active at a time than its limit, highest priority first    *)
(* and first in first out among equals, with aging: a queued task gains    *)
(* one priority level per Threshold it has waited, unless it is blocked on *)
(* the user.                                                               *)
(*                                                                         *)
(* The code compares enqueued_at with the clock, or with a `now' its       *)
(* caller passes, and only their difference matters.  A queued task        *)
(* therefore carries its age, the clock minus its enqueued_at; the clock   *)
(* advances by one tick, or is set back by one.  An age is exact up to     *)
(* MaxAge and stays there.                                                 *)
(***************************************************************************)
EXTENDS Integers, Sequences, SequencesExt, FiniteSets

CONSTANTS
    TaskIds,       \* the task ids callers use
    Projects,      \* the projects
    ProjectOf,     \* the project each task id belongs to
    Priorities,    \* the priorities callers give a task
    Limits,        \* the values of active_slot_limit
    Threshold,     \* aging_threshold, in ticks
    NowOffsets,    \* how far a `now' given to apply_aging is from the clock
    MaxAge,        \* bound: ages are exact up to here
    MaxRun,        \* bound: ticks between two starts or completions; 0 for none
    MaxSetBacks,   \* bound: how often the clock is set back
    MaxTotal       \* bound: wait totals are exact up to here

ASSUME SchedulerAssumption ==
    /\ ProjectOf \in [TaskIds -> Projects]
    /\ Priorities \subseteq Int
    /\ Limits \subseteq Nat \ {0}
    /\ Threshold \in Nat \ {0}
    /\ NowOffsets \subseteq Int
    /\ MaxAge \in Nat
    /\ MaxRun \in Nat
    /\ MaxSetBacks \in Nat
    /\ MaxTotal \in Nat

VARIABLES
    limit,     \* _limit, which the constructor sets once
    queued,    \* _queued: the tasks waiting, oldest call of enqueue first
    active,    \* the keys of _active
    totals,    \* _started_wait_totals, per project
    longest,   \* _started_wait_longest, per project
    workers,   \* history: workers that are really running
    stretch,   \* history: ticks since a task was started or completed
    setBacks   \* history: how often the clock was set back

vars == <<limit, queued, active, totals, longest, workers, stretch, setBacks>>

(* A queued task.  `skipped' is history: aging passed it over once.        *)
Tasks == [ id         : TaskIds,
           priority   : Int,
           promotions : Nat,
           age        : Int,
           blocked    : BOOLEAN,
           skipped    : BOOLEAN ]

Least(m, n) == IF m <= n THEN m ELSE n
Greatest(m, n) == IF m <= n THEN n ELSE m

-----------------------------------------------------------------------------
QueuedIds == { queued[i].id : i \in DOMAIN queued }

IsScheduled(id) == id \in active \/ id \in QueuedIds

HasFreeSlot == Cardinality(active) < limit

WaitTicks(task) == Greatest(0, task.age)

(* Mutated form: the remainder of the division, not its quotient.          *)
AgingWindows_Remainder(task, offset) ==
    IF task.age + offset <= Threshold THEN 0 ELSE (task.age + offset) % Threshold

(* Whole thresholds waited at a `now' that is `offset' from the clock;     *)
(* none before the first one is exceeded.                                  *)
AgingWindows(task, offset) ==
    IF task.age + offset <= Threshold THEN 0 ELSE (task.age + offset) \div Threshold

(* start_next's choice: highest priority, and the front-most of those.     *)
IsSelected(i) ==
    \A j \in DOMAIN queued :
        \/ queued[j].priority < queued[i].priority
        \/ queued[j].priority = queued[i].priority /\ i <= j

Init ==
    /\ limit \in Limits
    /\ queued = << >>
    /\ active = {}
    /\ totals = [p \in Projects |-> 0]
    /\ longest = [p \in Projects |-> 0]
    /\ workers = 0
    /\ stretch = 0
    /\ setBacks = 0

(* Mutated form: an id that is queued or active is taken again.            *)
Enqueue_Duplicates(id, priority, blocked) ==
    /\ Len(queued) < Cardinality(TaskIds)
    /\ queued' = Append(queued, [ id |-> id, priority |-> priority, promotions |-> 0,
                                  age |-> 0, blocked |-> blocked, skipped |-> FALSE ])
    /\ UNCHANGED <<limit, active, totals, longest, workers, stretch, setBacks>>

(* enqueue: a duplicate id is refused.                                     *)
Enqueue(id, priority, blocked) ==
    /\ ~ IsScheduled(id)
    /\ queued' = Append(queued, [ id |-> id, priority |-> priority, promotions |-> 0,
                                  age |-> 0, blocked |-> blocked, skipped |-> FALSE ])
    /\ UNCHANGED <<limit, active, totals, longest, workers, stretch, setBacks>>

(* Mutated form: the wait is added to the total twice.                     *)
RecordStartedWait_Twice(project, wait) ==
    /\ totals' = [totals EXCEPT ![project] = Least(MaxTotal, @ + wait + wait)]
    /\ longest' = [longest EXCEPT ![project] = Least(MaxTotal, Greatest(@, wait))]

(* _record_started_wait.                                                   *)
RecordStartedWait(project, wait) ==
    /\ totals' = [totals EXCEPT ![project] = Least(MaxTotal, @ + wait)]
    /\ longest' = [longest EXCEPT ![project] = Least(MaxTotal, Greatest(@, wait))]

(* start_next, when a slot is free and a task waits; otherwise it returns  *)
(* None and changes nothing.  A blocked task is started like any other.    *)
StartNext(i) ==
    /\ HasFreeSlot
    /\ i \in DOMAIN queued
    /\ IsSelected(i)
    /\ queued' = RemoveAt(queued, i)
    /\ active' = active \cup {queued[i].id}
    /\ workers' = workers + 1
    /\ RecordStartedWait(ProjectOf[queued[i].id], WaitTicks(queued[i]))
    /\ stretch' = 0
    /\ UNCHANGED <<limit, setBacks>>

(* complete, for an active task: its worker has ended.  For an id that is  *)
(* not active it does nothing.                                             *)
Complete(id) ==
    /\ id \in active
    /\ active' = active \ {id}
    /\ workers' = workers - 1
    /\ stretch' = 0
    /\ UNCHANGED <<limit, queued, totals, longest, setBacks>>

(* mark_blocked_on_user_approval, for a queued task.  On an active task    *)
(* the mark changes nothing that is read again; an unknown id is refused.  *)
MarkBlocked(i, blocked) ==
    /\ i \in DOMAIN queued
    /\ queued[i].blocked # blocked
    /\ queued' = [queued EXCEPT ![i].blocked = blocked]
    /\ UNCHANGED <<limit, active, totals, longest, workers, stretch, setBacks>>

(* Mutated forms: every call promotes anew; a promotion is counted but the *)
(* priority stays.                                                         *)
Aged_EveryCall(task, offset, blockedIds) ==
    LET windows == AgingWindows(task, offset)
    IN  IF task.blocked \/ task.id \in blockedIds
           THEN [task EXCEPT !.skipped = TRUE]
           ELSE [task EXCEPT !.priority = @ + windows, !.promotions = @ + windows]

Aged_PriorityStays(task, offset, blockedIds) ==
    IF task.blocked \/ task.id \in blockedIds
       THEN [task EXCEPT !.skipped = TRUE]
       ELSE [task EXCEPT !.promotions = Greatest(@, AgingWindows(task, offset))]

(* One task of apply_aging: promotions are those due and not yet applied.  *)
Aged(task, offset, blockedIds) ==
    LET windows == AgingWindows(task, offset)
        due == windows - task.promotions
    IN  IF task.blocked \/ task.id \in blockedIds
           THEN [task EXCEPT !.skipped = TRUE]
           ELSE IF due <= 0
                   THEN task
                   ELSE [task EXCEPT !.priority = @ + due, !.promotions = windows]

ApplyAging(offset, blockedIds) ==
    /\ queued' = [i \in DOMAIN queued |-> Aged(queued[i], offset, blockedIds)]
    /\ UNCHANGED <<limit, active, totals, longest, workers, stretch, setBacks>>

(* The clock advances by one tick.  With MaxRun, no tick passes after      *)
(* MaxRun of them without a start or a completion: workers are done, and   *)
(* free slots used, in bounded time.                                       *)
Tick ==
    /\ MaxRun = 0 \/ stretch < MaxRun
    /\ stretch' = IF MaxRun = 0 THEN 0 ELSE stretch + 1
    /\ queued' = [i \in DOMAIN queued |-> [queued[i] EXCEPT !.age = Least(MaxAge, @ + 1)]]
    /\ UNCHANGED <<limit, active, totals, longest, workers, setBacks>>

(* The wall clock is set back by one tick.                                 *)
SetBack ==
    /\ setBacks < MaxSetBacks
    /\ \A i \in DOMAIN queued : queued[i].age < MaxAge
    /\ setBacks' = setBacks + 1
    /\ queued' = [i \in DOMAIN queued |-> [queued[i] EXCEPT !.age = @ - 1]]
    /\ UNCHANGED <<limit, active, totals, longest, workers, stretch>>

Next ==
    \/ \E id \in TaskIds, priority \in Priorities, blocked \in BOOLEAN :
            Enqueue(id, priority, blocked)
    \/ \E i \in DOMAIN queued : StartNext(i)
    \/ \E id \in TaskIds : Complete(id)
    \/ \E i \in DOMAIN queued, blocked \in BOOLEAN : MarkBlocked(i, blocked)
    \/ \E offset \in NowOffsets, blockedIds \in SUBSET TaskIds : ApplyAging(offset, blockedIds)
    \/ Tick
    \/ SetBack

Spec == Init /\ [][Next]_vars

(* Time passes, workers end, and the caller keeps starting tasks and       *)
(* applying aging.  The code has no loop of its own: these are what its    *)
(* callers owe it.                                                         *)
Fairness ==
    /\ WF_vars(\E i \in DOMAIN queued : StartNext(i))
    /\ \A id \in TaskIds : WF_vars(Complete(id))
    /\ WF_vars(ApplyAging(0, {}))
    /\ WF_vars(Tick)

FairSpec == Spec /\ Fairness

-----------------------------------------------------------------------------
(* Properties.                                                             *)

(* Every variable keeps its type.                                          *)
TypeOK ==
    /\ limit \in Limits
    /\ queued \in Seq(Tasks)
    /\ active \subseteq TaskIds
    /\ totals \in [Projects -> Nat]
    /\ longest \in [Projects -> Nat]
    /\ workers \in Nat
    /\ stretch \in Nat
    /\ setBacks \in Nat

(* The workers that really run, not only the ids the scheduler remembers,  *)
(* stay within the cap: no id is ever started twice at the same time, the  *)
(* way enqueue's docstring fears.                                          *)
WorkersWithinCap ==
    /\ workers = Cardinality(active)
    /\ workers <= limit

(* Aging never turns the queue against first in first out: of two waiting  *)
(* tasks, the one that came first, has waited as long and was given as     *)
(* high a priority is still served first, whatever calls of apply_aging,   *)
(* with whatever `now', came between; unless it was passed over as blocked *)
(* on the user.                                                            *)
GivenPriority(task) == task.priority - task.promotions

AgingKeepsOrder ==
    \A i, j \in DOMAIN queued :
        ( /\ i < j
          /\ ~ queued[i].skipped
          /\ queued[i].age >= queued[j].age
          /\ queued[j].age < MaxAge
          /\ GivenPriority(queued[i]) >= GivenPriority(queued[j]) )
        => queued[i].priority >= queued[j].priority

(* However often apply_aging is called, a task has no more promotions than *)
(* thresholds it has waited, at the latest `now' that was ever passed: a   *)
(* second call in the same window, or after the clock was set back, adds   *)
(* nothing.                                                                *)
OnePromotionPerThreshold ==
    \A i \in DOMAIN queued :
        queued[i].promotions > 0 =>
            \E latest \in NowOffsets :
                queued[i].promotions * Threshold <= queued[i].age + latest + setBacks

(* What wait_metrics_by_project reports as a project's total wait.         *)
QueuedWait(project) ==
    LET wait == [i \in DOMAIN queued |->
                    IF ProjectOf[queued[i].id] = project THEN WaitTicks(queued[i]) ELSE 0]
    IN  SumFunctionOnSet(wait, DOMAIN queued)

ReportedWait(project) == Least(MaxTotal, totals[project] + QueuedWait(project))

(* The wait a project is reported to have had follows the clock and        *)
(* nothing else: only a clock that is set back takes some of it away, and  *)
(* only time that passes adds to it.  In particular, a wait that moves     *)
(* from the queue into the project's totals when its task is started is    *)
(* neither lost nor counted twice.                                         *)
ReportedWaitFollowsTheClock ==
    [][ \A project \in Projects :
            /\ setBacks' = setBacks => ReportedWait(project)' >= ReportedWait(project)
            /\ ~ Tick => ReportedWait(project)' <= ReportedWait(project) ]_vars

(* Aging prevents starvation (D8): a task that waits for a slot is started *)
(* in the end, or blocked on the user, whatever else is enqueued with      *)
(* whatever priority.                                                      *)
Waits(id) == \E i \in DOMAIN queued : queued[i].id = id /\ ~ queued[i].blocked

NoStarvation == \A id \in TaskIds : Waits(id) ~> ~ Waits(id)
=============================================================================
