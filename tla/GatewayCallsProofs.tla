------------------------- MODULE GatewayCallsProofs -------------------------
(***************************************************************************)
(* Proofs about model calls through the gateway: types, the retry limit,   *)
(* whose answer a call returns, and by how much the money spent may exceed *)
(* the caps, for any number of calls and attempts, any caps and any order  *)
(* of steps.  The money is first followed through what steps do to sums    *)
(* over sets of handlers and days (FiniteSums), then through the steps.    *)
(***************************************************************************)
EXTENDS GatewayCalls, FiniteSums

-----------------------------------------------------------------------------
(* What is proved beside TypeOK.                                           *)

(* No handler serves an attempt its call has not made.                     *)
NoEarlyHandler == \A c \in Calls, n \in 1..MaxAttempts :
                      stage[<<c, n>>] # "none" => n <= attempt[c]

(* A call gives up only after the last attempt it is allowed.              *)
RetriesStopAtTheLimit == \A c \in Calls :
    /\ client[c] = "idle" <=> attempt[c] = 0
    /\ client[c] = "backoff" => attempt[c] < MaxAttempts
    /\ outcome[c] = "exhausted" => attempt[c] = MaxAttempts

(* An answer on its way is for the attempt its call waits for: what a call *)
(* returns is never the late answer to an attempt it has given up.         *)
AnswersAreCurrent == \A c \in Calls, n \in 1..MaxAttempts :
    stage[<<c, n>>] \in Answers => client[c] = "waiting" /\ attempt[c] = n

(* Only a provider's charge that is still to be recorded is remembered.    *)
ChargesAreOwed == \A h \in Handlers : cost[h] # 0 => stage[h] = "record"

GatewayInv == TypeOK /\ NoEarlyHandler /\ RetriesStopAtTheLimit /\ AnswersAreCurrent
                     /\ ChargesAreOwed

ClientStates == {"idle", "waiting", "backoff", "done"}

-----------------------------------------------------------------------------
LEMMA HandlersAreFinite == IsFiniteSet(Handlers)
<1>1. IsFiniteSet(1..MaxAttempts)
  BY FS_Interval, GatewayAssumption
<1> QED
  BY <1>1, FS_Product, GatewayAssumption DEF Handlers

LEMMA DaysAreFinite == IsFiniteSet(Days)
<1>1. 0 \in Int /\ MaxDay \in Int
  BY GatewayAssumption
<1> QED
  BY <1>1, FS_Interval DEF Days

LEMMA PartsAreCounted == ASSUME NEW S, S \subseteq Handlers PROVE Cardinality(S) \in Nat
BY HandlersAreFinite, FS_Subset, FS_CardinalityType

LEMMA MaxOfTwo ==
    ASSUME NEW m \in Nat, NEW n \in Nat
    PROVE  Max({m, n}) \in Nat /\ m <= Max({m, n}) /\ n <= Max({m, n})
<1>1. \E x \in {m, n} : \A y \in {m, n} : x >= y
  <2>1. CASE m >= n
    BY <2>1
  <2>2. CASE n >= m
    BY <2>2
  <2> QED
    BY <2>1, <2>2
<1>2. Max({m, n}) \in {m, n} /\ \A y \in {m, n} : Max({m, n}) >= y
  BY <1>1 DEF Max
<1> QED
  BY <1>2

LEMMA HandlersArePairs ==
    /\ \A c \in Calls, n \in 1..MaxAttempts : <<c, n>> \in Handlers
    /\ \A h \in Handlers : h[1] \in Calls /\ h[2] \in 1..MaxAttempts /\ h = <<h[1], h[2]>>
BY DEF Handlers

LEMMA GatewayInvAtFirst == Init => GatewayInv
<1> USE GatewayAssumption
<1> HAVE Init
<1>1. TypeOK
  BY DEF Init, TypeOK, Outcomes, Stages, Days, Handlers
<1>2. NoEarlyHandler /\ AnswersAreCurrent /\ ChargesAreOwed
  BY HandlersArePairs DEF Init, NoEarlyHandler, AnswersAreCurrent, ChargesAreOwed, Answers
<1>3. RetriesStopAtTheLimit
  BY DEF Init, RetriesStopAtTheLimit
<1> QED
  BY <1>1, <1>2, <1>3 DEF GatewayInv

-----------------------------------------------------------------------------
(* The client's steps.  A call that ends or backs off leaves no answer on  *)
(* its way, since there is none but that of the attempt it waited for.     *)

ClientParts == /\ client \in [Calls -> ClientStates]
               /\ attempt \in [Calls -> 0..MaxAttempts]
               /\ outcome \in [Calls -> Outcomes]
               /\ \A c \in Calls : outcome[c] = "none" <=> client[c] # "done"

LedgerParts == /\ day \in Days
               /\ spend \in [Days -> Nat]
               /\ peak \in Nat
               /\ cost \in [Handlers -> Costs \cup {0}]
               /\ billed \in Nat
               /\ lost \in Nat
               /\ over \in [Days -> Nat]

LEMMA TypeParts ==
    /\ TypeOK <=> ClientParts /\ LedgerParts /\ stage \in [Handlers -> Stages]
    /\ TypeOK' <=> ClientParts' /\ LedgerParts' /\ stage' \in [Handlers -> Stages]
BY DEF TypeOK, ClientParts, LedgerParts, ClientStates

LEMMA SubmitKeepsInv ==
    ASSUME GatewayInv, NEW c \in Calls, Submit(c)
    PROVE  GatewayInv'
<1> USE GatewayAssumption, TypeParts DEF GatewayInv
<1>1. TypeOK'
  BY DEF Submit, ClientParts, LedgerParts, ledger, history, ClientStates
<1>2. NoEarlyHandler'
  <2>1. \A d \in Calls : attempt[d] \in Nat /\ attempt'[d] \in Nat /\ attempt[d] <= attempt'[d]
    BY DEF Submit, RetriesStopAtTheLimit, ClientParts
  <2>2. stage' = stage
    BY DEF Submit
  <2> QED
    BY <2>1, <2>2 DEF NoEarlyHandler
<1>3. RetriesStopAtTheLimit'
  BY DEF Submit, RetriesStopAtTheLimit, ClientParts, Outcomes
<1>4. AnswersAreCurrent'
  BY DEF Submit, AnswersAreCurrent, RetriesStopAtTheLimit, ClientParts
<1>5. ChargesAreOwed'
  BY DEF Submit, ChargesAreOwed
<1> QED
  BY <1>1, <1>2, <1>3, <1>4, <1>5

LEMMA RetryKeepsInv ==
    ASSUME GatewayInv, NEW c \in Calls, Retry(c)
    PROVE  GatewayInv'
<1> USE GatewayAssumption, TypeParts DEF GatewayInv
<1>0. attempt[c] \in Nat /\ attempt[c] < MaxAttempts /\ attempt[c] # 0
  BY DEF Retry, RetriesStopAtTheLimit, ClientParts
<1>1. TypeOK'
  BY <1>0 DEF Retry, ClientParts, LedgerParts, ledger, history, ClientStates
<1>2. NoEarlyHandler'
  <2>1. \A d \in Calls : attempt[d] \in Nat /\ attempt'[d] \in Nat /\ attempt[d] <= attempt'[d]
    BY <1>0 DEF Retry, ClientParts
  <2>2. stage' = stage
    BY DEF Retry
  <2> QED
    BY <2>1, <2>2 DEF NoEarlyHandler
<1>3. RetriesStopAtTheLimit'
  BY <1>0 DEF Retry, RetriesStopAtTheLimit, ClientParts, Outcomes
<1>4. AnswersAreCurrent'
  BY DEF Retry, AnswersAreCurrent, ClientParts
<1>5. ChargesAreOwed'
  BY DEF Retry, ChargesAreOwed
<1> QED
  BY <1>1, <1>2, <1>3, <1>4, <1>5

LEMMA WaitingEndsKeepsInv ==
    ASSUME GatewayInv, NEW c \in Calls, client[c] = "waiting",
           Hangup(c), UNCHANGED <<ledger, attempt, cost, history>>,
           Transient(c) \/ \E result \in {"ok", "refused"} : Finished(c, result)
    PROVE  GatewayInv'
<1> USE GatewayAssumption, TypeParts DEF GatewayInv
<1>0. <<c, attempt[c]>> \in Handlers /\ attempt[c] \in 1..MaxAttempts
  BY HandlersArePairs DEF RetriesStopAtTheLimit, ClientParts
<1>1. /\ stage' \in [Handlers -> Stages]
      /\ \A d \in Calls, n \in 1..MaxAttempts :
            \/ stage'[<<d, n>>] = stage[<<d, n>>] /\ ~ (d = c /\ n = attempt[c] /\ stage[<<d, n>>] \in Answers)
            \/ d = c /\ n = attempt[c] /\ stage'[<<d, n>>] = "gone"
  BY <1>0, HandlersArePairs DEF Hangup, Stages, Answers
<1>2. \/ /\ attempt[c] < MaxAttempts
         /\ client' = [client EXCEPT ![c] = "backoff"]
         /\ outcome' = outcome
      \/ /\ \E result \in {"ok", "refused", "exhausted"} :
               /\ outcome' = [outcome EXCEPT ![c] = result]
               /\ result = "exhausted" => attempt[c] = MaxAttempts
         /\ client' = [client EXCEPT ![c] = "done"]
  <2>1. attempt[c] >= MaxAttempts => attempt[c] = MaxAttempts
    BY <1>0
  <2>2. CASE Transient(c)
    BY <2>1, <2>2 DEF Transient, Finished
  <2>3. CASE \E result \in {"ok", "refused"} : Finished(c, result)
    BY <2>3 DEF Finished
  <2> QED
    BY <2>2, <2>3
<1>3. TypeOK'
  <2>1. ClientParts'
    BY <1>2 DEF ClientParts, ClientStates, Outcomes
  <2>2. LedgerParts'
    BY DEF LedgerParts, ledger, history
  <2> QED
    BY <2>1, <2>2, <1>1
<1>4. NoEarlyHandler'
  BY <1>0, <1>1 DEF NoEarlyHandler
<1>5. RetriesStopAtTheLimit'
  BY <1>0, <1>2 DEF RetriesStopAtTheLimit, ClientParts
<1>6. AnswersAreCurrent'
  <2> SUFFICES ASSUME NEW d \in Calls, NEW n \in 1..MaxAttempts, stage'[<<d, n>>] \in Answers
               PROVE  client'[d] = "waiting" /\ attempt'[d] = n
    BY DEF AnswersAreCurrent
  <2>1. stage[<<d, n>>] \in Answers /\ ~ (d = c /\ n = attempt[c])
    BY <1>1 DEF Answers
  <2>2. client[d] = "waiting" /\ attempt[d] = n /\ d # c
    BY <2>1 DEF AnswersAreCurrent
  <2> QED
    BY <2>2, <1>2 DEF ClientParts
<1>7. ChargesAreOwed'
  <2> SUFFICES ASSUME NEW h \in Handlers, cost'[h] # 0
               PROVE  stage'[h] = "record"
    BY DEF ChargesAreOwed
  <2>1. stage[h] = "record"
    BY DEF ChargesAreOwed
  <2> QED
    BY <2>1, <1>0 DEF Hangup, Answers
<1> QED
  BY <1>3, <1>4, <1>5, <1>6, <1>7

LEMMA ReceiveKeepsInv ==
    ASSUME GatewayInv, NEW c \in Calls, Receive(c) \/ TransportError(c)
    PROVE  GatewayInv'
BY WaitingEndsKeepsInv DEF Receive, TransportError, Answers

-----------------------------------------------------------------------------
(* The gateway's steps: one handler moves on or answers.                   *)

LEMMA HandlerMovesKeepsInv ==
    ASSUME GatewayInv, NEW h \in Handlers, NEW s \in Stages,
           stage[h] # "none" \/ h[2] = attempt[h[1]],
           stage' = [stage EXCEPT ![h] = s],
           s \in Answers => client[h[1]] = "waiting" /\ attempt[h[1]] = h[2],
           UNCHANGED clients
    PROVE  /\ ClientParts' /\ stage' \in [Handlers -> Stages]
           /\ NoEarlyHandler' /\ RetriesStopAtTheLimit' /\ AnswersAreCurrent'
<1> USE GatewayAssumption, TypeParts DEF GatewayInv
<1>0. /\ UNCHANGED <<client, attempt, outcome>>
      /\ h[1] \in Calls /\ h[2] \in 1..MaxAttempts /\ h = <<h[1], h[2]>>
  BY HandlersArePairs DEF clients
<1>1. ClientParts' /\ stage' \in [Handlers -> Stages] /\ RetriesStopAtTheLimit'
  BY <1>0 DEF ClientParts, RetriesStopAtTheLimit
<1>2. \A c \in Calls, n \in 1..MaxAttempts :
          \/ c = h[1] /\ n = h[2] /\ stage'[<<c, n>>] = s
          \/ stage'[<<c, n>>] = stage[<<c, n>>]
  BY <1>0, HandlersArePairs
<1>3. NoEarlyHandler'
  BY <1>0, <1>2 DEF NoEarlyHandler, ClientParts
<1>4. AnswersAreCurrent'
  BY <1>0, <1>2 DEF AnswersAreCurrent
<1> QED
  BY <1>1, <1>3, <1>4

LEMMA ReplyIsAStage ==
    ASSUME NEW h \in Handlers, NEW a \in Answers, Reply(h, a)
    PROVE  \E s \in Stages : /\ stage' = [stage EXCEPT ![h] = s]
                             /\ s # "none"
                             /\ s # "record"
                             /\ s \in Answers => client[h[1]] = "waiting" /\ attempt[h[1]] = h[2]
<1> DEFINE s == IF client[h[1]] = "waiting" /\ attempt[h[1]] = h[2] THEN a ELSE "gone"
<1>1. stage' = [stage EXCEPT ![h] = s]
  BY DEF Reply
<1>2. s \in Stages /\ s # "none" /\ s # "record"
  BY DEF Stages, Answers
<1>3. s \in Answers => client[h[1]] = "waiting" /\ attempt[h[1]] = h[2]
  BY DEF Answers
<1> QED
  BY <1>1, <1>2, <1>3

(* A step of a handler is a move of its stage; here is what it does to the *)
(* ledger.                                                                 *)
LEMMA HandlerMoves ==
    ASSUME GatewayInv, NEW h \in Handlers, HandlerStep(h)
    PROVE  /\ \E s \in Stages :
                /\ stage' = [stage EXCEPT ![h] = s]
                /\ s \in Answers => client[h[1]] = "waiting" /\ attempt[h[1]] = h[2]
           /\ stage[h] # "none"
           /\ UNCHANGED clients
<1> USE DEF clients
<1>1. ASSUME CheckDaily(h) \/ CheckMonthly(h)
      PROVE  \/ \E a \in Answers : Reply(h, a)
             \/ \E s \in {"monthly", "forward"} : stage' = [stage EXCEPT ![h] = s]
  BY <1>1 DEF CheckDaily, CheckMonthly, Answers
<1>2. ASSUME NEW charged, Forward(h, charged)
      PROVE  stage' = [stage EXCEPT ![h] = "record"]
  BY <1>2 DEF Forward
<1>3. ASSUME RecordSpend(h) \/ RecordFails(h) \/ \E a \in {"refused", "transient"} : ForwardFails(h, a)
      PROVE  \E a \in Answers : Reply(h, a)
  BY <1>3 DEF RecordSpend, RecordFails, ForwardFails, Answers
<1>4. stage[h] # "none" /\ UNCHANGED clients
  BY DEF HandlerStep, CheckDaily, CheckMonthly, Forward, ForwardFails, RecordSpend, RecordFails
<1>5. {"monthly", "forward", "record"} \subseteq Stages \ Answers
  BY DEF Stages, Answers
<1> QED
  BY <1>1, <1>2, <1>3, <1>4, <1>5, ReplyIsAStage DEF HandlerStep

LEMMA CostsAreNatural == ASSUME NEW x \in Costs \cup {0} PROVE x \in Nat
<1>1. CASE x \in Costs
  BY <1>1, GatewayAssumption
<1>2. CASE x = 0
  BY <1>2
<1> QED
  BY <1>1, <1>2

LEMMA HandlerKeepsTheLedger ==
    ASSUME GatewayInv, NEW h \in Handlers, HandlerStep(h)
    PROVE  LedgerParts' /\ ChargesAreOwed'
<1> USE GatewayAssumption, TypeParts DEF GatewayInv
<1>0. stage \in [Handlers -> Stages] /\ h[1] \in Calls
  BY HandlersArePairs
<1>1. Cardinality(Committed') \in Nat /\ peak \in Nat
  BY PartsAreCounted DEF Committed, LedgerParts
<1>2. ASSUME CheckDaily(h) \/ CheckMonthly(h) \/ \E a \in {"refused", "transient"} : ForwardFails(h, a)
      PROVE  LedgerParts' /\ ChargesAreOwed'
  <2>1. UNCHANGED <<day, spend, cost, billed, lost, over>> /\ peak' \in Nat
    BY <1>1, <1>2, MaxOfTwo DEF CheckDaily, CheckMonthly, ForwardFails, ledger, history
  <2>2. \A g \in Handlers \ {h} : stage'[g] = stage[g]
    BY <1>0, <1>2 DEF CheckDaily, CheckMonthly, ForwardFails, Reply
  <2>3. stage[h] # "record"
    BY <1>2 DEF CheckDaily, CheckMonthly, ForwardFails
  <2> QED
    BY <2>1, <2>2, <2>3 DEF LedgerParts, ChargesAreOwed
<1>3. ASSUME NEW charged \in Costs, Forward(h, charged)
      PROVE  LedgerParts' /\ ChargesAreOwed'
  <2>1. charged \in Nat
    OBVIOUS
  <2>2. LedgerParts'
    BY <1>3, <2>1 DEF Forward, ledger, LedgerParts
  <2>3. ChargesAreOwed'
    BY <1>0, <1>3 DEF Forward, ChargesAreOwed, LedgerParts
  <2> QED
    BY <2>2, <2>3
<1>4. ASSUME RecordSpend(h) \/ RecordFails(h)
      PROVE  LedgerParts' /\ ChargesAreOwed'
  <2>1. cost[h] \in Nat
    <3>1. cost[h] \in Costs \cup {0}
      <4>1. cost \in [Handlers -> Costs \cup {0}]
        BY DEF LedgerParts
      <4> QED
        BY <4>1, h \in Handlers
    <3> QED
      BY <3>1, CostsAreNatural
  <2>2. cost' = [cost EXCEPT ![h] = 0]
    BY <1>4 DEF RecordSpend, RecordFails
  <2>3. LedgerParts'
    <3>0. cost' \in [Handlers -> Costs \cup {0}]
      BY <2>2 DEF LedgerParts
    <3>1. CASE RecordSpend(h)
      <4>1. Excess(h) \in Nat
        BY <1>0, <2>1, GatewayAssumption DEF Excess
      <4> QED
        BY <2>1, <3>0, <3>1, <4>1 DEF RecordSpend, LedgerParts
    <3>2. CASE RecordFails(h)
      BY <2>1, <3>0, <3>2 DEF RecordFails, LedgerParts, ledger
    <3> QED
      BY <3>1, <3>2, <1>4
  <2>4. ChargesAreOwed'
    <3>1. \A g \in Handlers \ {h} : stage'[g] = stage[g] /\ cost'[g] = cost[g]
      BY <1>0, <1>4, <2>2 DEF RecordSpend, RecordFails, Reply, LedgerParts
    <3>2. cost'[h] = 0
      BY <2>2 DEF LedgerParts
    <3> QED
      BY <3>1, <3>2 DEF ChargesAreOwed
  <2> QED
    BY <2>3, <2>4
<1> QED
  BY <1>2, <1>3, <1>4 DEF HandlerStep

LEMMA HandlerStepKeepsInv ==
    ASSUME GatewayInv, NEW h \in Handlers, HandlerStep(h)
    PROVE  GatewayInv'
BY HandlerMoves, HandlerMovesKeepsInv, HandlerKeepsTheLedger, TypeParts DEF GatewayInv

LEMMA ArriveKeepsInv ==
    ASSUME GatewayInv, NEW c \in Calls, Arrive(c)
    PROVE  GatewayInv'
<1> USE GatewayAssumption, TypeParts DEF GatewayInv
<1>0. <<c, attempt[c]>> \in Handlers /\ "daily" \in Stages \ Answers
  BY HandlersArePairs DEF Arrive, RetriesStopAtTheLimit, ClientParts, Stages, Answers
<1>1. ClientParts' /\ stage' \in [Handlers -> Stages]
      /\ NoEarlyHandler' /\ RetriesStopAtTheLimit' /\ AnswersAreCurrent'
  <2> DEFINE h == <<c, attempt[c]>>
  <2>1. /\ h \in Handlers /\ h[2] = attempt[h[1]]
        /\ stage' = [stage EXCEPT ![h] = "daily"] /\ UNCHANGED clients
    BY <1>0 DEF Arrive
  <2> HIDE DEF h
  <2> QED
    BY <1>0, <2>1, HandlerMovesKeepsInv
<1>2. LedgerParts'
  BY DEF Arrive, LedgerParts, ledger, history
<1>3. ChargesAreOwed'
  BY <1>0 DEF Arrive, ChargesAreOwed, Current
<1> QED
  BY <1>1, <1>2, <1>3

LEMMA GatewayDiesKeepsInv ==
    ASSUME GatewayInv, GatewayDies
    PROVE  GatewayInv'
<1> USE GatewayAssumption, TypeParts DEF GatewayInv
<1>1. UNCHANGED <<client, attempt, outcome, day, spend, peak, billed, over>>
      /\ cost' = [h \in Handlers |-> 0]
  BY DEF GatewayDies, ledger, clients
<1>2. /\ stage' \in [Handlers -> Stages]
      /\ \A h \in Handlers : stage'[h] = stage[h] \/ (stage'[h] = "gone" /\ stage[h] # "none")
  <2>1. "gone" \in Stages
    BY DEF Stages
  <2> QED
    BY <2>1 DEF GatewayDies, Committed
<1>3. TypeOK'
  <2>1. lost' \in Nat
    <3> DEFINE alive == {h \in Handlers : stage[h] = "daily"} \cup Committed
    <3>1. lost' = lost + SumFunctionOnSet(cost, alive) /\ lost \in Nat
      BY DEF GatewayDies, LedgerParts
    <3>2. IsFiniteSet(alive) /\ \A h \in alive : cost[h] \in Nat
      BY HandlersAreFinite, FS_Subset, CostsAreNatural DEF Committed, LedgerParts
    <3> HIDE DEF alive
    <3>3. SumFunctionOnSet(cost, alive) \in Nat
      BY ONLY <3>2, SumType
    <3> QED
      BY <3>1, <3>3
  <2> QED
    BY <1>1, <1>2, <2>1 DEF ClientParts, LedgerParts
<1>4. NoEarlyHandler' /\ AnswersAreCurrent'
  BY <1>1, <1>2, HandlersArePairs DEF NoEarlyHandler, AnswersAreCurrent, Answers
<1>5. RetriesStopAtTheLimit' /\ ChargesAreOwed'
  BY <1>1 DEF RetriesStopAtTheLimit, ChargesAreOwed
<1> QED
  BY <1>3, <1>4, <1>5

LEMMA MidnightKeepsInv ==
    ASSUME GatewayInv, Midnight
    PROVE  GatewayInv'
<1> USE GatewayAssumption, TypeParts DEF GatewayInv
<1>1. TypeOK'
  BY SMTT(30) DEF Midnight, clients, ClientParts, LedgerParts, Days
<1>2. UNCHANGED <<client, attempt, outcome, stage, cost>>
  BY DEF Midnight, clients
<1> QED
  BY <1>1, <1>2 DEF NoEarlyHandler, RetriesStopAtTheLimit, AnswersAreCurrent, ChargesAreOwed

LEMMA StutterKeepsInv == ASSUME GatewayInv, UNCHANGED vars PROVE GatewayInv'
BY DEF GatewayInv, vars, ledger, clients, history, TypeOK, NoEarlyHandler, RetriesStopAtTheLimit,
       AnswersAreCurrent, ChargesAreOwed

LEMMA StepKeepsInv == ASSUME GatewayInv, [Next]_vars PROVE GatewayInv'
BY SubmitKeepsInv, RetryKeepsInv, ReceiveKeepsInv, ArriveKeepsInv, HandlerStepKeepsInv,
   GatewayDiesKeepsInv, MidnightKeepsInv, StutterKeepsInv DEF Next, ClientStep

LEMMA GatewayInvHolds == Spec => []GatewayInv
<1>1. Init => GatewayInv
  BY GatewayInvAtFirst
<1>2. GatewayInv /\ [Next]_vars => GatewayInv'
  BY StepKeepsInv
<1> QED
  BY <1>1, <1>2, PTL DEF Spec

-----------------------------------------------------------------------------
(* The state of the client, the handlers and the ledger stays well typed;  *)
(* a call has an outcome exactly when it is done.                          *)
THEOREM CallsAreTypeCorrect == Spec => []TypeOK
<1>1. GatewayInv => TypeOK
  BY DEF GatewayInv
<1> QED
  BY <1>1, GatewayInvHolds, PTL

(* No call is attempted more than MaxAttempts times, and none gives up as  *)
(* exhausted before it has made them all.                                  *)
THEOREM AttemptsAreUsedUp == Spec => []RetriesStopAtTheLimit
<1>1. GatewayInv => RetriesStopAtTheLimit
  BY DEF GatewayInv
<1> QED
  BY <1>1, GatewayInvHolds, PTL

(* The result a call returns answers the attempt it is waiting for: a      *)
(* handler that runs on for an attempt that timed out never reaches it.    *)
THEOREM LateAnswersAreLost == Spec => []AnswersAreCurrent
<1>1. GatewayInv => AnswersAreCurrent
  BY DEF GatewayInv
<1> QED
  BY <1>1, GatewayInvHolds, PTL

-----------------------------------------------------------------------------
(* The money.  What is proved beside the two overshoot properties of the   *)
(* ledger; the property of the bill follows from them.                     *)

Checked == {h \in Committed : stage[h] # "monthly"}

PeakIsThePeak == Cardinality(Committed) <= peak

(* A handler that passed a check has an estimate that fits the cap alone.  *)
EstimatesFitTheCaps ==
    /\ \A h \in Committed : EstimatedCost[h[1]] <= DailyHard
    /\ \A h \in Checked : EstimatedCost[h[1]] <= MonthlyHard

NothingIsSpentAhead == \A d \in Days : d > day => spend[d] = 0

(* A charge of today is recorded today, owed, or lost; what is recorded    *)
(* today may have been charged yesterday.                                  *)
BillIsExplained == billed <= SpentToday + SumFunctionOnSet(cost, Handlers) + lost

MoneyInv == /\ PeakIsThePeak /\ EstimatesFitTheCaps /\ NothingIsSpentAhead /\ BillIsExplained
            /\ DayOvershootHasACause /\ MonthOvershootHasACause

(* MostOverrun for a peak that is not that of a state.                     *)
Most(p) == IF p = 0 THEN 0 ELSE (p - 1) * Max(Estimates)

OverThisMonth == SumFunctionOnSet(over, ThisMonth)

LEMMA EstimatesAreBounded ==
    /\ Max(Estimates) \in Nat
    /\ \A c \in Calls : EstimatedCost[c] \in Nat /\ EstimatedCost[c] <= Max(Estimates)
<1>1. Estimates = {EstimatedCost[c] : c \in Calls}
  BY GatewayAssumption DEF Estimates, Range
<1>2. IsFiniteSet(Estimates) /\ Estimates \subseteq Nat /\ Estimates # {}
  <2>1. IsFiniteSet({EstimatedCost[c] : c \in Calls})
    <3>1. EstimatedCost \in Surjection(Calls, {EstimatedCost[c] : c \in Calls})
      BY GatewayAssumption DEF Surjection
    <3> QED
      BY <3>1, GatewayAssumption, FS_Surjection
  <2> QED
    BY <1>1, <2>1, GatewayAssumption
<1>3. \E x \in Estimates : \A y \in Estimates : x >= y
  BY ONLY <1>2, LargestExists
<1>4. Max(Estimates) \in Estimates /\ \A y \in Estimates : Max(Estimates) >= y
  BY <1>3 DEF Max
<1>5. Max(Estimates) \in Nat
  BY <1>2, <1>4
<1>6. ASSUME NEW c \in Calls PROVE EstimatedCost[c] \in Nat /\ EstimatedCost[c] <= Max(Estimates)
  <2>1. EstimatedCost[c] \in Estimates
    BY <1>1
  <2>2. EstimatedCost[c] \in Nat /\ Max(Estimates) >= EstimatedCost[c]
    BY <1>2, <1>4, <2>1
  <2> QED
    BY <1>5, <2>2
<1> QED
  BY <1>5, <1>6

LEMMA TermsOfEstimated ==
    ASSUME NEW h \in Handlers
    PROVE  /\ [g \in Handlers |-> EstimatedCost[g[1]]][h] = EstimatedCost[h[1]]
           /\ EstimatedCost[h[1]] \in Nat /\ EstimatedCost[h[1]] \in 0..Max(Estimates)
BY HandlersArePairs, EstimatesAreBounded

LEMMA EstimatedOfPart ==
    ASSUME NEW S, S \subseteq Handlers, NEW P, P \subseteq S
    PROVE  /\ Estimated(P) <= Estimated(S)
           /\ Estimated(P) \in Nat /\ Estimated(S) \in Nat
<1> DEFINE f == [h \in Handlers |-> EstimatedCost[h[1]]]
<1>1. IsFiniteSet(S) /\ IsFiniteSet(P) /\ \A x \in S : f[x] \in Nat
  <2>1. \A x \in Handlers : f[x] \in Nat
    BY TermsOfEstimated
  <2> HIDE DEF f
  <2> QED
    BY <2>1, HandlersAreFinite, FS_Subset
<1> HIDE DEF f
<1>2. /\ SumFunctionOnSet(f, P) <= SumFunctionOnSet(f, S)
      /\ SumFunctionOnSet(f, P) \in Nat /\ SumFunctionOnSet(f, S) \in Nat
  BY <1>1, SumOfPart, SumType
<1> QED
  BY <1>2 DEF Estimated, f

LEMMA EstimatedWithout ==
    ASSUME NEW S, S \subseteq Handlers, NEW h \in S
    PROVE  /\ Estimated(S) = EstimatedCost[h[1]] + Estimated(S \ {h})
           /\ EstimatedCost[h[1]] \in Nat /\ Estimated(S \ {h}) \in Nat /\ Estimated(S) \in Nat
<1> DEFINE f == [g \in Handlers |-> EstimatedCost[g[1]]]
<1>1. IsFiniteSet(S) /\ \A x \in S : f[x] \in Nat
  <2>1. \A x \in Handlers : f[x] \in Nat
    BY TermsOfEstimated
  <2> HIDE DEF f
  <2> QED
    BY <2>1, HandlersAreFinite, FS_Subset
<1>2. f[h] = EstimatedCost[h[1]] /\ EstimatedCost[h[1]] \in Nat
  BY TermsOfEstimated
<1> HIDE DEF f
<1>3. SumFunctionOnSet(f, S) = f[h] + SumFunctionOnSet(f, S \ {h})
  BY <1>1, SumWithout
<1>4. Estimated(S \ {h}) \in Nat /\ Estimated(S) \in Nat
  BY EstimatedOfPart
<1> QED
  BY <1>2, <1>3, <1>4 DEF Estimated, f

LEMMA MostGrows ==
    ASSUME NEW p \in Nat, NEW q \in Nat, p <= q
    PROVE  Most(p) \in Nat /\ Most(q) \in Nat /\ Most(p) <= Most(q)
<1>1. CASE p = 0
  <2>1. q # 0 => (q - 1) * Max(Estimates) \in Nat
    BY ProductGrows, EstimatesAreBounded
  <2> QED
    BY <1>1, <2>1 DEF Most
<1>2. CASE p # 0
  <2>1. p - 1 \in Nat /\ q - 1 \in Nat /\ p - 1 <= q - 1 /\ q # 0
    BY <1>2
  <2>2. /\ (p - 1) * Max(Estimates) <= (q - 1) * Max(Estimates)
        /\ (p - 1) * Max(Estimates) \in Nat /\ (q - 1) * Max(Estimates) \in Nat
    BY <2>1, EstimatesAreBounded, ProductGrows
  <2> QED
    BY <1>2, <2>1, <2>2 DEF Most
<1> QED
  BY <1>1, <1>2

(* The central estimate: of k handlers, one is paid for by the cap and     *)
(* k - 1 by the overrun.                                                   *)
LEMMA OneAndTheRest ==
    ASSUME NEW S, S \subseteq Handlers, NEW h \in S, NEW p \in Nat, Cardinality(S) <= p
    PROVE  Estimated(S) <= EstimatedCost[h[1]] + Most(p)
<1> DEFINE f == [g \in Handlers |-> EstimatedCost[g[1]]]
           R == S \ {h}
           n == Cardinality(S)
<1>1. /\ IsFiniteSet(R) /\ n \in Nat /\ n # 0
      /\ Cardinality(R) = n - 1 /\ R \subseteq Handlers
  BY HandlersAreFinite, FS_Subset, FS_CardinalityType, FS_RemoveElement, FS_EmptySet
<1>2. SumFunctionOnSet(f, R) <= Cardinality(R) * Max(Estimates)
  <2>1. \A x \in R : f[x] \in 0..Max(Estimates)
    BY <1>1, TermsOfEstimated
  <2> HIDE DEF f, R
  <2> QED
    BY <1>1, <2>1, EstimatesAreBounded, SumIsBounded
<1>3. Estimated(R) <= Most(n)
  BY <1>1, <1>2 DEF Estimated, Most
<1>4. Most(n) <= Most(p) /\ Most(n) \in Nat /\ Most(p) \in Nat
  BY <1>1, MostGrows
<1>5. Estimated(S) = EstimatedCost[h[1]] + Estimated(R) /\ EstimatedCost[h[1]] \in Nat /\ Estimated(R) \in Nat
  BY EstimatedWithout
<1> QED
  BY <1>3, <1>4, <1>5

-----------------------------------------------------------------------------
(* What every step that moves money finds.                                 *)

Owed(charges) == SumFunctionOnSet(charges, Handlers)

MoneyIsTyped ==
    /\ \A h \in Handlers : /\ EstimatedCost[h[1]] \in Nat /\ cost[h] \in Nat /\ Excess(h) \in Nat
                           /\ cost[h] <= EstimatedCost[h[1]] + Excess(h)
    /\ SpentToday \in Nat /\ SpentThisMonth \in Nat /\ Owed(cost) \in Nat
    /\ over[day] \in Nat /\ OverThisMonth \in Nat
    /\ peak \in Nat /\ billed \in Nat /\ lost \in Nat /\ Most(peak) \in Nat
    /\ DailyHard \in Nat /\ MonthlyHard \in Nat

LEMMA SumOfDays ==
    ASSUME NEW f \in [Days -> Nat], NEW M, M \subseteq Days
    PROVE  SumFunctionOnSet(f, M) \in Nat
<1>1. IsFiniteSet(M) /\ \A d \in M : f[d] \in Nat
  BY DaysAreFinite, FS_Subset
<1> QED
  BY ONLY <1>1, SumType

LEMMA MoneyTypes == GatewayInv => MoneyIsTyped
<1> SUFFICES ASSUME GatewayInv PROVE MoneyIsTyped
  OBVIOUS
<1>1. ClientParts /\ LedgerParts
  BY TypeParts DEF GatewayInv
<1>2. \A h \in Handlers : EstimatedCost[h[1]] \in Nat /\ cost[h] \in Nat
  <2> SUFFICES ASSUME NEW h \in Handlers
               PROVE  EstimatedCost[h[1]] \in Nat /\ cost[h] \in Costs \cup {0}
    BY CostsAreNatural
  <2> QED
    BY <1>1, HandlersArePairs, EstimatesAreBounded DEF LedgerParts
<1>3. \A h \in Handlers : Excess(h) \in Nat /\ cost[h] <= EstimatedCost[h[1]] + Excess(h)
  BY <1>2 DEF Excess
<1>4. /\ SpentToday \in Nat /\ SpentThisMonth \in Nat
      /\ over[day] \in Nat /\ OverThisMonth \in Nat
  <2>1. ThisMonth \subseteq Days
    BY DEF ThisMonth
  <2> QED
    BY <1>1, <2>1, SumOfDays DEF SpentToday, SpentThisMonth, OverThisMonth, LedgerParts
<1>5. Owed(cost) \in Nat
  BY <1>2, HandlersAreFinite, SumType DEF Owed
<1>6. lost \in Nat /\ peak \in Nat /\ billed \in Nat /\ Most(peak) \in Nat
  BY <1>1, MostGrows DEF LedgerParts
<1>7. DailyHard \in Nat /\ MonthlyHard \in Nat
  BY GatewayAssumption
<1> QED
  BY <1>2, <1>3, <1>4, <1>5, <1>6, <1>7 DEF MoneyIsTyped

LEMMA MoneyTypesAfter == GatewayInv' => MoneyIsTyped'
BY MoneyTypes, PTL

LEMMA SumsOfAState ==
    /\ DayOvershootHasACause <=> SpentToday + Estimated(Committed) <= DailyHard + Most(peak) + over[day]
    /\ MonthOvershootHasACause <=>
           SpentThisMonth + Estimated(Checked) <= MonthlyHard + Most(peak) + OverThisMonth
    /\ BillIsExplained <=> billed <= SpentToday + Owed(cost) + lost
    /\ Checked \subseteq Committed /\ Committed \subseteq Handlers
BY DEF DayOvershootHasACause, MonthOvershootHasACause, BillIsExplained, Owed,
       Checked, Committed, MostOverrun, Most, OverThisMonth

LEMMA SumsOfTheNext ==
    /\ DayOvershootHasACause' <=>
           SpentToday' + Estimated(Committed') <= DailyHard + Most(peak') + over'[day']
    /\ MonthOvershootHasACause' <=>
           SpentThisMonth' + Estimated(Checked') <= MonthlyHard + Most(peak') + OverThisMonth'
    /\ BillIsExplained' <=> billed' <= SpentToday' + Owed(cost') + lost'
    /\ Checked' \subseteq Committed' /\ Committed' \subseteq Handlers
<1>1. DayOvershootHasACause' <=>
          SpentToday' + Estimated(Committed') <= DailyHard + Most(peak') + over'[day']
  BY DEF DayOvershootHasACause, Estimated, MostOverrun, Most
<1>2. MonthOvershootHasACause' <=>
          SpentThisMonth' + Estimated(Checked') <= MonthlyHard + Most(peak') + OverThisMonth'
  BY DEF MonthOvershootHasACause, Estimated, MostOverrun, Most, OverThisMonth, Checked
<1>3. BillIsExplained' <=> billed' <= SpentToday' + Owed(cost') + lost'
  BY DEF BillIsExplained, Owed
<1>4. Checked' \subseteq Committed' /\ Committed' \subseteq Handlers
  BY DEF Checked, Committed
<1> QED
  BY <1>1, <1>2, <1>3, <1>4

(* A step that commits nobody, moves no money and looks at no clock.       *)
LEMMA NobodyIsCommitted ==
    ASSUME GatewayInv, GatewayInv', MoneyInv, UNCHANGED <<day, spend, over>>, peak <= peak',
           Committed' \subseteq Committed, Checked' \subseteq Checked
    PROVE  /\ PeakIsThePeak' /\ EstimatesFitTheCaps' /\ NothingIsSpentAhead'
           /\ DayOvershootHasACause' /\ MonthOvershootHasACause'
<1>0. MoneyIsTyped /\ MoneyIsTyped' /\ Committed \subseteq Handlers /\ Checked' \subseteq Committed'
  BY MoneyTypes, MoneyTypesAfter, SumsOfAState, SumsOfTheNext
<1>1. PeakIsThePeak'
  <2>1. Cardinality(Committed') <= Cardinality(Committed)
    BY <1>0, HandlersAreFinite, FS_Subset
  <2> QED
    BY <1>0, <2>1, PartsAreCounted DEF PeakIsThePeak, MoneyInv, MoneyIsTyped
<1>2. EstimatesFitTheCaps'
  BY <1>0 DEF EstimatesFitTheCaps, MoneyInv
<1>3. NothingIsSpentAhead'
  BY DEF NothingIsSpentAhead, MoneyInv
<1>4. /\ SpentToday' = SpentToday /\ SpentThisMonth' = SpentThisMonth
      /\ over'[day'] = over[day] /\ OverThisMonth' = OverThisMonth
  BY DEF SpentToday, SpentThisMonth, OverThisMonth, ThisMonth
<1>5. Most(peak) <= Most(peak')
  BY <1>0, MostGrows DEF MoneyIsTyped
<1>6. /\ Estimated(Committed') <= Estimated(Committed)
      /\ Estimated(Committed) \in Nat /\ Estimated(Committed') \in Nat
  BY <1>0, EstimatedOfPart
<1>7. /\ Estimated(Checked') <= Estimated(Checked)
      /\ Estimated(Checked) \in Nat /\ Estimated(Checked') \in Nat
  <2>1. Checked \subseteq Handlers
    BY <1>0, SumsOfAState
  <2> QED
    BY <2>1, EstimatedOfPart
<1>8. DayOvershootHasACause' /\ MonthOvershootHasACause'
  <2>1. /\ SpentToday + Estimated(Committed) <= DailyHard + Most(peak) + over[day]
        /\ SpentThisMonth + Estimated(Checked) <= MonthlyHard + Most(peak) + OverThisMonth
    BY SumsOfAState DEF MoneyInv
  <2>2. /\ SpentToday \in Nat /\ SpentThisMonth \in Nat /\ DailyHard \in Nat /\ MonthlyHard \in Nat
        /\ Most(peak) \in Nat /\ Most(peak') \in Nat /\ over[day] \in Nat /\ OverThisMonth \in Nat
    BY <1>0, MostGrows DEF MoneyIsTyped
  <2>3. /\ SpentToday' + Estimated(Committed') <= DailyHard + Most(peak') + over'[day']
        /\ SpentThisMonth' + Estimated(Checked') <= MonthlyHard + Most(peak') + OverThisMonth'
    BY <1>4, <1>5, <1>6, <1>7, <2>1, <2>2
  <2> QED
    BY <2>3, SumsOfTheNext
<1> QED
  BY <1>1, <1>2, <1>3, <1>8

LEMMA MoneyIsKept ==
    ASSUME PeakIsThePeak' /\ EstimatesFitTheCaps' /\ NothingIsSpentAhead',
           DayOvershootHasACause' /\ MonthOvershootHasACause', BillIsExplained'
    PROVE  MoneyInv'
BY DEF MoneyInv

(* Most steps touch neither a cost nor the bill.                           *)
LEMMA NothingIsCharged ==
    ASSUME MoneyInv, UNCHANGED <<day, spend, cost, billed, lost>>
    PROVE  BillIsExplained'
BY DEF MoneyInv, BillIsExplained, SpentToday

(* A handler that answers commits nobody.                                  *)
LEMMA StageLeaves ==
    ASSUME GatewayInv, NEW h \in Handlers, NEW s, stage' = [stage EXCEPT ![h] = s],
           s \notin {"monthly", "forward", "record"}
    PROVE  /\ Committed' = Committed \ {h} /\ Checked' = Checked \ {h}
           /\ \A g \in Handlers \ {h} : stage'[g] = stage[g]
<1>1. stage \in [Handlers -> Stages]
  BY TypeParts DEF GatewayInv
<1>2. \A g \in Handlers : stage'[g] = IF g = h THEN s ELSE stage[g]
  BY <1>1
<1> QED
  BY <1>2 DEF Committed, Checked

LEMMA RepliesLeave ==
    ASSUME GatewayInv, NEW h \in Handlers, NEW a \in Answers, Reply(h, a)
    PROVE  /\ Committed' = Committed \ {h} /\ Checked' = Checked \ {h}
           /\ \A g \in Handlers \ {h} : stage'[g] = stage[g]
<1> DEFINE s == IF client[h[1]] = "waiting" /\ attempt[h[1]] = h[2] THEN a ELSE "gone"
<1>1. stage' = [stage EXCEPT ![h] = s]
  BY DEF Reply
<1>2. s \notin {"monthly", "forward", "record"}
  BY DEF Answers
<1> HIDE DEF s
<1> QED
  BY <1>1, <1>2, StageLeaves

(* A step of a client, a request that arrives, a stutter.                  *)
LEMMA StagesKeepMoney ==
    ASSUME GatewayInv, GatewayInv', MoneyInv, UNCHANGED <<ledger, cost, history>>,
           Committed' \subseteq Committed, Checked' \subseteq Checked
    PROVE  MoneyInv'
<1>1. UNCHANGED <<day, spend, cost, peak, billed, lost, over>>
  BY DEF ledger, history
<1>2. peak <= peak'
  BY <1>1, MoneyTypes DEF MoneyIsTyped
<1> QED
  BY <1>1, <1>2, NobodyIsCommitted, NothingIsCharged, MoneyIsKept

LEMMA ClientStepKeepsMoney ==
    ASSUME GatewayInv, GatewayInv', MoneyInv, NEW c \in Calls, Submit(c) \/ ClientStep(c) \/ Arrive(c)
    PROVE  MoneyInv'
<1>1. UNCHANGED <<ledger, cost, history>>
  BY DEF Submit, ClientStep, Receive, TransportError, Retry, Arrive, clients
<1>2. \/ stage' = stage
      \/ /\ client[c] = "waiting"
         /\ \E s \in {"gone", "daily"} : stage' = [stage EXCEPT ![<<c, attempt[c]>>] = s]
  <2>1. stage \in [Handlers -> Stages]
    BY TypeParts DEF GatewayInv
  <2>2. CASE Receive(c) \/ TransportError(c)
    BY <2>1, <2>2 DEF Receive, TransportError, Hangup
  <2>3. CASE Submit(c) \/ Retry(c)
    BY <2>3 DEF Submit, Retry
  <2>4. CASE Arrive(c)
    BY <2>4 DEF Arrive
  <2> QED
    BY <2>2, <2>3, <2>4 DEF ClientStep
<1>3. Committed' \subseteq Committed /\ Checked' \subseteq Checked
  <2>1. CASE stage' = stage
    BY <2>1 DEF Committed, Checked
  <2>2. CASE stage' # stage
    <3>1. <<c, attempt[c]>> \in Handlers
      BY <1>2, <2>2, HandlersArePairs DEF GatewayInv, RetriesStopAtTheLimit, TypeOK
    <3> QED
      BY <1>2, <2>2, <3>1, StageLeaves
  <2> QED
    BY <2>1, <2>2
<1> QED
  BY <1>1, <1>3, StagesKeepMoney

(* A handler that answers without a charge: refused by the breaker, or by  *)
(* the provider.                                                           *)
LEMMA RefusalKeepsMoney ==
    ASSUME GatewayInv, GatewayInv', MoneyInv, NEW h \in Handlers, NEW a \in Answers, Reply(h, a),
           UNCHANGED <<day, spend, cost, billed, lost, over>>, peak <= peak'
    PROVE  MoneyInv'
BY RepliesLeave, NobodyIsCommitted, NothingIsCharged, MoneyIsKept

LEMMA PeakGrows ==
    ASSUME GatewayInv, peak' = Max({peak, Cardinality(Committed')})
    PROVE  peak' \in Nat /\ peak <= peak' /\ Cardinality(Committed') <= peak'
<1>1. peak \in Nat /\ Cardinality(Committed') \in Nat
  BY MoneyTypes, PartsAreCounted, SumsOfTheNext DEF MoneyIsTyped
<1> QED
  BY <1>1, MaxOfTwo

(* The handler that passes the daily check is within the cap alone, and    *)
(* each of the others adds one estimate at most.                           *)
LEMMA DailyPassKeepsMoney ==
    ASSUME GatewayInv, GatewayInv', MoneyInv, NEW h \in Handlers, CheckDaily(h),
           SpentToday + EstimatedCost[h[1]] <= DailyHard, stage' = [stage EXCEPT ![h] = "monthly"]
    PROVE  MoneyInv'
<1>0. MoneyIsTyped /\ MoneyIsTyped' /\ stage \in [Handlers -> Stages]
  BY MoneyTypes, MoneyTypesAfter, TypeParts DEF GatewayInv
<1>1. UNCHANGED <<day, spend, cost, billed, lost, over>> /\ stage[h] = "daily"
  BY DEF CheckDaily, ledger, clients
<1>2. Committed' = Committed \cup {h} /\ Checked' = Checked
  <2>1. \A g \in Handlers : stage'[g] = IF g = h THEN "monthly" ELSE stage[g]
    BY <1>0
  <2> QED
    BY <1>1, <2>1 DEF Committed, Checked
<1>3. peak <= peak' /\ PeakIsThePeak'
  BY PeakGrows DEF CheckDaily, PeakIsThePeak
<1>4. /\ SpentToday' = SpentToday /\ SpentThisMonth' = SpentThisMonth
      /\ over'[day'] = over[day] /\ OverThisMonth' = OverThisMonth
  BY <1>1 DEF SpentToday, SpentThisMonth, OverThisMonth, ThisMonth
<1>5. EstimatesFitTheCaps' /\ NothingIsSpentAhead'
  <2>1. EstimatedCost[h[1]] <= DailyHard
    BY <1>0 DEF MoneyIsTyped
  <2> QED
    BY <1>1, <1>2, <2>1 DEF EstimatesFitTheCaps, NothingIsSpentAhead, MoneyInv
<1>6. DayOvershootHasACause'
  <2>1. Estimated(Committed') <= EstimatedCost[h[1]] + Most(peak')
    BY <1>0, <1>2, <1>3, OneAndTheRest, SumsOfTheNext DEF MoneyIsTyped, PeakIsThePeak
  <2>2. Estimated(Committed') \in Nat
    BY <1>0, SumsOfTheNext, EstimatedOfPart
  <2>3. SpentToday' + Estimated(Committed') <= DailyHard + Most(peak') + over'[day']
    BY <1>0, <1>1, <1>4, <2>1, <2>2 DEF MoneyIsTyped
  <2> QED
    BY <2>3, SumsOfTheNext
<1>7. MonthOvershootHasACause'
  <2>1. Most(peak) <= Most(peak') /\ Estimated(Checked) \in Nat
    BY <1>0, <1>3, MostGrows, SumsOfAState, EstimatedOfPart DEF MoneyIsTyped
  <2>2. SpentThisMonth + Estimated(Checked) <= MonthlyHard + Most(peak) + OverThisMonth
    BY SumsOfAState DEF MoneyInv
  <2>3. SpentThisMonth' + Estimated(Checked') <= MonthlyHard + Most(peak') + OverThisMonth'
    BY <1>0, <1>1, <1>2, <1>4, <2>1, <2>2 DEF MoneyIsTyped
  <2> QED
    BY <2>3, SumsOfTheNext
<1> QED
  BY <1>1, <1>3, <1>5, <1>6, <1>7, NothingIsCharged, MoneyIsKept

LEMMA MonthlyPassKeepsMoney ==
    ASSUME GatewayInv, GatewayInv', MoneyInv, NEW h \in Handlers, CheckMonthly(h),
           SpentThisMonth + EstimatedCost[h[1]] <= MonthlyHard, stage' = [stage EXCEPT ![h] = "forward"]
    PROVE  MoneyInv'
<1>0. MoneyIsTyped /\ MoneyIsTyped' /\ stage \in [Handlers -> Stages]
  BY MoneyTypes, MoneyTypesAfter, TypeParts DEF GatewayInv
<1>1. UNCHANGED <<day, spend, cost, peak, billed, lost, over>> /\ stage[h] = "monthly"
  BY DEF CheckMonthly, ledger, clients, history
<1>2. Committed' = Committed /\ Checked' = Checked \cup {h}
  <2>1. \A g \in Handlers : stage'[g] = IF g = h THEN "forward" ELSE stage[g]
    BY <1>0
  <2> QED
    BY <1>1, <2>1 DEF Committed, Checked
<1>3. PeakIsThePeak' /\ NothingIsSpentAhead'
  BY <1>1, <1>2 DEF PeakIsThePeak, NothingIsSpentAhead, MoneyInv
<1>4. /\ SpentToday' = SpentToday /\ SpentThisMonth' = SpentThisMonth
      /\ over'[day'] = over[day] /\ OverThisMonth' = OverThisMonth
  BY <1>1 DEF SpentToday, SpentThisMonth, OverThisMonth, ThisMonth
<1>5. EstimatesFitTheCaps'
  <2>1. EstimatedCost[h[1]] <= MonthlyHard
    BY <1>0 DEF MoneyIsTyped
  <2> QED
    BY <1>1, <1>2, <2>1 DEF EstimatesFitTheCaps, MoneyInv
<1>6. DayOvershootHasACause'
  BY <1>1, <1>2, <1>4, SumsOfAState, SumsOfTheNext DEF MoneyInv
<1>7. MonthOvershootHasACause'
  <2>1. Cardinality(Checked') <= peak'
    <3>1. Cardinality(Checked') <= Cardinality(Committed')
      BY SumsOfTheNext, HandlersAreFinite, FS_Subset
    <3>2. Checked' \subseteq Handlers /\ Committed' \subseteq Handlers
      BY SumsOfTheNext
    <3> QED
      BY <1>0, <1>3, <3>1, <3>2, PartsAreCounted DEF PeakIsThePeak, MoneyIsTyped
  <2>2. Estimated(Checked') <= EstimatedCost[h[1]] + Most(peak')
    <3>1. h \in Checked' /\ Checked' \subseteq Handlers
      BY <1>2, SumsOfTheNext
    <3>2. peak' \in Nat
      BY <1>0 DEF MoneyIsTyped
    <3> QED
      BY ONLY <2>1, <3>1, <3>2, OneAndTheRest
  <2>3. Estimated(Checked') \in Nat
    BY <1>0, SumsOfTheNext, EstimatedOfPart
  <2>4. SpentThisMonth' + Estimated(Checked') <= MonthlyHard + Most(peak') + OverThisMonth'
    BY <1>0, <1>1, <1>4, <2>2, <2>3 DEF MoneyIsTyped
  <2> QED
    BY <2>4, SumsOfTheNext
<1> QED
  BY <1>1, <1>3, <1>5, <1>6, <1>7, NothingIsCharged, MoneyIsKept

LEMMA ChecksKeepMoney ==
    ASSUME GatewayInv, GatewayInv', MoneyInv, NEW h \in Handlers, CheckDaily(h) \/ CheckMonthly(h)
    PROVE  MoneyInv'
<1>1. CASE CheckDaily(h)
  <2>1. peak <= peak' /\ UNCHANGED <<day, spend, cost, billed, lost, over>>
    BY <1>1, PeakGrows DEF CheckDaily, ledger, clients
  <2>2. \/ Reply(h, "refused")
        \/ SpentToday + EstimatedCost[h[1]] <= DailyHard /\ stage' = [stage EXCEPT ![h] = "monthly"]
    BY <1>1 DEF CheckDaily
  <2> QED
    BY <1>1, <2>1, <2>2, RefusalKeepsMoney, DailyPassKeepsMoney DEF Answers
<1>2. CASE CheckMonthly(h)
  <2>1. peak <= peak' /\ UNCHANGED <<day, spend, cost, billed, lost, over>>
    BY <1>2, MoneyTypes DEF CheckMonthly, ledger, clients, history, MoneyIsTyped
  <2>2. \/ Reply(h, "refused")
        \/ SpentThisMonth + EstimatedCost[h[1]] <= MonthlyHard /\ stage' = [stage EXCEPT ![h] = "forward"]
    BY <1>2 DEF CheckMonthly
  <2> QED
    BY <1>2, <2>1, <2>2, RefusalKeepsMoney, MonthlyPassKeepsMoney DEF Answers
<1> QED
  BY <1>1, <1>2

(* A charge is owed from the provider's answer until it is recorded.       *)
LEMMA OneChargeChanges ==
    ASSUME GatewayInv, GatewayInv', NEW h \in Handlers, \A g \in Handlers \ {h} : cost'[g] = cost[g]
    PROVE  Owed(cost') + cost[h] = Owed(cost) + cost'[h]
<1>1. \A g \in Handlers : cost[g] \in Nat /\ cost'[g] \in Nat
  BY MoneyTypes, MoneyTypesAfter DEF MoneyIsTyped
<1> QED
  BY <1>1, HandlersAreFinite, SumOfOneChange DEF Owed

LEMMA ForwardKeepsMoney ==
    ASSUME GatewayInv, GatewayInv', MoneyInv, NEW h \in Handlers, NEW charged \in Costs,
           Forward(h, charged)
    PROVE  MoneyInv'
<1>0. MoneyIsTyped /\ MoneyIsTyped' /\ stage \in [Handlers -> Stages] /\ charged \in Nat
  BY MoneyTypes, MoneyTypesAfter, TypeParts, GatewayAssumption DEF GatewayInv
<1>1. /\ UNCHANGED <<day, spend, peak, lost, over>> /\ stage[h] = "forward"
      /\ \A g \in Handlers \ {h} : cost'[g] = cost[g]
      /\ cost'[h] = charged /\ billed' = billed + charged
  BY TypeParts DEF Forward, ledger, clients, GatewayInv, LedgerParts
<1>2. Committed' = Committed /\ Checked' = Checked
  <2>1. \A g \in Handlers : stage'[g] = IF g = h THEN "record" ELSE stage[g]
    BY <1>0 DEF Forward
  <2> QED
    BY <1>1, <2>1 DEF Committed, Checked
<1>3. BillIsExplained'
  <2>1. cost[h] = 0
    BY <1>1 DEF GatewayInv, ChargesAreOwed
  <2>2. Owed(cost') = Owed(cost) + charged
    BY <1>0, <1>1, <2>1, OneChargeChanges DEF MoneyIsTyped
  <2>3. SpentToday' = SpentToday
    BY <1>1 DEF SpentToday
  <2>4. billed <= SpentToday + Owed(cost) + lost
    BY SumsOfAState DEF MoneyInv
  <2>5. billed' <= SpentToday' + Owed(cost') + lost'
    BY <1>0, <1>1, <2>2, <2>3, <2>4 DEF MoneyIsTyped
  <2> QED
    BY <2>5, SumsOfTheNext
<1>4. peak <= peak'
  BY <1>0, <1>1 DEF MoneyIsTyped
<1> QED
  BY <1>1, <1>2, <1>3, <1>4, NobodyIsCommitted, MoneyIsKept

LEMMA RecordFailsKeepsMoney ==
    ASSUME GatewayInv, GatewayInv', MoneyInv, NEW h \in Handlers, RecordFails(h)
    PROVE  MoneyInv'
<1>0. MoneyIsTyped /\ MoneyIsTyped'
  BY MoneyTypes, MoneyTypesAfter
<1>1. /\ UNCHANGED <<day, spend, peak, billed, over>> /\ lost' = lost + cost[h]
      /\ \A g \in Handlers \ {h} : cost'[g] = cost[g]
      /\ cost'[h] = 0 /\ Reply(h, "transient")
  BY TypeParts DEF RecordFails, ledger, clients, GatewayInv, LedgerParts
<1>2. Committed' \subseteq Committed /\ Checked' \subseteq Checked
  BY <1>1, RepliesLeave DEF Answers
<1>3. BillIsExplained'
  <2>1. Owed(cost') + cost[h] = Owed(cost)
    BY <1>0, <1>1, OneChargeChanges DEF MoneyIsTyped
  <2>2. billed <= SpentToday + Owed(cost) + lost
    BY SumsOfAState DEF MoneyInv
  <2>3. SpentToday' = SpentToday
    BY <1>1 DEF SpentToday
  <2>4. cost[h] \in Nat
    BY <1>0 DEF MoneyIsTyped
  <2>5. billed' <= SpentToday' + Owed(cost') + lost'
    BY <1>0, <1>1, <2>1, <2>2, <2>3, <2>4 DEF MoneyIsTyped
  <2> QED
    BY <2>5, SumsOfTheNext
<1>4. peak <= peak'
  BY <1>0, <1>1 DEF MoneyIsTyped
<1> QED
  BY <1>1, <1>2, <1>3, <1>4, NobodyIsCommitted, MoneyIsKept

LEMMA SumWithOneMore ==
    ASSUME NEW f, NEW k, NEW d \in Days, NEW x \in Nat,
           \A e \in Days : f[e] \in Nat /\ k[e] \in Nat,
           \A e \in Days \ {d} : k[e] = f[e], k[d] = f[d] + x,
           NEW M, M \subseteq Days, d \in M
    PROVE  SumFunctionOnSet(k, M) = SumFunctionOnSet(f, M) + x
<1>1. IsFiniteSet(M) /\ \A e \in M : f[e] \in Nat /\ k[e] \in Nat
  BY DaysAreFinite, FS_Subset
<1>2. \A e \in M \ {d} : k[e] = f[e]
  OBVIOUS
<1>3. SumFunctionOnSet(f, M) + k[d] = SumFunctionOnSet(k, M) + f[d]
  BY ONLY <1>1, <1>2, d \in M, SumOfOneChange
<1>4. /\ SumFunctionOnSet(f, M) \in Nat /\ SumFunctionOnSet(k, M) \in Nat
      /\ f[d] \in Nat
  BY <1>1, SumType
<1>5. k[d] = f[d] + x /\ x \in Nat
  OBVIOUS
<1> QED
  BY ONLY <1>3, <1>4, <1>5

(* What is recorded was estimated or exceeds its estimate: the ledger      *)
(* grows by no more than the handler's part of the estimates it leaves and *)
(* what is over.                                                           *)
LEMMA RecordSpendKeepsMoney ==
    ASSUME GatewayInv, GatewayInv', MoneyInv, NEW h \in Handlers, RecordSpend(h)
    PROVE  MoneyInv'
<1>0. MoneyIsTyped /\ MoneyIsTyped' /\ day \in Days
      /\ spend \in [Days -> Nat] /\ over \in [Days -> Nat]
      /\ spend' \in [Days -> Nat] /\ over' \in [Days -> Nat]
  BY MoneyTypes, MoneyTypesAfter, TypeParts DEF GatewayInv, LedgerParts
<1>1. /\ UNCHANGED <<day, peak, billed, lost>> /\ stage[h] = "record"
      /\ \A g \in Handlers \ {h} : cost'[g] = cost[g]
      /\ cost'[h] = 0 /\ Reply(h, "ok")
      /\ spend' = [spend EXCEPT ![day] = @ + cost[h]]
      /\ over' = [over EXCEPT ![day] = @ + Excess(h)]
  BY TypeParts DEF RecordSpend, clients, history, GatewayInv, LedgerParts
<1>2. /\ Committed' = Committed \ {h} /\ Checked' = Checked \ {h}
      /\ h \in Committed /\ h \in Checked
  BY <1>1, RepliesLeave DEF Answers, Committed, Checked
<1>3. /\ cost[h] \in Nat /\ EstimatedCost[h[1]] \in Nat /\ Excess(h) \in Nat
      /\ cost[h] <= EstimatedCost[h[1]] + Excess(h)
  BY <1>0 DEF MoneyIsTyped
<1>4. SpentToday' = SpentToday + cost[h] /\ over'[day'] = over[day] + Excess(h)
  BY <1>0, <1>1 DEF SpentToday
<1>5. SpentThisMonth' = SpentThisMonth + cost[h] /\ OverThisMonth' = OverThisMonth + Excess(h)
  <2>1. ThisMonth \subseteq Days /\ day \in ThisMonth /\ ThisMonth' = ThisMonth
    BY <1>0, <1>1 DEF ThisMonth
  <2>2. SumFunctionOnSet(spend', ThisMonth) = SumFunctionOnSet(spend, ThisMonth) + cost[h]
    <3>1. /\ \A d \in Days : spend[d] \in Nat /\ spend'[d] \in Nat
          /\ \A d \in Days \ {day} : spend'[d] = spend[d]
          /\ spend'[day] = spend[day] + cost[h]
      BY <1>0, <1>1
    <3> QED
      BY <1>0, <1>3, <2>1, <3>1, SumWithOneMore
  <2>3. SumFunctionOnSet(over', ThisMonth) = SumFunctionOnSet(over, ThisMonth) + Excess(h)
    <3>1. /\ \A d \in Days : over[d] \in Nat /\ over'[d] \in Nat
          /\ \A d \in Days \ {day} : over'[d] = over[d]
          /\ over'[day] = over[day] + Excess(h)
      BY <1>0, <1>1
    <3> QED
      BY <1>0, <1>3, <2>1, <3>1, SumWithOneMore
  <2> QED
    BY <2>1, <2>2, <2>3 DEF SpentThisMonth, OverThisMonth
<1>6. PeakIsThePeak' /\ EstimatesFitTheCaps'
  <2>1. Cardinality(Committed') <= Cardinality(Committed)
    BY <1>2, SumsOfAState, HandlersAreFinite, FS_Subset
  <2>2. Cardinality(Committed') \in Nat /\ Cardinality(Committed) \in Nat
    BY SumsOfAState, SumsOfTheNext, PartsAreCounted
  <2> QED
    BY <1>0, <1>1, <1>2, <2>1, <2>2 DEF PeakIsThePeak, EstimatesFitTheCaps, MoneyInv, MoneyIsTyped
<1>7. NothingIsSpentAhead'
  <2> SUFFICES ASSUME NEW d \in Days, d > day PROVE spend'[d] = 0
    BY <1>1 DEF NothingIsSpentAhead
  <2>1. d # day /\ spend[d] = 0
    BY <1>0 DEF MoneyInv, NothingIsSpentAhead, Days
  <2> QED
    BY <1>0, <1>1, <2>1
<1>8. DayOvershootHasACause' /\ MonthOvershootHasACause'
  <2>1. /\ Estimated(Committed) = EstimatedCost[h[1]] + Estimated(Committed \ {h})
        /\ Estimated(Committed \ {h}) \in Nat
    <3>1. Committed \subseteq Handlers
      BY SumsOfAState
    <3> QED
      BY ONLY <1>2, <3>1, EstimatedWithout
  <2>2. /\ Estimated(Checked) = EstimatedCost[h[1]] + Estimated(Checked \ {h})
        /\ Estimated(Checked \ {h}) \in Nat
    <3>1. Checked \subseteq Handlers
      BY SumsOfAState
    <3> QED
      BY ONLY <1>2, <3>1, EstimatedWithout
  <2>3. /\ SpentToday + Estimated(Committed) <= DailyHard + Most(peak) + over[day]
        /\ SpentThisMonth + Estimated(Checked) <= MonthlyHard + Most(peak) + OverThisMonth
    BY SumsOfAState DEF MoneyInv
  <2>4. /\ SpentToday' + Estimated(Committed') <= DailyHard + Most(peak') + over'[day']
        /\ SpentThisMonth' + Estimated(Checked') <= MonthlyHard + Most(peak') + OverThisMonth'
    BY <1>0, <1>1, <1>2, <1>3, <1>4, <1>5, <2>1, <2>2, <2>3 DEF MoneyIsTyped
  <2> QED
    BY <2>4, SumsOfTheNext
<1>9. BillIsExplained'
  <2>1. Owed(cost') + cost[h] = Owed(cost)
    BY <1>0, <1>1, OneChargeChanges DEF MoneyIsTyped
  <2>2. billed <= SpentToday + Owed(cost) + lost
    BY SumsOfAState DEF MoneyInv
  <2>3. billed' <= SpentToday' + Owed(cost') + lost'
    BY <1>0, <1>1, <1>3, <1>4, <2>1, <2>2 DEF MoneyIsTyped
  <2> QED
    BY <2>3, SumsOfTheNext
<1> QED
  BY <1>6, <1>7, <1>8, <1>9, MoneyIsKept

LEMMA HandlerStepKeepsMoney ==
    ASSUME GatewayInv, GatewayInv', MoneyInv, NEW h \in Handlers, HandlerStep(h)
    PROVE  MoneyInv'
<1>1. ASSUME NEW a \in {"refused", "transient"}, ForwardFails(h, a)
      PROVE  MoneyInv'
  <2>1. /\ Reply(h, a) /\ UNCHANGED <<day, spend, cost, billed, lost, over>> /\ peak <= peak'
        /\ a \in Answers
    BY <1>1, MoneyTypes DEF ForwardFails, ledger, clients, history, MoneyIsTyped, Answers
  <2> QED
    BY <2>1, RefusalKeepsMoney
<1> QED
  BY <1>1, ChecksKeepMoney, ForwardKeepsMoney, RecordSpendKeepsMoney, RecordFailsKeepsMoney
  DEF HandlerStep

(* A restart loses what is owed.                                           *)
LEMMA GatewayDiesKeepsMoney ==
    ASSUME GatewayInv, GatewayInv', MoneyInv, GatewayDies
    PROVE  MoneyInv'
<1> DEFINE alive == {h \in Handlers : stage[h] = "daily"} \cup Committed
<1>0. MoneyIsTyped /\ MoneyIsTyped'
  BY MoneyTypes, MoneyTypesAfter
<1>1. /\ UNCHANGED <<day, spend, peak, billed, over>>
      /\ cost' = [h \in Handlers |-> 0] /\ lost' = lost + SumFunctionOnSet(cost, alive)
  BY DEF GatewayDies, ledger, clients
<1>2. Committed' = {} /\ Checked' = {}
  <2>1. \A h \in Handlers : stage'[h] \notin {"monthly", "forward", "record"}
    BY DEF GatewayDies, Committed
  <2> QED
    BY <2>1 DEF Committed, Checked
<1>3. Owed(cost) = SumFunctionOnSet(cost, alive)
  <2>1. alive \subseteq Handlers /\ \A h \in Handlers \ alive : cost[h] = 0
    BY DEF Committed, GatewayInv, ChargesAreOwed
  <2>2. \A h \in Handlers : cost[h] \in Nat
    BY <1>0 DEF MoneyIsTyped
  <2> HIDE DEF alive
  <2> QED
    BY <2>1, <2>2, HandlersAreFinite, SumOfSupport DEF Owed
<1> HIDE DEF alive
<1>4. BillIsExplained'
  <2>1. Owed(cost') = 0
    BY <1>1, HandlersAreFinite, SumOfZeros DEF Owed
  <2>2. billed <= SpentToday + Owed(cost) + lost
    BY SumsOfAState DEF MoneyInv
  <2>3. SpentToday' = SpentToday
    BY <1>1 DEF SpentToday
  <2>4. billed' <= SpentToday' + Owed(cost') + lost'
    BY <1>0, <1>1, <1>3, <2>1, <2>2, <2>3 DEF MoneyIsTyped
  <2> QED
    BY <2>4, SumsOfTheNext
<1>5. peak <= peak'
  BY <1>0, <1>1 DEF MoneyIsTyped
<1> QED
  BY <1>1, <1>2, <1>4, <1>5, NobodyIsCommitted, MoneyIsKept

LEMMA MonthsGrow ==
    ASSUME NEW a \in Nat, NEW b \in Nat, a <= b
    PROVE  Month(a) \in Nat /\ Month(b) \in Nat /\ Month(a) <= Month(b)
<1>1. MonthLength \in Nat \ {0}
  BY GatewayAssumption
<1>2. ASSUME NEW t \in Nat \ {0}
      PROVE  a \div t \in Nat /\ b \div t \in Nat /\ a \div t <= b \div t
  BY <1>2, Z3
<1> QED
  BY <1>1, <1>2 DEF Month

(* On a new day nothing is spent, and the handlers of yesterday that are   *)
(* still at work passed its checks: one of them within the cap.            *)
LEMMA MidnightKeepsMoney ==
    ASSUME GatewayInv, GatewayInv', MoneyInv, Midnight
    PROVE  MoneyInv'
<1>0. MoneyIsTyped /\ MoneyIsTyped' /\ day \in Days /\ spend \in [Days -> Nat]
  BY MoneyTypes, MoneyTypesAfter, TypeParts DEF GatewayInv, LedgerParts
<1>1. /\ UNCHANGED <<spend, stage, cost, peak, over>>
      /\ day' = day + 1 /\ billed' = 0 /\ lost' = 0
  BY DEF Midnight, clients
<1>2. Committed' = Committed /\ Checked' = Checked
  BY <1>1 DEF Committed, Checked
<1>3. PeakIsThePeak' /\ EstimatesFitTheCaps'
  BY <1>1, <1>2 DEF PeakIsThePeak, EstimatesFitTheCaps, MoneyInv
<1>4. day' \in Days /\ day \in Nat /\ day' \in Nat /\ \A d \in Days : d \in Nat /\ (d > day => spend[d] = 0)
  BY <1>0, <1>1, GatewayAssumption DEF Midnight, Days, MoneyInv, NothingIsSpentAhead
<1>5. NothingIsSpentAhead'
  BY <1>1, <1>4 DEF NothingIsSpentAhead
<1>6. SpentToday' = 0
  BY <1>1, <1>4 DEF SpentToday
<1>7. BillIsExplained'
  <2>1. billed' <= SpentToday' + Owed(cost') + lost'
    BY <1>0, <1>1 DEF MoneyIsTyped
  <2> QED
    BY <2>1, SumsOfTheNext
<1>8. ASSUME NEW S, S \subseteq Handlers, NEW cap \in Nat, Cardinality(S) <= peak,
             \A h \in S : EstimatedCost[h[1]] <= cap
      PROVE  Estimated(S) \in Nat /\ Estimated(S) <= cap + Most(peak)
  <2>0. Estimated(S) \in Nat /\ peak \in Nat /\ Most(peak) \in Nat
    BY <1>0, <1>8, EstimatedOfPart DEF MoneyIsTyped
  <2>1. CASE S = {}
    <3>1. Estimated({}) = 0
      BY SumOfNone DEF Estimated
    <3> QED
      BY <2>0, <2>1, <3>1
  <2>2. CASE S # {}
    <3>1. PICK h \in S : TRUE
      BY <2>2
    <3>2. Estimated(S) <= EstimatedCost[h[1]] + Most(peak)
      BY <1>8, <2>0, <3>1, OneAndTheRest
    <3>3. EstimatedCost[h[1]] \in Nat /\ EstimatedCost[h[1]] <= cap
      BY <1>8, <3>1, TermsOfEstimated
    <3> QED
      BY <2>0, <3>2, <3>3
  <2> QED
    BY <2>1, <2>2
<1>9. DayOvershootHasACause'
  <2>1. Estimated(Committed) \in Nat /\ Estimated(Committed) <= DailyHard + Most(peak)
    <3>1. /\ Committed \subseteq Handlers /\ DailyHard \in Nat /\ Cardinality(Committed) <= peak
          /\ \A h \in Committed : EstimatedCost[h[1]] <= DailyHard
      BY <1>0, SumsOfAState DEF MoneyInv, PeakIsThePeak, EstimatesFitTheCaps, MoneyIsTyped
    <3> QED
      BY <3>1, <1>8
  <2>2. /\ over'[day'] \in Nat /\ Most(peak') \in Nat /\ DailyHard \in Nat
        /\ Most(peak') = Most(peak)
    BY <1>0, <1>1 DEF MoneyIsTyped
  <2>3. SpentToday' + Estimated(Committed') <= DailyHard + Most(peak') + over'[day']
    BY <1>2, <1>6, <2>1, <2>2
  <2> QED
    BY <2>3, SumsOfTheNext
<1>10. MonthOvershootHasACause'
  <2>0. Checked \subseteq Handlers
    BY SumsOfAState
  <2>1. CASE Month(day + 1) = Month(day)
    <3>1. SpentThisMonth' = SpentThisMonth /\ OverThisMonth' = OverThisMonth
      BY <1>1, <2>1 DEF SpentThisMonth, OverThisMonth, ThisMonth
    <3> QED
      BY <1>1, <1>2, <3>1, SumsOfAState, SumsOfTheNext DEF MoneyInv
  <2>2. CASE Month(day + 1) # Month(day)
    <3> DEFINE M == ThisMonth'
    <3>1. \A d \in M : spend[d] = 0
      <4> SUFFICES ASSUME NEW d \in Days, Month(d) = Month(day + 1) PROVE d > day
        BY <1>1, <1>4 DEF ThisMonth
      <4>1. ~ (d <= day)
        <5>1. d \in Nat /\ day \in Nat /\ day + 1 \in Nat /\ day <= day + 1
          BY <1>4
        <5>2. Month(day) <= Month(day + 1) /\ Month(day) \in Nat /\ Month(day + 1) \in Nat
          BY <5>1, MonthsGrow
        <5>3. d <= day => Month(d) <= Month(day)
          BY <5>1, MonthsGrow
        <5> QED
          BY <2>2, <5>2, <5>3
      <4> QED
        BY <1>4, <4>1
    <3>2. SpentThisMonth' = SumFunctionOnSet(spend, M)
      BY <1>1 DEF SpentThisMonth
    <3>3. IsFiniteSet(M)
      BY DaysAreFinite, FS_Subset DEF ThisMonth
    <3> HIDE DEF M
    <3>4. SpentThisMonth' = 0
      BY <3>1, <3>2, <3>3, SumOfZeros
    <3>5. Estimated(Checked) \in Nat /\ Estimated(Checked) <= MonthlyHard + Most(peak)
      <4>1. Cardinality(Checked) <= peak
        <5>1. /\ Cardinality(Checked) <= Cardinality(Committed)
              /\ Cardinality(Committed) \in Nat /\ Cardinality(Checked) \in Nat
          BY <2>0, SumsOfAState, HandlersAreFinite, FS_Subset, PartsAreCounted
        <5> QED
          BY <1>0, <5>1 DEF MoneyInv, PeakIsThePeak, MoneyIsTyped
      <4>2. MonthlyHard \in Nat /\ \A h \in Checked : EstimatedCost[h[1]] <= MonthlyHard
        BY <1>0 DEF MoneyInv, EstimatesFitTheCaps, MoneyIsTyped
      <4> QED
        BY <2>0, <4>1, <4>2, <1>8
    <3>6. /\ OverThisMonth' \in Nat /\ Most(peak') \in Nat /\ MonthlyHard \in Nat
          /\ Most(peak') = Most(peak)
      BY <1>0, <1>1 DEF MoneyIsTyped
    <3>7. SpentThisMonth' + Estimated(Checked') <= MonthlyHard + Most(peak') + OverThisMonth'
      BY <1>2, <3>4, <3>5, <3>6
    <3> QED
      BY <3>7, SumsOfTheNext
  <2> QED
    BY <2>1, <2>2
<1> QED
  BY <1>3, <1>5, <1>7, <1>9, <1>10, MoneyIsKept

LEMMA StutterKeepsMoney ==
    ASSUME GatewayInv, GatewayInv', MoneyInv, UNCHANGED vars
    PROVE  MoneyInv'
<1>1. UNCHANGED <<ledger, cost, history, stage>>
  BY DEF vars
<1>2. Committed' = Committed /\ Checked' = Checked
  BY <1>1 DEF Committed, Checked
<1> QED
  BY <1>1, <1>2, StagesKeepMoney

LEMMA StepKeepsMoney ==
    ASSUME GatewayInv, GatewayInv', MoneyInv, [Next]_vars
    PROVE  MoneyInv'
BY ClientStepKeepsMoney, HandlerStepKeepsMoney, GatewayDiesKeepsMoney,
   MidnightKeepsMoney, StutterKeepsMoney DEF Next

LEMMA MoneyInvAtFirst == Init => MoneyInv
<1> SUFFICES ASSUME Init PROVE MoneyInv
  OBVIOUS
<1>0. MoneyIsTyped
  BY GatewayInvAtFirst, MoneyTypes
<1>1. /\ day = 0 /\ spend = [d \in Days |-> 0]
      /\ cost = [h \in Handlers |-> 0] /\ peak = 0 /\ billed = 0 /\ lost = 0
      /\ 0 \in Days
  BY GatewayAssumption DEF Init, Days
<1>2. Committed = {} /\ Checked = {}
  <2>1. \A h \in Handlers : stage[h] = "none"
    BY DEF Init
  <2> QED
    BY <2>1 DEF Committed, Checked
<1>3. PeakIsThePeak /\ EstimatesFitTheCaps /\ NothingIsSpentAhead
  <2>1. Cardinality({}) = 0
    BY FS_EmptySet
  <2> QED
    BY <1>1, <1>2, <2>1, HandlersArePairs
    DEF PeakIsThePeak, EstimatesFitTheCaps, NothingIsSpentAhead
<1>4. Estimated({}) = 0
  BY SumOfNone DEF Estimated
<1>5. SpentToday = 0
  BY <1>1 DEF SpentToday
<1>6. SpentThisMonth = 0
  <2>1. IsFiniteSet(ThisMonth) /\ \A d \in ThisMonth : spend[d] = 0
    BY <1>1, DaysAreFinite, FS_Subset DEF ThisMonth
  <2> QED
    BY ONLY <2>1, SumOfZeros DEF SpentThisMonth
<1>7. /\ SpentToday + Estimated(Committed) <= DailyHard + Most(peak) + over[day]
      /\ SpentThisMonth + Estimated(Checked) <= MonthlyHard + Most(peak) + OverThisMonth
      /\ billed <= SpentToday + Owed(cost) + lost
  BY <1>0, <1>1, <1>2, <1>4, <1>5, <1>6 DEF MoneyIsTyped
<1> QED
  BY <1>3, <1>7, SumsOfAState DEF MoneyInv

(* What the providers charge is estimated while it is owed, and recorded   *)
(* or lost afterwards: the bill is within what the ledger and the          *)
(* committed handlers come to, but for the losses.                         *)
LEMMA TheBillFollows == ASSUME GatewayInv, MoneyInv PROVE BillOvershootHasACause
<1> DEFINE est == [h \in Handlers |-> EstimatedCost[h[1]]]
           exc == [h \in Handlers |-> Excess(h)]
<1>0. MoneyIsTyped /\ Committed \subseteq Handlers
  BY MoneyTypes, SumsOfAState
<1>1. /\ IsFiniteSet(Recording) /\ IsFiniteSet(Unbilled)
      /\ Recording \subseteq Handlers /\ Unbilled \subseteq Handlers
      /\ Recording \cap Unbilled = {} /\ Recording \cup Unbilled = Committed
  BY <1>0, HandlersAreFinite, FS_Subset DEF Unbilled, Recording
<1>2. \A h \in Handlers : /\ est[h] \in Nat /\ exc[h] \in Nat /\ cost[h] \in Nat
                          /\ cost[h] <= est[h] + exc[h]
  BY <1>0 DEF MoneyIsTyped
<1>3. \A h \in Handlers \ Recording : cost[h] = 0
  BY DEF GatewayInv, ChargesAreOwed, Committed, Recording
<1>4. /\ Estimated(Unbilled) = SumFunctionOnSet(est, Unbilled)
      /\ Estimated(Committed) = SumFunctionOnSet(est, Committed)
      /\ SumFunctionOnSet([h \in Handlers |-> Excess(h)], Recording) = SumFunctionOnSet(exc, Recording)
  BY DEF Estimated
<1> HIDE DEF est, exc
<1>5. Owed(cost) = SumFunctionOnSet(cost, Recording)
  BY <1>1, <1>2, <1>3, HandlersAreFinite, SumOfSupport DEF Owed
<1>6. SumFunctionOnSet(cost, Recording)
          <= SumFunctionOnSet(est, Recording) + SumFunctionOnSet(exc, Recording)
  <2>1. \A h \in Recording : /\ cost[h] \in Nat /\ est[h] \in Nat /\ exc[h] \in Nat
                             /\ cost[h] <= est[h] + exc[h]
    BY <1>1, <1>2
  <2> QED
    BY ONLY <1>1, <2>1, SumIsWithinTwo
<1>7. SumFunctionOnSet(est, Committed) = SumFunctionOnSet(est, Recording) + SumFunctionOnSet(est, Unbilled)
  <2>1. \A h \in Recording \cup Unbilled : est[h] \in Nat
    BY <1>1, <1>2
  <2>2. SumFunctionOnSet(est, Recording \cup Unbilled)
            = SumFunctionOnSet(est, Recording) + SumFunctionOnSet(est, Unbilled)
    BY <1>1, <2>1, SumOfUnion
  <2> QED
    BY <1>1, <2>2
<1>8. /\ SumFunctionOnSet(est, Recording) \in Nat /\ SumFunctionOnSet(est, Unbilled) \in Nat
      /\ SumFunctionOnSet(exc, Recording) \in Nat
  <2>1. /\ \A h \in Recording : est[h] \in Nat /\ exc[h] \in Nat
        /\ \A h \in Unbilled : est[h] \in Nat
    BY <1>1, <1>2
  <2> QED
    BY <1>1, <2>1, SumType
<1>9. /\ billed <= SpentToday + Owed(cost) + lost
      /\ SpentToday + Estimated(Committed) <= DailyHard + Most(peak) + over[day]
  BY SumsOfAState DEF MoneyInv
<1>10. billed + Estimated(Unbilled)
          <= DailyHard + Most(peak) + over[day] + lost + SumFunctionOnSet(exc, Recording)
  BY <1>0, <1>4, <1>5, <1>6, <1>7, <1>8, <1>9 DEF MoneyIsTyped
<1> QED
  BY <1>4, <1>10 DEF BillOvershootHasACause, MostOverrun, Most

LEMMA MoneyInvHolds == Spec => [](GatewayInv /\ MoneyInv)
<1>1. Init => GatewayInv /\ MoneyInv
  BY GatewayInvAtFirst, MoneyInvAtFirst
<1>2. GatewayInv /\ MoneyInv /\ [Next]_vars => GatewayInv' /\ MoneyInv'
  BY StepKeepsInv, StepKeepsMoney
<1> QED
  BY <1>1, <1>2, PTL DEF Spec

-----------------------------------------------------------------------------
(* check_call before and record_spend after a request, without a lock      *)
(* between them, let a day exceed its cap by one estimate for every other  *)
(* handler at work, and by what the recorded costs exceed their estimates. *)
(* Nothing bounds the latter: a provider may charge any cost, and an       *)
(* estimate that is left out is nothing.                                   *)
THEOREM DayOvershootIsBounded == Spec => []DayOvershootHasACause
<1>1. GatewayInv /\ MoneyInv => DayOvershootHasACause
  BY DEF MoneyInv
<1> QED
  BY <1>1, MoneyInvHolds, PTL

(* The same of the month, over the end of a month.                         *)
THEOREM MonthOvershootIsBounded == Spec => []MonthOvershootHasACause
<1>1. GatewayInv /\ MoneyInv => MonthOvershootHasACause
  BY DEF MoneyInv
<1> QED
  BY <1>1, MoneyInvHolds, PTL

(* What the providers charge exceeds what the breaker allows by the        *)
(* overlapping handlers, by costs above their estimates, and by the        *)
(* charges that were lost before they were recorded.                       *)
THEOREM BillIsBounded == Spec => []BillOvershootHasACause
<1>1. GatewayInv /\ MoneyInv => BillOvershootHasACause
  BY TheBillFollows
<1> QED
  BY <1>1, MoneyInvHolds, PTL
=============================================================================
