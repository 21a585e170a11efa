---------------------------- MODULE GatewayCalls ----------------------------
(***************************************************************************)
(* Model calls through the host-side gateway: the client with its retries  *)
(* (retrying_transport in adapters/gateway_client.py), and the budget      *)
(* breaker and ledger the gateway uses around every provider request       *)
(* (SQLiteBudgetAdapter in adapters/sqlite/budget.py).                     *)
(*                                                                         *)
(* The gateway service itself is no part of src/: as the ledger's callers  *)
(* are told to, it asks check_call, forwards the request, records the      *)
(* spend and answers.  It serves every attempt in a handler of its own,    *)
(* and a handler runs on when its client has stopped waiting.              *)
(*                                                                         *)
(* Money is counted in units, time in days; the rows of budget_events are  *)
(* summed per day of their created_at.                                     *)
(***************************************************************************)
EXTENDS Naturals, Functions, FiniteSetsExt

CONSTANTS
    Calls,          \* calls of submit_model_request
    EstimatedCost,  \* estimated_cost_usd of each call, 0 unless its caller sets it
    Costs,          \* the values of cost_usd: what a provider may charge
    MaxAttempts,    \* max_attempts of retrying_transport
    DailyHard,      \* daily_hard_usd
    MonthlyHard,    \* monthly_hard_usd
    MonthLength,    \* days in a month
    MaxDay          \* bound: the last day

ASSUME GatewayAssumption ==
    /\ IsFiniteSet(Calls) /\ Calls # {}
    /\ EstimatedCost \in [Calls -> Nat]
    /\ Costs \subseteq Nat
    /\ MaxAttempts \in Nat \ {0}
    /\ MonthLength \in Nat \ {0}
    /\ {DailyHard, MonthlyHard, MaxDay} \subseteq Nat

Days     == 0..MaxDay
Estimates == Range(EstimatedCost)
Handlers == Calls \X (1..MaxAttempts)
Answers  == {"ok", "refused", "transient"}   \* a result, an error to raise, one to retry
Outcomes == {"none", "ok", "refused", "exhausted"}
Stages   == {"none", "daily", "monthly", "forward", "record", "gone"} \cup Answers

VARIABLES
    day,        \* the current UTC day
    spend,      \* budget_events: recorded cost per day
    client,     \* what each call waits for
    attempt,    \* attempt of each call
    outcome,    \* what submit_model_request returned or raised
    stage,      \* what the gateway does for each attempt, or its answer on the way
    peak,       \* history: the most handlers ever between check and record
    cost,       \* what the provider charged for each attempt that is not recorded
    billed,     \* history: what the providers charged today
    lost,       \* history: charges whose handler failed or died today with them unrecorded
    over        \* history: by how much the costs recorded on each day exceed their estimates

ledger  == <<day, spend>>
clients == <<client, attempt, outcome>>
history == <<peak, billed, lost, over>>
vars == <<ledger, clients, stage, cost, history>>

TypeOK ==
    /\ day \in Days
    /\ spend \in [Days -> Nat]
    /\ client \in [Calls -> {"idle", "waiting", "backoff", "done"}]
    /\ attempt \in [Calls -> 0..MaxAttempts]
    /\ outcome \in [Calls -> Outcomes]
    /\ \A c \in Calls : outcome[c] = "none" <=> client[c] # "done"
    /\ stage \in [Handlers -> Stages]
    /\ peak \in Nat
    /\ cost \in [Handlers -> Costs \cup {0}]
    /\ billed \in Nat
    /\ lost \in Nat
    /\ over \in [Days -> Nat]

-----------------------------------------------------------------------------
(* The ledger.                                                             *)

Month(d) == d \div MonthLength

(* _sum_cost_since with the cutoffs of today and of this month.            *)
SpentToday == spend[day]
ThisMonth == {d \in Days : Month(d) = Month(day)}
SpentThisMonth == SumFunctionOnSet(spend, ThisMonth)

(* Handlers that passed a check and have not recorded their cost yet.      *)
Committed == {h \in Handlers : stage[h] \in {"monthly", "forward", "record"}}

Init ==
    /\ day = 0
    /\ spend = [d \in Days |-> 0]
    /\ client = [c \in Calls |-> "idle"]
    /\ attempt = [c \in Calls |-> 0]
    /\ outcome = [c \in Calls |-> "none"]
    /\ stage = [h \in Handlers |-> "none"]
    /\ peak = 0
    /\ cost = [h \in Handlers |-> 0]
    /\ billed = 0
    /\ lost = 0
    /\ over = [d \in Days |-> 0]

-----------------------------------------------------------------------------
(* The client.                                                             *)

Submit(c) ==
    /\ client[c] = "idle"
    /\ client' = [client EXCEPT ![c] = "waiting"]
    /\ attempt' = [attempt EXCEPT ![c] = 1]
    /\ UNCHANGED <<ledger, outcome, stage, cost, history>>

(* What has become of the attempt the client waits for.                    *)
Current(c) == stage[<<c, attempt[c]>>]

(* The connection ends; a request or an answer on its way is lost with it. *)
Hangup(c) ==
    stage' = [stage EXCEPT ![<<c, attempt[c]>>] = IF @ \in Answers \cup {"none"} THEN "gone" ELSE @]

Finished(c, result) ==
    /\ client' = [client EXCEPT ![c] = "done"]
    /\ outcome' = [outcome EXCEPT ![c] = result]

(* A transport error, a 429 or a 5xx: back off, or raise on the last       *)
(* attempt.                                                                *)
Transient(c) ==
    \/ /\ attempt[c] < MaxAttempts
       /\ client' = [client EXCEPT ![c] = "backoff"]
       /\ UNCHANGED outcome
    \/ /\ attempt[c] >= MaxAttempts
       /\ Finished(c, "exhausted")

(* The answer reaches a client that still waits for this attempt: a result *)
(* is returned, an error no retry can help is raised at once.              *)
Receive(c) ==
    /\ client[c] = "waiting"
    /\ Current(c) \in Answers
    /\ \/ /\ Current(c) # "transient"
          /\ Finished(c, Current(c))
       \/ /\ Current(c) = "transient"
          /\ Transient(c)
    /\ Hangup(c)
    /\ UNCHANGED <<ledger, attempt, cost, history>>

(* A transport error on this side: no connection, a lost answer, or 60     *)
(* seconds without one.  The gateway does not notice.                      *)
TransportError(c) ==
    /\ client[c] = "waiting"
    /\ Transient(c)
    /\ Hangup(c)
    /\ UNCHANGED <<ledger, attempt, cost, history>>

(* Mutated form: the attempt is not counted.                               *)
Retry_Uncounted(c) ==
    /\ client[c] = "backoff"
    /\ client' = [client EXCEPT ![c] = "waiting"]
    /\ UNCHANGED <<ledger, attempt, outcome, stage, cost, history>>

(* The delay, jittered or Retry-After, is over.                            *)
Retry(c) ==
    /\ client[c] = "backoff"
    /\ client' = [client EXCEPT ![c] = "waiting"]
    /\ attempt' = [attempt EXCEPT ![c] = @ + 1]
    /\ UNCHANGED <<ledger, outcome, stage, cost, history>>

-----------------------------------------------------------------------------
(* The gateway.                                                            *)

(* The request of the current attempt reaches the gateway.                 *)
Arrive(c) ==
    /\ client[c] = "waiting"
    /\ Current(c) = "none"
    /\ stage' = [stage EXCEPT ![<<c, attempt[c]>>] = "daily"]
    /\ UNCHANGED <<ledger, clients, cost, history>>

(* The handler ends with an answer, which nobody may be waiting for.       *)
Reply(h, a) ==
    stage' = [stage EXCEPT ![h] =
        IF client[h[1]] = "waiting" /\ attempt[h[1]] = h[2] THEN a ELSE "gone"]

(* Mutated form: the cap is compared with what was spent already.          *)
CheckDaily_IgnoresEstimate(h) ==
    /\ stage[h] = "daily"
    /\ \/ /\ SpentToday > DailyHard
          /\ Reply(h, "refused")
       \/ /\ SpentToday <= DailyHard
          /\ stage' = [stage EXCEPT ![h] = "monthly"]
    /\ peak' = Max({peak, Cardinality(Committed')})
    /\ UNCHANGED <<ledger, clients, cost, billed, lost, over>>

(* First half of check_call: the projected total may equal the cap.        *)
CheckDaily(h) ==
    /\ stage[h] = "daily"
    /\ \/ /\ SpentToday + EstimatedCost[h[1]] > DailyHard
          /\ Reply(h, "refused")
       \/ /\ SpentToday + EstimatedCost[h[1]] <= DailyHard
          /\ stage' = [stage EXCEPT ![h] = "monthly"]
    /\ peak' = Max({peak, Cardinality(Committed')})
    /\ UNCHANGED <<ledger, clients, cost, billed, lost, over>>

(* Mutated form: the month is compared with the daily total.               *)
CheckMonthly_SumsToday(h) ==
    /\ stage[h] = "monthly"
    /\ \/ /\ SpentToday + EstimatedCost[h[1]] > MonthlyHard
          /\ Reply(h, "refused")
       \/ /\ SpentToday + EstimatedCost[h[1]] <= MonthlyHard
          /\ stage' = [stage EXCEPT ![h] = "forward"]
    /\ UNCHANGED <<ledger, clients, cost, history>>

(* Second half, with a connection and a clock reading of its own.          *)
CheckMonthly(h) ==
    /\ stage[h] = "monthly"
    /\ \/ /\ SpentThisMonth + EstimatedCost[h[1]] > MonthlyHard
          /\ Reply(h, "refused")
       \/ /\ SpentThisMonth + EstimatedCost[h[1]] <= MonthlyHard
          /\ stage' = [stage EXCEPT ![h] = "forward"]
    /\ UNCHANGED <<ledger, clients, cost, history>>

(* The provider has served the request, and charges what it costs: the     *)
(* estimate is the caller's, and nothing compares the two.                 *)
Forward(h, charged) ==
    /\ stage[h] = "forward"
    /\ stage' = [stage EXCEPT ![h] = "record"]
    /\ cost' = [cost EXCEPT ![h] = charged]
    /\ billed' = billed + charged
    /\ UNCHANGED <<ledger, clients, peak, lost, over>>

(* The provider is overloaded, or refuses the request.                     *)
ForwardFails(h, a) ==
    /\ stage[h] = "forward"
    /\ Reply(h, a)
    /\ UNCHANGED <<ledger, clients, cost, history>>

(* Mutated form: record_spend leaves out its commit.                       *)
RecordSpend_Uncommitted(h) ==
    /\ stage[h] = "record"
    /\ cost' = [cost EXCEPT ![h] = 0]
    /\ Reply(h, "ok")
    /\ UNCHANGED <<ledger, clients, history>>

(* By how much a charge exceeds its estimate.                              *)
Excess(h) == IF cost[h] > EstimatedCost[h[1]] THEN cost[h] - EstimatedCost[h[1]] ELSE 0

(* record_spend of what the provider charged, whatever it is; the row is   *)
(* dated when it is inserted.                                              *)
RecordSpend(h) ==
    /\ stage[h] = "record"
    /\ spend' = [spend EXCEPT ![day] = @ + cost[h]]
    /\ cost' = [cost EXCEPT ![h] = 0]
    /\ over' = [over EXCEPT ![day] = @ + Excess(h)]
    /\ Reply(h, "ok")
    /\ UNCHANGED <<day, clients, peak, billed, lost>>

(* record_spend raises (a locked database): the gateway fails with a 500.  *)
RecordFails(h) ==
    /\ stage[h] = "record"
    /\ cost' = [cost EXCEPT ![h] = 0]
    /\ lost' = lost + cost[h]
    /\ Reply(h, "transient")
    /\ UNCHANGED <<ledger, clients, peak, billed, over>>

(* The gateway's process dies, and systemd starts another: its handlers    *)
(* are gone, and their clients have lost the connection.                   *)
GatewayDies ==
    LET alive == {h \in Handlers : stage[h] = "daily"} \cup Committed
    IN  /\ alive # {}
        /\ stage' = [h \in Handlers |-> IF h \in alive THEN "gone" ELSE stage[h]]
        /\ cost' = [h \in Handlers |-> 0]
        /\ lost' = lost + SumFunctionOnSet(cost, alive)
        /\ UNCHANGED <<ledger, clients, peak, billed, over>>

Midnight ==
    /\ day < MaxDay
    /\ day' = day + 1
    /\ billed' = 0
    /\ lost' = 0
    /\ UNCHANGED <<spend, clients, stage, cost, peak, over>>

ClientStep(c) == Receive(c) \/ TransportError(c) \/ Retry(c)

HandlerStep(h) ==
    \/ CheckDaily(h)
    \/ CheckMonthly(h)
    \/ \E charged \in Costs : Forward(h, charged)
    \/ \E a \in {"refused", "transient"} : ForwardFails(h, a)
    \/ RecordSpend(h)
    \/ RecordFails(h)

Next ==
    \/ \E c \in Calls : Submit(c) \/ ClientStep(c) \/ Arrive(c)
    \/ \E h \in Handlers : HandlerStep(h)
    \/ GatewayDies
    \/ Midnight

(* httpx gives up after its timeout and sleep() returns, so a call that    *)
(* has begun always steps; nothing is assumed of the gateway.              *)
Spec == Init /\ [][Next]_vars
FairSpec == Spec /\ \A c \in Calls : WF_vars(ClientStep(c))

-----------------------------------------------------------------------------
(* Properties                                                              *)

(* What handlers were expected to add to the ledger, or to the bill.       *)
Estimated(handlers) == SumFunctionOnSet([h \in Handlers |-> EstimatedCost[h[1]]], handlers)

MostOverrun == IF peak = 0 THEN 0 ELSE (peak - 1) * Max(Estimates)

(* check_call reads and record_spend writes much later, and what it writes *)
(* need not be what was estimated.  A day goes over its hard cap for these *)
(* two reasons and no other: by k - 1 estimates at the most if k handlers  *)
(* were ever between check and record at once, and by what the costs       *)
(* recorded on that day exceed their estimates.  With honest estimates one *)
(* handler at a time never exceeds the cap, over midnight, retries, late   *)
(* answers and restarts.                                                   *)
DayOvershootHasACause ==
    SpentToday + Estimated(Committed) <= DailyHard + MostOverrun + over[day]

(* The same of the month.  A handler that passed the daily check alone is  *)
(* not committed to the month yet.                                         *)
MonthOvershootHasACause ==
    SpentThisMonth + Estimated({h \in Committed : stage[h] # "monthly"})
        <= MonthlyHard + MostOverrun + SumFunctionOnSet(over, ThisMonth)

(* The handlers that may still add to the providers' bill, and those that  *)
(* have added to it and not yet to the ledger.                             *)
Unbilled == {h \in Committed : stage[h] # "record"}
Recording == {h \in Committed : stage[h] = "record"}

(* What the providers charge on a day, which the breaker never sees, stays *)
(* under the cap but for handlers that overlapped, for costs above their   *)
(* estimates, recorded or not yet, and for the charges of handlers that    *)
(* failed or died between the provider's answer and record_spend.          *)
(* Retries, late answers, a row that is dated later than the charge and a  *)
(* restarted gateway add nothing to it.                                    *)
BillOvershootHasACause ==
    billed + Estimated(Unbilled)
        <= DailyHard + MostOverrun + over[day] + lost
           + SumFunctionOnSet([h \in Handlers |-> Excess(h)], Recording)

(* Every call ends: the number of attempts is bounded whatever the gateway *)
(* does.                                                                   *)
CallsEnd == \A c \in Calls : client[c] = "waiting" ~> client[c] = "done"
=============================================================================
