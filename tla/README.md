# Talisman: a TLA+ verification of the orchestrator core

These modules model the parts of `src/talisman_core` whose correctness depends on the order in
which things happen: who decides a gate and when, what survives a crash, who may exceed a cap,
what a timeout cuts off. Each component has a module of its own, a TLC configuration that checks
it on a small instance, and proofs checked by TLAPS that hold for every value of the constants. All paths below are relative to the repository.

## 1. The system

| component | source (`src/src/talisman_core/`) | state it keeps | operations | module |
|---|---|---|---|---|
| Phase spiral and gated driver | `workflow/spiral.py`, `app/composition.py`, `ports/approval.py` | LangGraph thread and its checkpoint | node of a phase, interrupt, resume, `run_project`, `run_gated_project` | `Spiral`, contract `GatedPlan` |
| Live run | `app/live_run.py`, `app/project_run.py`, `workers/claude_code.py`, `codex_cli.py`, `_subprocess.py`, `policies/phase_prompts.py` | workspace files, outputs, retrospective | handler of a phase, worker run, retrospective | `LiveRun` |
| Container runner, incidents | `workers/_container.py`, `app/live_workers.py`, `live_entrypoint.py`, `observability/incident.py` | containers that outlive their clients; incident files | podman run, time-out, incident dump | `WorkerContainers` |
| Portfolio scheduler | `scheduler/portfolio.py` | queue, active set, wait totals | enqueue, start_next, complete, apply_aging, wait_metrics | `PortfolioScheduler` |
| Telegram approver, bot, allowlist | `adapters/telegram/*.py`, `ports/approval.py` | poll offset; the server's update queue | drain, post, poll | `TelegramApprover`, contract `ApprovalPort` |
| Service process and units | `main.py`, `app/systemd_units.py` | the loop's flag; unit states and jobs | install handlers, heartbeat, stop; start, restart, stop of the units | `Service` |
| Gateway client, budget breaker | `adapters/gateway_client.py`, `adapters/sqlite/budget.py` | retry counter; `budget_events` | retrying call, check_call, record_spend | `GatewayCalls` |
| Egress proxy and policy | `adapters/egress_proxy.py`, `security/egress.py` | two sockets, two pipe threads | request line, verdict, dial, pipe, join | `EgressProxy` |
| State database: idempotency guard, event log, memory store | `adapters/sqlite/approval_idempotency.py`, `event_log.py`, `memory.py`, `schema.sql`, `migrations.py` | the SQLite tables and the write lock | record_and_advance, append_event, record/retrieve lessons, retrospectives | `StateDatabase` |
| Review enforcement, health, credentials, bootstrap, release, domain records | `policies/review_enforcement.py`, `observability/health.py`, ... | none that is changed by more than one step | text, tables, pure functions | see section 8 |

How they interact. `run_live_project` builds a workspace, the two worker adapters and an approver,
and calls `run_project` of `project_run.py`, which calls `TalismanApp.run_gated_project`. That
invokes the LangGraph spiral; a node calls the handler of its phase, the handler writes a prompt
file and calls a worker adapter, which runs a CLI in a container under a timeout. A gate node ends
the invoke with an interrupt; the driver turns it into an `ApprovalRequest`, blocks in the approver
(Telegram, in a live run) and resumes the thread with the decision. Workers reach the network
through the egress proxy only, and model providers through the gateway, which asks the budget
breaker. The SQLite adapters share one database file and its write lock. The scheduler is a data
structure in the memory of its caller, which the driver does not call yet; neither does it call the
idempotency guard. Two systemd units keep the gateway and the process of `main --serve` running; that
process holds the assembled application and waits for a signal, it runs no project by itself.

What is hard in it. A gate node runs **twice** per prompt, from its first line, and again after
each pause and revise; the checkpoint lags behind the thread; a process may die between any two
steps; replies to Telegram queue up on a server that forgets them only when told to; retried calls
overlap with attempts nobody waits for any more; two threads share two sockets and a timer; and
callers of one database interleave between an insert and its commit. `PROJECT.json` lists each of
these hazards at its line, with the properties that would notice if it went wrong.

## 2. The modules

`Spiral` is the core. `GatedPlan` is the contract the spiral gives its caller: a plan of phases
finished one at a time and in order, gates that are opened and then closed by a verdict, nothing
after a rejection. It has no checkpoints, nodes, crashes or prompts. `LiveRun` EXTENDS `Spiral`: it
takes every action of it unchanged and fills in what happens inside a handler. `WorkerContainers`
EXTENDS `LiveRun` in the same way: it watches the containers and the incidents of a live run.
`ApprovalPort` is the contract of the approver, which `TelegramApprover` implements. The other modules
stand alone, because the components share no state with the driver in this code base.

    GatedPlan  <-- implemented by --  Spiral  <-- LiveRun  <-- WorkerContainers
    ApprovalPort  <-- implemented by --  TelegramApprover
    PortfolioScheduler    GatewayCalls    EgressProxy    StateDatabase    Service

`MC<Module>` gives the constants their values for TLC, `<Module>Proofs` holds theorems (`RunProofs` those about
`Spiral`, `LiveRun` and `WorkerContainers`, `FiniteSums` lemmas about sums). Operators
called `X_Something` next to an operator `X` are mutated forms: what `X` would be with a plausible
bug. Nothing uses them but the mutation tests listed in `PROJECT.json`, each of which must make TLC
report its property violated.

### Spiral

`st` is the `SpiralState` of the thread and `node` the node LangGraph has scheduled; `saved` is what
the checkpointer holds. `MoveTo` is the end of a node: its update, then the conditional edge
(`next_active_phase`, here the relation `NextActivePhase`). A gate node appears as two actions
because LangGraph runs it again on resume: `OpenGate` (handler, pending gate) and then `AskApproval`
(interrupt; the driver builds the request) and `Resume` (the same node, `interrupt()` now returns the
decision; `DecisionUpdate`). `StartRun` hands the graph a complete initial state, as both entry
points do, which overwrites every channel of a thread that exists. What the checkpointer does is
LangGraph's and external: `Persist` is its background write of a checkpoint, `Flush` the wait for it at
the end of an invoke, and `Crash` reloads the thread from `saved` if the checkpointer is durable. `approved`, `handled`, `revisions` and `issued`
are history variables that only properties read. The one mutable resource left out is the text of an
artifact: an artifact is the phase it came from.

### LiveRun

`prompts` and `transcripts` are the files `<phase>.prompt.md` and `<phase>.transcript.txt`: they
outlive crashes, reruns and revisions, and the handler reads a transcript back by name. An output
is identified by who printed it (phase, run, and how often that phase had been run) and by what its
worker had been shown, which is the list of earlier outputs quoted in the prompt (`Context`, from
`_bounded_context`; the size of a text is one unit, a budget of `ContextBudget` units stands for the
character budget, and that the last text that fits may be cut short is left out). `WorkerTimesOut` is the exception of `subprocess.run`; `HandlerErrs` is any other
error of a handler: a file, a CLI that cannot be started, an output that is no text.

### WorkerContainers

`containers` are the containers that run, each named after the worker run it was started for. `podman
run` waits for its container, so as a rule a container ends before its client returns (`ConExit`). But
the client may also die or give up by itself; `check=False` and a return code nobody reads make that an
output like any other, and the container runs on (`ConDesert`, `deserted`). What a timeout
or a crash kills is the client, too: its container joins `abandoned` and may go on for as long as it likes
(`Abandon`, `StrayEnds`), also while a later run uses the same workspace. `Halt` is the `except`
clause of `run_project`: an incident is written, or that fails and is suppressed, and the error is
raised again. The property `WorkersOfARunTakeTurns` says what the code does guarantee: unless a client
ended by itself, the company a worker may have is left over from an earlier **run**, never from an earlier
phase of its own.

### PortfolioScheduler

The scheduler compares `enqueued_at` with a clock or with a `now` its caller passes; only
differences matter, so a queued task carries its age. The wall clock advances (`Tick`) and may be
set back (`SetBack`); `apply_aging` may be called with a `now` ahead of the clock.

### TelegramApprover

Update ids are positions in `updates`. The server's rules (an offset confirms what is below it, a
page has a limit) are external and modelled from how `get_updates` is used; the approver's three
phases are `drain`, `post` and `poll`, and a page is looked at only by the call that fetched it. `TelegramBot.get_updates` drops updates without text before
the approver sees the page, so the approver's offset never moves past them; that is in the model, and
so is what follows from it: a page full of such updates looks empty (`Jammed`), and no reply behind it
is ever taken. `ReplyIsTaken` says that nothing else keeps a reply from being taken. `ApprovalPort` has
replies, one open request and answers, each of which uses up a reply and everything before it.

### GatewayCalls

The gateway service is not in the repository. It is modelled as the callers of the budget adapter
are told to behave: check, forward, record, answer; one handler per attempt, which runs on when its
client has given up. Each call has the estimate its caller gave it, 0 by default (`EstimatedCost`), and
is charged whatever it costs (`Forward` takes any of `Costs`); the program never compares the two, and
`over` adds up by how much the costs recorded on each day exceed their estimates. `check_call` reads the daily and the monthly sum in two queries, two steps here. `cost` is what
the provider charged for an attempt and `record_spend` has not stored yet. `RecordFails` and
`GatewayDies` lose it: the ledger never learns of it, so `BillOvershootHasACause` compares the cap with
the providers' bill (`billed`) instead of the ledger, and grants what was lost on the day (`lost`). The
three properties name every cause of an overshoot with its amount. With no overlap, honest estimates and
no loss the cap holds; a caller that leaves its estimate out may exceed it with one request at a time.

### EgressProxy

One connection: request line, verdict (`IsAllowed`, on names that are sequences of words and dots),
dial, both pipe threads with their half-closes, `join` with its timeout, teardown. `BelongsTo` is
the reference definition of "a host of the allowlist", written without suffix matching. The request line
and the headers are read through the buffered `rfile`, the tunnel reads the socket: chunks a client sends
before its 200 may stay in that buffer (`ahead`), from where nothing takes them, and without any error.
`EndOfStreamIsTrue` excepts these chunks and no others. A dial that raises something other than an
`OSError` (`DialRaises`) ends the handler without an answer.

### StateDatabase

One SQLite file, a write lock, callers that die at any point (SQLite rolls back). A call is
`Insert` (or `Duplicate`), `Commit`, `Return`; another caller may run between any two of them.
`RetrieveLessons` is the query with the filters and the limit in the order of the code.

### Service

The process of `--serve`: its two `signal.signal` calls, the check of `_running`, the heartbeat and the
sleep are separate steps, between any two of which a signal may come; a handler only clears the flag,
and `time.sleep` sleeps on. systemd is external: `unit`, `jobs` and `timer` are what the two rendered
units ask of it (`Restart=on-failure`, `RestartSec=`, `After=`, `Wants=`, and `TimeoutStopSec` at its
default of 90 s). Time is counted in ticks of five seconds. A SIGTERM before the handler is installed
ends the process with the signal's default action, which systemd counts as clean.

## 3. What the runs check

| run | instance | distinct states | shows |
|---|---|---|---|
| `spiral` | 4 phases, 2 gates, 4 plans (begun or ended by a gate, a phase named twice, empty), 2 runs, 1 revise per gate, durable | 3,229 | no work past an unapproved gate, a prompt shows work not judged before, no repeated work, plan order, a rejection is final, the contract `GatedPlan` |
| `spiral_resume` (violated) | the same | | a second call of the driver after a crash starts over (section 7) |
| `scheduler` | 2 tasks of 1 project, 1 slot or 2, 2 priorities, `now` up to one tick ahead, one set-back, re-enqueued for ever | 272,536 | the cap and no task started twice, first in first out under aging, one promotion per threshold, a reported wait moves with the clock only, no starvation |
| `telegram` | pages of 2, 4 updates, 2 approvals, 2 pictures, 1 failure | 291,485 | one reply decides one gate, stale replies do not count, the first decides, it is taken unless the page is jammed, the contract `ApprovalPort` |
| `telegram_stale` (violated) | the same | | a reply written after the drain and before the post decides (section 7) |
| `gateway` | 2 calls of 2 attempts, one estimated at 0, caps of 1 a day and a month, 3 days | 505,044 | the ledger exceeds its caps by overlapping requests and by costs above their estimates only, the bill by those and by lost charges, each with its amount; calls end |
| `egress` | 8 hosts against 2 entries, 3 chunks | 91,928 | no bytes without a verdict, no silent truncation, teardown after the client |
| `egress_idle` (violated) | the same | | an idle tunnel is cut after ten seconds (section 7) |
| `live_run` | 4 phases, 2 gates, 3 plans, 2 runs, budget of 2 outputs, containers that survive or not, 1 deserted at a time | 215,666 | own artifacts, phases build on each other, a true retrospective, workers take turns unless a client ends by itself, true incidents, invokes and runs end |
| `live_run_gates` (violated) | the same, approver without `seen` | | the retrospective lists no gate (section 7) |
| `state_database` | 2 callers, 2 keys, 2 gates, 4 calls | 196,466 | an approval advances once, verdicts stand, appends return their own event, queries surface the newest lessons due |
| `service` | heartbeats of 30 s and 120 s, 3 commands, 5 faults | 59,264 | a stop is never overheard, the gateway is there while the orchestrator runs, a failed service serves again |

**Bounds and why they are enough.** Two runs per project, so that a run meets a thread, a checkpoint
and files of an earlier one, crashed, failed, rejected or finished. One revise per gate, so that a
phase is worked on twice in one run; the bound is the model's, the code has none, and no property leans on
it (`RunEnds` excepts an operator who revises for ever). Two gates, one of which can be first or last in a
plan; with a revise, three outputs compete for a context of two. One container at a time without its
client. One slot or two for two tasks that come again for ever: with one, the cap is reached while a task waits, and
both can wait and be compared; with two, a task that was queued twice would be started twice. Ages are exact to three times the threshold, so that promotions can be told apart,
and stay there. Pages of two against four updates, two of them pictures: a drain needs two pages, and
one page can be jammed. Two attempts of two calls: four
handlers, more than either cap holds, and a call that is estimated at nothing beside one that is not. Two months, the second of one day: a check may be split by
midnight and by the end of a month. Three chunks: one in each stage of a pipe. Four calls on the
database: two callers with a retry each, or one key delivered four times. One heartbeat below systemd's
patience and one above; three commands: start, stop and start again; five faults: each unit can fail
twice while a restart is pending.

**Deadlock** is checked in `spiral`, both `LiveRun` runs and `state_database`,
which say explicitly (`Rest`) when nobody calls them any more. It is off where the modelled thing
itself ends: a proxied connection is closed, all model calls are answered, nobody writes to the bot
or asks for another approval.

## 4. Fairness

* `Spiral`, `LiveRun`: the driver, LangGraph and the handlers are one thread that takes its next step
  as long as there is one; a worker is waited for under a timeout, so `HandlerStep` includes it, and
  the exit of a worker is **not** assumed. The operator answers every prompt in the end (`RunEnds`
  needs it, and excepts an operator who pauses or revises for ever). Starting a run, failing and crashing are never fair.
* `TelegramApprover`: `request_approval` is a loop in one thread. Nobody has to write or to ask.
* `GatewayCalls`: the client steps, because `httpx` has a timeout and `sleep` returns. Nothing is
  assumed of the gateway.
* `EgressProxy`: both threads run, and `join` has a timeout. Neither peer has to send or close, and
  the idle timeout of the upstream socket need not fire.
* `WorkerContainers`: as `LiveRun`. No container ever has to end.
* `Service`: the process takes its steps, systemd runs its jobs and restarts when their delay is over,
  and time passes. Nobody has to send a command, and failures are not fair; their number is bounded,
  so `ServesAgain` says that a unit comes up once nothing more goes wrong.
* `PortfolioScheduler` has no loop of its own. `Fairness` is what a caller owes it: it keeps starting
  tasks, completing them and applying aging, and time passes. `NoStarvation` is a statement about
  such a caller.
* `StateDatabase` is checked for safety only.

## 5. What is proved

The theorems hold for every value of the constants that satisfies the named assumptions: any set
of phases, any plans and choice of gates, any number of runs, callers, keys, tasks or slots.

**`RunProofs`**, in three parts, one for each layer of the model of a run.

*Spiral* (`SentinelAssumption`, `ParameterAssumption`). `TypeInv` adds to the types what
`pc` says of the request and the decision in flight. `SafetyInv` is the inductive invariant. None of
the safety properties is inductive alone; what is missing is that the scheduled node is the one the
router picks for the state (`Routed`), that a pending gate is that node (`PendingIsScheduled`), that a
completed gate has its approval (`CompletedGatesApproved`), that an approval on its way to the graph
is the operator's (`AnswerInHand`), and that a phase whose work is still to be done has not used up
its turns (`WorkOwed`). From it: `GatesComeFirst`, `PromptsAreFresh`, `NoRepeatedWork`,
`FinishedIsGoverned`, `RejectedMeansStopped`, and `SpiralImplementsGatedPlan`, by one lemma per action
that maps it to an action of the contract or to a stutter. `PlanOrderIsKept` needs an invariant of its
own (`OrderInv`), which speaks of the checkpoint too: a crash brings back an older thread.

*LiveRun* (also `LiveAssumption`). `LiveRunIsASpiral`: every step of a live run is a step of
the spiral or a stutter, so every theorem about `Spiral` holds of it; `LiveGatesComeFirst` is the most
important instance. `LiveInv` adds that the files of a running handler are its own (`FilesInv`: the
prompt is the current context, a saved transcript is what this worker printed), that outputs match
the artifacts of the thread and are no younger than the phase's count of turns (`OutputsInv`, from
which they are distinct), that every completed phase has an artifact and a rejection leaves part of
the plan undone (`WorkInv`), and that a finished run holds the retrospective of its thread (`ToldInv`).
From it: `LiveArtifactsAreOwn`, `LivePhasesBuildOnEachOther` (for every budget),
`LiveRetrospectiveIsTrue`, `LiveTypeCorrect`.

*WorkerContainers*: `ContainersAreALiveRun`, by which everything above holds of a run on
containers, the contract included (`ContainersImplementGatedPlan`). `WorkersTakeTurns` rests on `StrayInv`: an abandoned container is of a run that is over, one
that is neither abandoned nor deserted is that of the worker at hand, and but for deserted ones no two
are of one run. `HaltsAreToldTruly` rests
on `HaltInv`: an incident of a run that has returned, or of an earlier one, stays true because nothing of
that run changes any more.

**`TelegramApproverProofs`** (`ApproverAssumption`), for every page size, allowlist and number of updates.
The offset lives in memory and a reply is confirmed to the server one poll after it was used, so the
invariant carries a reply through restarts. Once a gate is posted, nothing that the server would still
serve up to the cut of the drain has a text, and every resolution is at or below the cut (`StaleInv`);
every deciding reply beyond the cut is still to be looked at (`FreshInv`); the page in hand has no hole
(`PageInv`). Whether the drain ended because the queue was empty or because a page of updates without a
text looked empty does not matter to it. `AnswerInv` collects what the resolutions are worth. From these
`RepliesAreUsedOnce`, `StaleRepliesAreIgnored`, `TheFirstReplyWins`, and `ApproverImplementsThePort`,
which maps every action to one of `ApprovalPort` or to a stutter. `AJamIsForGood` proves how bad a page of
updates without a text is: once the server was asked for it (`JammedForGood`, which TLC checked to be kept
before it was proved), every further poll gets the same page, and neither new messages nor a new call nor a
restart helps. Only the server forgetting its updates would, which is not in the model.

**`EgressProxyProofs`** (the assumptions of the module): `NoByteWithoutAVerdict`, for every allowlist and
host, from lemmas about what the suffix match means for sequences of words and dots; `VerdictIsExact`, the
converse included (no subdomain of an entry is refused, and the code's early check for an empty name
follows from the rest); and
`EndsOfStreamsAreTrue`. The invariant says which parts of a connection exist at each stage of its
handler (`StageInv`: no pipe before the answer 200, no dial to a host that is not allowed), and that no
pipe is left behind unless a timer fired (`PipeInv`); how much of its stream a client sent too early is
unbounded in them.

**`PortfolioSchedulerProofs`** (`SchedulerAssumption`): `SchedulerTypeCorrect`, `CapHolds`, `AgingIsFair`,
`PromotionsAreEarned` and `WaitsFollowTheClock`. The cap is
about workers that run, which is a history variable: the invariant is that they are the active tasks,
that no id is queued twice or queued and active, and that at most `limit` are active. Aging: a task is
promoted by the quotient of a division, which is monotone and rounds down (`DivMonotone`, `DivFacts`);
so promotions fall along the queue wherever ages do (`PromotionsInOrder`), whatever `now` was passed,
and the priority a task was given is its priority less its promotions (`AgedPromotions`). A reported wait is a total and a sum over the queue:
each action is taken to what it does to that sum (it adds a task that has not waited, takes one away whose
wait goes to the total, renumbers the queue, or makes every term at least what it was), and the lemma of
`FiniteSums` for that change says what becomes of the sum.

**`GatewayCallsProofs`** (`GatewayAssumption`): types, and for any number of calls and attempts that a call
raises as exhausted only after its last attempt (`AttemptsAreUsedUp`) and returns the answer to no attempt
it has given up (`LateAnswersAreLost`). The invariant adds that no handler serves an attempt that was not
made and that only a charge to be recorded is remembered.

The money is in `MoneyInv`, which holds beside it. Neither bound is inductive alone. What is missing: the
handlers between check and record are no more than the peak says (`PeakIsThePeak`), the estimate of each
fits the cap on its own (`EstimatesFitTheCaps`: at midnight what was spent starts again at nothing, and the
handlers that passed a check on the day before are all there is to bound), and no later day has a row yet (`NothingIsSpentAhead`, for midnight too). Charges
are any natural numbers; a step that records one adds to `over` what it has above its estimate. From it `DayOvershootIsBounded` and
`MonthOvershootIsBounded`. The bill is `BillIsExplained`: what was billed today is in the ledger, in the
hands of a handler that records it, or lost; with the bound of the day that is
`BillIsBounded`, in every state and without another step (`TheBillFollows`).

**`FiniteSums`** holds what these proofs need of `SumFunctionOnSet`, the sum of a function over a finite
set, and no model: what one more element, one less, one changed term, a renaming, a larger term or a
bound does to the sum. The community modules define it by a fold, over elements chosen one after the
other. That this recursion has one solution, and so unfolds (`SumUnfolds`), is proved here, and like all
that follows by the smallest counterexample: the strict subsets of a finite set are well founded, so a set
of subsets that is not empty has a smallest member (`SmallestSubset`), and the step is applied to it. No
operator is passed to an induction theorem, which the provers could not instantiate.

**`StateDatabaseProofs`** (`StateAssumption`, `NoCallAssumption`): `StateTypeCorrect`. `ApprovalAdvancesOnce` rests on
`TokenInv`: a recorded key has exactly one token, which is in the hands of the call that is committing
it, or was handed out as the one ADVANCED, or was lost with a caller that died. With it
`VerdictsStand`, and from `AppendInv` (ids are positions; a call in flight owns the id it was given)
`AppendedEventsStand`. `ALostApprovalStaysLost` is what the guard costs: a token lost with its caller is not
handed out again. `NewestLessonsFirst` needs of the table only that it is finite and has one row for
each lesson id (`LessonsInv`): on such rows `Before` is a total order, a finite set has exactly one list
in that order (`InOrderFacts`, by counting the elements before each), filtering keeps the order and
everything that matches (`MatchingFacts`), and what a limit cuts off comes after what it keeps
(`FirstOfFacts`). A query is these three, in the order of the code. `InOrder` stands where one would write
the library's `SetToSortSeq` and `SelectSeq`; those are defined by a choice and by a recursion that the
provers cannot expand.

**`ServiceProofs`** (`ServiceAssumption`): `ServiceTypeCorrect`, `StopsAreHeeded`, `GatewayComesFirst`, for all
heartbeats, delays and patience and any number of commands and failures. That a stop is never overheard
needs `StopInv`: a process that was told to stop has lowered its flag, has its handlers installed, and
systemd's timer outlasts what is left of the sleep, or the whole sleep it is about to begin because it had
passed the check of `_running`. That the gateway is there needs to know which jobs can be queued together
(`JobsInv`: a start of the orchestrator never beside a stop, a gateway that is to stop outlives the
orchestrator) and that a start of the orchestrator was queued with one of the gateway (`StartInv`).

The proofs cite the assumptions on constants by name; TLC evaluates the same assumptions in the runs.

## 6. What is model-checked only

All liveness (`InvokeReturns`, `RunEnds`, `NoStarvation`, `ReplyIsTaken`, `CallsEnd`,
`TornDownAfterClient`, `ServesAgain`): temporal reasoning with fairness is outside what the prover does.
`RejectionIsFinal`, `ReportedWaitFollowsTheClock` and the two refinements, which need no fairness, are proved; so is
every invariant of a passing run. `GatewayAssumption` asks for finitely many calls, at least one: an
overlap is measured in the largest estimate. Sums and lists are proved about by counting and by smallest
counterexamples; a statement that would need an induction theorem of the library, which takes an operator
as its parameter, is not made.

## 7. Where code and text disagree

* `spiral_resume`: `composition.py:150-152` says an unattended run "resumes from where it stopped
  after a crash or restart". The checkpoint is recovered, but `run_gated_project` always begins with
  a complete initial state, so a second call repeats the plan from its first phase.
* `telegram_stale`: `approver.py:9-10` says only a reply that arrives after the gate is posted
  counts. One that arrives between the last, empty poll of the drain and the post counts as well.
* `egress_idle`: `egress_proxy.py:100` pipes "until either side closes". The connect timeout stays on
  the upstream socket and ends the pipe after ten silent seconds.
* `live_run_gates`: `project_run.py:70-71` promises the gates that fired in the retrospective. They
  are read off an attribute `seen` that `TelegramApprover` does not have.

Four more are facts of a line and have no run. AT-18 (`docs/talisman-v1/talisman-v1-acceptance-test-plan.md:35`)
is "Kill service process.", "Service restarts and state is consistent.": true of SIGKILL and not of a plain
`kill`, after which the process leaves with exit 0, and the unit restarts on failure only. Nor does a
restart resume a project: `--serve` runs none. `docs/talisman-v1/talisman-v1-architecture-final.md:173`
has the client retry 408, 429 and four codes of 5xx; the code retries 429 and all of 5xx, and not 408.
Last, the idempotency key of a prompt is its gate id, so the prompt after a revise has the key of the one
before, where ADR-0003 section 1 asks for a new one. It matters once the guard of `StateDatabase` is
wired into the driver.

## 8. What is not modelled

`policies/review_enforcement.py` with `domain/review_result.py`, and `observability/health.py`, are pure
functions of a line or two that nothing in `src/` calls yet: a model would say what they say.
`security/credentials.py`, the redaction of incidents and the prompt templates are string processing;
`app/bootstrap.py` is a fixed script over `run_gated_project` with a stub worker and so an instance of
`Spiral`, `release.py` a table; the domain records have no behaviour. Inside modelled components, these
are left out: logging, the contents of prompts, incidents and retrospectives, the flags of `podman run`
but `--rm`, letter case in hosts (lowered on both sides), the severity and statement of lessons, and the
character count of a context (so the cut through an output that is too long by itself). What a worker itself writes into the workspace is
left out, whether it is the one at hand or a stray. The program reads two files back, the prompt
(`claude_code.py:32`) and the transcript, each shortly after it wrote it; a worker, or a container that
outlived its client, may overwrite either in between, and `ArtifactsAreOwn` and `EachBuildsOnTheLast` say
nothing about workers that do. `EgressProxy` is one connection; connections share the allowlist
only, which is constant. In `Service`, systemd's limit of five starts in ten seconds is left out (the
delays of the units allow three), and the gateway is its unit: its program is not in the repository.

## 9. What could come next

1. The Telegram approver inside the driver: `TelegramApprover` as the approver of `Spiral`, so that a
   stale reply is followed to the work it releases. `ApprovalPort` is the interface to compose them by.
2. The idempotency guard and the scheduler inside the driver, once the code calls them: two approvals of
   one gate under two keys, and a task that is blocked on the gate of its run.
3. Lemmas under the liveness properties, as far as they are not temporal: that every step of a fair
   action brings its `leads to` closer.
