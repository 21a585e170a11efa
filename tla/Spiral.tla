------------------------------- MODULE Spiral -------------------------------
(***************************************************************************)
(* The phase spiral of one project (workflow/spiral.py) and the driver     *)
(* that walks it (TalismanApp.run_project and run_gated_project in         *)
(* app/composition.py), in a process that may crash and be restarted.      *)
(*                                                                         *)
(* LangGraph keeps the thread of a project as a checkpoint: the values of  *)
(* SpiralState and the node that runs next.  `st' and `node' are that      *)
(* thread as the running process sees it; `saved' is what the checkpointer *)
(* holds.  Inside graph.invoke a checkpoint is written in the background,  *)
(* so `saved' may lag behind; whenever invoke returns or raises, it has    *)
(* caught up.  Gate ids are "<project>:<phase>": within the one project of *)
(* this module a gate id is its phase.                                     *)
(***************************************************************************)
EXTENDS Naturals, Sequences, Functions

CONSTANTS
    Phases,          \* the names in SPIRAL_PHASES
    PhaseSequences,  \* the phase sequences policy may give a project at intake
    GatePhases,      \* the phases built as gates
    SilentPhases,    \* phases without a handler, or whose handler returns None
    Durable,         \* TRUE: SqliteSaver; FALSE: MemorySaver
    None,            \* Python's None, and the absence of a value
    End,             \* LangGraph's END
    MaxRuns,         \* bound: calls of the driver for this project
    MaxRevisions     \* bound: revise decisions per gate and run; the code has none

Decisions == {"approve", "revise", "pause", "reject"}

ASSUME SentinelAssumption ==
    /\ None \notin Phases \cup Decisions
    /\ End \notin Phases

ASSUME ParameterAssumption ==
    /\ PhaseSequences \subseteq Seq(Phases)
    /\ GatePhases \subseteq Phases
    /\ SilentPhases \subseteq Phases
    /\ Durable \in BOOLEAN
    /\ MaxRuns \in Nat
    /\ MaxRevisions \in Nat

VARIABLES
    st,         \* SpiralState: the channel values of the thread
    node,       \* the node scheduled next, or End
    saved,      \* the checkpoint the checkpointer holds, or None
    pc,         \* where the driver is
    driver,     \* which entry point runs: "gated" or "plain"
    request,    \* the ApprovalRequest in the approver's hands, or None
    decision,   \* the decision the driver is about to resume with, or None
    runs,       \* calls of the driver so far
    approved,   \* history: gates the operator approved in this run
    handled,    \* history: how often each phase's handler was started in this run
    revisions,  \* history: how often the operator asked to revise, per gate
    issued      \* history: idempotency keys of the prompts of this run

thread  == <<st, node>>
history == <<approved, handled, revisions, issued>>
vars == <<st, node, saved, pc, driver, request, decision, runs, history>>

-----------------------------------------------------------------------------
(* SpiralState, routing and the updates a node returns.                    *)

SpiralStates ==
    [ phase_sequence   : Seq(Phases),
      current_phase    : Phases \cup {None},
      completed_phases : Seq(Phases),
      pending_gate_id  : GatePhases \cup {None},
      last_decision    : Decisions \cup {None},
      artifacts        : Seq(Phases) ]

InitialState(seq) ==
    [ phase_sequence   |-> seq,
      current_phase    |-> None,
      completed_phases |-> << >>,
      pending_gate_id  |-> None,
      last_decision    |-> None,
      artifacts        |-> << >> ]

(* The state an emptied thread shows: nothing planned, nothing done.       *)
BlankState == InitialState(<< >>)

Completed(s) == Range(s.completed_phases)

(* The first phase of the sequence that is not completed.                  *)
IsFirstActive(s, p) ==
    \E i \in DOMAIN s.phase_sequence :
        /\ s.phase_sequence[i] = p
        /\ p \notin Completed(s)
        /\ \A j \in 1..(i - 1) : s.phase_sequence[j] \in Completed(s)

(* Mutated forms of the router: it forgets the rejection, ends on a pause,  *)
(* takes active phases in any order.                                       *)
NextActivePhase_IgnoresReject(s, n) ==
    \/ IsFirstActive(s, n)
    \/ Range(s.phase_sequence) \subseteq Completed(s) /\ n = End

NextActivePhase_PauseEnds(s, n) ==
    IF s.last_decision \in {"reject", "pause"}
       THEN n = End
       ELSE NextActivePhase_IgnoresReject(s, n)

NextActivePhase_AnyOrder(s, n) ==
    IF s.last_decision = "reject" \/ Range(s.phase_sequence) \subseteq Completed(s)
       THEN n = End
       ELSE n \in Range(s.phase_sequence) \ Completed(s)

(* Routing, as a relation between a state and the node that follows it.    *)
NextActivePhase(s, n) ==
    \/ /\ s.last_decision = "reject"
       /\ n = End
    \/ /\ s.last_decision # "reject"
       /\ IsFirstActive(s, n)
    \/ /\ s.last_decision # "reject"
       /\ Range(s.phase_sequence) \subseteq Completed(s)
       /\ n = End

CompletePhase(p, s) ==
    IF p \in Completed(s) THEN s.completed_phases
                          ELSE Append(s.completed_phases, p)

RecordPhaseArtifact(p, s) ==
    IF p \in SilentPhases THEN s.artifacts ELSE Append(s.artifacts, p)

(* Mutated forms of the decision: a revise completes the phase, a revise   *)
(* is handled like a pause, a pause drops the pending gate, an approval is *)
(* handled like a pause.                                                   *)
DecisionUpdate_ReviseCompletes(p, s, d) ==
    [ s EXCEPT !.current_phase = p,
               !.completed_phases = IF d \in {"approve", "revise"} THEN CompletePhase(p, s) ELSE @,
               !.pending_gate_id = IF d = "pause" THEN @ ELSE None,
               !.last_decision = d ]

DecisionUpdate_ReviseKeepsGate(p, s, d) ==
    [ s EXCEPT !.current_phase = p,
               !.completed_phases = IF d = "approve" THEN CompletePhase(p, s) ELSE @,
               !.pending_gate_id = IF d \in {"pause", "revise"} THEN @ ELSE None,
               !.last_decision = d ]

DecisionUpdate_PauseDropsGate(p, s, d) ==
    [ s EXCEPT !.current_phase = p,
               !.completed_phases = IF d = "approve" THEN CompletePhase(p, s) ELSE @,
               !.pending_gate_id = None,
               !.last_decision = d ]

DecisionUpdate_ApproveKeepsGate(p, s, d) ==
    [ s EXCEPT !.current_phase = p,
               !.pending_gate_id = IF d \in {"approve", "pause"} THEN @ ELSE None,
               !.last_decision = d ]

DecisionUpdate(p, s, d) ==
    [ s EXCEPT !.current_phase = p,
               !.completed_phases = IF d = "approve" THEN CompletePhase(p, s) ELSE @,
               !.pending_gate_id = IF d = "pause" THEN @ ELSE None,
               !.last_decision = d ]

(* What a gate node returns when its gate is not pending yet.              *)
OpenGateUpdate(p, s) ==
    [ s EXCEPT !.current_phase = p,
               !.pending_gate_id = p,
               !.artifacts = RecordPhaseArtifact(p, s) ]

(* Mutated form: the node leaves its own phase behind as a pending gate.   *)
PhaseUpdate_LeavesGate(p, s) ==
    [ s EXCEPT !.current_phase = p,
               !.completed_phases = CompletePhase(p, s),
               !.pending_gate_id = p,
               !.artifacts = RecordPhaseArtifact(p, s) ]

(* What the node of a phase that is no gate returns.                       *)
PhaseUpdate(p, s) ==
    [ s EXCEPT !.current_phase = p,
               !.completed_phases = CompletePhase(p, s),
               !.pending_gate_id = None,
               !.artifacts = RecordPhaseArtifact(p, s) ]

-----------------------------------------------------------------------------
(* The thread and its checkpoint.                                          *)

Checkpoint == [values |-> st, next |-> node]

(* The thread moves to s; the router picks the node that follows.          *)
MoveTo(s) ==
    /\ st' = s
    /\ node' \in {n \in Phases \cup {End} : NextActivePhase(s, n)}

(* Invoke is over: its background checkpoint writes have been awaited.     *)
Flush == saved' = Checkpoint

Resting == {"idle", "done", "failed", "crashed"}
Busy    == {"running", "asking", "resuming"}

Init ==
    /\ st = BlankState
    /\ node = End
    /\ saved = None
    /\ pc = "idle"
    /\ driver = "gated"
    /\ request = None
    /\ decision = None
    /\ runs = 0
    /\ approved = {}
    /\ handled = [p \in Phases |-> 0]
    /\ revisions = [p \in Phases |-> 0]
    /\ issued = {}

-----------------------------------------------------------------------------
(* The driver.                                                             *)

(* Mutated form: the input of the invoke names the plan only, and what the *)
(* thread held of an earlier run stays.                                    *)
StartRun_KeepsThread(seq, entry) ==
    /\ pc \in Resting
    /\ runs < MaxRuns
    /\ runs' = runs + 1
    /\ pc' = "running"
    /\ driver' = entry
    /\ MoveTo([st EXCEPT !.phase_sequence = seq])
    /\ approved' = {}
    /\ handled' = [p \in Phases |-> 0]
    /\ revisions' = [p \in Phases |-> 0]
    /\ issued' = {}
    /\ UNCHANGED <<saved, request, decision>>

(* run_gated_project ("gated") or run_project ("plain") is called: both    *)
(* hand graph.invoke a complete initial state, which overwrites every      *)
(* channel of a thread that already exists.                                *)
StartRun(seq, entry) ==
    /\ pc \in Resting
    /\ runs < MaxRuns
    /\ runs' = runs + 1
    /\ pc' = "running"
    /\ driver' = entry
    /\ MoveTo(InitialState(seq))
    /\ approved' = {}
    /\ handled' = [p \in Phases |-> 0]
    /\ revisions' = [p \in Phases |-> 0]
    /\ issued' = {}
    /\ UNCHANGED <<saved, request, decision>>

(* The node of a phase that is no gate: handler, then completion.          *)
RunPhase(p) ==
    /\ pc = "running"
    /\ node = p
    /\ p \notin GatePhases
    /\ MoveTo(PhaseUpdate(p, st))
    /\ handled' = [handled EXCEPT ![p] = @ + 1]
    /\ UNCHANGED <<saved, pc, driver, request, decision, runs, approved, revisions, issued>>

(* First visit of a gate node: the handler runs and the gate is recorded   *)
(* as pending; the router then schedules the same node again.              *)
OpenGate(p) ==
    /\ pc = "running"
    /\ node = p
    /\ p \in GatePhases
    /\ st.pending_gate_id # p
    /\ MoveTo(OpenGateUpdate(p, st))
    /\ handled' = [handled EXCEPT ![p] = @ + 1]
    /\ UNCHANGED <<saved, pc, driver, request, decision, runs, approved, revisions, issued>>

(* Second visit: interrupt() ends the invoke, and run_gated_project turns  *)
(* the payload into an ApprovalRequest and waits for the approver.         *)
AskApproval(p) ==
    /\ pc = "running"
    /\ driver = "gated"
    /\ node = p
    /\ p \in GatePhases
    /\ st.pending_gate_id = p
    /\ pc' = "asking"
    /\ request' = [gate_id |-> p, idempotency_key |-> p]
    /\ issued' = issued \cup {p}
    /\ Flush
    /\ UNCHANGED <<thread, driver, decision, runs, approved, handled, revisions>>

(* run_project does not look for an interrupt: at a gate the project is    *)
(* left interrupted and reported as finished.                              *)
StopAtGate(p) ==
    /\ pc = "running"
    /\ driver = "plain"
    /\ node = p
    /\ p \in GatePhases
    /\ st.pending_gate_id = p
    /\ pc' = "done"
    /\ Flush
    /\ UNCHANGED <<thread, driver, request, decision, runs, history>>

(* The approver returns a decision: it is now in the driver's memory only. *)
(* An operator may revise for ever; MaxRevisions is a bound of the model,  *)
(* whose histories would have no end otherwise, and not of the code.       *)
Answer(d) ==
    /\ pc = "asking"
    /\ pc' = "resuming"
    /\ decision' = d
    /\ \/ /\ d = "approve"
          /\ approved' = approved \cup {request.gate_id}
          /\ UNCHANGED revisions
       \/ /\ d = "revise"
          /\ revisions[request.gate_id] < MaxRevisions
          /\ revisions' = [revisions EXCEPT ![request.gate_id] = @ + 1]
          /\ UNCHANGED approved
       \/ /\ d \in {"pause", "reject"}
          /\ UNCHANGED <<approved, revisions, issued>>
    /\ UNCHANGED <<thread, saved, driver, request, runs, handled, issued>>

(* graph.invoke(Command(resume=...)): the interrupted node runs again from *)
(* its first line, interrupt() now returns the decision, and the node      *)
(* returns the update the decision stands for.                             *)
Resume(p) ==
    /\ pc = "resuming"
    /\ node = p
    /\ p \in GatePhases
    /\ st.pending_gate_id = p
    /\ MoveTo(DecisionUpdate(p, st, decision))
    /\ pc' = "running"
    /\ request' = None
    /\ decision' = None
    /\ UNCHANGED <<saved, driver, runs, history>>

(* No node is left: invoke returns the final state.                        *)
Finish ==
    /\ pc = "running"
    /\ node = End
    /\ pc' = "done"
    /\ Flush
    /\ UNCHANGED <<thread, driver, request, decision, runs, history>>

(* A handler raises: invoke raises, and the error leaves the driver.       *)
HandlerFails(p) ==
    /\ pc = "running"
    /\ node = p
    /\ st.pending_gate_id # p
    /\ pc' = "failed"
    /\ handled' = [handled EXCEPT ![p] = @ + 1]
    /\ Flush
    /\ UNCHANGED <<thread, driver, request, decision, runs, approved, revisions, issued>>

(* The approver raises (its transport failed): the error leaves the driver. *)
ApproverFails ==
    /\ pc = "asking"
    /\ pc' = "failed"
    /\ request' = None
    /\ UNCHANGED <<thread, saved, driver, decision, runs, history>>

(* The checkpointer's background write catches up with the thread.         *)
Persist ==
    /\ pc = "running"
    /\ saved # Checkpoint
    /\ Flush
    /\ UNCHANGED <<thread, pc, driver, request, decision, runs, history>>

(* The process dies.  A durable checkpoint is what the thread will be      *)
(* loaded from; one in memory dies with the process.                       *)
Crash ==
    /\ pc \in Busy
    /\ pc' = "crashed"
    /\ request' = None
    /\ decision' = None
    /\ saved' = IF Durable THEN saved ELSE None
    /\ st' = IF Durable /\ saved # None THEN saved.values ELSE BlankState
    /\ node' = IF Durable /\ saved # None THEN saved.next ELSE End
    /\ UNCHANGED <<driver, runs, history>>

(* Nobody calls the driver again.                                          *)
Rest ==
    /\ pc \in Resting
    /\ runs = MaxRuns
    /\ UNCHANGED vars

NodeStep == \E p \in Phases :
    RunPhase(p) \/ OpenGate(p) \/ AskApproval(p) \/ StopAtGate(p) \/ Resume(p)

Next ==
    \/ \E seq \in PhaseSequences, entry \in {"gated", "plain"} : StartRun(seq, entry)
    \/ NodeStep
    \/ \E d \in Decisions : Answer(d)
    \/ Finish
    \/ \E p \in Phases : HandlerFails(p)
    \/ ApproverFails
    \/ Persist
    \/ Crash
    \/ Rest

Spec == Init /\ [][Next]_vars

(* Inside invoke the graph keeps stepping: LangGraph schedules a node as   *)
(* soon as the one before it returned, and handlers return or raise.       *)
GraphFairness == WF_vars(NodeStep \/ Finish)

(* The operator answers every prompt in the end.                           *)
OperatorFairness == WF_vars(\E d \in Decisions : Answer(d))

FairSpec == Spec /\ GraphFairness /\ OperatorFairness

-----------------------------------------------------------------------------
(* Properties.                                                             *)

Checkpoints == [values : SpiralStates, next : Phases \cup {End}]

Requests == [gate_id : GatePhases, idempotency_key : GatePhases]

(* Every variable keeps its type; in particular the thread always holds a  *)
(* well-formed SpiralState (spiral.py, SpiralState).                       *)
TypeOK ==
    /\ st \in SpiralStates
    /\ node \in Phases \cup {End}
    /\ saved \in Checkpoints \cup {None}
    /\ pc \in Resting \cup Busy
    /\ driver \in {"gated", "plain"}
    /\ request \in Requests \cup {None}
    /\ decision \in Decisions \cup {None}
    /\ runs \in Nat
    /\ approved \subseteq GatePhases
    /\ handled \in [Phases -> Nat]
    /\ revisions \in [Phases -> Nat]
    /\ issued \subseteq GatePhases

(* The gates of the first k - 1 positions have the operator's approval.    *)
GatesApprovedBefore(k) ==
    \A i \in 1..(k - 1) :
        st.phase_sequence[i] \in GatePhases => st.phase_sequence[i] \in approved

(* No handler is started, not even one that later raises, before the       *)
(* operator of this run has approved every gate in front of its phase:     *)
(* neither a revise, a pause, a rerun of a half-finished project nor a     *)
(* stale pending gate lets the spiral slip past (run_phase and             *)
(* next_active_phase together).                                            *)
NoWorkPastAnUnapprovedGate ==
    pc # "crashed" =>
        \A p \in Phases :
            handled[p] > 0 =>
                \E k \in DOMAIN st.phase_sequence :
                    st.phase_sequence[k] = p /\ GatesApprovedBefore(k)

(* What the operator is asked about is news.  Every revise was followed by *)
(* the work it asked for, once, before the same gate is shown again; and   *)
(* no gate is shown again once it was approved, whatever pauses, revisions *)
(* and repeated phases come between.                                       *)
PromptsShowFreshWork ==
    pc = "asking" =>
        /\ handled[request.gate_id] = revisions[request.gate_id] + 1
        /\ request.gate_id \notin approved

(* A handler is run at most once per time the operator asked for the work: *)
(* once at first, and once more per revise. Pausing, resuming and the      *)
(* double visit of a gate node never repeat a worker run.                  *)
WorkIsNotRepeated ==
    pc # "crashed" => \A p \in Phases : handled[p] <= revisions[p] + 1

(* A gated run that reports its project finished was either rejected or    *)
(* has completed every planned phase, with every gate among them approved  *)
(* by the operator (run_gated_project leaves its loop only then).          *)
FinishedMeansGoverned ==
    (pc = "done" /\ driver = "gated") =>
        \/ st.last_decision = "reject"
        \/ /\ Completed(st) = Range(st.phase_sequence)
           /\ Completed(st) \cap GatePhases \subseteq approved

(* Phases complete in plan order, each once, whatever the operator decided *)
(* on the way: every completed phase was the first active one when only    *)
(* the phases completed before it were.                                    *)
CompletedInPlanOrder ==
    \A i \in DOMAIN st.completed_phases :
        IsFirstActive([st EXCEPT !.completed_phases = SubSeq(@, 1, i - 1)],
                      st.completed_phases[i])

(* After the operator rejected a gate no handler is started any more in    *)
(* that run; only a new call of the driver starts work again.              *)
RejectionIsFinal ==
    [][ (decision = "reject" \/ (pc # "crashed" /\ st.last_decision = "reject"))
        /\ handled' # handled
            => runs' # runs ]_vars

(* An invoke always comes back: the routing never makes the graph walk in  *)
(* circles between two prompts.                                            *)
InvokeReturns == pc \in {"running", "resuming"} ~> pc \notin {"running", "resuming"}

(* A run ends unless the operator pauses or revises for ever: neither      *)
(* decision brings the end nearer, and the code has no bound on them; but  *)
(* approvals and a rejection lead there, however they are mixed with       *)
(* finitely many of the others.                                            *)
RunEnds == []<>(decision \in {"pause", "revise"}) \/ (pc \in Busy ~> pc \in Resting)

(* What composition.py:150-152 says of a durable checkpointer: "a fresh    *)
(* checkpointer opened on the same file recovers a paused run, so an       *)
(* unattended run resumes from where it stopped after a crash or restart". *)
(* A driver started again with the same plan, on a thread whose durable    *)
(* checkpoint is paused at a gate, keeps the phases the checkpoint has.    *)
ResumesWhereItStopped ==
    [][ ( /\ pc = "crashed"
          /\ pc' = "running"
          /\ st.pending_gate_id # None
          /\ st'.phase_sequence = st.phase_sequence )
        => Completed(st) \subseteq Completed(st') ]_vars

-----------------------------------------------------------------------------
(* What the spiral promises its caller: GatedPlan, with the finished       *)
(* phases, the open gate and the verdict read off the thread.              *)
Verdict ==
    CASE pc = "idle" -> "idle"
      [] pc \in {"crashed", "failed"} -> "stopped"
      [] pc \in Busy \cup {"done"} /\ st.last_decision = "reject" -> "rejected"
      [] pc \in Busy /\ st.last_decision # "reject" -> "open"
      [] pc = "done" /\ st.last_decision # "reject" ->
            IF Range(st.phase_sequence) \subseteq Completed(st) THEN "completed" ELSE "stopped"

Contract == INSTANCE GatedPlan WITH
    plan     <- IF pc = "crashed" THEN << >> ELSE st.phase_sequence,
    finished <- IF pc = "crashed" THEN {} ELSE Completed(st),
    gate     <- IF pc = "crashed" THEN None ELSE st.pending_gate_id,
    verdict  <- Verdict

(* Every behaviour of the spiral and its driver is one of the contract.    *)
ImplementsGatedPlan == Contract!Spec
=============================================================================
