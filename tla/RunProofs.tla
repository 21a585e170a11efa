----------------------------- MODULE RunProofs ------------------------------
(***************************************************************************)
(* Proofs about a run, for every set of phases, every plan, every choice   *)
(* of gates, every budget of context and every bound, in three parts, one  *)
(* for each layer of the model.                                            *)
(*                                                                         *)
(* Spiral.  The inductive invariant says what the safety properties leave  *)
(* unsaid: the scheduled node is always the one the router chooses for the *)
(* current state, a pending gate is that node, and a gate that is          *)
(* completed, or about to be, has its approval.                            *)
(*                                                                         *)
(* LiveRun.  The live run only refines what happens inside a handler, so   *)
(* that it implements the spiral and inherits what is proved of it; and    *)
(* the files in the workspace, whatever runs have left them, never leak    *)
(* into a run.                                                             *)
(*                                                                         *)
(* WorkerContainers.  Watching the containers changes nothing in the live  *)
(* run; the workers of a run never share a workspace; and what is told of  *)
(* a halt is true.                                                         *)
(***************************************************************************)
EXTENDS WorkerContainers, SequenceTheorems, TLAPS

-----------------------------------------------------------------------------
(* Part 1: Spiral.                                                         *)
-----------------------------------------------------------------------------
(* Facts about the router and the updates.                                 *)

(* Appending one element adds it to the range.                             *)
LEMMA RangeAppend ==
    ASSUME NEW S, NEW q \in Seq(S), NEW e \in S
    PROVE  Range(Append(q, e)) = Range(q) \cup {e}
<1>1. DOMAIN Append(q, e) = 1..(Len(q) + 1) /\ DOMAIN q = 1..Len(q)
  OBVIOUS
<1>2. \A i \in 1..Len(q) : Append(q, e)[i] = q[i]
  OBVIOUS
<1>3. Append(q, e)[Len(q) + 1] = e
  OBVIOUS
<1>4. Len(q) \in Nat
  OBVIOUS
<1>5. ASSUME NEW x \in Range(Append(q, e))
      PROVE  x \in Range(q) \cup {e}
  <2>1. PICK i \in DOMAIN Append(q, e) : x = Append(q, e)[i]
    BY <1>5 DEF Range
  <2>2. i \in 1..Len(q) \/ i = Len(q) + 1
    BY <1>1, <1>4, <2>1
  <2>3. QED
    BY <1>1, <1>2, <1>3, <2>1, <2>2 DEF Range
<1>6. Range(q) \subseteq Range(Append(q, e))
  <2>1. 1..Len(q) \subseteq 1..(Len(q) + 1)
    BY <1>4
  <2>2. QED
    BY <1>1, <1>2, <2>1 DEF Range
<1>7. e \in Range(Append(q, e))
  <2>1. Len(q) + 1 \in DOMAIN Append(q, e)
    BY <1>1, <1>4
  <2>2. QED
    BY <1>3, <2>1 DEF Range
<1>8. QED
  BY <1>5, <1>6, <1>7

(* Only one phase is the first active one.                                 *)
LEMMA FirstActiveUnique ==
    ASSUME NEW s \in SpiralStates, NEW p, NEW q,
           IsFirstActive(s, p), IsFirstActive(s, q)
    PROVE  p = q
<1>1. PICK i \in DOMAIN s.phase_sequence :
         /\ s.phase_sequence[i] = p
         /\ p \notin Completed(s)
         /\ \A j \in 1..(i - 1) : s.phase_sequence[j] \in Completed(s)
  BY DEF IsFirstActive
<1>2. PICK k \in DOMAIN s.phase_sequence :
         /\ s.phase_sequence[k] = q
         /\ q \notin Completed(s)
         /\ \A j \in 1..(k - 1) : s.phase_sequence[j] \in Completed(s)
  BY DEF IsFirstActive
<1>3. i \in Nat \ {0} /\ k \in Nat \ {0}
  <2>1. s.phase_sequence \in Seq(Phases)
    BY DEF SpiralStates
  <2>2. QED
    BY <2>1
<1>4. ~ (i < k) /\ ~ (k < i)
  BY <1>1, <1>2, <1>3
<1>5. QED
  BY <1>1, <1>2, <1>3, <1>4

(* A first active phase is planned and not completed.                      *)
LEMMA FirstActiveIsPlanned ==
    ASSUME NEW s \in SpiralStates, NEW p, IsFirstActive(s, p)
    PROVE  /\ p \in Phases
           /\ p \in Range(s.phase_sequence)
           /\ p \notin Completed(s)
<1>1. s.phase_sequence \in Seq(Phases)
  BY DEF SpiralStates
<1>2. QED
  BY <1>1 DEF IsFirstActive, Range

(* The router is a function: it schedules one node.                        *)
LEMMA RouteUnique ==
    ASSUME NEW s \in SpiralStates, NEW m, NEW n,
           NextActivePhase(s, m), NextActivePhase(s, n)
    PROVE  m = n
<1>1. ASSUME NEW x, IsFirstActive(s, x)
      PROVE  ~ Range(s.phase_sequence) \subseteq Completed(s)
  BY <1>1, FirstActiveIsPlanned
<1>2. QED
  BY <1>1, FirstActiveUnique DEF NextActivePhase

(* A scheduled phase means: not rejected, and the phase is first active.   *)
LEMMA ScheduledPhase ==
    ASSUME NEW s \in SpiralStates, NEW p \in Phases, NextActivePhase(s, p)
    PROVE  s.last_decision # "reject" /\ IsFirstActive(s, p)
  BY SentinelAssumption DEF NextActivePhase

(* Completing a phase adds it to what is completed, and nothing else.      *)
LEMMA CompletePhaseRange ==
    ASSUME NEW s \in SpiralStates, NEW p \in Phases
    PROVE  /\ CompletePhase(p, s) \in Seq(Phases)
           /\ Range(CompletePhase(p, s)) = Completed(s) \cup {p}
<1>1. s.completed_phases \in Seq(Phases)
  BY DEF SpiralStates
<1>2. CASE p \in Completed(s)
  BY <1>1, <1>2 DEF CompletePhase, Completed
<1>3. CASE p \notin Completed(s)
  <2>1. Append(s.completed_phases, p) \in Seq(Phases)
    BY <1>1
  <2>2. QED
    BY <1>1, <1>3, <2>1, RangeAppend DEF CompletePhase, Completed
<1>4. QED
  BY <1>2, <1>3

-----------------------------------------------------------------------------
(* Types.                                                                  *)

(* What pc says about the request and the decision in flight.              *)
InFlight ==
    /\ pc \in {"asking", "resuming"} => request \in Requests
    /\ pc = "resuming" <=> decision # None

TypeInv == TypeOK /\ InFlight

(* The updates a node returns are well-formed states.                      *)
LEMMA UpdateTypes ==
    ASSUME NEW s \in SpiralStates, NEW p \in Phases
    PROVE  /\ PhaseUpdate(p, s) \in SpiralStates
           /\ \A d \in Decisions : DecisionUpdate(p, s, d) \in SpiralStates
           /\ p \in GatePhases => OpenGateUpdate(p, s) \in SpiralStates
<1>1. /\ s.artifacts \in Seq(Phases)
      /\ s.pending_gate_id \in GatePhases \cup {None}
      /\ s.completed_phases \in Seq(Phases)
  BY DEF SpiralStates
<1>2. RecordPhaseArtifact(p, s) \in Seq(Phases)
  BY <1>1 DEF RecordPhaseArtifact
<1>3. CompletePhase(p, s) \in Seq(Phases)
  BY CompletePhaseRange
<1>4. PhaseUpdate(p, s) \in SpiralStates
  BY <1>1, <1>2, <1>3 DEF PhaseUpdate, SpiralStates
<1>5. \A d \in Decisions : DecisionUpdate(p, s, d) \in SpiralStates
  BY <1>1, <1>3 DEF DecisionUpdate, SpiralStates
<1>6. p \in GatePhases => OpenGateUpdate(p, s) \in SpiralStates
  BY <1>1, <1>2 DEF OpenGateUpdate, SpiralStates
<1>7. QED
  BY <1>4, <1>5, <1>6

(* A fresh state is well-formed.                                           *)
LEMMA InitialStateType ==
    /\ BlankState \in SpiralStates
    /\ \A seq \in PhaseSequences : InitialState(seq) \in SpiralStates
<1>1. \A seq \in Seq(Phases) : InitialState(seq) \in SpiralStates
  BY DEF InitialState, SpiralStates
<1>2. << >> \in Seq(Phases)
  OBVIOUS
<1>3. QED
  BY <1>1, <1>2, ParameterAssumption DEF BlankState

(* The types hold at first.                                                *)
LEMMA TypeInit == Init => TypeInv
  BY InitialStateType, SentinelAssumption
  DEF Init, TypeInv, TypeOK, InFlight, Resting, Busy

(* Every step preserves the types.                                         *)
LEMMA TypeStep == TypeInv /\ [Next]_vars => TypeInv'
<1> SUFFICES ASSUME TypeInv, [Next]_vars
             PROVE  TypeInv'
  OBVIOUS
<1> USE DEF TypeInv, TypeOK, InFlight, Resting, Busy
<1>1. ASSUME NEW seq \in PhaseSequences, NEW entry \in {"gated", "plain"},
             StartRun(seq, entry)
      PROVE  TypeInv'
  BY <1>1, InitialStateType DEF StartRun, MoveTo
<1>2. ASSUME NEW p \in Phases, RunPhase(p)
      PROVE  TypeInv'
  <2>1. st' \in SpiralStates
    BY <1>2, UpdateTypes DEF RunPhase, MoveTo
  <2>2. handled' \in [Phases -> Nat]
    BY <1>2 DEF RunPhase
  <2>3. QED
    BY <1>2, <2>1, <2>2 DEF RunPhase, MoveTo
<1>3. ASSUME NEW p \in Phases, OpenGate(p)
      PROVE  TypeInv'
  <2>1. st' \in SpiralStates
    BY <1>3, UpdateTypes DEF OpenGate, MoveTo
  <2>2. handled' \in [Phases -> Nat]
    BY <1>3 DEF OpenGate
  <2>3. QED
    BY <1>3, <2>1, <2>2 DEF OpenGate, MoveTo
<1>4. ASSUME NEW p \in Phases, AskApproval(p)
      PROVE  TypeInv'
  BY <1>4 DEF AskApproval, Flush, Checkpoint, Checkpoints, Requests, thread
<1>5. ASSUME NEW p \in Phases, StopAtGate(p)
      PROVE  TypeInv'
  BY <1>5 DEF StopAtGate, Flush, Checkpoint, Checkpoints, thread, history
<1>6. ASSUME NEW d \in Decisions, Answer(d)
      PROVE  TypeInv'
  BY <1>6, SentinelAssumption DEF Answer, Requests, thread
<1>7. ASSUME NEW p \in Phases, Resume(p)
      PROVE  TypeInv'
  BY <1>7, UpdateTypes DEF Resume, MoveTo, history
<1>8. CASE Finish
  BY <1>8 DEF Finish, Flush, Checkpoint, Checkpoints, thread, history
<1>9. ASSUME NEW p \in Phases, HandlerFails(p)
      PROVE  TypeInv'
  BY <1>9 DEF HandlerFails, Flush, Checkpoint, Checkpoints, thread
<1>10. CASE ApproverFails
  BY <1>10 DEF ApproverFails, thread, history
<1>11. CASE Persist
  BY <1>11 DEF Persist, Flush, Checkpoint, Checkpoints, thread, history
<1>12. CASE Crash
  BY <1>12, InitialStateType DEF Crash, Checkpoints, history
<1>13. CASE UNCHANGED vars
  BY <1>13 DEF vars, history
<1>14. QED
  BY <1>1, <1>2, <1>3, <1>4, <1>5, <1>6, <1>7, <1>8, <1>9, <1>10, <1>11, <1>12, <1>13
  DEF Next, NodeStep, Rest

(* The types of Spiral are invariant.                                      *)
THEOREM TypeCorrect == Spec => []TypeOK
<1>1. TypeInv => TypeOK
  BY DEF TypeInv
<1>2. QED
  BY <1>1, TypeInit, TypeStep, PTL DEF Spec

-----------------------------------------------------------------------------
(* The inductive invariant.                                                *)

(* The scheduled node is the one the router chooses for the state.         *)
Routed == pc # "crashed" => NextActivePhase(st, node)

(* A pending gate is the scheduled node.                                   *)
PendingIsScheduled == pc \in Busy => st.pending_gate_id \in {None, node}

(* While a prompt is out, or its answer not applied yet, the thread is     *)
(* stopped at the prompt's gate.                                           *)
PromptIsAtTheGate ==
    pc \in {"asking", "resuming"} =>
        /\ request.gate_id = node
        /\ st.pending_gate_id = node

(* Only planned phases are completed, and completed gates have approval.   *)
OnlyPlanned == pc # "crashed" => Completed(st) \subseteq Range(st.phase_sequence)
CompletedGatesApproved == pc # "crashed" => Completed(st) \cap GatePhases \subseteq approved

(* An approval on its way to the graph is the operator's, and so is the    *)
(* right to repeat the work after a revise.                                *)
AnswerInHand ==
    pc = "resuming" =>
        /\ decision = "approve" => request.gate_id \in approved
        /\ decision = "revise" => handled[request.gate_id] = revisions[request.gate_id]

(* A phase whose work is still to be done, or to be done again, has not    *)
(* used up what it was asked for, and is one run of its handler behind.    *)
WorkOwed ==
    pc \in Busy /\ st.last_decision # "reject" =>
        \A p \in Phases :
            p \notin Completed(st) /\ st.pending_gate_id # p => handled[p] = revisions[p]

(* A gate is pending when all the work it was asked for is done.           *)
WorkShown ==
    ( /\ pc \in Busy
      /\ st.pending_gate_id # None
      /\ ~ (pc = "resuming" /\ decision = "revise") )
    => handled[st.pending_gate_id] = revisions[st.pending_gate_id] + 1

(* Approvals are applied one by one.                                       *)
ApprovedAreCompleted ==
    pc \in Busy =>
        \A g \in approved :
            \/ g \in Completed(st)
            \/ pc = "resuming" /\ decision = "approve" /\ g = request.gate_id

SafetyInv ==
    /\ TypeInv
    /\ Routed
    /\ PendingIsScheduled
    /\ PromptIsAtTheGate
    /\ OnlyPlanned
    /\ CompletedGatesApproved
    /\ AnswerInHand
    /\ WorkOwed
    /\ WorkShown
    /\ ApprovedAreCompleted
    /\ NoWorkPastAnUnapprovedGate
    /\ WorkIsNotRepeated
    /\ FinishedMeansGoverned

(* What the three updates leave in the fields the invariant reads.         *)
LEMMA UpdateFields ==
    ASSUME NEW s \in SpiralStates, NEW p \in Phases
    PROVE  /\ PhaseUpdate(p, s).phase_sequence = s.phase_sequence
           /\ PhaseUpdate(p, s).completed_phases = CompletePhase(p, s)
           /\ PhaseUpdate(p, s).pending_gate_id = None
           /\ PhaseUpdate(p, s).last_decision = s.last_decision
           /\ OpenGateUpdate(p, s).phase_sequence = s.phase_sequence
           /\ OpenGateUpdate(p, s).completed_phases = s.completed_phases
           /\ OpenGateUpdate(p, s).pending_gate_id = p
           /\ OpenGateUpdate(p, s).last_decision = s.last_decision
           /\ \A d \in Decisions :
                /\ DecisionUpdate(p, s, d).phase_sequence = s.phase_sequence
                /\ DecisionUpdate(p, s, d).completed_phases =
                     IF d = "approve" THEN CompletePhase(p, s) ELSE s.completed_phases
                /\ DecisionUpdate(p, s, d).pending_gate_id =
                     IF d = "pause" THEN s.pending_gate_id ELSE None
                /\ DecisionUpdate(p, s, d).last_decision = d
  BY DEF PhaseUpdate, OpenGateUpdate, DecisionUpdate, SpiralStates

(* States that agree on plan, completed phases and verdict route alike.    *)
LEMMA RouteDependsOn ==
    ASSUME NEW s \in SpiralStates, NEW t \in SpiralStates, NEW n,
           t.phase_sequence = s.phase_sequence,
           t.completed_phases = s.completed_phases,
           t.last_decision # "reject", s.last_decision # "reject",
           NextActivePhase(s, n)
    PROVE  NextActivePhase(t, n)
  BY DEF NextActivePhase, IsFirstActive, Completed

(* In front of a first active phase every gate has its approval.           *)
LEMMA FirstActiveHasApprovals ==
    ASSUME SafetyInv, pc # "crashed", NEW p \in Phases, IsFirstActive(st, p)
    PROVE  \E k \in DOMAIN st.phase_sequence :
                st.phase_sequence[k] = p /\ GatesApprovedBefore(k)
<1>1. PICK k \in DOMAIN st.phase_sequence :
         /\ st.phase_sequence[k] = p
         /\ \A j \in 1..(k - 1) : st.phase_sequence[j] \in Completed(st)
  BY DEF IsFirstActive
<1>2. GatesApprovedBefore(k)
  BY <1>1 DEF GatesApprovedBefore, SafetyInv, CompletedGatesApproved
<1>3. QED
  BY <1>1, <1>2

LEMMA SafetyInit == Init => SafetyInv
<1> SUFFICES ASSUME Init
             PROVE  SafetyInv
  OBVIOUS
<1>1. Range(BlankState.phase_sequence) = {} /\ Completed(BlankState) = {}
  BY DEF BlankState, InitialState, Range, Completed
<1>2. BlankState.last_decision = None /\ BlankState.pending_gate_id = None
  BY DEF BlankState, InitialState
<1>3. NextActivePhase(BlankState, End)
  BY <1>1, <1>2, SentinelAssumption DEF NextActivePhase, Decisions
<1>4. NoWorkPastAnUnapprovedGate /\ WorkIsNotRepeated
  BY DEF Init, NoWorkPastAnUnapprovedGate, WorkIsNotRepeated
<1>5. QED
  BY <1>1, <1>2, <1>3, <1>4, TypeInit
  DEF Init, SafetyInv, Routed, PendingIsScheduled, PromptIsAtTheGate, OnlyPlanned,
      CompletedGatesApproved, AnswerInHand, WorkOwed, WorkShown, ApprovedAreCompleted,
      FinishedMeansGoverned, Busy

-----------------------------------------------------------------------------
(* One lemma per action that changes the thread.                           *)

LEMMA SafetyStartRun ==
    ASSUME SafetyInv, TypeInv',
           NEW seq \in PhaseSequences, NEW entry \in {"gated", "plain"}, StartRun(seq, entry)
    PROVE  SafetyInv'
<1>1. /\ st'.completed_phases = << >> /\ st'.pending_gate_id = None
      /\ pc' = "running" /\ NextActivePhase(st', node')
      /\ handled' = [p \in Phases |-> 0] /\ revisions' = [p \in Phases |-> 0]
  BY DEF StartRun, MoveTo, InitialState
<1>2. Completed(st)' = {}
  BY <1>1 DEF Completed, Range
<1>3. /\ WorkOwed' /\ WorkShown' /\ ApprovedAreCompleted'
      /\ NoWorkPastAnUnapprovedGate' /\ WorkIsNotRepeated'
  BY <1>1 DEF StartRun, WorkOwed, WorkShown, ApprovedAreCompleted, NoWorkPastAnUnapprovedGate, WorkIsNotRepeated
<1>4. QED
  BY <1>1, <1>2, <1>3
  DEF SafetyInv, Routed, PendingIsScheduled, PromptIsAtTheGate, OnlyPlanned,
      CompletedGatesApproved, AnswerInHand, FinishedMeansGoverned

LEMMA SafetyRunPhase ==
    ASSUME SafetyInv, TypeInv', NEW p \in Phases, RunPhase(p)
    PROVE  SafetyInv'
<1> USE DEF SafetyInv
<1>1. /\ pc = "running" /\ pc' = "running" /\ node = p /\ p \notin GatePhases
      /\ st \in SpiralStates /\ st' = PhaseUpdate(p, st) /\ NextActivePhase(st', node')
      /\ UNCHANGED <<approved, revisions>>
      /\ handled' = [handled EXCEPT ![p] = @ + 1]
      /\ handled \in [Phases -> Nat] /\ revisions \in [Phases -> Nat]
  BY DEF RunPhase, MoveTo, TypeInv, TypeOK
<1>2. st.last_decision # "reject" /\ IsFirstActive(st, p)
  BY <1>1, ScheduledPhase DEF Routed
<1>3. p \in Range(st.phase_sequence) /\ p \notin Completed(st)
  BY <1>1, <1>2, FirstActiveIsPlanned
<1>4. /\ Completed(st') = Completed(st) \cup {p}
      /\ st'.phase_sequence = st.phase_sequence
      /\ st'.pending_gate_id = None
      /\ st'.last_decision = st.last_decision
  BY <1>1, UpdateFields, CompletePhaseRange DEF Completed
<1>5. st.pending_gate_id # p
  BY <1>1, SentinelAssumption DEF SpiralStates
<1>6. handled[p] = revisions[p]
  BY <1>1, <1>2, <1>3, <1>5 DEF WorkOwed, Busy
<1>7. NoWorkPastAnUnapprovedGate'
  <2>1. \E k \in DOMAIN st.phase_sequence : st.phase_sequence[k] = p /\ GatesApprovedBefore(k)
    BY <1>1, <1>2, FirstActiveHasApprovals
  <2>2. \A q \in Phases : handled'[q] > 0 => q = p \/ handled[q] > 0
    BY <1>1
  <2>3. \A k : GatesApprovedBefore(k)' = GatesApprovedBefore(k)
    BY <1>1, <1>4 DEF GatesApprovedBefore
  <2>4. QED
    BY <1>1, <1>4, <2>1, <2>2, <2>3 DEF NoWorkPastAnUnapprovedGate
<1>8. WorkIsNotRepeated' /\ WorkOwed' /\ WorkShown' /\ ApprovedAreCompleted'
  <2>1. \A q \in Phases : q # p => handled'[q] = handled[q]
    BY <1>1
  <2>2. handled'[p] = handled[p] + 1
    BY <1>1
  <2>3. WorkIsNotRepeated'
    BY <1>1, <1>6, <2>1, <2>2 DEF WorkIsNotRepeated
  <2>4. ASSUME NEW q \in Phases, q \notin Completed(st')
        PROVE  handled'[q] = revisions'[q]
    <3>1. q # p /\ q \notin Completed(st)
      BY <1>4, <2>4
    <3>2. st.pending_gate_id # q
      BY <1>1, <3>1, SentinelAssumption DEF PendingIsScheduled, Busy
    <3>3. QED
      BY <1>1, <1>2, <2>1, <3>1, <3>2 DEF WorkOwed, Busy
  <2>5. WorkShown' /\ ApprovedAreCompleted'
    BY <1>1, <1>4 DEF WorkShown, ApprovedAreCompleted, Busy
  <2>6. QED
    BY <2>3, <2>4, <2>5 DEF WorkOwed
<1>9. QED
  BY <1>1, <1>3, <1>4, <1>7, <1>8
  DEF Routed, PendingIsScheduled, PromptIsAtTheGate, OnlyPlanned,
      CompletedGatesApproved, AnswerInHand, FinishedMeansGoverned

LEMMA SafetyOpenGate ==
    ASSUME SafetyInv, TypeInv', NEW p \in Phases, OpenGate(p)
    PROVE  SafetyInv'
<1> USE DEF SafetyInv
<1>1. /\ pc = "running" /\ pc' = "running" /\ node = p /\ st.pending_gate_id # p
      /\ st \in SpiralStates /\ st' = OpenGateUpdate(p, st) /\ NextActivePhase(st', node')
      /\ UNCHANGED <<approved, revisions>>
      /\ handled' = [handled EXCEPT ![p] = @ + 1]
      /\ handled \in [Phases -> Nat] /\ revisions \in [Phases -> Nat]
      /\ st' \in SpiralStates
  BY DEF OpenGate, MoveTo, TypeInv, TypeOK
<1>2. st.last_decision # "reject" /\ IsFirstActive(st, p) /\ NextActivePhase(st, p)
  BY <1>1, ScheduledPhase DEF Routed
<1>3. p \notin Completed(st)
  BY <1>1, <1>2, FirstActiveIsPlanned
<1>4. /\ st'.completed_phases = st.completed_phases
      /\ Completed(st') = Completed(st)
      /\ st'.phase_sequence = st.phase_sequence
      /\ st'.pending_gate_id = p
      /\ st'.last_decision = st.last_decision
  BY <1>1, UpdateFields DEF Completed
<1>5. node' = p
  <2>1. NextActivePhase(st', p)
    BY <1>1, <1>2, <1>4, RouteDependsOn
  <2>2. QED
    BY <1>1, <2>1, RouteUnique
<1>6. handled[p] = revisions[p]
  BY <1>1, <1>2, <1>3 DEF WorkOwed, Busy
<1>7. NoWorkPastAnUnapprovedGate'
  <2>1. \E k \in DOMAIN st.phase_sequence : st.phase_sequence[k] = p /\ GatesApprovedBefore(k)
    BY <1>1, <1>2, FirstActiveHasApprovals
  <2>2. \A q \in Phases : handled'[q] > 0 => q = p \/ handled[q] > 0
    BY <1>1
  <2>3. \A k : GatesApprovedBefore(k)' = GatesApprovedBefore(k)
    BY <1>1, <1>4 DEF GatesApprovedBefore
  <2>4. QED
    BY <1>1, <1>4, <2>1, <2>2, <2>3 DEF NoWorkPastAnUnapprovedGate
<1>8. WorkIsNotRepeated' /\ WorkOwed' /\ WorkShown' /\ ApprovedAreCompleted'
  <2>1. \A q \in Phases : q # p => handled'[q] = handled[q]
    BY <1>1
  <2>2. handled'[p] = handled[p] + 1
    BY <1>1
  <2>3. WorkIsNotRepeated'
    BY <1>1, <1>6, <2>1, <2>2 DEF WorkIsNotRepeated
  <2>4. ASSUME NEW q \in Phases, q \notin Completed(st'), st'.pending_gate_id # q
        PROVE  handled'[q] = revisions'[q]
    <3>1. q # p /\ q \notin Completed(st)
      BY <1>4, <2>4
    <3>2. st.pending_gate_id # q
      BY <1>1, <3>1, SentinelAssumption DEF PendingIsScheduled, Busy
    <3>3. QED
      BY <1>1, <1>2, <2>1, <3>1, <3>2 DEF WorkOwed, Busy
  <2>5. WorkShown'
    BY <1>1, <1>4, <1>6, <2>2 DEF WorkShown
  <2>6. ApprovedAreCompleted'
    BY <1>1, <1>4 DEF ApprovedAreCompleted, Busy
  <2>7. QED
    BY <2>3, <2>4, <2>5, <2>6 DEF WorkOwed
<1>9. QED
  BY <1>1, <1>4, <1>5, <1>7, <1>8
  DEF Routed, PendingIsScheduled, PromptIsAtTheGate, OnlyPlanned,
      CompletedGatesApproved, AnswerInHand, FinishedMeansGoverned

LEMMA SafetyAnswer ==
    ASSUME SafetyInv, TypeInv', NEW d \in Decisions, Answer(d)
    PROVE  SafetyInv'
<1> USE DEF SafetyInv
<1>1. /\ pc = "asking" /\ pc' = "resuming" /\ decision' = d
      /\ UNCHANGED <<st, node, saved, driver, request, handled>>
      /\ request.gate_id \in GatePhases /\ request.gate_id = node
      /\ st.pending_gate_id = node
      /\ approved \subseteq approved'
      /\ handled \in [Phases -> Nat] /\ revisions \in [Phases -> Nat]
      /\ revisions' \in [Phases -> Nat]
      /\ GatePhases \subseteq Phases
  BY ParameterAssumption
  DEF Answer, TypeInv, TypeOK, InFlight, Requests, PromptIsAtTheGate, thread
<1>2. \A p \in Phases : revisions[p] <= revisions'[p]
  BY <1>1 DEF Answer
<1>3. AnswerInHand'
  <2>1. d = "approve" => request.gate_id \in approved'
    BY DEF Answer
  <2>2. d = "revise" => handled[request.gate_id] = revisions'[request.gate_id]
    <3>1. handled[request.gate_id] = revisions[request.gate_id] + 1
      BY <1>1, SentinelAssumption DEF WorkShown, Busy
    <3>2. d = "revise" => revisions'[request.gate_id] = revisions[request.gate_id] + 1
      BY <1>1 DEF Answer
    <3>3. QED
      BY <3>1, <3>2
  <2>3. QED
    BY <1>1, <2>1, <2>2 DEF AnswerInHand
<1>4. WorkOwed' /\ WorkIsNotRepeated'
  <2>1. \A p \in Phases : p # request.gate_id => revisions'[p] = revisions[p]
    BY <1>1 DEF Answer
  <2>2. QED
    BY <1>1, <1>2, <2>1 DEF WorkOwed, WorkIsNotRepeated, Busy
<1>7. WorkShown'
  <2>1. d # "revise" => revisions' = revisions
    BY DEF Answer
  <2>2. QED
    BY <1>1, <2>1 DEF WorkShown, Busy
<1>8. ApprovedAreCompleted'
  <2>1. approved' = IF d = "approve" THEN approved \cup {request.gate_id} ELSE approved
    BY DEF Answer
  <2>2. QED
    BY <1>1, <2>1 DEF ApprovedAreCompleted, Busy
<1>5. NoWorkPastAnUnapprovedGate'
  BY <1>1 DEF NoWorkPastAnUnapprovedGate, GatesApprovedBefore
<1>6. QED
  BY <1>1, <1>3, <1>4, <1>5, <1>7, <1>8
  DEF Routed, PendingIsScheduled, PromptIsAtTheGate, OnlyPlanned,
      CompletedGatesApproved, FinishedMeansGoverned, Busy

LEMMA SafetyResume ==
    ASSUME SafetyInv, TypeInv', NEW p \in Phases, Resume(p)
    PROVE  SafetyInv'
<1> USE DEF SafetyInv
<1>1. /\ pc = "resuming" /\ pc' = "running" /\ node = p /\ st.pending_gate_id = p
      /\ decision \in Decisions /\ request.gate_id = p
      /\ st \in SpiralStates /\ st' = DecisionUpdate(p, st, decision)
      /\ NextActivePhase(st', node')
      /\ UNCHANGED <<approved, handled, revisions>>
      /\ st' \in SpiralStates
  BY DEF Resume, MoveTo, TypeInv, TypeOK, InFlight, PromptIsAtTheGate, history
<1>2. st.last_decision # "reject" /\ IsFirstActive(st, p) /\ NextActivePhase(st, p)
  BY <1>1, ScheduledPhase DEF Routed
<1>3. p \in Range(st.phase_sequence) /\ p \notin Completed(st)
  BY <1>1, <1>2, FirstActiveIsPlanned
<1>4. /\ st'.phase_sequence = st.phase_sequence
      /\ st'.last_decision = decision
      /\ st'.pending_gate_id = IF decision = "pause" THEN p ELSE None
      /\ st'.completed_phases =
           IF decision = "approve" THEN CompletePhase(p, st) ELSE st.completed_phases
      /\ Completed(st') =
           IF decision = "approve" THEN Completed(st) \cup {p} ELSE Completed(st)
  <2>1. /\ st'.phase_sequence = st.phase_sequence
        /\ st'.last_decision = decision
        /\ st'.pending_gate_id = IF decision = "pause" THEN p ELSE None
        /\ st'.completed_phases =
             IF decision = "approve" THEN CompletePhase(p, st) ELSE st.completed_phases
    BY <1>1, UpdateFields
  <2>2. Range(CompletePhase(p, st)) = Completed(st) \cup {p}
    BY <1>1, CompletePhaseRange
  <2>3. QED
    BY <2>1, <2>2 DEF Completed
<1>5. PendingIsScheduled'
  <2>1. CASE decision = "pause"
    <3>1. NextActivePhase(st', p)
      BY <1>1, <1>2, <1>4, <2>1, RouteDependsOn
    <3>2. QED
      BY <1>1, <1>4, <3>1, RouteUnique DEF PendingIsScheduled
  <2>2. CASE decision # "pause"
    BY <1>4, <2>2 DEF PendingIsScheduled
  <2>3. QED
    BY <2>1, <2>2
<1>6. WorkOwed'
  <2>1. SUFFICES ASSUME st'.last_decision # "reject",
                        NEW q \in Phases, q \notin Completed(st'), st'.pending_gate_id # q
                 PROVE  handled[q] = revisions[q]
    BY <1>1 DEF WorkOwed
  <2>2. CASE q = p
    BY <1>1, <1>4, <2>1, <2>2 DEF AnswerInHand, Decisions
  <2>3. CASE q # p
    BY <1>1, <1>2, <1>4, <2>1, <2>3 DEF WorkOwed, Busy
  <2>4. QED
    BY <2>2, <2>3
<1>7. CompletedGatesApproved' /\ OnlyPlanned'
  BY <1>1, <1>3, <1>4 DEF CompletedGatesApproved, OnlyPlanned, AnswerInHand
<1>8. NoWorkPastAnUnapprovedGate' /\ WorkIsNotRepeated'
  BY <1>1, <1>4 DEF NoWorkPastAnUnapprovedGate, GatesApprovedBefore, WorkIsNotRepeated
<1>9. WorkShown' /\ ApprovedAreCompleted'
  BY <1>1, <1>4 DEF WorkShown, ApprovedAreCompleted, Busy
<1>10. QED
  BY <1>1, <1>5, <1>6, <1>7, <1>8, <1>9
  DEF Routed, PromptIsAtTheGate, AnswerInHand, FinishedMeansGoverned

LEMMA SafetyHandlerFails ==
    ASSUME SafetyInv, TypeInv', NEW p \in Phases, HandlerFails(p)
    PROVE  SafetyInv'
<1> USE DEF SafetyInv
<1>1. /\ pc = "running" /\ pc' = "failed" /\ node = p /\ st.pending_gate_id # p
      /\ st \in SpiralStates
      /\ UNCHANGED <<st, node, approved, revisions>>
      /\ handled' = [handled EXCEPT ![p] = @ + 1]
      /\ handled \in [Phases -> Nat] /\ revisions \in [Phases -> Nat]
  BY DEF HandlerFails, TypeInv, TypeOK, thread
<1>2. st.last_decision # "reject" /\ IsFirstActive(st, p)
  BY <1>1, ScheduledPhase DEF Routed
<1>3. p \notin Completed(st)
  BY <1>1, <1>2, FirstActiveIsPlanned
<1>4. handled[p] = revisions[p]
  BY <1>1, <1>2, <1>3 DEF WorkOwed, Busy
<1>5. \A q \in Phases : handled'[q] = IF q = p THEN handled[p] + 1 ELSE handled[q]
  BY <1>1
<1>6. NoWorkPastAnUnapprovedGate'
  <2>1. \E k \in DOMAIN st.phase_sequence : st.phase_sequence[k] = p /\ GatesApprovedBefore(k)
    BY <1>1, <1>2, FirstActiveHasApprovals
  <2>2. \A k : GatesApprovedBefore(k)' = GatesApprovedBefore(k)
    BY <1>1 DEF GatesApprovedBefore
  <2>3. QED
    BY <1>1, <1>5, <2>1, <2>2 DEF NoWorkPastAnUnapprovedGate
<1>7. WorkIsNotRepeated'
  BY <1>1, <1>4, <1>5 DEF WorkIsNotRepeated
<1>8. QED
  BY <1>1, <1>6, <1>7
  DEF Routed, PendingIsScheduled, PromptIsAtTheGate, OnlyPlanned,
      CompletedGatesApproved, AnswerInHand, WorkOwed, WorkShown, ApprovedAreCompleted,
      FinishedMeansGoverned, Busy

(* Steps that leave the thread and the history alone.                      *)
LEMMA SafetyQuietStep ==
    ASSUME SafetyInv, TypeInv', UNCHANGED <<st, node, approved, handled, revisions>>,
           pc # "crashed", pc' # "crashed",
           pc' \in Busy => pc \in Busy,
           pc # "resuming", pc' # "resuming",
           PromptIsAtTheGate', FinishedMeansGoverned'
    PROVE  SafetyInv'
<1>1. WorkOwed' /\ WorkShown' /\ ApprovedAreCompleted' /\ WorkIsNotRepeated'
  BY DEF SafetyInv, WorkOwed, WorkShown, ApprovedAreCompleted, WorkIsNotRepeated
<1>2. NoWorkPastAnUnapprovedGate'
  BY DEF SafetyInv, NoWorkPastAnUnapprovedGate, GatesApprovedBefore
<1>3. QED
  BY <1>1, <1>2
  DEF SafetyInv, Routed, PendingIsScheduled, OnlyPlanned, CompletedGatesApproved, AnswerInHand

LEMMA SafetyStep == SafetyInv /\ [Next]_vars => SafetyInv'
<1> SUFFICES ASSUME SafetyInv, [Next]_vars
             PROVE  SafetyInv'
  OBVIOUS
<1>t. TypeInv'
  BY TypeStep DEF SafetyInv
<1>1. ASSUME NEW p \in Phases, AskApproval(p)
      PROVE  SafetyInv'
  BY <1>t, <1>1, SafetyQuietStep
  DEF AskApproval, thread, Busy, PromptIsAtTheGate, FinishedMeansGoverned
<1>2. ASSUME NEW p \in Phases, StopAtGate(p)
      PROVE  SafetyInv'
  BY <1>t, <1>2, SafetyQuietStep
  DEF StopAtGate, Flush, thread, history, Busy, PromptIsAtTheGate, FinishedMeansGoverned
<1>3. CASE Finish
  <2>1. NextActivePhase(st, End) /\ st \in SpiralStates
    BY <1>3 DEF Finish, SafetyInv, Routed, TypeInv, TypeOK
  <2>2. ~ IsFirstActive(st, End)
    BY <2>1, FirstActiveIsPlanned, SentinelAssumption
  <2>3. st.last_decision = "reject" \/ Range(st.phase_sequence) \subseteq Completed(st)
    BY <2>1, <2>2 DEF NextActivePhase
  <2>4. FinishedMeansGoverned'
    BY <1>3, <2>3
    DEF Finish, thread, history, SafetyInv, OnlyPlanned, CompletedGatesApproved,
        FinishedMeansGoverned, Completed
  <2>5. QED
    BY <1>t, <1>3, <2>4, SafetyQuietStep
    DEF Finish, Flush, thread, history, Busy, PromptIsAtTheGate
<1>4. CASE ApproverFails
  BY <1>t, <1>4, SafetyQuietStep
  DEF ApproverFails, thread, history, Busy, PromptIsAtTheGate, FinishedMeansGoverned
<1>5. CASE Persist
  BY <1>t, <1>5, SafetyQuietStep
  DEF Persist, thread, history, Busy, PromptIsAtTheGate, FinishedMeansGoverned
<1>6. CASE Crash
  BY <1>t, <1>6
  DEF Crash, SafetyInv, Routed, PendingIsScheduled, PromptIsAtTheGate, OnlyPlanned,
      CompletedGatesApproved, AnswerInHand, WorkOwed, WorkShown, ApprovedAreCompleted,
      NoWorkPastAnUnapprovedGate, WorkIsNotRepeated, FinishedMeansGoverned, Busy
<1>7. CASE UNCHANGED vars
  <2>1. /\ WorkOwed' /\ WorkShown' /\ ApprovedAreCompleted'
        /\ WorkIsNotRepeated' /\ AnswerInHand'
    BY <1>7
    DEF vars, history, SafetyInv, WorkOwed, WorkShown, ApprovedAreCompleted,
        WorkIsNotRepeated, AnswerInHand
  <2>2. NoWorkPastAnUnapprovedGate'
    BY <1>7 DEF vars, history, SafetyInv, NoWorkPastAnUnapprovedGate, GatesApprovedBefore
  <2>3. QED
    BY <1>t, <1>7, <2>1, <2>2
    DEF vars, history, SafetyInv, Routed, PendingIsScheduled, PromptIsAtTheGate,
        OnlyPlanned, CompletedGatesApproved, FinishedMeansGoverned
<1>8. QED
  BY <1>t, <1>1, <1>2, <1>3, <1>4, <1>5, <1>6, <1>7, SafetyStartRun, SafetyRunPhase,
     SafetyOpenGate, SafetyAnswer, SafetyResume, SafetyHandlerFails
  DEF Next, NodeStep, Rest

-----------------------------------------------------------------------------
(* The theorems.                                                           *)

LEMMA SafetyCorrect == Spec => []SafetyInv
  BY SafetyInit, SafetyStep, PTL DEF Spec

(* For every plan and choice of gates: no handler is started before every  *)
(* gate in front of its phase has the operator's approval.                 *)
THEOREM GatesComeFirst == Spec => []NoWorkPastAnUnapprovedGate
<1>1. SafetyInv => NoWorkPastAnUnapprovedGate
  BY DEF SafetyInv
<1>2. QED
  BY <1>1, SafetyCorrect, PTL

(* For every number of revisions and pauses: a prompt shows work that was  *)
(* done since the last one, unless it was only put off, and never a gate   *)
(* that is approved already.                                               *)
THEOREM PromptsAreFresh == Spec => []PromptsShowFreshWork
<1>1. SafetyInv => PromptsShowFreshWork
  <2> SUFFICES ASSUME SafetyInv, pc = "asking"
               PROVE  /\ handled[request.gate_id] = revisions[request.gate_id] + 1
                      /\ request.gate_id \notin approved
    BY DEF PromptsShowFreshWork
  <2>1. /\ request.gate_id \in Phases /\ request.gate_id = node /\ st.pending_gate_id = node
        /\ pc \in Busy /\ node # None /\ pc # "crashed" /\ st \in SpiralStates
    BY ParameterAssumption, SentinelAssumption
    DEF SafetyInv, PromptIsAtTheGate, TypeInv, TypeOK, InFlight, Requests, Busy
  <2>2. handled[node] = revisions[node] + 1
    BY <2>1 DEF SafetyInv, WorkShown
  <2>3. IsFirstActive(st, node)
    BY <2>1, ScheduledPhase DEF SafetyInv, Routed, TypeInv, TypeOK
  <2>4. node \notin Completed(st)
    BY <2>1, <2>3, FirstActiveIsPlanned
  <2>5. QED
    BY <2>1, <2>2, <2>4 DEF SafetyInv, ApprovedAreCompleted
<1>2. QED
  BY <1>1, SafetyCorrect, PTL

(* No handler is started more often than once plus once per revise.        *)
THEOREM NoRepeatedWork == Spec => []WorkIsNotRepeated
<1>1. SafetyInv => WorkIsNotRepeated
  BY DEF SafetyInv
<1>2. QED
  BY <1>1, SafetyCorrect, PTL

(* A gated run reported as finished was rejected or is complete, with the  *)
(* approval of each of its gates.                                          *)
THEOREM FinishedIsGoverned == Spec => []FinishedMeansGoverned
<1>1. SafetyInv => FinishedMeansGoverned
  BY DEF SafetyInv
<1>2. QED
  BY <1>1, SafetyCorrect, PTL

(* Once a gate is rejected, no handler starts before the driver is called  *)
(* anew.                                                                   *)
THEOREM RejectedMeansStopped == Spec => RejectionIsFinal
<1>1. SafetyInv /\ [Next]_vars =>
        [ (decision = "reject" \/ (pc # "crashed" /\ st.last_decision = "reject"))
          /\ handled' # handled
              => runs' # runs ]_vars
  <2> SUFFICES ASSUME SafetyInv, Next,
                      decision = "reject" \/ (pc # "crashed" /\ st.last_decision = "reject"),
                      handled' # handled
               PROVE  runs' # runs
    OBVIOUS
  <2>1. pc \in {"running"} => decision = None
    BY DEF SafetyInv, TypeInv, InFlight
  <2>2. ASSUME NEW p \in Phases, pc = "running", node = p
        PROVE  FALSE
    <3>1. NextActivePhase(st, p) /\ st \in SpiralStates
      BY <2>2 DEF SafetyInv, Routed, TypeInv, TypeOK
    <3>2. st.last_decision # "reject"
      BY <3>1, ScheduledPhase
    <3>3. QED
      BY <2>1, <2>2, <3>2, SentinelAssumption DEF Decisions
  <2>3. ASSUME NEW seq \in PhaseSequences, NEW entry \in {"gated", "plain"},
               StartRun(seq, entry)
        PROVE  runs' # runs
    BY <2>3 DEF StartRun, SafetyInv, TypeInv, TypeOK
  <2>4. QED
    BY <2>2, <2>3
    DEF Next, NodeStep, RunPhase, OpenGate, AskApproval, StopAtGate, Answer, Resume, Finish,
        HandlerFails, ApproverFails, Persist, Crash, Rest, vars, history
<1>2. QED
  BY <1>1, SafetyCorrect, PTL DEF Spec, RejectionIsFinal

-----------------------------------------------------------------------------
(* The order in which phases are completed.                                *)

(* A state with other completed phases.                                    *)
Having(s, q) == [s EXCEPT !.completed_phases = q]

(* CompletedInPlanOrder, of any state: the thread's or a checkpoint's.     *)
InPlanOrder(s) ==
    \A i \in DOMAIN s.completed_phases :
        IsFirstActive(Having(s, SubSeq(s.completed_phases, 1, i - 1)), s.completed_phases[i])

OrderInv ==
    /\ InPlanOrder(st)
    /\ saved # None => InPlanOrder(saved.values)

(* Whether a phase is the first active one is a matter of the plan and of  *)
(* the completed phases alone.                                             *)
LEMMA FirstActiveDependsOn ==
    ASSUME NEW s \in SpiralStates, NEW t \in SpiralStates, NEW q, NEW p,
           t.phase_sequence = s.phase_sequence
    PROVE  IsFirstActive(Having(t, q), p) <=> IsFirstActive(Having(s, q), p)
<1>1. /\ Having(t, q).phase_sequence = s.phase_sequence
      /\ Having(t, q).completed_phases = q
      /\ Having(s, q).phase_sequence = s.phase_sequence
      /\ Having(s, q).completed_phases = q
  BY DEF SpiralStates, Having
<1>2. QED
  BY <1>1 DEF IsFirstActive, Completed

LEMMA OrderIsKept ==
    ASSUME NEW s \in SpiralStates, NEW t \in SpiralStates,
           t.phase_sequence = s.phase_sequence, t.completed_phases = s.completed_phases,
           InPlanOrder(s)
    PROVE  InPlanOrder(t)
<1>1. ASSUME NEW i \in DOMAIN t.completed_phases
      PROVE  IsFirstActive(Having(t, SubSeq(t.completed_phases, 1, i - 1)), t.completed_phases[i])
  BY <1>1, FirstActiveDependsOn DEF InPlanOrder
<1>2. QED
  BY <1>1 DEF InPlanOrder

(* Completing the first active phase keeps the order.                      *)
LEMMA OrderExtends ==
    ASSUME NEW s \in SpiralStates, NEW t \in SpiralStates, NEW p \in Phases,
           IsFirstActive(s, p), InPlanOrder(s),
           t.phase_sequence = s.phase_sequence, t.completed_phases = CompletePhase(p, s)
    PROVE  InPlanOrder(t)
<1> DEFINE q == s.completed_phases
           n == Len(q)
<1>1. q \in Seq(Phases) /\ n \in Nat /\ DOMAIN q = 1..n
  BY DEF SpiralStates
<1>2. t.completed_phases = Append(q, p)
  BY FirstActiveIsPlanned DEF CompletePhase
<1>3. /\ DOMAIN Append(q, p) = 1..(n + 1)
      /\ Append(q, p)[n + 1] = p
      /\ \A i \in 1..n : Append(q, p)[i] = q[i]
  BY <1>1
<1>4. \A i \in 1..(n + 1) : SubSeq(Append(q, p), 1, i - 1) = SubSeq(q, 1, i - 1)
  BY <1>1
<1>5. SubSeq(q, 1, n) = q /\ Having(s, q) = s
  BY <1>1 DEF SpiralStates, Having
<1> HIDE DEF q
<1>6. ASSUME NEW i \in 1..(n + 1)
      PROVE  IsFirstActive(Having(t, SubSeq(Append(q, p), 1, i - 1)), Append(q, p)[i])
  <2>1. CASE i \in 1..n
    <3>1. IsFirstActive(Having(s, SubSeq(q, 1, i - 1)), q[i])
      BY <1>1, <2>1 DEF InPlanOrder, q
    <3>2. QED
      BY <1>3, <1>4, <1>6, <2>1, <3>1, FirstActiveDependsOn
  <2>2. CASE i = n + 1
    <3>1. i - 1 = n
      BY <1>1, <2>2
    <3>2. SubSeq(Append(q, p), 1, i - 1) = q
      BY <1>4, <1>5, <1>6, <3>1
    <3>3. IsFirstActive(Having(s, q), p)
      BY <1>5
    <3>4. IsFirstActive(Having(t, q), p)
      BY <3>3, FirstActiveDependsOn
    <3>5. QED
      BY <1>3, <2>2, <3>2, <3>4
  <2>3. QED
    BY <1>1, <2>1, <2>2
<1>7. QED
  BY <1>2, <1>3, <1>6 DEF InPlanOrder

LEMMA OrderInit == Init => OrderInv
  BY DEF Init, OrderInv, InPlanOrder, BlankState, InitialState

LEMMA OrderStep == SafetyInv /\ SafetyInv' /\ OrderInv /\ [Next]_vars => OrderInv'
<1> SUFFICES ASSUME SafetyInv, SafetyInv', OrderInv, [Next]_vars
             PROVE  OrderInv'
  OBVIOUS
<1>t. st \in SpiralStates /\ st' \in SpiralStates
  BY DEF SafetyInv, TypeInv, TypeOK
<1>1. ASSUME NEW seq \in PhaseSequences, NEW entry \in {"gated", "plain"},
             StartRun(seq, entry)
      PROVE  OrderInv'
  BY <1>1 DEF StartRun, MoveTo, InitialState, OrderInv, InPlanOrder
<1>2. ASSUME NEW p \in Phases, RunPhase(p)
      PROVE  OrderInv'
  <2>1. st' = PhaseUpdate(p, st) /\ saved' = saved /\ NextActivePhase(st, p)
    BY <1>2 DEF RunPhase, MoveTo, SafetyInv, Routed
  <2>2. IsFirstActive(st, p)
    BY <1>t, <2>1, ScheduledPhase
  <2>3. InPlanOrder(st')
    BY <1>t, <2>1, <2>2, UpdateFields, OrderExtends DEF OrderInv
  <2>4. QED
    BY <2>1, <2>3 DEF OrderInv
<1>3. ASSUME NEW p \in Phases, OpenGate(p)
      PROVE  OrderInv'
  <2>1. st' = OpenGateUpdate(p, st) /\ saved' = saved
    BY <1>3 DEF OpenGate, MoveTo
  <2>2. InPlanOrder(st')
    BY <1>t, <2>1, UpdateFields, OrderIsKept DEF OrderInv
  <2>3. QED
    BY <2>1, <2>2 DEF OrderInv
<1>4. ASSUME NEW p \in Phases, Resume(p)
      PROVE  OrderInv'
  <2>1. /\ st' = DecisionUpdate(p, st, decision) /\ saved' = saved /\ NextActivePhase(st, p)
        /\ decision \in Decisions
    BY <1>4 DEF Resume, MoveTo, SafetyInv, Routed, TypeInv, TypeOK, InFlight
  <2>2. IsFirstActive(st, p)
    BY <1>t, <2>1, ScheduledPhase
  <2>3. /\ st'.phase_sequence = st.phase_sequence
        /\ st'.completed_phases = IF decision = "approve" THEN CompletePhase(p, st)
                                                          ELSE st.completed_phases
    BY <1>t, <2>1, UpdateFields
  <2>4. InPlanOrder(st')
    <3>1. CASE decision = "approve"
      BY <1>t, <2>2, <2>3, <3>1, OrderExtends DEF OrderInv
    <3>2. CASE decision # "approve"
      BY <1>t, <2>3, <3>2, OrderIsKept DEF OrderInv
    <3>3. QED
      BY <3>1, <3>2
  <2>5. QED
    BY <2>1, <2>4 DEF OrderInv
<1>5. ASSUME Flush, UNCHANGED st
      PROVE  OrderInv'
  BY <1>5 DEF Flush, Checkpoint, OrderInv
<1>6. CASE Crash
  <2>1. InPlanOrder(BlankState)
    BY DEF InPlanOrder, BlankState, InitialState
  <2>2. QED
    BY <1>6, <2>1 DEF Crash, OrderInv
<1>7. CASE UNCHANGED <<st, saved>>
  BY <1>7 DEF OrderInv
<1>8. QED
  BY <1>1, <1>2, <1>3, <1>4, <1>5, <1>6, <1>7
  DEF Next, NodeStep, AskApproval, StopAtGate, Answer, Finish, HandlerFails, ApproverFails,
      Persist, Rest, vars, thread

(* Phases are completed in plan order, each once, in the thread and in     *)
(* whatever checkpoint it is loaded from (next_active_phase).              *)
THEOREM PlanOrderIsKept == Spec => []CompletedInPlanOrder
<1>1. OrderInv => CompletedInPlanOrder
  BY DEF OrderInv, InPlanOrder, Having, CompletedInPlanOrder
<1>2. QED
  BY <1>1, SafetyCorrect, OrderInit, OrderStep, PTL DEF Spec

-----------------------------------------------------------------------------
(* Spiral implements GatedPlan.                                            *)

PlanBar     == IF pc = "crashed" THEN << >> ELSE st.phase_sequence
FinishedBar == IF pc = "crashed" THEN {} ELSE Completed(st)
GateBar     == IF pc = "crashed" THEN None ELSE st.pending_gate_id

(* The verdict, case by case.                                              *)
LEMMA VerdictCases ==
    ASSUME TypeOK
    PROVE  /\ pc = "idle" => Verdict = "idle"
           /\ pc \in {"crashed", "failed"} => Verdict = "stopped"
           /\ pc \in Busy \cup {"done"} /\ st.last_decision = "reject" => Verdict = "rejected"
           /\ pc \in Busy /\ st.last_decision # "reject" => Verdict = "open"
           /\ pc = "done" /\ st.last_decision # "reject" =>
                Verdict = IF Range(st.phase_sequence) \subseteq Completed(st)
                             THEN "completed" ELSE "stopped"
  BY DEF Verdict, Busy

(* Outside a run the contract is not open; inside, it is open or rejected. *)
LEMMA VerdictInRun ==
    ASSUME TypeOK
    PROVE  /\ pc \in Resting => Verdict # "open"
           /\ pc \in Busy => Verdict \in {"open", "rejected"}
  BY VerdictCases DEF TypeOK, Resting, Busy

LEMMA ContractInit == Init => Contract!Init
<1> SUFFICES ASSUME Init
             PROVE  Contract!Init
  OBVIOUS
<1>1. /\ pc = "idle" /\ st.phase_sequence = << >> /\ st.completed_phases = << >>
      /\ st.pending_gate_id = None
  BY DEF Init, BlankState, InitialState
<1>2. Completed(st) = {}
  BY <1>1 DEF Completed, Range
<1>3. Verdict = "idle"
  BY <1>1, TypeInit, VerdictCases DEF TypeInv
<1>4. QED
  BY <1>1, <1>2, <1>3 DEF Contract!Init

(* What a step leaves alone, the contract does not see.                    *)
LEMMA ContractStutter ==
    ASSUME TypeOK, TypeOK', UNCHANGED st,
           \/ UNCHANGED pc
           \/ pc \in Busy /\ pc' \in Busy
    PROVE  UNCHANGED Contract!cvars
<1>1. Verdict' = Verdict
  <2>1. CASE UNCHANGED pc
    BY <2>1 DEF Verdict, Completed
  <2>2. CASE pc \in Busy /\ pc' \in Busy
    <3>1. Verdict' = IF st'.last_decision = "reject" THEN "rejected" ELSE "open"
      BY <2>2 DEF Verdict, Busy
    <3>2. QED
      BY <2>2, <3>1, VerdictCases
  <2>3. QED
    BY <2>1, <2>2
<1>2. UNCHANGED <<PlanBar, FinishedBar, GateBar>>
  BY DEF PlanBar, FinishedBar, GateBar, Completed, Busy
<1>3. QED
  BY <1>1, <1>2 DEF Contract!cvars, PlanBar, FinishedBar, GateBar

(* The contract's notion of a phase that is due is the router's.           *)
LEMMA DueIsFirstActive ==
    ASSUME NEW p, pc # "crashed", IsFirstActive(st, p)
    PROVE  Contract!Due(p)
  BY DEF Contract!Due, IsFirstActive

LEMMA ContractRunPhase ==
    ASSUME SafetyInv, SafetyInv', NEW p \in Phases, RunPhase(p)
    PROVE  Contract!FinishPhase(p)
<1>1. /\ pc = "running" /\ pc' = "running" /\ node = p /\ p \notin GatePhases
      /\ st \in SpiralStates /\ st' = PhaseUpdate(p, st)
  BY DEF RunPhase, MoveTo, SafetyInv, TypeInv, TypeOK
<1>2. st.last_decision # "reject" /\ IsFirstActive(st, p)
  BY <1>1, ScheduledPhase DEF SafetyInv, Routed
<1>3. st.pending_gate_id = None
  BY <1>1 DEF SafetyInv, PendingIsScheduled, Busy, SpiralStates
<1>4. /\ st'.phase_sequence = st.phase_sequence
      /\ st'.pending_gate_id = None
      /\ st'.last_decision = st.last_decision
      /\ Completed(st') = Completed(st) \cup {p}
  BY <1>1, UpdateFields, CompletePhaseRange DEF Completed
<1>5. Verdict = "open" /\ Verdict' = "open"
  BY <1>1, <1>2, <1>4 DEF Verdict, Busy
<1>6. Contract!Due(p)
  BY <1>1, <1>2, DueIsFirstActive
<1>7. QED
  BY <1>1, <1>3, <1>4, <1>5, <1>6 DEF Contract!FinishPhase

LEMMA ContractOpenGate ==
    ASSUME SafetyInv, SafetyInv', NEW p \in Phases, OpenGate(p)
    PROVE  Contract!Open(p)
<1>1. /\ pc = "running" /\ pc' = "running" /\ node = p /\ p \in GatePhases
      /\ st.pending_gate_id # p
      /\ st \in SpiralStates /\ st' = OpenGateUpdate(p, st)
  BY DEF OpenGate, MoveTo, SafetyInv, TypeInv, TypeOK
<1>2. st.last_decision # "reject" /\ IsFirstActive(st, p)
  BY <1>1, ScheduledPhase DEF SafetyInv, Routed
<1>3. st.pending_gate_id = None
  BY <1>1 DEF SafetyInv, PendingIsScheduled, Busy
<1>4. /\ st'.phase_sequence = st.phase_sequence
      /\ st'.pending_gate_id = p
      /\ st'.last_decision = st.last_decision
      /\ Completed(st') = Completed(st)
  BY <1>1, UpdateFields DEF Completed
<1>5. Verdict = "open" /\ Verdict' = "open"
  BY <1>1, <1>2, <1>4 DEF Verdict, Busy
<1>6. Contract!Due(p)
  BY <1>1, <1>2, DueIsFirstActive
<1>7. QED
  BY <1>1, <1>3, <1>4, <1>5, <1>6 DEF Contract!Open

LEMMA ContractResume ==
    ASSUME SafetyInv, SafetyInv', NEW p \in Phases, Resume(p)
    PROVE  [Contract!Next]_Contract!cvars
<1>1. /\ pc = "resuming" /\ pc' = "running" /\ node = p /\ st.pending_gate_id = p
      /\ decision \in Decisions /\ p # None
      /\ st \in SpiralStates /\ st' = DecisionUpdate(p, st, decision)
  BY SentinelAssumption DEF Resume, MoveTo, SafetyInv, TypeInv, TypeOK, InFlight
<1>2. st.last_decision # "reject"
  BY <1>1, ScheduledPhase DEF SafetyInv, Routed
<1>3. /\ st'.phase_sequence = st.phase_sequence
      /\ st'.last_decision = decision
      /\ st'.pending_gate_id = IF decision = "pause" THEN p ELSE None
      /\ st'.completed_phases =
           IF decision = "approve" THEN CompletePhase(p, st) ELSE st.completed_phases
  BY <1>1, UpdateFields
<1>4. decision = "approve" => Completed(st') = Completed(st) \cup {p}
  BY <1>1, <1>3, CompletePhaseRange DEF Completed
<1>5. decision # "approve" => Completed(st') = Completed(st)
  BY <1>3 DEF Completed
<1>6. Verdict = "open" /\ Verdict' = IF decision = "reject" THEN "rejected" ELSE "open"
  BY <1>1, <1>2, <1>3 DEF Verdict, Busy
<1>7. CASE decision = "approve"
  <2>1. Contract!Approve
    BY <1>1, <1>3, <1>4, <1>6, <1>7 DEF Contract!Approve
  <2>2. QED
    BY <2>1 DEF Contract!Next
<1>8. CASE decision = "revise"
  <2>1. Contract!SendBack
    BY <1>1, <1>3, <1>5, <1>6, <1>8 DEF Contract!SendBack
  <2>2. QED
    BY <2>1 DEF Contract!Next
<1>9. CASE decision = "reject"
  <2>1. Contract!Refuse
    BY <1>1, <1>3, <1>5, <1>6, <1>9 DEF Contract!Refuse
  <2>2. QED
    BY <2>1 DEF Contract!Next
<1>10. CASE decision = "pause"
  BY <1>1, <1>3, <1>5, <1>6, <1>10 DEF Contract!cvars
<1>11. QED
  BY <1>1, <1>7, <1>8, <1>9, <1>10 DEF Decisions

LEMMA ContractFinish ==
    ASSUME SafetyInv, SafetyInv', Finish
    PROVE  [Contract!Next]_Contract!cvars
<1>1. /\ pc = "running" /\ pc' = "done" /\ node = End /\ UNCHANGED st
      /\ st \in SpiralStates /\ NextActivePhase(st, End)
  BY DEF Finish, thread, SafetyInv, Routed, TypeInv, TypeOK
<1>2. st.pending_gate_id = None
  BY <1>1, SentinelAssumption, ParameterAssumption
  DEF SafetyInv, PendingIsScheduled, Busy, SpiralStates
<1>3. CASE st.last_decision = "reject"
  <2>1. Verdict = "rejected" /\ Verdict' = "rejected"
    BY <1>1, <1>3 DEF Verdict, Busy
  <2>2. QED
    BY <1>1, <2>1 DEF Contract!cvars, Completed
<1>4. CASE st.last_decision # "reject"
  <2>1. Range(st.phase_sequence) \subseteq Completed(st)
    BY <1>1, <1>4, FirstActiveIsPlanned, SentinelAssumption DEF NextActivePhase
  <2>2. Verdict = "open"
    BY <1>1, <1>4 DEF Verdict, Busy
  <2>3. Verdict' = "completed"
    BY <1>1, <1>4, <2>1 DEF Verdict, Busy, Completed
  <2>4. Contract!Complete
    BY <1>1, <1>2, <2>1, <2>2, <2>3 DEF Contract!Complete, Contract!Range, Range, Completed
  <2>5. QED
    BY <2>4 DEF Contract!Next
<1>5. QED
  BY <1>3, <1>4

LEMMA ContractStep ==
    ASSUME SafetyInv, SafetyInv', [Next]_vars
    PROVE  [Contract!Next]_Contract!cvars
<1>t. TypeOK /\ TypeOK'
  BY DEF SafetyInv, TypeInv
<1>1. ASSUME NEW seq \in PhaseSequences, NEW entry \in {"gated", "plain"},
             StartRun(seq, entry)
      PROVE  Contract!Begin
  <2>1. /\ st'.phase_sequence = seq /\ st'.completed_phases = << >>
        /\ st'.pending_gate_id = None /\ st'.last_decision = None
        /\ pc \in Resting /\ pc' = "running"
    BY <1>1 DEF StartRun, MoveTo, InitialState
  <2>2. Completed(st') = {}
    BY <2>1 DEF Completed, Range
  <2>3. Verdict # "open"
    BY <1>t, <2>1, VerdictInRun
  <2>4. Verdict' = "open"
    BY <2>1, SentinelAssumption DEF Verdict, Busy, Decisions
  <2>5. QED
    BY <2>1, <2>2, <2>3, <2>4 DEF Contract!Begin
<1>2. ASSUME NEW p \in Phases, StopAtGate(p)
      PROVE  Contract!Stop
  <2>1. /\ pc = "running" /\ pc' = "done" /\ UNCHANGED st /\ st \in SpiralStates
        /\ NextActivePhase(st, p)
    BY <1>2 DEF StopAtGate, thread, SafetyInv, Routed, TypeInv, TypeOK
  <2>2. st.last_decision # "reject" /\ IsFirstActive(st, p)
    BY <2>1, ScheduledPhase
  <2>3. ~ Range(st.phase_sequence) \subseteq Completed(st)
    BY <2>1, <2>2, FirstActiveIsPlanned
  <2>4. Verdict = "open" /\ Verdict' = "stopped"
    BY <2>1, <2>2, <2>3 DEF Verdict, Busy, Completed
  <2>5. QED
    BY <2>1, <2>4 DEF Contract!Stop, Completed
<1>3. ASSUME pc \in Busy, pc' = "failed", UNCHANGED st
      PROVE  Contract!Stop
  <2>1. Verdict \in {"open", "rejected"}
    BY <1>t, <1>3, VerdictInRun
  <2>2. Verdict' = "stopped"
    BY <1>3 DEF Verdict, Busy
  <2>3. QED
    BY <1>3, <2>1, <2>2 DEF Contract!Stop, Completed, Busy
<1>4. CASE Crash
  <2>1. pc \in Busy /\ pc' = "crashed"
    BY <1>4 DEF Crash
  <2>2. Verdict \in {"open", "rejected"}
    BY <1>t, <2>1, VerdictInRun
  <2>3. Verdict' = "stopped"
    BY <2>1 DEF Verdict, Busy
  <2>4. Contract!Stop
    BY <2>1, <2>2, <2>3 DEF Contract!Stop
  <2>5. QED
    BY <2>4 DEF Contract!Next
<1>5. ASSUME NEW p \in Phases, AskApproval(p)
      PROVE  UNCHANGED Contract!cvars
  BY <1>t, <1>5, ContractStutter DEF AskApproval, thread, Busy
<1>6. ASSUME NEW d \in Decisions, Answer(d)
      PROVE  UNCHANGED Contract!cvars
  BY <1>t, <1>6, ContractStutter DEF Answer, thread, Busy
<1>7. CASE Persist
  BY <1>t, <1>7, ContractStutter DEF Persist, thread
<1>8. CASE UNCHANGED vars
  BY <1>t, <1>8, ContractStutter DEF vars
<1>9. ASSUME NEW p \in Phases, HandlerFails(p)
      PROVE  Contract!Stop
  BY <1>3, <1>9 DEF HandlerFails, thread, Busy
<1>10. CASE ApproverFails
  BY <1>3, <1>10 DEF ApproverFails, thread, Busy, Contract!Next
<1>11. CASE NodeStep
  BY <1>2, <1>5, <1>11, ContractRunPhase, ContractOpenGate, ContractResume
  DEF NodeStep, Contract!Next
<1>12. CASE Finish
  BY <1>12, ContractFinish
<1>13. QED
  BY <1>1, <1>4, <1>6, <1>7, <1>8, <1>9, <1>10, <1>11, <1>12 DEF Next, Rest, Contract!Next

(* Every behaviour of the spiral and its driver, crashes and failures      *)
(* included, is a behaviour of the contract GatedPlan.                     *)
THEOREM SpiralImplementsGatedPlan == Spec => ImplementsGatedPlan
<1>1. SafetyInv /\ SafetyInv' /\ [Next]_vars => [Contract!Next]_Contract!cvars
  BY ContractStep
<1>2. QED
  BY <1>1, SafetyCorrect, ContractInit, PTL DEF Spec, ImplementsGatedPlan, Contract!Spec

-----------------------------------------------------------------------------
(* Part 2: LiveRun.                                                        *)
-----------------------------------------------------------------------------
(* The context of a prompt.                                                *)

(* The context is empty before the first output, and begins with the       *)
(* newest output from then on, however little fits into the budget.        *)
LEMMA ContextBeginsWithTheNewest ==
    ASSUME outputs \in Seq(Outputs)
    PROVE  /\ Context \in Seq(Ids)
           /\ outputs = << >> => Context = << >>
           /\ outputs # << >> => /\ Context # << >>
                                 /\ Head(Context) = outputs[Len(outputs)].id
<1> DEFINE n    == Len(outputs)
           ids  == [i \in DOMAIN outputs |-> outputs[i].id]
           back == Reverse(ids)
           cut  == IF Len(back) < ContextBudget THEN Len(back) ELSE ContextBudget
<1>1. n \in Nat /\ DOMAIN outputs = 1..n
  BY LenProperties
<1>2. \A i \in 1..n : outputs[i].id \in Ids
  <2>1. \A i \in 1..n : outputs[i] \in Outputs
    BY <1>1, ElementOfSeq
  <2>2. QED
    BY <2>1 DEF Outputs
<1>3. ids \in [1..n -> Ids]
  BY <1>1, <1>2
<1>4. ids \in Seq(Ids) /\ Len(ids) = n
  BY <1>1, <1>3
<1>5. back = [i \in 1..n |-> ids[(n - i) + 1]]
  BY <1>4 DEF Reverse
<1>6. \A i \in 1..n : (n - i) + 1 \in 1..n
  BY <1>1
<1>7. back \in [1..n -> Ids]
  BY <1>3, <1>5, <1>6
<1>8. back \in Seq(Ids) /\ Len(back) = n
  BY <1>1, <1>7
<1>b. ContextBudget \in Nat \ {0}
  BY LiveAssumption
<1> HIDE DEF ids, back
<1>9. cut \in 0..n /\ (n > 0 => cut \in 1..n)
  <2>1. cut = IF n < ContextBudget THEN n ELSE ContextBudget
    BY <1>8
  <2>2. QED
    BY <1>1, <1>b, <2>1
<1>10. Context = SubSeq(back, 1, cut)
  BY DEF Context, back, ids
<1> HIDE DEF cut
<1>11. \A i \in 1..cut : back[i] \in Ids
  BY <1>1, <1>7, <1>9
<1>12. Context \in Seq(Ids) /\ Len(Context) = cut
  BY <1>9, <1>10, <1>11, SubSeqProperties
<1>13. outputs = << >> => Context = << >>
  <2>1. outputs = << >> => n = 0
    OBVIOUS
  <2>2. QED
    BY <1>1, <1>9, <1>12, <2>1, EmptySeq
<1>14. ASSUME outputs # << >>
       PROVE  Context # << >> /\ Head(Context) = outputs[n].id
  <2>1. n \in Nat \ {0}
    BY <1>14, EmptySeq
  <2>2. cut \in 1..n
    BY <1>9, <2>1
  <2>3. Head(Context) = back[1]
    BY <1>8, <1>10, <2>1, <2>2, HeadTailOfSubSeq
  <2>4. back[1] = ids[n]
    BY <1>5, <2>1 DEF back
  <2>5. ids[n] = outputs[n].id
    BY <1>1, <2>1 DEF ids
  <2>6. QED
    BY <1>12, <2>2, <2>3, <2>4, <2>5, EmptySeq
<1>15. QED
  BY <1>12, <1>13, <1>14

-----------------------------------------------------------------------------
(* The inductive invariant.                                                *)

(* A job is that of the node the invoke is at.                             *)
JobInv ==
    /\ job \in Jobs \cup {None}
    /\ job # None => node \in Phases /\ HandlerDue(node)

(* The files of the running handler are its own: the prompt shows what the *)
(* run has put out so far, and the transcript is what its worker printed.  *)
FilesInv ==
    /\ prompts \in [Phases -> Seq(Ids)]
    /\ transcripts \in [Phases -> Outputs \cup {None}]
    /\ At("prompted") => prompts[node] = Context
    /\ At("working") \/ At("exited") \/ At("saved") => job.context = Context
    /\ At("saved") => transcripts[node] = Printed

(* The outputs belong to this run and to the artifacts of the thread, and  *)
(* none is from a worker that has not run yet.                             *)
OutputsInv ==
    /\ outputs \in Seq(Outputs)
    /\ Len(outputs) = Len(st.artifacts)
    /\ \A i \in 1..Len(outputs) :
           /\ outputs[i].id.run = runs
           /\ outputs[i].id.phase = st.artifacts[i]
           /\ outputs[i].id.turn <= handled[outputs[i].id.phase]
           /\ \A j \in 1..(i - 1) : outputs[j].id # outputs[i].id
    /\ EachBuildsOnTheLast

(* No phase is completed, and no gate opened, without an artifact; and a   *)
(* rejection leaves something of the plan undone.                          *)
WorkInv ==
    /\ Completed(st) \subseteq Range(st.artifacts)
    /\ st.pending_gate_id # None => st.pending_gate_id \in Range(st.artifacts)
    /\ st.last_decision = "reject" => ~ Range(st.phase_sequence) \subseteq Completed(st)

(* What the driver has recorded, and has to report.                        *)
ToldInv ==
    /\ seen \subseteq GatePhases
    /\ result \in [outcome : {"completed", "incomplete", "raised"}, gates : SUBSET GatePhases]
                      \cup {None}
    /\ driver = "gated"
    /\ pc = "done" => result = Retrospective

LiveInv == SafetyInv /\ JobInv /\ FilesInv /\ OutputsInv /\ WorkInv /\ ToldInv

LEMMA LiveInitInv == LiveInit => LiveInv
<1> SUFFICES ASSUME LiveInit
             PROVE  LiveInv
  OBVIOUS
<1>1. SafetyInv
  BY SafetyInit DEF LiveInit
<1>2. JobInv /\ FilesInv
  BY DEF LiveInit, JobInv, FilesInv, At
<1>3. /\ st.artifacts = << >> /\ st.completed_phases = << >>
      /\ st.pending_gate_id = None /\ st.last_decision = None
  BY DEF LiveInit, Init, BlankState, InitialState
<1>4. OutputsInv
  BY <1>3 DEF LiveInit, OutputsInv, EachBuildsOnTheLast
<1>5. WorkInv
  BY <1>3, SentinelAssumption DEF WorkInv, Completed, Range, Decisions
<1>6. ToldInv
  BY DEF LiveInit, Init, ToldInv
<1>7. QED
  BY <1>1, <1>2, <1>4, <1>5, <1>6 DEF LiveInv

(* Every step of a live run is a step of the spiral, or none: what happens *)
(* in a handler before it returns or raises is invisible to the thread.    *)
LEMMA LiveStepIsASpiralStep ==
    ASSUME JobInv, [LiveNext]_<<vars, livevars>>
    PROVE  [Next]_vars
<1>1. ASSUME NEW seq \in PhaseSequences, LiveStart(seq)
      PROVE  Next
  BY <1>1 DEF LiveStart, Next
<1>2. ASSUME NEW p \in Phases, EndHandler(p)
      PROVE  Next
  BY <1>2 DEF EndHandler, Next, NodeStep
<1>3. CASE WorkerTimesOut \/ \E p \in Phases : HandlerErrs(p)
  BY <1>3 DEF WorkerTimesOut, HandlerErrs, HandlerDue, FailHandler, At, JobInv, Next
<1>4. CASE SpawnWorker \/ SaveTranscript \/ WorkerExits \/ \E p \in Phases : WritePrompt(p)
  BY <1>4 DEF SpawnWorker, SaveTranscript, WorkerExits, WritePrompt
<1>5. ASSUME NEW p \in Phases, LiveAsk(p) \/ LiveResume(p)
      PROVE  Next
  BY <1>5 DEF LiveAsk, LiveResume, Next, NodeStep
<1>6. ASSUME NEW d \in Decisions, LiveAnswer(d)
      PROVE  Next
  BY <1>6 DEF LiveAnswer, Next
<1>7. CASE LiveFinish \/ LiveApproverFails \/ LivePersist \/ LiveCrash \/ LiveRest
  BY <1>7 DEF LiveFinish, LiveApproverFails, LivePersist, LiveCrash, LiveRest, Next
<1>8. CASE UNCHANGED <<vars, livevars>>
  BY <1>8
<1>9. QED
  BY <1>1, <1>2, <1>3, <1>4, <1>5, <1>6, <1>7, <1>8
  DEF LiveNext, HandlerStep, DriverStep

-----------------------------------------------------------------------------
(* The thread: artifacts cover what is completed.                          *)

(* What the three updates leave in the artifacts, when every handler       *)
(* returns one.                                                            *)
LEMMA UpdateArtifacts ==
    ASSUME NEW s \in SpiralStates, NEW p \in Phases
    PROVE  /\ PhaseUpdate(p, s).artifacts = Append(s.artifacts, p)
           /\ OpenGateUpdate(p, s).artifacts = Append(s.artifacts, p)
           /\ \A d \in Decisions : DecisionUpdate(p, s, d).artifacts = s.artifacts
           /\ s.artifacts \in Seq(Phases)
           /\ Range(Append(s.artifacts, p)) = Range(s.artifacts) \cup {p}
<1>1. s.artifacts \in Seq(Phases)
  BY DEF SpiralStates
<1>2. RecordPhaseArtifact(p, s) = Append(s.artifacts, p)
  BY LiveAssumption DEF RecordPhaseArtifact
<1>3. Range(Append(s.artifacts, p)) = Range(s.artifacts) \cup {p}
  BY <1>1, RangeAppend
<1>4. QED
  BY <1>1, <1>2, <1>3 DEF PhaseUpdate, OpenGateUpdate, DecisionUpdate, SpiralStates

LEMMA WorkStep ==
    ASSUME SafetyInv, WorkInv, [Next]_vars
    PROVE  WorkInv'
<1>t. st \in SpiralStates
  BY DEF SafetyInv, TypeInv, TypeOK
<1>1. ASSUME NEW seq \in PhaseSequences, NEW entry \in {"gated", "plain"},
             StartRun(seq, entry)
      PROVE  WorkInv'
  BY <1>1, SentinelAssumption
  DEF StartRun, MoveTo, InitialState, WorkInv, Completed, Range, Decisions
<1>2. ASSUME NEW p \in Phases, RunPhase(p)
      PROVE  WorkInv'
  <2>1. st' = PhaseUpdate(p, st) /\ NextActivePhase(st, p)
    BY <1>2 DEF RunPhase, MoveTo, SafetyInv, Routed
  <2>2. /\ st'.completed_phases = CompletePhase(p, st)
        /\ st'.artifacts = Append(st.artifacts, p)
        /\ st'.pending_gate_id = None /\ st'.last_decision = st.last_decision
    BY <1>t, <2>1, UpdateFields, UpdateArtifacts
  <2>3. Completed(st)' = Completed(st) \cup {p}
    BY <1>t, <2>2, CompletePhaseRange DEF Completed
  <2>4. Range(st'.artifacts) = Range(st.artifacts) \cup {p}
    BY <1>t, <2>2, UpdateArtifacts
  <2>5. st.last_decision # "reject"
    BY <1>t, <2>1, ScheduledPhase
  <2>6. QED
    BY <2>2, <2>3, <2>4, <2>5 DEF WorkInv
<1>3. ASSUME NEW p \in Phases, OpenGate(p)
      PROVE  WorkInv'
  <2>1. st' = OpenGateUpdate(p, st) /\ NextActivePhase(st, p)
    BY <1>3 DEF OpenGate, MoveTo, SafetyInv, Routed
  <2>2. /\ st'.completed_phases = st.completed_phases
        /\ st'.artifacts = Append(st.artifacts, p)
        /\ st'.pending_gate_id = p /\ st'.last_decision = st.last_decision
    BY <1>t, <2>1, UpdateFields, UpdateArtifacts
  <2>3. Completed(st)' = Completed(st)
    BY <2>2 DEF Completed
  <2>4. Range(st'.artifacts) = Range(st.artifacts) \cup {p}
    BY <1>t, <2>2, UpdateArtifacts
  <2>5. st.last_decision # "reject"
    BY <1>t, <2>1, ScheduledPhase
  <2>6. QED
    BY <2>2, <2>3, <2>4, <2>5 DEF WorkInv
<1>4. ASSUME NEW p \in Phases, Resume(p)
      PROVE  WorkInv'
  <2>1. /\ st' = DecisionUpdate(p, st, decision) /\ NextActivePhase(st, p)
        /\ decision \in Decisions /\ st.pending_gate_id = p
    BY <1>4 DEF Resume, MoveTo, SafetyInv, Routed, TypeInv, TypeOK, InFlight
  <2>2. /\ st'.completed_phases = IF decision = "approve" THEN CompletePhase(p, st)
                                                          ELSE st.completed_phases
        /\ st'.artifacts = st.artifacts
        /\ st'.phase_sequence = st.phase_sequence
        /\ st'.pending_gate_id \in {None, p} /\ st'.last_decision = decision
    BY <1>t, <2>1, UpdateFields, UpdateArtifacts
  <2>3. p \in Range(st.artifacts)
    BY <2>1, SentinelAssumption DEF WorkInv
  <2>4. Completed(st)' = IF decision = "approve" THEN Completed(st) \cup {p} ELSE Completed(st)
    BY <1>t, <2>2, CompletePhaseRange DEF Completed
  <2>5. p \in Range(st.phase_sequence) /\ p \notin Completed(st)
    BY <1>t, <2>1, ScheduledPhase, FirstActiveIsPlanned
  <2>6. QED
    BY <2>2, <2>3, <2>4, <2>5 DEF WorkInv
<1>5. CASE Crash
  BY <1>5, LiveAssumption, SentinelAssumption
  DEF Crash, BlankState, InitialState, WorkInv, Completed, Range, Decisions
<1>6. CASE UNCHANGED st
  BY <1>6 DEF WorkInv, Completed
<1>7. QED
  BY <1>1, <1>2, <1>3, <1>4, <1>5, <1>6
  DEF Next, NodeStep, AskApproval, StopAtGate, Answer, Finish, HandlerFails, ApproverFails,
      Persist, Rest, vars, thread

-----------------------------------------------------------------------------
(* The handler and its files.                                              *)

Desk == JobInv /\ FilesInv /\ OutputsInv

(* While a handler runs, the driver is inside invoke, at a node of its own. *)
LEMMA NoJobOutsideAHandler ==
    ASSUME JobInv,
           \/ pc # "running"
           \/ node = End
           \/ st.pending_gate_id = node
    PROVE  job = None
  BY SentinelAssumption DEF JobInv, HandlerDue

(* A step outside of a handler that keeps the artifacts.                   *)
LEMMA DeskOutsideAHandler ==
    ASSUME Desk, job = None, UNCHANGED <<job, workspace, outputs, runs>>,
           st'.artifacts = st.artifacts, handled' = handled
    PROVE  Desk'
<1>1. JobInv' /\ FilesInv'
  BY DEF Desk, JobInv, FilesInv, At, workspace
<1>2. OutputsInv'
  BY DEF Desk, OutputsInv, EachBuildsOnTheLast
<1>3. QED
  BY <1>1, <1>2 DEF Desk

(* A step that leaves the running handler alone.                           *)
LEMMA DeskIsKept ==
    ASSUME Desk, UNCHANGED <<job, workspace, outputs, st, node, pc, runs, handled>>
    PROVE  Desk'
<1>1. Context' = Context
  BY DEF Context
<1>2. Printed' = Printed
  BY DEF Printed
<1>3. JobInv' /\ FilesInv'
  BY <1>1, <1>2 DEF Desk, JobInv, HandlerDue, FilesInv, At, workspace
<1>4. OutputsInv'
  BY DEF Desk, OutputsInv, EachBuildsOnTheLast
<1>5. QED
  BY <1>3, <1>4 DEF Desk

(* A run that starts, or dies, has no outputs and no handler.              *)
LEMMA DeskIsCleared ==
    ASSUME Desk, job' = None, UNCHANGED workspace, outputs' = << >>, st'.artifacts = << >>
    PROVE  Desk'
<1>1. JobInv' /\ FilesInv'
  BY DEF Desk, JobInv, FilesInv, At, workspace
<1>2. OutputsInv'
  BY DEF OutputsInv, EachBuildsOnTheLast
<1>3. QED
  BY <1>1, <1>2 DEF Desk

LEMMA DeskWritePrompt ==
    ASSUME Desk, NEW p \in Phases, WritePrompt(p)
    PROVE  Desk'
<1>1. /\ node = p /\ HandlerDue(p)
      /\ prompts' = [prompts EXCEPT ![p] = Context]
      /\ job' = [stage |-> "prompted", context |-> << >>]
      /\ UNCHANGED <<st, node, pc, runs, handled, transcripts, outputs>>
  BY DEF WritePrompt, HandlerDue, vars, history
<1>2. Context \in Seq(Ids) /\ Context' = Context
  BY <1>1, ContextBeginsWithTheNewest DEF Desk, OutputsInv, Context
<1>3. JobInv'
  BY <1>1 DEF JobInv, Jobs, HandlerDue
<1>4. FilesInv'
  BY <1>1, <1>2 DEF Desk, FilesInv, At
<1>5. OutputsInv'
  BY <1>1 DEF Desk, OutputsInv, EachBuildsOnTheLast
<1>6. QED
  BY <1>3, <1>4, <1>5 DEF Desk

LEMMA DeskSpawnWorker ==
    ASSUME Desk, SpawnWorker
    PROVE  Desk'
<1>1. /\ job # None /\ node \in Phases /\ HandlerDue(node)
      /\ prompts[node] = Context /\ prompts[node] \in Seq(Ids)
      /\ job' = [stage |-> "working", context |-> Context]
      /\ UNCHANGED <<st, node, pc, runs, handled, prompts, transcripts, outputs>>
  BY DEF SpawnWorker, Desk, JobInv, FilesInv, At, vars, history, workspace
<1>2. Context' = Context
  BY <1>1 DEF Context
<1>3. JobInv'
  BY <1>1 DEF JobInv, Jobs, HandlerDue
<1>4. FilesInv'
  BY <1>1, <1>2 DEF Desk, FilesInv, At
<1>5. OutputsInv'
  BY <1>1 DEF Desk, OutputsInv, EachBuildsOnTheLast
<1>6. QED
  BY <1>3, <1>4, <1>5 DEF Desk

LEMMA DeskWorkerExits ==
    ASSUME Desk, WorkerExits
    PROVE  Desk'
<1>1. /\ job \in Jobs /\ node \in Phases /\ HandlerDue(node) /\ job.context = Context
      /\ job' = [job EXCEPT !.stage = "exited"]
      /\ UNCHANGED <<st, node, pc, runs, handled, prompts, transcripts, outputs>>
  BY DEF WorkerExits, Desk, JobInv, FilesInv, At, vars, history, workspace
<1>2. Context' = Context
  BY <1>1 DEF Context
<1>3. job' \in Jobs /\ job'.stage = "exited" /\ job'.context = job.context
  BY <1>1 DEF Jobs
<1>4. JobInv'
  BY <1>1, <1>3 DEF JobInv, HandlerDue
<1>5. FilesInv'
  BY <1>1, <1>2, <1>3 DEF Desk, FilesInv, At
<1>6. OutputsInv'
  BY <1>1 DEF Desk, OutputsInv, EachBuildsOnTheLast
<1>7. QED
  BY <1>4, <1>5, <1>6 DEF Desk

(* What a worker prints is an output.                                      *)
LEMMA PrintedType ==
    ASSUME Desk, TypeOK, At("exited") \/ At("saved")
    PROVE  Printed \in Outputs
<1>1. job \in Jobs /\ node \in Phases
  BY DEF Desk, JobInv, At
<1>2. runs \in Nat /\ handled[node] + 1 \in Nat
  BY <1>1 DEF TypeOK
<1>3. [phase |-> node, run |-> runs, turn |-> handled[node] + 1] \in Ids
  BY <1>1, <1>2 DEF Ids
<1>4. QED
  BY <1>1, <1>3 DEF Printed, Outputs, Jobs

LEMMA DeskSaveTranscript ==
    ASSUME Desk, TypeOK, SaveTranscript
    PROVE  Desk'
<1>1. /\ job \in Jobs /\ node \in Phases /\ HandlerDue(node) /\ job.context = Context
      /\ job' = [job EXCEPT !.stage = "saved"]
      /\ transcripts' = [transcripts EXCEPT ![node] = Printed]
      /\ UNCHANGED <<st, node, pc, runs, handled, prompts, outputs>>
  BY DEF SaveTranscript, Desk, JobInv, FilesInv, At, vars, history
<1>2. Context' = Context
  BY <1>1 DEF Context
<1>3. job' \in Jobs /\ job'.stage = "saved" /\ job'.context = job.context
  BY <1>1 DEF Jobs
<1>4. Printed \in Outputs
  BY PrintedType DEF SaveTranscript
<1>5. Printed' = Printed
  BY <1>1, <1>3 DEF Printed
<1>6. JobInv'
  BY <1>1, <1>3 DEF JobInv, HandlerDue
<1>7. FilesInv'
  BY <1>1, <1>2, <1>3, <1>4, <1>5 DEF Desk, FilesInv, At
<1>8. OutputsInv'
  BY <1>1 DEF Desk, OutputsInv, EachBuildsOnTheLast
<1>9. QED
  BY <1>6, <1>7, <1>8 DEF Desk

(* The handler hands its own output over: it comes from this run, it is    *)
(* newer than every output of its phase, and it was shown the last one.    *)
LEMMA DeskEndHandler ==
    ASSUME Desk, SafetyInv, NEW p \in Phases, EndHandler(p)
    PROVE  Desk'
<1> DEFINE n == Len(outputs)
<1>1. /\ node = p /\ UNCHANGED <<runs, prompts, transcripts>> /\ job' = None
      /\ outputs' = Append(outputs, transcripts[p])
      /\ handled' = [handled EXCEPT ![p] = @ + 1]
      /\ st' = PhaseUpdate(p, st) \/ st' = OpenGateUpdate(p, st)
  BY DEF EndHandler, RunPhase, OpenGate, MoveTo, workspace
<1>2. TypeOK
  BY DEF SafetyInv, TypeInv
<1>3. /\ transcripts[p] = Printed /\ Printed \in Outputs
      /\ Printed.id = [phase |-> p, run |-> runs, turn |-> handled[p] + 1]
      /\ Printed.context = Context
  BY <1>1, <1>2, PrintedType DEF EndHandler, Desk, FilesInv, At, Printed
<1>4. /\ outputs \in Seq(Outputs) /\ n \in Nat /\ n = Len(st.artifacts)
      /\ outputs' \in Seq(Outputs) /\ Len(outputs') = n + 1
      /\ \A i \in 1..n : outputs'[i] = outputs[i]
      /\ outputs'[n + 1] = Printed
  <2>1. outputs \in Seq(Outputs) /\ n = Len(st.artifacts)
    BY DEF Desk, OutputsInv
  <2>2. QED
    BY <1>1, <1>3, <2>1, AppendProperties, LenProperties
<1>5. /\ st'.artifacts = Append(st.artifacts, p) /\ Len(st'.artifacts) = n + 1
      /\ \A i \in 1..n : st'.artifacts[i] = st.artifacts[i]
      /\ st'.artifacts[n + 1] = p
  <2>1. st'.artifacts = Append(st.artifacts, p) /\ st.artifacts \in Seq(Phases)
    BY <1>1, <1>2, UpdateArtifacts DEF TypeOK
  <2>2. QED
    BY <1>4, <2>1, AppendProperties
<1>6. \A q \in Phases : handled[q] \in Nat /\ handled'[q] \in Nat /\ handled'[q] >= handled[q]
  BY <1>1, <1>2 DEF TypeOK
<1>7. handled'[p] = handled[p] + 1
  BY <1>1, <1>2 DEF TypeOK
<1>8. \A i \in 1..n : outputs[i].id \in Ids
  <2>1. \A i \in 1..n : outputs[i] \in Outputs
    BY <1>4, ElementOfSeq
  <2>2. QED
    BY <2>1 DEF Outputs
<1>9. ASSUME NEW i \in 1..n
      PROVE  /\ outputs[i].id.run = runs /\ outputs[i].id.phase = st.artifacts[i]
             /\ outputs[i].id.turn <= handled[outputs[i].id.phase]
             /\ \A j \in 1..(i - 1) : outputs[j].id # outputs[i].id
  BY <1>9 DEF Desk, OutputsInv
<1>10. ASSUME NEW i \in 1..(n + 1)
       PROVE  /\ outputs'[i].id.run = runs' /\ outputs'[i].id.phase = st'.artifacts[i]
              /\ outputs'[i].id.turn <= handled'[outputs'[i].id.phase]
              /\ \A j \in 1..(i - 1) : outputs'[j].id # outputs'[i].id
  <2>1. CASE i \in 1..n
    <3>1. outputs[i].id.phase \in Phases /\ outputs[i].id.turn \in Nat
      BY <1>8, <2>1 DEF Ids
    <3>2. outputs[i].id.turn <= handled'[outputs[i].id.phase]
      <4>1. outputs[i].id.turn <= handled[outputs[i].id.phase]
        BY <1>9, <2>1
      <4>2. handled[outputs[i].id.phase] \in Nat /\ handled'[outputs[i].id.phase] \in Nat
            /\ handled'[outputs[i].id.phase] >= handled[outputs[i].id.phase]
        BY <1>6, <3>1
      <4>3. QED
        BY <3>1, <4>1, <4>2
    <3>3. \A j \in 1..(i - 1) : j \in 1..n /\ outputs'[j].id # outputs'[i].id
      BY <1>4, <1>9, <2>1
    <3>4. QED
      BY <1>1, <1>4, <1>5, <1>9, <2>1, <3>2, <3>3
  <2>2. CASE i = n + 1
    <3>1. ASSUME NEW j \in 1..n
          PROVE  outputs[j].id # Printed.id
      <4>1. outputs[j].id.phase \in Phases /\ outputs[j].id.turn \in Nat
        BY <1>8, <3>1 DEF Ids
      <4>2. outputs[j].id.turn <= handled[outputs[j].id.phase]
        BY <1>9, <3>1
      <4>3. Printed.id.phase = p /\ Printed.id.turn = handled[p] + 1
        BY <1>3
      <4>4. QED
        BY <1>6, <4>1, <4>2, <4>3
    <3>2. outputs'[i].id = [phase |-> p, run |-> runs, turn |-> handled[p] + 1]
      BY <1>3, <1>4, <2>2
    <3>3. /\ outputs'[i].id.run = runs' /\ outputs'[i].id.phase = st'.artifacts[i]
          /\ outputs'[i].id.turn <= handled'[outputs'[i].id.phase]
      BY <1>1, <1>5, <1>6, <1>7, <2>2, <3>2
    <3>4. \A j \in 1..(i - 1) : outputs'[j].id # outputs'[i].id
      BY <1>4, <2>2, <3>1
    <3>5. QED
      BY <3>3, <3>4
  <2>3. i \in 1..n \/ i = n + 1
    BY <1>4
  <2>4. QED
    BY ONLY <2>1, <2>2, <2>3
<1>11. EachBuildsOnTheLast'
  <2>1. DOMAIN outputs = 1..n /\ DOMAIN outputs' = 1..(n + 1)
    BY <1>4, LenProperties
  <2>2. ASSUME NEW i \in 1..n
        PROVE  IF i = 1 THEN outputs[i].context = << >>
                        ELSE /\ outputs[i].context # << >>
                             /\ Head(outputs[i].context) = outputs[i - 1].id
    BY <2>1, <2>2 DEF Desk, OutputsInv, EachBuildsOnTheLast
  <2>3. n = 0 => Context = << >>
    BY <1>4, ContextBeginsWithTheNewest, EmptySeq
  <2>4. n > 0 => Context # << >> /\ Head(Context) = outputs[n].id
    BY <1>4, ContextBeginsWithTheNewest, EmptySeq
  <2>5. ASSUME NEW i \in 1..(n + 1)
        PROVE  IF i = 1 THEN outputs'[i].context = << >>
                        ELSE /\ outputs'[i].context # << >>
                             /\ Head(outputs'[i].context) = outputs'[i - 1].id
    <3>1. CASE i \in 1..n
      <4>1. i # 1 => i - 1 \in 1..n
        BY <1>4, <3>1
      <4>2. QED
        BY <1>4, <2>2, <3>1, <4>1
    <3>2. CASE i = n + 1
      <4>1. outputs'[i].context = Context
        BY <1>3, <1>4, <3>2
      <4>2. i # 1 => n > 0 /\ outputs'[i - 1] = outputs[n]
        BY <1>4, <3>2
      <4>3. i = 1 => n = 0
        BY <1>4, <3>2
      <4>4. QED
        BY <2>3, <2>4, <4>1, <4>2, <4>3
    <3>3. QED
      BY <1>4, <3>1, <3>2
  <2>6. QED
    BY <2>1, <2>5 DEF EachBuildsOnTheLast
<1>12. OutputsInv'
  BY <1>4, <1>5, <1>10, <1>11 DEF OutputsInv
<1>13. JobInv' /\ FilesInv'
  BY <1>1 DEF Desk, JobInv, FilesInv, At
<1>14. QED
  BY <1>12, <1>13 DEF Desk

LEMMA DeskHandlerFails ==
    ASSUME Desk, SafetyInv, WorkerTimesOut \/ \E p \in Phases : HandlerErrs(p)
    PROVE  Desk'
<1>1. /\ node \in Phases /\ handled' = [handled EXCEPT ![node] = @ + 1]
      /\ UNCHANGED <<st, node, runs, outputs, prompts, transcripts>> /\ job' = None
  BY DEF WorkerTimesOut, HandlerErrs, HandlerDue, FailHandler, HandlerFails, thread, workspace,
         Desk, JobInv, At
<1>2. \A q \in Phases : handled[q] \in Nat /\ handled'[q] \in Nat /\ handled'[q] >= handled[q]
  BY <1>1 DEF SafetyInv, TypeInv, TypeOK
<1>3. ASSUME NEW i \in 1..Len(outputs)
      PROVE  outputs[i].id.turn <= handled'[outputs[i].id.phase]
  <2>1. outputs[i] \in Outputs
    BY <1>3, ElementOfSeq DEF Desk, OutputsInv
  <2>2. outputs[i].id.phase \in Phases /\ outputs[i].id.turn \in Nat
    BY <2>1 DEF Outputs, Ids
  <2>3. outputs[i].id.turn <= handled[outputs[i].id.phase]
    BY <1>3 DEF Desk, OutputsInv
  <2>4. QED
    <3>1. handled[outputs[i].id.phase] \in Nat /\ handled'[outputs[i].id.phase] \in Nat
          /\ handled'[outputs[i].id.phase] >= handled[outputs[i].id.phase]
      BY <1>2, <2>2
    <3>2. QED
      BY <2>2, <2>3, <3>1
<1>4. OutputsInv'
  BY <1>1, <1>3 DEF Desk, OutputsInv, EachBuildsOnTheLast
<1>5. JobInv' /\ FilesInv'
  BY <1>1 DEF Desk, JobInv, FilesInv, At
<1>6. QED
  BY <1>4, <1>5 DEF Desk

-----------------------------------------------------------------------------
(* The steps of the live run.                                              *)

(* A run that has reported its end holds the retrospective of its thread.  *)
LEMMA ToldStep ==
    ASSUME SafetyInv, ToldInv, [LiveNext]_<<vars, livevars>>
    PROVE  ToldInv'
<1> USE DEF ToldInv
<1>1. ASSUME NEW seq \in PhaseSequences, LiveStart(seq)
      PROVE  ToldInv'
  BY <1>1 DEF LiveStart, StartRun
<1>2. ASSUME NEW p \in Phases, EndHandler(p)
      PROVE  ToldInv'
  BY <1>2 DEF EndHandler, RunPhase, OpenGate
<1>3. CASE WorkerTimesOut \/ \E p \in Phases : HandlerErrs(p)
  BY <1>3 DEF WorkerTimesOut, HandlerErrs, FailHandler, HandlerFails, Raised
<1>4. CASE SpawnWorker \/ SaveTranscript \/ WorkerExits \/ \E p \in Phases : WritePrompt(p)
  BY <1>4 DEF SpawnWorker, SaveTranscript, WorkerExits, WritePrompt, vars, Retrospective, Completed
<1>5. ASSUME NEW p \in Phases, LiveAsk(p)
      PROVE  ToldInv'
  BY <1>5 DEF LiveAsk, AskApproval
<1>6. ASSUME NEW p \in Phases, LiveResume(p)
      PROVE  ToldInv'
  BY <1>6 DEF LiveResume, Resume, livevars
<1>7. ASSUME NEW d \in Decisions, LiveAnswer(d)
      PROVE  ToldInv'
  BY <1>7 DEF LiveAnswer, Answer, livevars
<1>8. CASE LiveFinish
  <2>1. /\ UNCHANGED <<st, driver, seen>> /\ result' = Retrospective
    BY <1>8 DEF LiveFinish, Finish, thread
  <2>2. Retrospective' = Retrospective
    BY <2>1 DEF Retrospective, Completed
  <2>3. Retrospective \in [outcome : {"completed", "incomplete", "raised"},
                           gates : SUBSET GatePhases]
    BY DEF Retrospective
  <2>4. QED
    BY <2>1, <2>2, <2>3
<1>9. CASE LiveApproverFails
  BY <1>9 DEF LiveApproverFails, ApproverFails, Raised
<1>10. CASE LivePersist
  BY <1>10 DEF LivePersist, Persist, livevars
<1>11. CASE LiveCrash
  BY <1>11 DEF LiveCrash, Crash
<1>12. CASE LiveRest \/ UNCHANGED <<vars, livevars>>
  BY <1>12 DEF LiveRest, Rest, vars, livevars, Retrospective, Completed
<1>13. QED
  BY <1>1, <1>2, <1>3, <1>4, <1>5, <1>6, <1>7, <1>8, <1>9, <1>10, <1>11, <1>12
  DEF LiveNext, HandlerStep, DriverStep

LEMMA DeskStep ==
    ASSUME SafetyInv, Desk, [LiveNext]_<<vars, livevars>>
    PROVE  Desk'
<1>t. TypeOK
  BY DEF SafetyInv, TypeInv
<1>1. ASSUME NEW seq \in PhaseSequences, LiveStart(seq)
      PROVE  Desk'
  <2>1. job = None
    BY <1>1, NoJobOutsideAHandler DEF LiveStart, StartRun, Resting, Desk
  <2>2. st'.artifacts = << >>
    BY <1>1 DEF LiveStart, StartRun, MoveTo, InitialState
  <2>3. QED
    BY <1>1, <2>1, <2>2, DeskIsCleared DEF LiveStart
<1>2. ASSUME NEW p \in Phases, LiveAsk(p)
      PROVE  Desk'
  <2>1. job = None
    BY <1>2, NoJobOutsideAHandler DEF LiveAsk, AskApproval, Desk
  <2>2. QED
    BY <1>2, <2>1, DeskOutsideAHandler DEF LiveAsk, AskApproval, thread
<1>3. ASSUME NEW p \in Phases, LiveResume(p)
      PROVE  Desk'
  <2>1. job = None
    BY <1>3, NoJobOutsideAHandler DEF LiveResume, Resume, Desk
  <2>2. st'.artifacts = st.artifacts
    <3>1. decision \in Decisions /\ st \in SpiralStates /\ st' = DecisionUpdate(p, st, decision)
      BY <1>3 DEF LiveResume, Resume, MoveTo, SafetyInv, TypeInv, TypeOK, InFlight
    <3>2. QED
      BY <3>1, UpdateArtifacts
  <2>3. QED
    BY <1>3, <2>1, <2>2, DeskOutsideAHandler DEF LiveResume, Resume, livevars, history
<1>4. ASSUME NEW d \in Decisions, LiveAnswer(d)
      PROVE  Desk'
  <2>1. job = None
    BY <1>4, NoJobOutsideAHandler DEF LiveAnswer, Answer, Desk
  <2>2. QED
    BY <1>4, <2>1, DeskOutsideAHandler DEF LiveAnswer, Answer, thread, livevars
<1>5. CASE LiveFinish
  <2>1. job = None
    BY <1>5, NoJobOutsideAHandler DEF LiveFinish, Finish, Desk
  <2>2. QED
    BY <1>5, <2>1, DeskOutsideAHandler DEF LiveFinish, Finish, thread, history
<1>6. CASE LiveApproverFails
  <2>1. job = None
    BY <1>6, NoJobOutsideAHandler DEF LiveApproverFails, ApproverFails, Desk
  <2>2. QED
    BY <1>6, <2>1, DeskOutsideAHandler DEF LiveApproverFails, ApproverFails, thread, history
<1>7. CASE LivePersist
  BY <1>7, DeskIsKept DEF LivePersist, Persist, thread, history, livevars
<1>8. CASE LiveCrash
  <2>1. st'.artifacts = << >>
    BY <1>8, LiveAssumption DEF LiveCrash, Crash, BlankState, InitialState
  <2>2. QED
    BY <1>8, <2>1, DeskIsCleared DEF LiveCrash
<1>9. CASE LiveRest \/ UNCHANGED <<vars, livevars>>
  BY <1>9, DeskIsKept DEF LiveRest, Rest, vars, history, livevars
<1>10. QED
  BY <1>t, <1>1, <1>2, <1>3, <1>4, <1>5, <1>6, <1>7, <1>8, <1>9, DeskWritePrompt,
     DeskSpawnWorker, DeskWorkerExits, DeskSaveTranscript, DeskEndHandler, DeskHandlerFails
  DEF LiveNext, HandlerStep, DriverStep

LEMMA LiveInvStep == LiveInv /\ [LiveNext]_<<vars, livevars>> => LiveInv'
<1> SUFFICES ASSUME LiveInv, [LiveNext]_<<vars, livevars>>
             PROVE  LiveInv'
  OBVIOUS
<1>1. SafetyInv /\ WorkInv /\ ToldInv /\ Desk
  BY DEF LiveInv, Desk
<1>2. [Next]_vars
  BY <1>1, LiveStepIsASpiralStep DEF Desk
<1>3. SafetyInv' /\ WorkInv'
  BY <1>1, <1>2, SafetyStep, WorkStep
<1>4. ToldInv' /\ Desk'
  BY <1>1, ToldStep, DeskStep
<1>5. QED
  BY <1>3, <1>4 DEF LiveInv, Desk

-----------------------------------------------------------------------------
(* The theorems.                                                           *)

LEMMA LiveInvariant == LiveSpec => []LiveInv
  BY LiveInitInv, LiveInvStep, PTL DEF LiveSpec

(* Every live run is a behaviour of the spiral: taking the handlers apart  *)
(* (live_run.py, workers/) changes nothing the driver or the thread sees.  *)
THEOREM LiveRunIsASpiral == LiveSpec => Spec
<1>1. LiveInit => Init
  BY DEF LiveInit
<1>2. LiveInv /\ [LiveNext]_<<vars, livevars>> => [Next]_vars
  BY LiveStepIsASpiralStep DEF LiveInv
<1>3. QED
  BY <1>1, <1>2, LiveInvariant, PTL DEF LiveSpec, Spec

(* The gates hold in a live run, with its real handlers: no prompt of a    *)
(* phase ever becomes work before the operator approved what precedes it   *)
(* (run_live_project over run_gated_project).                              *)
THEOREM LiveGatesComeFirst == LiveSpec => []NoWorkPastAnUnapprovedGate
  BY LiveRunIsASpiral, GatesComeFirst

(* The types of a live run, and that a job belongs to the node at hand.    *)
THEOREM LiveTypeCorrect == LiveSpec => []LiveTypeOK
<1>1. LiveInv => LiveTypeOK
  BY DEF LiveInv, SafetyInv, TypeInv, JobInv, Jobs, FilesInv, OutputsInv, ToldInv, LiveTypeOK
<1>2. QED
  BY <1>1, LiveInvariant, PTL

(* Whatever earlier runs left in the workspace, the artifacts of a run are *)
(* what its own workers printed, each by another worker (live_run.py).     *)
THEOREM LiveArtifactsAreOwn == LiveSpec => []ArtifactsAreOwn
<1>1. LiveInv => ArtifactsAreOwn
  <2> SUFFICES ASSUME LiveInv
               PROVE  ArtifactsAreOwn
    OBVIOUS
  <2>1. DOMAIN outputs = 1..Len(outputs)
    BY LenProperties DEF LiveInv, OutputsInv
  <2>2. QED
    BY <2>1 DEF LiveInv, OutputsInv, ArtifactsAreOwn
<1>2. QED
  BY <1>1, LiveInvariant, PTL

(* Every worker is shown the output of the one before it, first of all,    *)
(* for every budget of context (phase_prompts.py, _bounded_context).       *)
THEOREM LivePhasesBuildOnEachOther == LiveSpec => []EachBuildsOnTheLast
<1>1. LiveInv => EachBuildsOnTheLast
  BY DEF LiveInv, OutputsInv
<1>2. QED
  BY <1>1, LiveInvariant, PTL

(* A retrospective says `completed' of a run whose gates were approved and *)
(* whose phases all have an output, and `incomplete' of a rejected one     *)
(* (project_run.py, generate_retrospective).                               *)
THEOREM LiveRetrospectiveIsTrue == LiveSpec => []RetrospectiveIsTrue
<1>1. LiveInv => RetrospectiveIsTrue
  <2> SUFFICES ASSUME LiveInv, pc = "done"
               PROVE  IF result.outcome = "completed"
                         THEN \A p \in Range(st.phase_sequence) :
                                  /\ p \in GatePhases => p \in approved
                                  /\ \E i \in DOMAIN outputs : outputs[i].id.phase = p
                         ELSE st.last_decision = "reject"
    BY DEF RetrospectiveIsTrue
  <2>1. result.outcome = IF Range(st.phase_sequence) \subseteq Completed(st)
                            THEN "completed" ELSE "incomplete"
    BY DEF LiveInv, ToldInv, Retrospective
  <2>2. \/ st.last_decision = "reject"
        \/ /\ Completed(st) = Range(st.phase_sequence)
           /\ Completed(st) \cap GatePhases \subseteq approved
    BY DEF LiveInv, ToldInv, SafetyInv, FinishedMeansGoverned
  <2>3. CASE ~ Range(st.phase_sequence) \subseteq Completed(st)
    BY <2>1, <2>2, <2>3
  <2>4. CASE Range(st.phase_sequence) \subseteq Completed(st)
    <3>1. Completed(st) \cap GatePhases \subseteq approved
      BY <2>2, <2>4 DEF LiveInv, WorkInv
    <3>2. ASSUME NEW p \in Range(st.phase_sequence)
          PROVE  \E i \in DOMAIN outputs : outputs[i].id.phase = p
      <4>1. p \in Range(st.artifacts) /\ st.artifacts \in Seq(Phases)
        BY <2>4, <3>2 DEF LiveInv, WorkInv, SafetyInv, TypeInv, TypeOK, SpiralStates
      <4>2. PICK i \in 1..Len(st.artifacts) : st.artifacts[i] = p
        BY <4>1, LenProperties DEF Range
      <4>3. DOMAIN outputs = 1..Len(outputs) /\ Len(outputs) = Len(st.artifacts)
        BY LenProperties DEF LiveInv, OutputsInv
      <4>4. outputs[i].id.phase = p
        BY <4>2, <4>3 DEF LiveInv, OutputsInv
      <4>5. QED
        BY <4>2, <4>3, <4>4
    <3>3. QED
      BY <2>1, <2>4, <3>1, <3>2
  <2>5. QED
    BY <2>3, <2>4
<1>2. QED
  BY <1>1, LiveInvariant, PTL

-----------------------------------------------------------------------------
(* Part 3: WorkerContainers.                                               *)
-----------------------------------------------------------------------------
(* Every step of a live run with its containers is one of the live run.    *)
LEMMA ConStepIsALiveStep ==
    ASSUME [ConNext]_convars
    PROVE  [LiveNext]_<<vars, livevars>>
<1>1. CASE \/ \E seq \in PhaseSequences : ConStart(seq)
           \/ \E p \in Phases : ConError(p)
           \/ ConExit \/ ConDesert \/ ConApproverFails \/ ConCrash \/ ConAnswer
           \/ ((LivePersist \/ LiveRest) /\ Unwatched)
  BY <1>1 DEF ConStart, ConError, ConExit, ConDesert, ConApproverFails, ConCrash, ConAnswer, LiveNext
<1>2. CASE ConHandlerStep \/ ConDriverStep
  BY <1>2 DEF ConHandlerStep, ConDriverStep, ConSpawn, ConTimeout, LiveNext, HandlerStep
<1>3. CASE \E c \in containers : StrayEnds(c)
  BY <1>3 DEF StrayEnds
<1>4. CASE UNCHANGED convars
  BY <1>4 DEF convars
<1>5. QED
  BY <1>1, <1>2, <1>3, <1>4 DEF ConNext

LEMMA ConLiveInvariant == ConSpec => []LiveInv
<1>1. ConInit => LiveInv
  BY LiveInitInv DEF ConInit
<1>2. LiveInv /\ [ConNext]_convars => LiveInv'
  BY ConStepIsALiveStep, LiveInvStep
<1>3. QED
  BY <1>1, <1>2, PTL DEF ConSpec

(* Whatever holds of a live run holds of one with containers.              *)
THEOREM ContainersAreALiveRun == ConSpec => LiveSpec
<1>1. ConInit => LiveInit
  BY DEF ConInit
<1>2. [ConNext]_convars => [LiveNext]_<<vars, livevars>>
  BY ConStepIsALiveStep
<1>3. QED
  BY <1>1, <1>2, PTL DEF ConSpec, LiveSpec

-----------------------------------------------------------------------------
(* The inductive invariant.                                                *)

(* A container is the one of the worker at hand, or deserted, or           *)
(* abandoned; and a run that has abandoned one is over.                    *)
StrayInv ==
    /\ runs \in Nat
    /\ \A c \in containers \cup abandoned : c.run \in Nat /\ c.run <= runs
    /\ \A c \in abandoned : pc \in Busy => c.run < runs
    /\ \A c \in containers \ deserted :
           c \in abandoned \/ (At("working") /\ c = ThisWorker)
    /\ \A c, d \in containers \ deserted : c.run = d.run => c = d

(* A run that has returned or raised is over, and an incident is of this   *)
(* run, or of an earlier one about which nothing changes any more.         *)
HaltInv ==
    /\ \A i \in incidents : i.run \in Nat /\ i.run <= runs
    /\ \A i \in incidents : pc \in Busy => i.run < runs
    /\ IncidentsAreTrue

ConInv == StrayInv /\ HaltInv

(* The worker at hand runs in this run, and the driver waits for it.       *)
LEMMA WorkerAtHand ==
    ASSUME LiveInv, At("working")
    PROVE  ThisWorker.run = runs /\ pc = "running" /\ node \in Phases
  BY DEF LiveInv, JobInv, HandlerDue, At, ThisWorker, Printed

(* A step that changes no container, keeps the run and lets no worker go.  *)
LEMMA StrayIsKept ==
    ASSUME StrayInv, UNCHANGED <<watched, runs>>,
           pc' \in Busy => pc \in Busy,
           At("working") => At("working")' /\ ThisWorker' = ThisWorker
    PROVE  StrayInv'
  BY DEF StrayInv, watched

(* A step of a run that goes on, without an incident.                      *)
LEMMA HaltIsKept ==
    ASSUME HaltInv, StrayInv, pc \in Busy, pc' # "failed", UNCHANGED <<dumped, runs>>,
           \A n \in Nat : n < runs => (Abandoned(n)' <=> Abandoned(n))
    PROVE  HaltInv'
<1>1. ASSUME NEW i \in incidents
      PROVE  /\ i.run \in Nat /\ i.run < runs
             /\ (i.reason = "timeout") <=> Abandoned(i.run)'
             /\ \A j \in incidents : i.run = j.run => i = j
  BY <1>1 DEF HaltInv, IncidentsAreTrue
<1>2. runs \in Nat
  BY DEF StrayInv
<1>3. IncidentsAreTrue'
  BY <1>1, <1>2 DEF IncidentsAreTrue, dumped, Abandoned
<1>4. QED
  BY <1>1, <1>2, <1>3 DEF HaltInv, dumped

(* A step of a run that raises, with or without an incident.               *)
LEMMA HaltIsDumped ==
    ASSUME HaltInv, StrayInv, pc \in Busy, pc' = "failed",
           NEW reason \in Reasons, Halt(reason), runs' = runs,
           (reason = "timeout") <=> Abandoned(runs)',
           \A n \in Nat : n < runs => (Abandoned(n)' <=> Abandoned(n))
    PROVE  HaltInv'
<1> DEFINE this == [run |-> runs, reason |-> reason]
<1>1. error' = reason /\ runs \in Nat /\ incidents' \subseteq incidents \cup {this}
  BY DEF Halt, StrayInv
<1>2. ASSUME NEW i \in incidents
      PROVE  /\ i.run \in Nat /\ i.run < runs
             /\ (i.reason = "timeout") <=> Abandoned(i.run)'
             /\ \A j \in incidents : i.run = j.run => i = j
  BY <1>2 DEF HaltInv, IncidentsAreTrue
<1>3. this.run = runs /\ this.reason = reason
  OBVIOUS
<1> HIDE DEF this
<1>4. \A i \in incidents' : i.run \in Nat /\ i.run <= runs
  BY <1>1, <1>2, <1>3
<1>5. \A i \in incidents' : i.run = runs => i = this
  BY <1>1, <1>2, <1>3
<1>6. \A i \in incidents' : (i.reason = "timeout") <=> Abandoned(i.run)'
  BY <1>1, <1>2, <1>3
<1>7. \A i, j \in incidents' : i.run = j.run => i = j
  BY <1>1, <1>2, <1>3
<1>8. IncidentsAreTrue'
  BY <1>1, <1>3, <1>5, <1>6, <1>7 DEF IncidentsAreTrue, Abandoned
<1>9. QED
  BY <1>1, <1>4, <1>8 DEF HaltInv, Busy

(* The podman client of the worker at hand is killed, and the run is over. *)
LEMMA WorkerIsAbandoned ==
    ASSUME LiveInv, StrayInv, At("working"), Abandon, runs' = runs, pc' \notin Busy
    PROVE  /\ StrayInv'
           /\ Abandoned(runs)'
           /\ \A n \in Nat : n < runs => (Abandoned(n)' <=> Abandoned(n))
<1>1. ThisWorker.run = runs /\ runs \in Nat
  BY WorkerAtHand DEF StrayInv
<1>2. StrayInv'
  BY <1>1 DEF StrayInv, Abandon
<1>3. QED
  BY <1>1, <1>2 DEF Abandon, Abandoned

-----------------------------------------------------------------------------
(* The steps.                                                              *)

(* A step inside a handler, or in the driver, that ends no worker.         *)
LEMMA QuietSteps ==
    ASSUME LiveInv,
           \/ \E p \in Phases : WritePrompt(p) \/ EndHandler(p)
           \/ SaveTranscript
           \/ DriverStep
           \/ \E d \in Decisions : LiveAnswer(d)
           \/ LivePersist
    PROVE  /\ pc \in Busy /\ pc' # "failed" /\ runs' = runs
           /\ At("working") => At("working")' /\ ThisWorker' = ThisWorker
<1>j. JobInv
  BY DEF LiveInv
<1>1. ASSUME NEW p \in Phases, WritePrompt(p)
      PROVE  pc = "running" /\ pc' = pc /\ runs' = runs /\ job = None
  BY <1>1 DEF WritePrompt, HandlerDue, vars
<1>2. ASSUME NEW p \in Phases, EndHandler(p)
      PROVE  pc = "running" /\ pc' = pc /\ runs' = runs /\ ~ At("working")
  BY <1>2 DEF EndHandler, RunPhase, OpenGate, At
<1>3. CASE SaveTranscript
  <2>1. pc = "running" /\ pc' = pc /\ runs' = runs /\ ~ At("working")
    BY <1>j, <1>3 DEF SaveTranscript, At, JobInv, HandlerDue, vars
  <2>2. QED
    BY <2>1 DEF Busy
<1>4. CASE DriverStep
  <2>1. /\ pc \in Busy /\ pc' # "failed" /\ runs' = runs
        /\ pc # "running" \/ node = End \/ st.pending_gate_id = node
    BY <1>4 DEF DriverStep, LiveAsk, LiveResume, LiveFinish, AskApproval, Resume, Finish,
                livevars, Busy
  <2>2. job = None
    BY <1>j, <2>1, NoJobOutsideAHandler
  <2>3. QED
    BY <2>1, <2>2 DEF At
<1>5. ASSUME NEW d \in Decisions, LiveAnswer(d)
      PROVE  pc = "asking" /\ pc' = "resuming" /\ runs' = runs /\ job = None
  BY <1>j, <1>5, NoJobOutsideAHandler DEF LiveAnswer, Answer, livevars
<1>6. CASE LivePersist
  BY <1>6 DEF LivePersist, Persist, livevars, thread, history, Busy, At, ThisWorker, Printed
<1>7. QED
  BY <1>1, <1>2, <1>3, <1>4, <1>5, <1>6 DEF Busy, At

(* No step that leaves the set alone changes who was abandoned.            *)
LEMMA AbandonedIsKept ==
    ASSUME UNCHANGED abandoned
    PROVE  \A n \in Nat : Abandoned(n)' <=> Abandoned(n)
  BY DEF Abandoned

LEMMA ConInvStep ==
    ASSUME LiveInv, LiveInv', ConInv, [ConNext]_convars
    PROVE  ConInv'
<1>i. StrayInv /\ HaltInv
  BY DEF ConInv
<1>1. ASSUME NEW seq \in PhaseSequences, ConStart(seq)
      PROVE  ConInv'
  <2>1. /\ pc \in Resting /\ runs' = runs + 1 /\ runs \in Nat
        /\ UNCHANGED <<watched, incidents, job>> /\ pc' = "running"
    BY <1>i, <1>1 DEF ConStart, LiveStart, StartRun, StrayInv
  <2>2. job = None
    BY <2>1, NoJobOutsideAHandler DEF LiveInv, Resting
  <2>3. StrayInv'
    BY <1>i, <2>1, <2>2 DEF StrayInv, At, watched
  <2>4. ASSUME NEW i \in incidents
        PROVE  /\ i.run \in Nat /\ i.run <= runs
               /\ (i.reason = "timeout") <=> Abandoned(i.run)
               /\ \A j \in incidents : i.run = j.run => i = j
    BY <1>i, <2>4 DEF HaltInv, IncidentsAreTrue
  <2>5. HaltInv'
    BY <2>1, <2>4 DEF HaltInv, IncidentsAreTrue, watched, Abandoned
  <2>6. QED
    BY <2>3, <2>5 DEF ConInv
<1>2. CASE /\ Unwatched
           /\ \/ \E p \in Phases : WritePrompt(p) \/ EndHandler(p)
              \/ SaveTranscript
              \/ DriverStep
              \/ \E d \in Decisions : LiveAnswer(d)
              \/ LivePersist
  <2>1. /\ pc \in Busy /\ pc' # "failed" /\ runs' = runs
        /\ At("working") => At("working")' /\ ThisWorker' = ThisWorker
    BY <1>2, QuietSteps
  <2>2. StrayInv'
    BY <1>i, <1>2, <2>1, StrayIsKept DEF Unwatched
  <2>3. HaltInv'
    BY <1>i, <1>2, <2>1, AbandonedIsKept, HaltIsKept DEF Unwatched, watched
  <2>4. QED
    BY <2>2, <2>3 DEF ConInv
<1>3. CASE ConSpawn
  <2>1. /\ At("prompted") /\ ~ At("working") /\ pc = "running" /\ pc' = pc
        /\ runs' = runs /\ At("working")'
        /\ ThisWorker' = ThisWorker /\ ThisWorker.run = runs
        /\ containers' = containers \cup {ThisWorker} /\ UNCHANGED <<deserted, abandoned, dumped>>
    <3>1. job' \in Jobs
      BY <1>3 DEF ConSpawn, SpawnWorker, LiveInv, JobInv, HandlerDue, FilesInv, At, Jobs
    <3>2. /\ pc = "running" /\ UNCHANGED <<pc, node, runs, handled>>
          /\ job.stage = "prompted" /\ job'.stage = "working"
      BY <1>3 DEF ConSpawn, SpawnWorker, LiveInv, JobInv, HandlerDue, At, vars, history
    <3>3. QED
      BY <1>3, <3>1, <3>2, NoJobAssumption DEF ConSpawn, SpawnWorker, At, ThisWorker, Printed
  <2>2. StrayInv'
    BY <1>i, <2>1 DEF StrayInv, Busy
  <2>3. HaltInv'
    BY <1>i, <2>1, AbandonedIsKept, HaltIsKept DEF HaltInv, Busy
  <2>4. QED
    BY <2>2, <2>3 DEF ConInv
<1>4. CASE ConExit \/ ConDesert
  <2>1. /\ At("working") /\ pc = "running" /\ pc' = pc /\ runs' = runs
        /\ UNCHANGED <<abandoned, dumped>>
        /\ \/ containers' = containers \ {ThisWorker} /\ deserted' = deserted
           \/ containers' = containers /\ deserted' = deserted \cup {ThisWorker}
    BY <1>4, WorkerAtHand DEF ConExit, ConDesert, WorkerExits, vars
  <2>2. StrayInv'
    BY <1>i, <2>1 DEF StrayInv, Busy
  <2>3. HaltInv'
    BY <1>i, <2>1, AbandonedIsKept, HaltIsKept DEF HaltInv, Busy
  <2>4. QED
    BY <2>2, <2>3 DEF ConInv
<1>5. CASE ConTimeout
  <2>1. /\ At("working") /\ pc = "running" /\ pc' = "failed" /\ runs' = runs
        /\ Abandon /\ Halt("timeout")
    BY <1>5, WorkerAtHand DEF ConTimeout, WorkerTimesOut, FailHandler, HandlerFails
  <2>2. /\ StrayInv' /\ Abandoned(runs)'
        /\ \A n \in Nat : n < runs => (Abandoned(n)' <=> Abandoned(n))
    BY <1>i, <2>1, WorkerIsAbandoned DEF Busy
  <2>3. HaltInv'
    BY <1>i, <2>1, <2>2, HaltIsDumped DEF Reasons, Busy
  <2>4. QED
    BY <2>2, <2>3 DEF ConInv
<1>6. ASSUME \/ \E p \in Phases : ConError(p)
             \/ ConApproverFails
      PROVE  ConInv'
  <2>1. /\ pc \in Busy /\ pc' = "failed" /\ runs' = runs
        /\ UNCHANGED watched /\ ~ At("working")
        /\ Halt("error") \/ Halt("approver")
    <3>1. ASSUME NEW p \in Phases, ConError(p)
          PROVE  /\ pc \in Busy /\ pc' = "failed" /\ runs' = runs
                 /\ UNCHANGED watched /\ ~ At("working") /\ Halt("error")
      BY <3>1 DEF ConError, HandlerErrs, FailHandler, HandlerFails, Busy
    <3>2. CASE ConApproverFails
      <4>1. job = None
        BY <3>2, NoJobOutsideAHandler DEF ConApproverFails, LiveApproverFails, ApproverFails,
                                          LiveInv
      <4>2. QED
        BY <3>2, <4>1 DEF ConApproverFails, LiveApproverFails, ApproverFails, At, Busy
    <3>3. QED
      BY <1>6, <3>1, <3>2
  <2>2. ~ Abandoned(runs)' /\ \A n \in Nat : Abandoned(n)' <=> Abandoned(n)
    BY <1>i, <2>1, AbandonedIsKept DEF StrayInv, watched, Abandoned
  <2>3. StrayInv'
    BY <1>i, <2>1, StrayIsKept DEF Busy
  <2>4. HaltInv'
    BY <1>i, <2>1, <2>2, HaltIsDumped DEF Reasons
  <2>5. QED
    BY <2>3, <2>4 DEF ConInv
<1>7. CASE ConCrash
  <2>1. /\ pc \in Busy /\ pc' = "crashed" /\ runs' = runs
        /\ UNCHANGED dumped /\ IF At("working") THEN Abandon ELSE UNCHANGED watched
    BY <1>7 DEF ConCrash, LiveCrash, Crash
  <2>2. StrayInv' /\ \A n \in Nat : n < runs => (Abandoned(n)' <=> Abandoned(n))
    <3>1. CASE At("working")
      BY <1>i, <2>1, <3>1, WorkerIsAbandoned DEF Busy
    <3>2. CASE ~ At("working")
      BY <1>i, <2>1, <3>2, StrayIsKept, AbandonedIsKept DEF watched, Busy
    <3>3. QED
      BY <3>1, <3>2
  <2>3. HaltInv'
    BY <1>i, <2>1, <2>2, HaltIsKept DEF HaltInv
  <2>4. QED
    BY <2>2, <2>3 DEF ConInv
<1>8. CASE \/ \E c \in containers : StrayEnds(c)
           \/ LiveRest /\ Unwatched
           \/ UNCHANGED convars
  <2>1. /\ UNCHANGED <<vars, livevars, abandoned, dumped>>
        /\ containers' \subseteq containers
        /\ containers' \ deserted' \subseteq containers \ deserted
    BY <1>8 DEF StrayEnds, LiveRest, Rest, Unwatched, watched, convars
  <2>2. UNCHANGED <<pc, node, runs, handled, job, result, abandoned, error, incidents>>
    BY <2>1 DEF vars, history, livevars, dumped
  <2>3. At("working")' <=> At("working")
    BY <2>2 DEF At
  <2>4. ThisWorker' = ThisWorker
    BY <2>2 DEF ThisWorker, Printed
  <2>5. StrayInv'
    BY <1>i, <2>1, <2>2, <2>3, <2>4 DEF StrayInv
  <2>6. HaltInv'
    BY <1>i, <2>2 DEF HaltInv, IncidentsAreTrue, Abandoned
  <2>7. QED
    BY <2>5, <2>6 DEF ConInv
<1>9. QED
  BY <1>1, <1>2, <1>3, <1>4, <1>5, <1>6, <1>7, <1>8
  DEF ConNext, ConHandlerStep, ConDriverStep, ConAnswer

LEMMA ConInvariant == ConSpec => [](LiveInv /\ ConInv)
<1>1. ConInit => ConInv
  <2>1. ASSUME ConInit
        PROVE  pc = "idle" /\ runs = 0 /\ containers = {} /\ abandoned = {} /\ incidents = {}
    BY <2>1, SentinelAssumption DEF ConInit, LiveInit, Init
  <2>2. QED
    BY <2>1 DEF ConInv, StrayInv, HaltInv, IncidentsAreTrue, Busy
<1>2. LiveInv /\ LiveInv' /\ ConInv /\ [ConNext]_convars => ConInv'
  BY ConInvStep
<1>3. QED
  BY <1>1, <1>2, ConLiveInvariant, PTL DEF ConSpec

-----------------------------------------------------------------------------
(* The theorems.                                                           *)

(* However many containers outlive their clients, a worker finds another   *)
(* one of its run in the workspace only if a client ended by itself        *)
(* (_subprocess.py, _container.py).                                        *)
THEOREM WorkersTakeTurns == ConSpec => []WorkersOfARunTakeTurns
<1>1. LiveInv /\ ConInv => WorkersOfARunTakeTurns
  BY WorkerAtHand DEF ConInv, StrayInv, WorkersOfARunTakeTurns, Busy
<1>2. QED
  BY <1>1, ConInvariant, PTL

(* What run_project raises and what its incidents say is what happened.    *)
THEOREM HaltsAreToldTruly == ConSpec => []IncidentsAreTrue
<1>1. ConInv => IncidentsAreTrue
  BY DEF ConInv, HaltInv
<1>2. QED
  BY <1>1, ConInvariant, PTL

(* With its handlers taken apart, its workers in containers that may       *)
(* outlive them, and any number of crashes, reruns and halts, a live run   *)
(* still gives its caller the contract GatedPlan.                          *)
THEOREM ContainersImplementGatedPlan == ConSpec => ImplementsGatedPlan
BY ContainersAreALiveRun, LiveRunIsASpiral, SpiralImplementsGatedPlan, PTL

=============================================================================
