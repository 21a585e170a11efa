------------------------------ MODULE LiveRun -------------------------------
(***************************************************************************)
(* A live project run: run_live_project (app/live_run.py) and the          *)
(* run_project of app/project_run.py around the spiral, with the handlers  *)
(* taken apart.  A handler writes a prompt into the workspace, a worker    *)
(* adapter (workers/) reads it, runs a CLI in a container under a timeout  *)
(* and writes its stdout into the workspace as a transcript, and the       *)
(* handler reads that back as the artifact of the phase.                   *)
(*                                                                         *)
(* The files in the workspace outlive the process; the thread does not,    *)
(* since a live run is built with the in-memory checkpointer.  Every       *)
(* action of Spiral is taken over unchanged; a handler is over when        *)
(* RunPhase, OpenGate or HandlerFails is taken.                            *)
(***************************************************************************)
EXTENDS Spiral, SequencesExt

CONSTANTS
    ApproverRecords,  \* TRUE: the approver keeps the list `seen' of its gates
    ContextBudget     \* outputs that fit into the context of a prompt

ASSUME LiveAssumption ==
    /\ ~ Durable
    /\ SilentPhases = {}
    /\ ApproverRecords \in BOOLEAN
    /\ ContextBudget \in Nat \ {0}

VARIABLES
    job,          \* what the running handler does, or None
    prompts,      \* <phase>.prompt.md in the workspace: the outputs quoted in it
    transcripts,  \* <phase>.transcript.txt in the workspace, or None
    outputs,      \* the texts in st.artifacts
    seen,         \* gates the approver has recorded
    result        \* what run_project returned or raised, or None

workspace == <<prompts, transcripts>>
livevars  == <<job, workspace, outputs, seen, result>>

(* What a worker run printed: which run it was, and what it had been shown. *)
Ids == [phase : Phases, run : Nat, turn : Nat]
Outputs == [id : Ids, context : Seq(Ids)]

(* What a handler is doing, and what its worker was shown.                 *)
Jobs == [stage : {"prompted", "working", "exited", "saved"}, context : Seq(Ids)]

ASSUME NoJobAssumption == None \notin Jobs

LiveInit ==
    /\ Init
    /\ job = None
    /\ prompts = [p \in Phases |-> << >>]
    /\ transcripts = [p \in Phases |-> None]
    /\ outputs = << >>
    /\ seen = {}
    /\ result = None

(* run_project: a call of the driver, with an approver of its own.         *)
LiveStart(seq) ==
    /\ StartRun(seq, "gated")
    /\ outputs' = << >>
    /\ seen' = {}
    /\ result' = None
    /\ UNCHANGED <<job, workspace>>

-----------------------------------------------------------------------------
(* The handler of a phase.                                                 *)

HandlerDue(p) ==
    /\ pc = "running"
    /\ node = p
    /\ st.pending_gate_id # p

(* Mutated form: the oldest outputs come first, and fill the budget.       *)
Context_OldestFirst ==
    LET ids == [i \in DOMAIN outputs |-> outputs[i].id]
    IN  SubSeq(ids, 1, IF Len(ids) < ContextBudget THEN Len(ids) ELSE ContextBudget)

(* _bounded_context: the newest outputs first, as many as fit.             *)
Context ==
    LET ids == Reverse([i \in DOMAIN outputs |-> outputs[i].id])
    IN  SubSeq(ids, 1, IF Len(ids) < ContextBudget THEN Len(ids) ELSE ContextBudget)

(* The prompt is written anew for every visit, over any older one.         *)
WritePrompt(p) ==
    /\ HandlerDue(p)
    /\ job = None
    /\ prompts' = [prompts EXCEPT ![p] = Context]
    /\ job' = [stage |-> "prompted", context |-> << >>]
    /\ UNCHANGED <<vars, transcripts, outputs, seen, result>>

At(stage) == job # None /\ job.stage = stage

(* The worker adapter reads the prompt file and spawns the CLI with it.    *)
SpawnWorker ==
    /\ At("prompted")
    /\ job' = [stage |-> "working", context |-> prompts[node]]
    /\ UNCHANGED <<vars, workspace, outputs, seen, result>>

(* The CLI exits; no code looks at how.                                    *)
WorkerExits ==
    /\ At("working")
    /\ job' = [job EXCEPT !.stage = "exited"]
    /\ UNCHANGED <<vars, workspace, outputs, seen, result>>

Printed == [ id |-> [phase |-> node, run |-> runs, turn |-> handled[node] + 1],
             context |-> job.context ]

(* Mutated form: the stdout of a failed worker is not kept.                *)
SaveTranscript_IfClean ==
    /\ At("exited")
    /\ \/ transcripts' = [transcripts EXCEPT ![node] = Printed]
       \/ transcripts[node] # None /\ UNCHANGED transcripts
    /\ job' = [job EXCEPT !.stage = "saved"]
    /\ UNCHANGED <<vars, prompts, outputs, seen, result>>

(* The adapter writes what the worker printed over any older transcript.   *)
SaveTranscript ==
    /\ At("exited")
    /\ transcripts' = [transcripts EXCEPT ![node] = Printed]
    /\ job' = [job EXCEPT !.stage = "saved"]
    /\ UNCHANGED <<vars, prompts, outputs, seen, result>>

(* The handler returns the text of the transcript file; the node ends.     *)
EndHandler(p) ==
    /\ At("saved")
    /\ RunPhase(p) \/ OpenGate(p)
    /\ outputs' = Append(outputs, transcripts[p])
    /\ job' = None
    /\ UNCHANGED <<workspace, seen, result>>

(* run_project raised the error of the run, after it dumped an incident.   *)
Raised == [outcome |-> "raised", gates |-> {}]

(* The error of a handler leaves the invoke and run_project.               *)
FailHandler ==
    /\ HandlerFails(node)
    /\ job' = None
    /\ result' = Raised
    /\ UNCHANGED <<workspace, outputs, seen>>

(* A file cannot be written or read, the CLI cannot be started, or what it *)
(* printed is no text.                                                     *)
HandlerErrs(p) ==
    /\ HandlerDue(p)
    /\ ~ At("working")
    /\ FailHandler

(* Mutated form: the worker is waited for without a timeout.               *)
WorkerTimesOut_Never == At("lost") /\ UNCHANGED <<vars, livevars>>

(* subprocess.run gives up and raises.                                     *)
WorkerTimesOut == At("working") /\ FailHandler

-----------------------------------------------------------------------------
(* The driver.                                                             *)

LiveAsk(p) ==
    /\ AskApproval(p)
    /\ seen' = IF ApproverRecords THEN seen \cup {p} ELSE seen
    /\ UNCHANGED <<job, workspace, outputs, result>>

LiveAnswer(d) == Answer(d) /\ UNCHANGED livevars

LiveResume(p) == Resume(p) /\ UNCHANGED livevars

(* Mutated form: the plan and the completed phases are swapped.            *)
Retrospective_Swapped ==
    [ outcome |-> IF Completed(st) \subseteq Range(st.phase_sequence)
                     THEN "completed" ELSE "incomplete",
      gates   |-> seen ]

(* generate_retrospective, with the gates fired.                           *)
Retrospective ==
    [ outcome |-> IF Range(st.phase_sequence) \subseteq Completed(st)
                     THEN "completed" ELSE "incomplete",
      gates   |-> seen ]

LiveFinish ==
    /\ Finish
    /\ result' = Retrospective
    /\ UNCHANGED <<job, workspace, outputs, seen>>

(* The approver raises: an incident is dumped and run_project raises.      *)
LiveApproverFails ==
    /\ ApproverFails
    /\ result' = Raised
    /\ UNCHANGED <<job, workspace, outputs, seen>>

LivePersist == Persist /\ UNCHANGED livevars

(* The process dies; the workspace stays.                                  *)
LiveCrash ==
    /\ Crash
    /\ job' = None
    /\ outputs' = << >>
    /\ seen' = {}
    /\ UNCHANGED <<workspace, result>>

LiveRest == Rest /\ UNCHANGED livevars

HandlerStep ==
    \/ \E p \in Phases : WritePrompt(p) \/ EndHandler(p)
    \/ SpawnWorker
    \/ SaveTranscript
    \/ WorkerTimesOut

DriverStep ==
    \/ \E p \in Phases : LiveAsk(p) \/ LiveResume(p)
    \/ LiveFinish

LiveNext ==
    \/ \E seq \in PhaseSequences : LiveStart(seq)
    \/ HandlerStep
    \/ \E p \in Phases : HandlerErrs(p)
    \/ WorkerExits
    \/ DriverStep
    \/ \E d \in Decisions : LiveAnswer(d)
    \/ LiveApproverFails
    \/ LivePersist
    \/ LiveCrash
    \/ LiveRest

LiveSpec == LiveInit /\ [][LiveNext]_<<vars, livevars>>

(* The driver and the handlers run in one thread that always takes its     *)
(* next step, and a worker is waited for under a timeout; a worker itself  *)
(* need not ever exit.  The operator answers every prompt in the end.      *)
LiveFairSpec ==
    /\ LiveSpec
    /\ WF_<<vars, livevars>>(HandlerStep)
    /\ WF_<<vars, livevars>>(DriverStep)
    /\ WF_<<vars, livevars>>(\E d \in Decisions : LiveAnswer(d))

-----------------------------------------------------------------------------
(* Properties                                                              *)

(* Every variable keeps its type, and a job is that of the node the invoke *)
(* is at.                                                                  *)
LiveTypeOK ==
    /\ TypeOK
    /\ job \in Jobs \cup {None}
    /\ job # None => node \in Phases /\ HandlerDue(node)
    /\ prompts \in [Phases -> Seq(Ids)]
    /\ transcripts \in [Phases -> Outputs \cup {None}]
    /\ outputs \in Seq(Outputs)
    /\ Len(outputs) = Len(st.artifacts)
    /\ seen \subseteq GatePhases
    /\ result \in [outcome : {"completed", "incomplete", "raised"}, gates : SUBSET GatePhases]
                      \cup {None}

(* The artifacts of a run are what its own workers printed, phase by       *)
(* phase, although the workspace still has the transcripts of runs that    *)
(* crashed, failed or were revised (live_run.py, handler).                 *)
ArtifactsAreOwn ==
    \A i \in DOMAIN outputs :
        /\ outputs[i].id.run = runs
        /\ outputs[i].id.phase = st.artifacts[i]
        /\ \A j \in 1..(i - 1) : outputs[j].id # outputs[i].id

(* Phases build on each other: every worker is shown the output of the     *)
(* worker that ran before it in this run, first of all, and the first one  *)
(* is shown nothing; whatever prompt files an earlier run left behind, and *)
(* however many outputs compete for the budget (phase_prompts.py).         *)
EachBuildsOnTheLast ==
    \A i \in DOMAIN outputs :
        IF i = 1 THEN outputs[i].context = << >>
                 ELSE /\ outputs[i].context # << >>
                      /\ Head(outputs[i].context) = outputs[i - 1].id

(* A retrospective that says `completed' is one of a run in which the      *)
(* operator approved every gate of the plan and a worker of this very run  *)
(* produced an output for every phase; one that says `incomplete' is one   *)
(* of a rejected run (generate_retrospective).                             *)
RetrospectiveIsTrue ==
    pc = "done" =>
        IF result.outcome = "completed"
           THEN \A p \in Range(st.phase_sequence) :
                    /\ p \in GatePhases => p \in approved
                    /\ \E i \in DOMAIN outputs : outputs[i].id.phase = p
           ELSE st.last_decision = "reject"

(* What project_run.py:70-71 says of the retrospective: it is a record of  *)
(* "phases completed, gates that fired, artifacts produced".               *)
RetrospectiveListsGates ==
    pc = "done" => result.gates = issued
=============================================================================
