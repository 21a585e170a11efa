-------------------------- MODULE WorkerContainers --------------------------
(***************************************************************************)
(* A live run on containerized workers (app/live_workers.py,               *)
(* workers/_container.py), with the incidents run_project dumps when it    *)
(* raises (app/project_run.py, observability/incident.py).                 *)
(*                                                                         *)
(* What the timeout and a crash end is the podman client.  The container   *)
(* is another process: it may go on writing to the mounted workspace while *)
(* the next run uses it, and nothing in the program waits for it or stops  *)
(* it.  Every action of LiveRun is taken over; containers and incidents    *)
(* only watch it.                                                          *)
(***************************************************************************)
EXTENDS LiveRun

CONSTANT
    MaxDeserted   \* bound: containers whose client ended by itself, at a time

ASSUME MaxDesertedAssumption == MaxDeserted \in Nat

VARIABLES
    containers,  \* the containers that run, by the worker run each is for
    deserted,    \* those of them whose podman client ended by itself
    abandoned,   \* history: those whose podman client was killed
    error,       \* what the latest call of run_project raised, or None
    incidents    \* the incident files: the run, and the reason they give

watched == <<containers, deserted, abandoned>>
dumped  == <<error, incidents>>
convars == <<vars, livevars, watched, dumped>>

Reasons == {"timeout", "error", "approver"}

ConInit ==
    /\ LiveInit
    /\ containers = {}
    /\ deserted = {}
    /\ abandoned = {}
    /\ error = None
    /\ incidents = {}

ConStart(seq) ==
    /\ LiveStart(seq)
    /\ error' = None
    /\ UNCHANGED <<watched, incidents>>

-----------------------------------------------------------------------------
(* Containers.                                                             *)

ThisWorker == Printed.id

(* podman run: the client waits for the container it starts.               *)
ConSpawn ==
    /\ SpawnWorker
    /\ containers' = containers \cup {ThisWorker}
    /\ UNCHANGED <<deserted, abandoned, dumped>>

(* The container ends, is removed (--rm), and its client returns.          *)
ConExit ==
    /\ WorkerExits
    /\ containers' = containers \ {ThisWorker}
    /\ UNCHANGED <<deserted, abandoned, dumped>>

(* The client dies, or gives up, by itself.  The handler takes what it     *)
(* printed for the worker's output and goes on; the container runs on.     *)
ConDesert ==
    /\ WorkerExits
    /\ Cardinality(deserted) < MaxDeserted
    /\ deserted' = deserted \cup {ThisWorker}
    /\ UNCHANGED <<containers, abandoned, dumped>>

(* The client of the worker at hand is killed; its container may survive.  *)
Abandon ==
    /\ abandoned' = abandoned \cup {ThisWorker}
    /\ containers' \in {containers, containers \ {ThisWorker}}
    /\ UNCHANGED deserted

(* A container nobody waits for ends at last.                              *)
StrayEnds(c) ==
    /\ c \in containers \cap (deserted \cup abandoned)
    /\ containers' = containers \ {c}
    /\ deserted' = deserted \ {c}
    /\ UNCHANGED <<vars, livevars, abandoned, dumped>>

-----------------------------------------------------------------------------
(* Errors.                                                                 *)

(* Mutated form: an error while the incident is written replaces the one   *)
(* that is reported.                                                       *)
Halt_Unguarded(reason) ==
    \/ /\ error' = reason
       /\ incidents' = incidents \cup {[run |-> runs, reason |-> reason]}
    \/ /\ error' = "dump"
       /\ UNCHANGED incidents

(* The except clause of run_project: an incident is written if that is     *)
(* possible, and the error is raised again.                                *)
Halt(reason) ==
    /\ error' = reason
    /\ incidents' \in {incidents, incidents \cup {[run |-> runs, reason |-> reason]}}

(* Mutated form: the runner takes what was printed until then, and the     *)
(* handler goes on.                                                        *)
ConTimeout_Swallowed == WorkerExits /\ Abandon /\ UNCHANGED dumped

ConTimeout ==
    /\ WorkerTimesOut
    /\ Abandon
    /\ Halt("timeout")

ConError(p) ==
    /\ HandlerErrs(p)
    /\ Halt("error")
    /\ UNCHANGED watched

ConApproverFails ==
    /\ LiveApproverFails
    /\ Halt("approver")
    /\ UNCHANGED watched

(* The process dies, without an incident, and its podman client with it.   *)
ConCrash ==
    /\ LiveCrash
    /\ IF At("working") THEN Abandon ELSE UNCHANGED watched
    /\ UNCHANGED dumped

-----------------------------------------------------------------------------
Unwatched == UNCHANGED <<watched, dumped>>

ConHandlerStep ==
    \/ \E p \in Phases : WritePrompt(p) /\ Unwatched
    \/ \E p \in Phases : EndHandler(p) /\ Unwatched
    \/ (SaveTranscript /\ Unwatched)
    \/ ConSpawn
    \/ ConTimeout

ConDriverStep == DriverStep /\ Unwatched

ConAnswer == \E d \in Decisions : LiveAnswer(d) /\ Unwatched

ConNext ==
    \/ \E seq \in PhaseSequences : ConStart(seq)
    \/ ConHandlerStep
    \/ \E p \in Phases : ConError(p)
    \/ ConExit
    \/ ConDesert
    \/ \E c \in containers : StrayEnds(c)
    \/ ConDriverStep
    \/ ConAnswer
    \/ ConApproverFails
    \/ ((LivePersist \/ LiveRest) /\ Unwatched)
    \/ ConCrash

ConSpec == ConInit /\ [][ConNext]_convars

(* As for LiveRun.  No container ever has to end.                          *)
ConFairSpec ==
    /\ ConSpec
    /\ WF_convars(ConHandlerStep)
    /\ WF_convars(ConDriverStep)
    /\ WF_convars(ConAnswer)

-----------------------------------------------------------------------------
(* Properties                                                              *)

(* The workers of one run do not share the workspace, unless a podman      *)
(* client ended by itself: whatever container is left of a phase that      *)
(* timed out or crashed, no later phase's worker is started in that run.   *)
(* A worker's other company is of earlier runs, whose client was killed    *)
(* (_subprocess.py, _container.py).                                        *)
WorkersOfARunTakeTurns ==
    /\ \A c, d \in containers \ deserted : c.run = d.run => c = d
    /\ At("working") =>
           \A c \in containers \ (deserted \cup {ThisWorker}) :
               c \in abandoned /\ c.run < runs

(* The client of a worker of the run was killed.                           *)
Abandoned(run) == \E c \in abandoned : c.run = run

(* What is told of a halt is true.  run_project raises the very error that *)
(* ended the run, also when the incident cannot be written; an incident    *)
(* names the reason of its run; and a run has one incident at most, none   *)
(* if it was finished and has a retrospective (project_run.py, AT-19).     *)
IncidentsAreTrue ==
    /\ pc = "failed" => /\ error \in Reasons
                        /\ (error = "timeout") <=> Abandoned(runs)
    /\ \A i \in incidents :
           /\ (i.reason = "timeout") <=> Abandoned(i.run)
           /\ \A j \in incidents : i.run = j.run => i = j
           /\ i.run = runs => pc = "failed" /\ i.reason = error
=============================================================================
