------------------------------ MODULE Service -------------------------------
(***************************************************************************)
(* The two systemd user units (app/systemd_units.py), and the process the  *)
(* orchestrator's unit runs: `main --serve' (main.py, _ServiceRunner).     *)
(*                                                                         *)
(* systemd is external.  What is modelled of it is what the units ask for: *)
(* Type=simple, Restart=on-failure with a delay, After= and Wants= of the  *)
(* gateway, and the defaults the units leave alone: SIGTERM, then SIGKILL  *)
(* after a timeout.  (Its limit of five starts in ten seconds is left out: *)
(* the delays of the units allow three.)  Time is counted in ticks of five *)
(* seconds; a process takes its steps within a tick.                       *)
(*                                                                         *)
(* A signal handler of Python runs between two bytecodes, and time.sleep   *)
(* goes on sleeping after it: a stop is noticed at the next heartbeat.     *)
(***************************************************************************)
EXTENDS Naturals

CONSTANTS
    Heartbeats,     \* the values of --heartbeat-seconds, 30 s by default
    StopTimeout,    \* systemd's TimeoutStopSec: 90 s
    RestartDelay,   \* RestartSec of each unit: 10 s and 5 s
    MaxRequests,    \* bound: commands of the operator
    MaxFaults       \* bound: errors of a process, and signals from elsewhere

Units == {"orchestrator", "gateway"}
Signals == {"TERM", "INT"}

ASSUME ServiceAssumption ==
    /\ Heartbeats \subseteq Nat \ {0}
    /\ StopTimeout \in Nat
    /\ RestartDelay \in [Units -> Nat \ {0}]
    /\ {MaxRequests, MaxFaults} \subseteq Nat

VARIABLES
    unit,      \* what systemd knows of each unit
    jobs,      \* the start and stop jobs that are queued
    timer,     \* ticks left of each unit's restart delay or stop timeout
    pc,        \* where the orchestrator's process is
    running,   \* _ServiceRunner._running
    nap,       \* ticks left of time.sleep
    heartbeat, \* _ServiceRunner._heartbeat, as ExecStart= gives it
    killed,    \* history: a stop of the orchestrator ended in SIGKILL
    dismissed, \* history: somebody else ended the gateway with a signal
    requests,  \* history: commands of the operator
    faults     \* history: errors and signals

systemd == <<unit, jobs, timer>>
process == <<pc, running, nap>>
history == <<killed, dismissed, requests, faults>>
vars == <<systemd, process, heartbeat, history>>

UnitStates == {"inactive", "running", "waiting", "stopping"}
Jobs == {"start", "stop"} \X Units
Steps == {"none", "boot", "terminable", "check", "beat", "asleep", "leave"}

Init ==
    /\ unit = [u \in Units |-> "inactive"]
    /\ jobs = {}
    /\ timer = [u \in Units |-> 0]
    /\ pc = "none"
    /\ running = FALSE
    /\ nap = 0
    /\ heartbeat \in Heartbeats
    /\ killed = FALSE
    /\ dismissed = FALSE
    /\ requests = 0
    /\ faults = 0

-----------------------------------------------------------------------------
(* How a unit is left by its process: ended by exit 0 or by a signal of    *)
(* the clean ones it stays down, otherwise it is restarted after a delay.  *)
(* A process that is being stopped is not restarted.                       *)

Ended(u, clean) ==
    LET down == clean \/ unit[u] = "stopping"
    IN  /\ unit' = [unit EXCEPT ![u] = IF down THEN "inactive" ELSE "waiting"]
        /\ timer' = [timer EXCEPT ![u] = IF down THEN 0 ELSE RestartDelay[u]]

(* Mutated form: the unit is left and its process goes on.                 *)
ProcessEnds_Lingers(clean) ==
    /\ Ended("orchestrator", clean)
    /\ UNCHANGED <<jobs, process>>

ProcessEnds(clean) ==
    /\ Ended("orchestrator", clean)
    /\ pc' = "none"
    /\ nap' = 0
    /\ UNCHANGED <<jobs, running>>

-----------------------------------------------------------------------------
(* The orchestrator's process.                                             *)

(* main() builds the application and run() installs its handlers, SIGTERM  *)
(* first; __init__ has armed the loop before.                              *)
InstallTerm ==
    /\ pc = "boot"
    /\ pc' = "terminable"
    /\ UNCHANGED <<systemd, running, nap, heartbeat, history>>

(* Mutated form: run() arms the loop once its handlers are in place.       *)
InstallInt_Arms ==
    /\ pc = "terminable"
    /\ pc' = "check"
    /\ running' = TRUE
    /\ UNCHANGED <<systemd, nap, heartbeat, history>>

InstallInt ==
    /\ pc = "terminable"
    /\ pc' = "check"
    /\ UNCHANGED <<systemd, running, nap, heartbeat, history>>

Check ==
    /\ pc = "check"
    /\ pc' = IF running THEN "beat" ELSE "leave"
    /\ UNCHANGED <<systemd, running, nap, heartbeat, history>>

(* Mutated form: the loop without its sleep.                               *)
Beat_Busy ==
    /\ pc = "beat"
    /\ pc' = "check"
    /\ UNCHANGED <<systemd, running, nap, heartbeat, history>>

Beat ==
    /\ pc = "beat"
    /\ pc' = "asleep"
    /\ nap' = heartbeat
    /\ UNCHANGED <<systemd, running, heartbeat, history>>

Wake ==
    /\ pc = "asleep"
    /\ nap = 0
    /\ pc' = "check"
    /\ UNCHANGED <<systemd, running, nap, heartbeat, history>>

Leave ==
    /\ pc = "leave"
    /\ ProcessEnds(TRUE)
    /\ UNCHANGED <<heartbeat, history>>

(* Building the application, or a line of the log, raises: exit 1.  Or     *)
(* the process is killed.                                                  *)
Fails ==
    /\ pc # "none"
    /\ faults < MaxFaults
    /\ faults' = faults + 1
    /\ ProcessEnds(FALSE)
    /\ UNCHANGED <<killed, dismissed, requests, heartbeat>>

Handles(signal) ==
    pc \notin IF signal = "TERM" THEN {"boot"} ELSE {"boot", "terminable"}

(* _stop, or the end of the process as long as there is no handler.        *)
Deliver(signal) ==
    IF Handles(signal)
       THEN /\ running' = FALSE
            /\ UNCHANGED <<systemd, pc, nap>>
       ELSE ProcessEnds(TRUE)

(* Somebody other than systemd sends the process a signal.                 *)
SignalOrchestrator(signal) ==
    /\ pc # "none"
    /\ faults < MaxFaults
    /\ faults' = faults + 1
    /\ Deliver(signal)
    /\ UNCHANGED <<killed, dismissed, requests, heartbeat>>

ProcessStep == InstallTerm \/ InstallInt \/ Check \/ Beat \/ Wake \/ Leave

-----------------------------------------------------------------------------
(* The gateway's process is its unit.                                      *)

GatewayFails ==
    /\ unit["gateway"] = "running"
    /\ faults < MaxFaults
    /\ faults' = faults + 1
    /\ Ended("gateway", FALSE)
    /\ UNCHANGED <<jobs, process, heartbeat, killed, dismissed, requests>>

(* Somebody other than systemd terminates it: it is not restarted.         *)
SignalGateway ==
    /\ unit["gateway"] = "running"
    /\ faults < MaxFaults
    /\ faults' = faults + 1
    /\ dismissed' = TRUE
    /\ Ended("gateway", TRUE)
    /\ UNCHANGED <<jobs, process, heartbeat, killed, requests>>

-----------------------------------------------------------------------------
(* systemd.                                                                *)

(* The operator starts the orchestrator, and with it what it wants; or     *)
(* stops it; or the session ends and both are stopped.  systemctl waits    *)
(* for the jobs it queues.                                                 *)
Request(new) ==
    /\ jobs = {}
    /\ \A u \in Units : unit[u] # "stopping"
    /\ requests < MaxRequests
    /\ requests' = requests + 1
    /\ jobs' = new
    /\ UNCHANGED <<unit, timer, process, heartbeat, killed, dismissed, faults>>

Wanted == {"start"} \X Units
OneStop == {<<"stop", "orchestrator">>}
BothStops == {"stop"} \X Units

(* Mutated form: the orchestrator's unit wants the gateway, but has no     *)
(* After=.                                                                 *)
MayRun_Unordered(verb, u) == verb = "start" /\ unit[u] = "waiting" => timer[u] = 0

(* After=: the gateway is started first, and stopped last.  The start of a *)
(* unit that is about to be restarted waits for its delay.                 *)
MayRun(verb, u) ==
    IF verb = "start"
       THEN /\ unit[u] = "waiting" => timer[u] = 0
            /\ u = "orchestrator" => <<"start", "gateway">> \notin jobs
       ELSE u = "gateway" => /\ <<"stop", "orchestrator">> \notin jobs
                             /\ unit["orchestrator"] # "stopping"

Launch(u) ==
    /\ unit' = [unit EXCEPT ![u] = "running"]
    /\ timer' = [timer EXCEPT ![u] = 0]
    /\ IF u = "orchestrator"
          THEN pc' = "boot" /\ running' = TRUE /\ UNCHANGED <<nap, dismissed>>
          ELSE dismissed' = FALSE /\ UNCHANGED process

StartUnit(u) ==
    /\ <<"start", u>> \in jobs
    /\ MayRun("start", u)
    /\ jobs' = jobs \ {<<"start", u>>}
    /\ IF unit[u] = "running"
          THEN UNCHANGED <<unit, timer, process, dismissed>>
          ELSE Launch(u)
    /\ UNCHANGED <<heartbeat, killed, requests, faults>>

Queued(u) == \E verb \in {"start", "stop"} : <<verb, u>> \in jobs

(* The delay is over: systemd queues the start, unless a stop is queued.   *)
Restart(u) ==
    /\ unit[u] = "waiting"
    /\ timer[u] = 0
    /\ ~ Queued(u)
    /\ jobs' = jobs \cup (IF u = "orchestrator" THEN Wanted ELSE {<<"start", u>>})
    /\ UNCHANGED <<unit, timer, process, heartbeat, history>>

StopOrchestrator ==
    /\ <<"stop", "orchestrator">> \in jobs
    /\ jobs' = jobs \ {<<"stop", "orchestrator">>}
    /\ IF pc = "none"
          THEN /\ unit' = [unit EXCEPT !["orchestrator"] = "inactive"]
               /\ timer' = [timer EXCEPT !["orchestrator"] = 0]
               /\ UNCHANGED process
          ELSE IF Handles("TERM")
                  THEN /\ unit' = [unit EXCEPT !["orchestrator"] = "stopping"]
                       /\ timer' = [timer EXCEPT !["orchestrator"] = StopTimeout]
                       /\ running' = FALSE
                       /\ UNCHANGED <<pc, nap>>
                  ELSE /\ Ended("orchestrator", TRUE)
                       /\ pc' = "none"
                       /\ UNCHANGED <<running, nap>>
    /\ UNCHANGED <<heartbeat, history>>

(* uvicorn ends when it is told to.                                        *)
StopGateway ==
    /\ <<"stop", "gateway">> \in jobs
    /\ MayRun("stop", "gateway")
    /\ jobs' = jobs \ {<<"stop", "gateway">>}
    /\ Ended("gateway", TRUE)
    /\ UNCHANGED <<process, heartbeat, history>>

(* SIGKILL.                                                                *)
StopTimesOut ==
    /\ unit["orchestrator"] = "stopping"
    /\ timer["orchestrator"] = 0
    /\ killed' = TRUE
    /\ ProcessEnds(FALSE)
    /\ UNCHANGED <<heartbeat, dismissed, requests, faults>>

SystemdStep ==
    \/ \E u \in Units : StartUnit(u) \/ Restart(u)
    \/ StopOrchestrator
    \/ StopGateway
    \/ StopTimesOut

(* Five seconds pass.  Everybody who can take a step has taken it.         *)
Tick ==
    /\ \A job \in jobs : ~ MayRun(job[1], job[2])
    /\ pc \in {"none", "asleep"}
    /\ pc = "asleep" => nap > 0
    /\ \A u \in Units : unit[u] = "waiting" => timer[u] > 0 \/ Queued(u)
    /\ unit["orchestrator"] = "stopping" => timer["orchestrator"] > 0
    /\ nap' = IF nap > 0 THEN nap - 1 ELSE 0
    /\ timer' = [u \in Units |-> IF timer[u] > 0 THEN timer[u] - 1 ELSE 0]
    /\ UNCHANGED <<unit, jobs, pc, running, heartbeat, history>>

Next ==
    \/ ProcessStep
    \/ Fails
    \/ \E signal \in Signals : SignalOrchestrator(signal)
    \/ GatewayFails
    \/ SignalGateway
    \/ Request(Wanted) \/ Request(OneStop) \/ Request(BothStops)
    \/ SystemdStep
    \/ Tick

Spec == Init /\ [][Next]_vars

(* systemd and the process take their steps, and time passes.              *)
FairSpec ==
    /\ Spec
    /\ WF_vars(ProcessStep)
    /\ WF_vars(SystemdStep)
    /\ WF_vars(Tick)

-----------------------------------------------------------------------------
(* Properties                                                              *)

(* The process of the orchestrator runs exactly while its unit says so,    *)
(* and sleeps no longer than a heartbeat.                                  *)
ServiceTypeOK ==
    /\ unit \in [Units -> UnitStates]
    /\ jobs \subseteq Jobs
    /\ timer \in [Units -> Nat]
    /\ pc \in Steps
    /\ running \in BOOLEAN
    /\ heartbeat \in Heartbeats
    /\ nap \in 0..heartbeat
    /\ {killed, dismissed} \subseteq BOOLEAN
    /\ {requests, faults} \subseteq Nat
    /\ pc # "none" <=> unit["orchestrator"] \in {"running", "stopping"}

(* A stop is never overheard.  Whenever SIGTERM comes, before, between or  *)
(* after the two handlers are installed, between the check of the loop and *)
(* its sleep, or long before its end: the process leaves by itself before  *)
(* systemd loses patience (main.py, run).  Only a heartbeat as long as     *)
(* systemd's patience gets a process killed that was told to stop.         *)
StopsByItself == killed => heartbeat >= StopTimeout

(* The orchestrator is not left without a gateway by systemd: the gateway  *)
(* is started before it and stopped after it.  A gateway that failed is    *)
(* about to be restarted; only one that somebody else has terminated, or   *)
(* that no start was ever queued for, stays down (systemd_units.py,        *)
(* After=, Wants=).                                                        *)
GatewayIsThere ==
    pc # "none" => unit["gateway"] \in {"running", "waiting"} \/ dismissed

(* A service that failed serves again, unless it was stopped: Restart=     *)
(* on-failure, with a process that reaches its loop when nothing more goes *)
(* wrong (AT-18).                                                          *)
ServesAgain ==
    unit["orchestrator"] = "waiting" ~>
        (pc = "asleep" \/ unit["orchestrator"] = "inactive")
=============================================================================
