--------------------------- MODULE ServiceProofs ----------------------------
(***************************************************************************)
(* Proofs about the supervised service, for all heartbeats, delays and     *)
(* patience of systemd, and any number of commands, failures and signals.  *)
(***************************************************************************)
EXTENDS Service, TLAPS

-----------------------------------------------------------------------------
(* The inductive invariant.                                                *)

(* A start of the orchestrator is never queued beside a stop, nor while it *)
(* stops.  A gateway that is to stop outlives the orchestrator.            *)
JobsInv ==
    /\ <<"start", "orchestrator">> \in jobs =>
          /\ <<"stop", "orchestrator">> \notin jobs
          /\ <<"stop", "gateway">> \notin jobs
          /\ unit["orchestrator"] # "stopping"
    /\ <<"stop", "orchestrator">> \in jobs => unit["orchestrator"] # "stopping"
    /\ <<"stop", "gateway">> \in jobs =>
          <<"stop", "orchestrator">> \in jobs \/ unit["orchestrator"] \in {"inactive", "stopping"}
    /\ unit["gateway"] # "stopping"

(* A process that was told to stop has lowered its flag, and systemd's     *)
(* patience outlasts what is left of its sleep, or the whole sleep it is   *)
(* about to begin because it had passed the check.                         *)
StopInv ==
    unit["orchestrator"] = "stopping" =>
        /\ ~ running
        /\ pc # "boot"
        /\ heartbeat < StopTimeout =>
              /\ timer["orchestrator"] > 0
              /\ pc = "asleep" => timer["orchestrator"] > nap
              /\ pc = "beat" => timer["orchestrator"] > heartbeat

(* A start of the orchestrator was queued with one of the gateway.         *)
StartInv ==
    <<"start", "orchestrator">> \in jobs =>
        \/ <<"start", "gateway">> \in jobs
        \/ unit["gateway"] \in {"running", "waiting"}
        \/ dismissed

ServiceInv ==
    ServiceTypeOK /\ JobsInv /\ StopInv /\ StartInv /\ StopsByItself /\ GatewayIsThere

-----------------------------------------------------------------------------
LEMMA BothUnits == \A u : u \in Units <=> u = "orchestrator" \/ u = "gateway"
BY DEF Units

LEMMA HeartbeatsCount == ASSUME ServiceTypeOK PROVE heartbeat \in Nat /\ heartbeat > 0 /\ nap \in Nat
BY ServiceAssumption DEF ServiceTypeOK

LEMMA ServiceInvAtFirst == Init => ServiceInv
<1> HAVE Init
<1> USE DEF Init
<1>1. heartbeat \in Nat /\ 0 \in 0..heartbeat
  BY ServiceAssumption
<1>2. ServiceTypeOK
  <2>1. /\ unit \in [Units -> UnitStates] /\ timer \in [Units -> Nat]
        /\ unit["orchestrator"] = "inactive"
    BY BothUnits DEF UnitStates
  <2>2. pc \in Steps /\ jobs \subseteq Jobs
    BY DEF Steps
  <2>3. {killed, dismissed} \subseteq BOOLEAN /\ running \in BOOLEAN
    BY Zenon
  <2>4. {requests, faults} \subseteq Nat
    OBVIOUS
  <2> QED
    BY <1>1, <2>1, <2>2, <2>3, <2>4 DEF ServiceTypeOK
<1>3. JobsInv /\ StopInv /\ StartInv /\ StopsByItself /\ GatewayIsThere
  BY BothUnits DEF JobsInv, StopInv, StartInv, StopsByItself, GatewayIsThere
<1> QED
  BY <1>2, <1>3 DEF ServiceInv

-----------------------------------------------------------------------------
(* The orchestrator's process.                                             *)

(* A step that leaves systemd alone.                                       *)
LEMMA ProcessStepKeepsInv ==
    ASSUME ServiceInv, InstallTerm \/ InstallInt \/ Check \/ Beat \/ Wake
    PROVE  ServiceInv'
<1> USE DEF ServiceInv, systemd, history
<1>0. heartbeat \in Nat /\ nap \in Nat
  BY HeartbeatsCount
<1>1. ServiceTypeOK'
  BY <1>0 DEF ServiceTypeOK, InstallTerm, InstallInt, Check, Beat, Wake, Steps
<1>2. JobsInv' /\ StartInv' /\ StopsByItself' /\ GatewayIsThere'
  BY DEF JobsInv, StartInv, StopsByItself, GatewayIsThere, InstallTerm, InstallInt, Check, Beat, Wake
<1>3. StopInv'
  BY <1>0, ServiceAssumption DEF StopInv, ServiceTypeOK, InstallTerm, InstallInt, Check, Beat, Wake
<1> QED
  BY <1>1, <1>2, <1>3

(* The process ends, one way or the other.                                 *)
LEMMA ProcessEndsKeepsInv ==
    ASSUME ServiceInv, NEW clean \in BOOLEAN, pc # "none", ProcessEnds(clean),
           UNCHANGED <<dismissed, heartbeat>>,
           killed' \in BOOLEAN, requests' \in Nat, faults' \in Nat,
           StopsByItself'
    PROVE  ServiceInv'
<1> USE DEF ServiceInv, ProcessEnds, Ended
<1>0. heartbeat \in Nat /\ RestartDelay["orchestrator"] \in Nat
  BY HeartbeatsCount, ServiceAssumption, BothUnits
<1>1. /\ unit \in [Units -> UnitStates] /\ timer \in [Units -> Nat]
      /\ unit' \in [Units -> UnitStates] /\ timer' \in [Units -> Nat]
      /\ unit'["orchestrator"] \in {"inactive", "waiting"}
      /\ unit["orchestrator"] = "stopping" => unit'["orchestrator"] = "inactive"
      /\ unit'["gateway"] = unit["gateway"]
  BY <1>0, BothUnits DEF ServiceTypeOK, UnitStates
<1>2. ServiceTypeOK'
  BY <1>0, <1>1 DEF ServiceTypeOK, Steps
<1>3. JobsInv' /\ StartInv' /\ StopInv' /\ GatewayIsThere'
  BY <1>1 DEF JobsInv, StartInv, StopInv, GatewayIsThere, ServiceTypeOK
<1> QED
  BY <1>2, <1>3

LEMMA LeaveKeepsInv == ASSUME ServiceInv, Leave PROVE ServiceInv'
<1>1. pc # "none" /\ ProcessEnds(TRUE) /\ UNCHANGED <<dismissed, heartbeat, killed, requests, faults>>
  BY DEF Leave, history
<1>2. /\ killed' \in BOOLEAN /\ requests' \in Nat /\ faults' \in Nat
      /\ StopsByItself'
  BY <1>1 DEF ServiceInv, ServiceTypeOK, StopsByItself
<1> QED
  BY <1>1, <1>2, ProcessEndsKeepsInv

LEMMA FailsKeepsInv == ASSUME ServiceInv, Fails PROVE ServiceInv'
<1>1. pc # "none" /\ ProcessEnds(FALSE) /\ UNCHANGED <<dismissed, heartbeat, killed, requests>>
  BY DEF Fails
<1>2. /\ killed' \in BOOLEAN /\ requests' \in Nat /\ faults' \in Nat
      /\ StopsByItself'
  BY <1>1 DEF ServiceInv, ServiceTypeOK, StopsByItself, Fails
<1> QED
  BY <1>1, <1>2, ProcessEndsKeepsInv

LEMMA SignalKeepsInv ==
    ASSUME ServiceInv, NEW signal \in Signals, SignalOrchestrator(signal)
    PROVE  ServiceInv'
<1>1. pc # "none" /\ UNCHANGED <<dismissed, heartbeat, killed, requests>> /\ faults' = faults + 1
  BY DEF SignalOrchestrator
<1>2. /\ killed' \in BOOLEAN /\ requests' \in Nat /\ faults' \in Nat
      /\ StopsByItself'
  BY <1>1 DEF ServiceInv, ServiceTypeOK, StopsByItself
<1>3. CASE Handles(signal)
  <2>1. running' = FALSE /\ UNCHANGED <<unit, jobs, timer, pc, nap>>
    BY <1>3 DEF SignalOrchestrator, Deliver, systemd
  <2> QED
    BY <1>1, <1>2, <2>1 DEF ServiceInv, ServiceTypeOK, JobsInv, StopInv, StartInv, GatewayIsThere
<1>4. CASE ~ Handles(signal)
  <2>1. ProcessEnds(TRUE)
    BY <1>4 DEF SignalOrchestrator, Deliver
  <2> QED
    BY <1>1, <1>2, <2>1, ProcessEndsKeepsInv
<1> QED
  BY <1>3, <1>4

-----------------------------------------------------------------------------
(* The gateway's process.                                                  *)

LEMMA GatewayEndsKeepsInv ==
    ASSUME ServiceInv, GatewayFails \/ SignalGateway
    PROVE  ServiceInv'
<1> USE DEF ServiceInv, process
<1>0. RestartDelay["gateway"] \in Nat
  BY ServiceAssumption, BothUnits
<1>1. /\ unit \in [Units -> UnitStates] /\ timer \in [Units -> Nat]
      /\ unit' \in [Units -> UnitStates] /\ timer' \in [Units -> Nat]
      /\ unit'["gateway"] = "waiting" \/ (unit'["gateway"] = "inactive" /\ dismissed')
      /\ unit'["orchestrator"] = unit["orchestrator"]
      /\ timer'["orchestrator"] = timer["orchestrator"]
      /\ dismissed' \in BOOLEAN /\ (dismissed => dismissed')
  <2>1. CASE GatewayFails
    BY <1>0, <2>1, BothUnits DEF ServiceTypeOK, UnitStates, JobsInv, GatewayFails, Ended
  <2>2. CASE SignalGateway
    BY <1>0, <2>2, BothUnits DEF ServiceTypeOK, UnitStates, SignalGateway, Ended
  <2> QED
    BY <2>1, <2>2
<1>3. UNCHANGED <<jobs, pc, running, nap, heartbeat, killed, requests>> /\ faults' = faults + 1
  BY DEF GatewayFails, SignalGateway
<1>2. ServiceTypeOK'
  <2>1. {killed', dismissed'} \subseteq BOOLEAN /\ {requests', faults'} \subseteq Nat
    BY <1>1, <1>3 DEF ServiceTypeOK
  <2> QED
    BY <1>1, <1>3, <2>1 DEF ServiceTypeOK
<1> QED
  BY <1>1, <1>2, <1>3 DEF JobsInv, StartInv, StopInv, GatewayIsThere, StopsByItself

-----------------------------------------------------------------------------
(* systemd.                                                                *)

LEMMA RequestKeepsInv ==
    ASSUME ServiceInv, Request(Wanted) \/ Request(OneStop) \/ Request(BothStops)
    PROVE  ServiceInv'
<1> USE DEF ServiceInv, process
<1>1. \E new \in {Wanted, OneStop, BothStops} : Request(new)
  OBVIOUS
<1>2. /\ UNCHANGED <<unit, timer, pc, running, nap, heartbeat, killed, dismissed, faults>>
      /\ requests' = requests + 1
      /\ \A u \in Units : unit[u] # "stopping"
  BY <1>1 DEF Request
<1>3. jobs' \in {Wanted, OneStop, BothStops}
  BY <1>1 DEF Request
<1>4. jobs' \subseteq Jobs
  BY <1>3 DEF Wanted, OneStop, BothStops, Jobs, Units
<1>5. ServiceTypeOK'
  BY <1>2, <1>4 DEF ServiceTypeOK
<1>6. /\ <<"start", "orchestrator">> \in jobs' => <<"start", "gateway">> \in jobs'
      /\ <<"start", "orchestrator">> \in jobs' => <<"stop", "orchestrator">> \notin jobs'
      /\ <<"start", "orchestrator">> \in jobs' => <<"stop", "gateway">> \notin jobs'
      /\ <<"stop", "gateway">> \in jobs' => <<"stop", "orchestrator">> \in jobs'
  BY <1>3 DEF Wanted, OneStop, BothStops, Units
<1>7. JobsInv' /\ StartInv'
  BY <1>2, <1>6, BothUnits DEF JobsInv, StartInv
<1>8. StopInv' /\ StopsByItself' /\ GatewayIsThere'
  BY <1>2 DEF StopInv, StopsByItself, GatewayIsThere
<1> QED
  BY <1>5, <1>7, <1>8

(* A unit that is started when it runs already is left alone.              *)
LEMMA StartUnitKeepsInv ==
    ASSUME ServiceInv, NEW u \in Units, StartUnit(u)
    PROVE  ServiceInv'
<1> USE DEF ServiceInv, process
<1>0. heartbeat \in Nat /\ nap \in Nat
  BY HeartbeatsCount
<1>1. /\ <<"start", u>> \in jobs /\ jobs' = jobs \ {<<"start", u>>}
      /\ UNCHANGED <<heartbeat, killed, requests, faults>>
  BY DEF StartUnit
<1>2. CASE unit[u] = "running"
  <2>1. UNCHANGED <<unit, timer, pc, running, nap, dismissed>>
    BY <1>2 DEF StartUnit
  <2>2. ServiceTypeOK'
    BY <1>1, <2>1 DEF ServiceTypeOK
  <2>3. JobsInv' /\ StopInv' /\ StopsByItself' /\ GatewayIsThere'
    BY <1>1, <2>1 DEF JobsInv, StopInv, StopsByItself, GatewayIsThere
  <2>4. StartInv'
    BY <1>1, <1>2, <2>1, BothUnits DEF StartInv
  <2> QED
    BY <2>2, <2>3, <2>4
<1>3. CASE unit[u] # "running" /\ u = "gateway"
  <2>1. /\ unit' = [unit EXCEPT !["gateway"] = "running"]
        /\ timer' = [timer EXCEPT !["gateway"] = 0]
        /\ dismissed' = FALSE
        /\ UNCHANGED <<pc, running, nap>>
    BY <1>3 DEF StartUnit, Launch
  <2>2. /\ unit \in [Units -> UnitStates] /\ timer \in [Units -> Nat]
        /\ unit' \in [Units -> UnitStates] /\ timer' \in [Units -> Nat]
        /\ unit'["gateway"] = "running"
        /\ unit'["orchestrator"] = unit["orchestrator"]
        /\ timer'["orchestrator"] = timer["orchestrator"]
    BY <2>1, BothUnits DEF ServiceTypeOK, UnitStates
  <2>3. ServiceTypeOK'
    BY <1>1, <2>1, <2>2 DEF ServiceTypeOK
  <2>4. JobsInv' /\ StopInv' /\ StopsByItself' /\ GatewayIsThere' /\ StartInv'
    BY <1>1, <2>1, <2>2 DEF JobsInv, StopInv, StopsByItself, GatewayIsThere, StartInv
  <2> QED
    BY <2>3, <2>4
<1>4. CASE unit[u] # "running" /\ u = "orchestrator"
  <2>1. /\ unit' = [unit EXCEPT !["orchestrator"] = "running"]
        /\ timer' = [timer EXCEPT !["orchestrator"] = 0]
        /\ pc' = "boot" /\ running' = TRUE
        /\ UNCHANGED <<nap, dismissed>>
    BY <1>4 DEF StartUnit, Launch
  <2>2. /\ unit \in [Units -> UnitStates] /\ timer \in [Units -> Nat]
        /\ unit' \in [Units -> UnitStates] /\ timer' \in [Units -> Nat]
        /\ unit'["orchestrator"] = "running"
        /\ unit'["gateway"] = unit["gateway"]
    BY <2>1, BothUnits DEF ServiceTypeOK, UnitStates
  <2>3. ServiceTypeOK'
    BY <1>1, <2>1, <2>2 DEF ServiceTypeOK, Steps
  <2>4. unit["gateway"] \in {"running", "waiting"} \/ dismissed
    <3>1. <<"start", "gateway">> \notin jobs
      BY <1>4 DEF StartUnit, MayRun
    <3> QED
      BY <1>1, <1>4, <3>1 DEF StartInv
  <2>5. GatewayIsThere' /\ StopInv' /\ StopsByItself'
    BY <1>1, <2>1, <2>2, <2>4 DEF GatewayIsThere, StopInv, StopsByItself
  <2>6. JobsInv' /\ StartInv'
    BY <1>1, <1>4, <2>1, <2>2, <2>4 DEF JobsInv, StartInv
  <2> QED
    BY <2>3, <2>5, <2>6
<1> QED
  BY <1>2, <1>3, <1>4, BothUnits

LEMMA RestartKeepsInv ==
    ASSUME ServiceInv, NEW u \in Units, Restart(u)
    PROVE  ServiceInv'
<1> USE DEF ServiceInv, process, history
<1>1. /\ UNCHANGED <<unit, timer, pc, running, nap, heartbeat, killed, dismissed, requests, faults>>
      /\ unit[u] = "waiting"
      /\ <<"stop", u>> \notin jobs
      /\ \/ u = "orchestrator"
               /\ jobs' = jobs \cup {<<"start", "orchestrator">>, <<"start", "gateway">>}
         \/ u = "gateway" /\ jobs' = jobs \cup {<<"start", "gateway">>}
  BY BothUnits DEF Restart, Queued, Wanted, Units
<1>2. jobs' \subseteq Jobs
  BY <1>1 DEF ServiceTypeOK, Jobs, Units
<1>3. ServiceTypeOK'
  BY <1>1, <1>2 DEF ServiceTypeOK
<1>4. JobsInv'
  BY <1>1 DEF JobsInv
<1>5. StartInv' /\ StopInv' /\ StopsByItself' /\ GatewayIsThere'
  BY <1>1 DEF StartInv, StopInv, StopsByItself, GatewayIsThere
<1> QED
  BY <1>3, <1>4, <1>5

LEMMA StopOrchestratorKeepsInv ==
    ASSUME ServiceInv, StopOrchestrator
    PROVE  ServiceInv'
<1> USE DEF ServiceInv, process, history
<1>0. heartbeat \in Nat /\ heartbeat > 0 /\ nap \in 0..heartbeat /\ StopTimeout \in Nat
      /\ RestartDelay["orchestrator"] \in Nat
  BY HeartbeatsCount, ServiceAssumption, BothUnits DEF ServiceTypeOK
<1>1. /\ <<"stop", "orchestrator">> \in jobs
      /\ jobs' = jobs \ {<<"stop", "orchestrator">>}
      /\ UNCHANGED <<heartbeat, killed, dismissed, requests, faults>>
      /\ <<"start", "orchestrator">> \notin jobs'
      /\ unit["orchestrator"] # "stopping"
  BY DEF StopOrchestrator, JobsInv
<1>2. /\ unit \in [Units -> UnitStates] /\ timer \in [Units -> Nat]
      /\ unit' \in [Units -> UnitStates] /\ timer' \in [Units -> Nat]
      /\ unit'["gateway"] = unit["gateway"]
      /\ \/ /\ unit'["orchestrator"] = "inactive"
            /\ pc' = "none"
            /\ nap' \in {0, nap} /\ running' = running
         \/ /\ unit'["orchestrator"] = "stopping"
            /\ timer'["orchestrator"] = StopTimeout
            /\ pc \notin {"none", "boot"} /\ running' = FALSE /\ UNCHANGED <<pc, nap>>
  <2>1. CASE pc = "none"
    BY <2>1, BothUnits DEF ServiceTypeOK, UnitStates, StopOrchestrator
  <2>2. CASE pc # "none" /\ Handles("TERM")
    BY <1>0, <2>2, BothUnits DEF ServiceTypeOK, UnitStates, StopOrchestrator, Handles
  <2>3. CASE pc # "none" /\ ~ Handles("TERM")
    BY <1>0, <2>3, BothUnits DEF ServiceTypeOK, UnitStates, StopOrchestrator, Ended
  <2> QED
    BY <2>1, <2>2, <2>3
<1>3. ServiceTypeOK'
  <2>1. jobs' \subseteq Jobs /\ pc' \in Steps /\ running' \in BOOLEAN
    BY <1>1, <1>2 DEF ServiceTypeOK, Steps
  <2>2. nap' \in 0..heartbeat'
    BY <1>0, <1>1, <1>2
  <2>3. pc' # "none" <=> unit'["orchestrator"] \in {"running", "stopping"}
    BY <1>2
  <2> QED
    BY <1>1, <1>2, <2>1, <2>2, <2>3 DEF ServiceTypeOK
<1>4. JobsInv' /\ StartInv'
  BY <1>1, <1>2 DEF JobsInv, StartInv
<1>5. StopInv'
  BY <1>0, <1>1, <1>2 DEF StopInv
<1>6. StopsByItself' /\ GatewayIsThere'
  BY <1>1, <1>2 DEF StopsByItself, GatewayIsThere
<1> QED
  BY <1>3, <1>4, <1>5, <1>6

LEMMA StopGatewayKeepsInv ==
    ASSUME ServiceInv, StopGateway
    PROVE  ServiceInv'
<1> USE DEF ServiceInv, process, history
<1>1. /\ jobs' = jobs \ {<<"stop", "gateway">>} /\ <<"stop", "gateway">> \in jobs
      /\ <<"stop", "orchestrator">> \notin jobs
      /\ unit["orchestrator"] # "stopping"
      /\ UNCHANGED <<pc, running, nap, heartbeat, killed, dismissed, requests, faults>>
  BY DEF StopGateway, MayRun
<1>2. /\ unit \in [Units -> UnitStates] /\ timer \in [Units -> Nat]
      /\ unit' \in [Units -> UnitStates] /\ timer' \in [Units -> Nat]
      /\ unit'["gateway"] = "inactive"
      /\ unit'["orchestrator"] = unit["orchestrator"]
      /\ timer'["orchestrator"] = timer["orchestrator"]
  BY BothUnits DEF ServiceTypeOK, UnitStates, StopGateway, Ended
<1>3. unit["orchestrator"] = "inactive" /\ pc = "none" /\ <<"start", "orchestrator">> \notin jobs
  BY <1>1 DEF JobsInv, ServiceTypeOK
<1>4. ServiceTypeOK'
  BY <1>1, <1>2 DEF ServiceTypeOK
<1> QED
  BY <1>1, <1>2, <1>3, <1>4 DEF JobsInv, StartInv, StopInv, StopsByItself, GatewayIsThere

(* SIGKILL comes only if the heartbeat is as long as systemd waits.        *)
LEMMA StopTimesOutKeepsInv ==
    ASSUME ServiceInv, StopTimesOut
    PROVE  ServiceInv'
<1>1. heartbeat \in Nat /\ StopTimeout \in Nat
  BY HeartbeatsCount, ServiceAssumption DEF ServiceInv
<1>2. heartbeat >= StopTimeout
  BY <1>1 DEF ServiceInv, StopInv, StopTimesOut
<1>3. /\ pc # "none" /\ ProcessEnds(FALSE) /\ UNCHANGED <<dismissed, heartbeat, requests, faults>>
      /\ killed' = TRUE
  BY DEF StopTimesOut, ServiceInv, ServiceTypeOK
<1>4. killed' \in BOOLEAN /\ requests' \in Nat /\ faults' \in Nat /\ StopsByItself'
  BY <1>2, <1>3 DEF ServiceInv, ServiceTypeOK, StopsByItself
<1> QED
  BY <1>3, <1>4, ProcessEndsKeepsInv

(* Time passes only while the process sleeps, and for both alike.          *)
LEMMA TickKeepsInv ==
    ASSUME ServiceInv, Tick
    PROVE  ServiceInv'
<1> USE DEF ServiceInv, history
<1>0. heartbeat \in Nat /\ nap \in 0..heartbeat
  BY HeartbeatsCount DEF ServiceTypeOK
<1>1. /\ UNCHANGED <<unit, jobs, pc, running, heartbeat, killed, dismissed, requests, faults>>
      /\ pc \in {"none", "asleep"}
      /\ pc = "asleep" => nap > 0
      /\ nap' = IF nap > 0 THEN nap - 1 ELSE 0
      /\ unit["orchestrator"] = "stopping" => timer["orchestrator"] > 0
  BY DEF Tick
<1>2. /\ timer \in [Units -> Nat] /\ timer' \in [Units -> Nat]
      /\ timer["orchestrator"] \in Nat
      /\ timer'["orchestrator"] = IF timer["orchestrator"] > 0 THEN timer["orchestrator"] - 1 ELSE 0
  BY BothUnits DEF Tick, ServiceTypeOK
<1>3. ServiceTypeOK'
  BY <1>0, <1>1, <1>2 DEF ServiceTypeOK
<1>4. StopInv'
  <2> SUFFICES ASSUME unit["orchestrator"] = "stopping", heartbeat < StopTimeout
               PROVE  /\ timer'["orchestrator"] > 0
                      /\ timer'["orchestrator"] > nap'
    BY <1>1 DEF StopInv
  <2>1. pc = "asleep" /\ nap > 0 /\ timer["orchestrator"] > nap
    BY <1>1 DEF StopInv, ServiceTypeOK
  <2> QED
    BY <1>0, <1>1, <1>2, <2>1
<1>5. JobsInv' /\ StartInv' /\ StopsByItself' /\ GatewayIsThere'
  BY <1>1 DEF JobsInv, StartInv, StopsByItself, GatewayIsThere
<1> QED
  BY <1>3, <1>4, <1>5

LEMMA StutterKeepsInv == ASSUME ServiceInv, UNCHANGED vars PROVE ServiceInv'
BY DEF ServiceInv, vars, systemd, process, history, ServiceTypeOK, JobsInv, StartInv, StopInv,
       StopsByItself, GatewayIsThere

LEMMA StepKeepsInv == ASSUME ServiceInv, [Next]_vars PROVE ServiceInv'
BY ProcessStepKeepsInv, LeaveKeepsInv, FailsKeepsInv, SignalKeepsInv, GatewayEndsKeepsInv,
   RequestKeepsInv, StartUnitKeepsInv, RestartKeepsInv, StopOrchestratorKeepsInv,
   StopGatewayKeepsInv, StopTimesOutKeepsInv, TickKeepsInv, StutterKeepsInv
   DEF Next, ProcessStep, SystemdStep

LEMMA ServiceInvHolds == Spec => []ServiceInv
<1>1. Init => ServiceInv
  BY ServiceInvAtFirst
<1>2. ServiceInv /\ [Next]_vars => ServiceInv'
  BY StepKeepsInv
<1> QED
  BY <1>1, <1>2, PTL DEF Spec

-----------------------------------------------------------------------------
(* The units, their jobs and the process keep their types, and the process *)
(* runs exactly while systemd says its unit does.                          *)
THEOREM ServiceTypeCorrect == Spec => []ServiceTypeOK
<1>1. ServiceInv => ServiceTypeOK
  BY DEF ServiceInv
<1> QED
  BY <1>1, ServiceInvHolds, PTL

(* A process that is told to stop leaves by itself, whenever the signal    *)
(* comes, for every heartbeat shorter than systemd's patience.             *)
THEOREM StopsAreHeeded == Spec => []StopsByItself
<1>1. ServiceInv => StopsByItself
  BY DEF ServiceInv
<1> QED
  BY <1>1, ServiceInvHolds, PTL

(* systemd never leaves the orchestrator without a gateway.                *)
THEOREM GatewayComesFirst == Spec => []GatewayIsThere
<1>1. ServiceInv => GatewayIsThere
  BY DEF ServiceInv
<1> QED
  BY <1>1, ServiceInvHolds, PTL
=============================================================================
