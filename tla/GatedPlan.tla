----------------------------- MODULE GatedPlan ------------------------------
(***************************************************************************)
(* The contract of a governed project run, as its caller sees it: a plan   *)
(* of phases is worked through in order; a phase that is a gate is         *)
(* finished by the operator's approval and by nothing else; a rejected     *)
(* run does no more work.  Threads, nodes, checkpoints, interrupts and     *)
(* handlers do not appear here: Spiral implements this.                    *)
(***************************************************************************)
EXTENDS Naturals, Sequences, Functions

CONSTANTS Phases, PhaseSequences, GatePhases, None

VARIABLES
    plan,      \* the phases to work through
    finished,  \* the phases finished
    gate,      \* the gate that is open for the operator, or None
    verdict    \* "idle", "open", "completed", "rejected" or "stopped"

cvars == <<plan, finished, gate, verdict>>

Init ==
    /\ plan = << >>
    /\ finished = {}
    /\ gate = None
    /\ verdict = "idle"

(* The phase p is due: not finished, and all in front of it are.           *)
Due(p) ==
    \E i \in DOMAIN plan :
        /\ plan[i] = p
        /\ p \notin finished
        /\ \A j \in 1..(i - 1) : plan[j] \in finished

Begin ==
    /\ verdict # "open"
    /\ plan' \in PhaseSequences
    /\ finished' = {}
    /\ gate' = None
    /\ verdict' = "open"

FinishPhase(p) ==
    /\ verdict = "open"
    /\ gate = None
    /\ p \notin GatePhases
    /\ Due(p)
    /\ finished' = finished \cup {p}
    /\ UNCHANGED <<plan, gate, verdict>>

Open(p) ==
    /\ verdict = "open"
    /\ gate = None
    /\ p \in GatePhases
    /\ Due(p)
    /\ gate' = p
    /\ UNCHANGED <<plan, finished, verdict>>

Approve ==
    /\ verdict = "open"
    /\ gate # None
    /\ finished' = finished \cup {gate}
    /\ gate' = None
    /\ UNCHANGED <<plan, verdict>>

(* The gate closes without its phase being finished: it has to open again. *)
SendBack ==
    /\ verdict = "open"
    /\ gate # None
    /\ gate' = None
    /\ UNCHANGED <<plan, finished, verdict>>

(* The operator rejects the gate: from here on no phase is finished and no *)
(* gate opens.                                                             *)
Refuse ==
    /\ verdict = "open"
    /\ gate # None
    /\ gate' = None
    /\ verdict' = "rejected"
    /\ UNCHANGED <<plan, finished>>

Complete ==
    /\ verdict = "open"
    /\ Range(plan) \subseteq finished
    /\ gate = None
    /\ verdict' = "completed"
    /\ UNCHANGED <<plan, finished, gate>>

(* The run ends early: an error, a crash, or a caller that does not wait   *)
(* for the operator.  A crash forgets what was finished.                   *)
Stop ==
    /\ verdict \in {"open", "rejected"}
    /\ verdict' = "stopped"
    /\ \/ UNCHANGED <<plan, finished, gate>>
       \/ plan' = << >> /\ finished' = {} /\ gate' = None

Next ==
    \/ Begin
    \/ \E p \in Phases : FinishPhase(p) \/ Open(p)
    \/ Approve
    \/ SendBack
    \/ Refuse
    \/ Complete
    \/ Stop

Spec == Init /\ [][Next]_cvars
=============================================================================
