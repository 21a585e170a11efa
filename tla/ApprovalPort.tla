---------------------------- MODULE ApprovalPort ----------------------------
(***************************************************************************)
(* What the orchestrator relies on at a gate (ports/approval.py): a call   *)
(* of request_approval is answered at most once, by a reply of somebody    *)
(* who may decide, and a reply is used up by the gate it answers, with     *)
(* every reply before it.  A call may also fail.  How replies travel is    *)
(* the adapter's business.                                                 *)
(***************************************************************************)
EXTENDS Naturals, Sequences

(* ApprovalDecision, and a message that is no decision.                    *)
Decisions == {"approve", "revise", "pause", "reject"}
NoDecision == "none"

VARIABLES
    replies,  \* what people have said so far
    asked,    \* calls of request_approval so far
    open,     \* the last of them has not returned
    answers   \* the call and the reply of each decision that was returned

portVars == <<replies, asked, open, answers>>

PortInit ==
    /\ replies = << >>
    /\ asked = 0
    /\ open = FALSE
    /\ answers = << >>

(* Every reply up to this one is used up.                                  *)
Spent == IF answers = << >> THEN 0 ELSE answers[Len(answers)].reply

Say ==
    /\ \E said \in Decisions \cup {NoDecision} : replies' = Append(replies, said)
    /\ UNCHANGED <<asked, open, answers>>

Ask ==
    /\ ~ open
    /\ open' = TRUE
    /\ asked' = asked + 1
    /\ UNCHANGED <<replies, answers>>

Answer ==
    /\ open
    /\ \E i \in DOMAIN replies :
          /\ replies[i] \in Decisions
          /\ i > Spent
          /\ answers' = Append(answers, [ request |-> asked, reply |-> i ])
    /\ open' = FALSE
    /\ UNCHANGED <<replies, asked>>

Fail ==
    /\ open
    /\ open' = FALSE
    /\ UNCHANGED <<replies, asked, answers>>

PortNext == Say \/ Ask \/ Answer \/ Fail

PortSpec == PortInit /\ [][PortNext]_portVars
=============================================================================
