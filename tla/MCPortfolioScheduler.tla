------------------------ MODULE MCPortfolioScheduler ------------------------
(* PortfolioScheduler with two tasks of one project, which are enqueued    *)
(* again and again with one of two priorities, on one slot or on two.      *)
EXTENDS PortfolioScheduler

CONSTANTS t1, t2, alpha

TwoTasks == {t1, t2}
OneProject == {alpha}
AllAlpha == [id \in TwoTasks |-> alpha]

OneOrTwo == {1, 2}
MCPriorities == {0, 1}
AtMostOneAhead == {0, 1}
=============================================================================
