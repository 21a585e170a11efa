--------------------------- MODULE MCGatewayCalls ---------------------------
(* Two calls of at most two attempts each, caps of one unit a day and one  *)
(* a month, months of two days, and a day of the next month.  Both calls   *)
(* cost one unit; the caller of the first left its estimate out.           *)
EXTENDS GatewayCalls

CONSTANTS c1, c2

MCCalls == {c1, c2}
MCEstimatedCost == [c \in MCCalls |-> IF c = c1 THEN 0 ELSE 1]
MCCosts == {1}
=============================================================================
