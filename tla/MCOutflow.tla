----------------------------- MODULE MCOutflow ------------------------------
(* Small instances of Outflow for TLC. *)
EXTENDS Outflow, TLC

CONSTANTS v1, v2, e1, e2, c1, c2

MCPrp(seed, i, n) == i

(* The cursor's side, in a line whose visitors do not call. *)
CursorNext == LineStep \/ ControllerStep \/ OperatorStep \/ ClockStep

CursorSpec == Init /\ [][CursorNext]_vars /\ Fairness
=============================================================================
