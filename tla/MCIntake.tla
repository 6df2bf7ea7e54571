------------------------------ MODULE MCIntake ------------------------------
(* Small instances of Intake for TLC. *)
EXTENDS Intake, TLC

CONSTANTS v1, v2, i1, i2, o1, o2

(* Two seeds: one keeps the order of registration, one reverses it. *)
MCPrp(seed, i, n) == IF seed = "keep" THEN i ELSE n - 1 - i

MCMessages2 == {1, 2}
MCMessages3 == {1, 2, 3}

(* The first visitor sends two joins, the second one. *)
MCRequester3 == [m \in MCMessages3 |-> IF m < 3 THEN v1 ELSE v2]
MCRequester2 == [m \in MCMessages2 |-> IF m = 1 THEN v1 ELSE v2]

(* One visitor with every message; the third need not be well-formed. *)
MCRequesterOne == [m \in MCMessages3 |-> v1]

(* For liveness, an operator who does not call maintenance. *)
WalkNext ==
    \/ AssignNext /\ UNCHANGED openVars
    \/ OpenNext /\ UNCHANGED <<queueVars, lambdaVars>>
    \/ \E to \in OperatorPhases : ApplyPhase(to)

WalkSpec == Init /\ [][WalkNext]_vars /\ Fairness

LambdaSymmetry == Permutations({i1, i2})
=============================================================================
