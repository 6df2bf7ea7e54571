------------------------------ MODULE MCParts -------------------------------
(***************************************************************************)
(* The parts of the code that stand alone, each run step by step in a      *)
(* state space of its own: the permutation index by index, compute_release *)
(* pass by pass, the readiness panel call by call, a rule's path rewrite   *)
(* by rewrite, the gate request by request, the load harness lock by lock. *)
(* A behaviour is about one subject; the others stand still.               *)
(***************************************************************************)
EXTENDS Permutation, ReleaseLoop, Readiness, Paths, Gate, Harness

CONSTANTS
    MaxCohort,         \* the largest cohort size tried
    MaxPath            \* the longest path tried, its leading slash left out

VARIABLE subject

vars == <<subject, permutationVars, releaseVars, readinessVars, pathVars,
          gateVars, harnessVars>>

-----------------------------------------------------------------------------
(* Affine round tables: on one-bit halves these are all of them. *)
Keys ==
    {[rx \in (0 .. 3) \X (0 .. 3) |-> (a[rx[1]] * rx[2] + c[rx[1]]) % 4] :
        a \in [0 .. 3 -> {0, 1}], c \in [0 .. 3 -> {0, 1, 3}]}

OnPermutation == PermutationInit(Keys, 0 .. MaxCohort)
NoPermutation == PermutationInit({<<>>}, {0})

OnRelease == ReleaseInit(0 .. MaxLine, Targets)
NoRelease == ReleaseInit({0}, {0})

-----------------------------------------------------------------------------
(* A deployment that passes every row, and every deployment that differs   *)
(* from it in what one future reads.                                       *)
Warmed == [write |-> 3, read |-> 1, warming |-> FALSE]
Behaviours == [path : {"status", "other"}, gate : BOOLEAN, policy : BOOLEAN]
Healthy ==
    [targets |-> [write |-> 3, read |-> 1],
     Counters |-> Warmed, PreQueue |-> Warmed, Positions |-> Warmed, Tokens |-> Warmed,
     limits |-> 3, api |-> 2, concurrency |-> 1,
     open |-> [state |-> "enabled", at |-> 2], controller |-> [state |-> "enabled"],
     gate |-> [rules |-> 1, fail_open_until |-> 0],
     pointer |-> "published",
     distribution |-> [default |-> {"viewer-request"},
                       behaviours |-> {[path |-> "status", gate |-> FALSE, policy |-> TRUE]}],
     policy |-> [min_ttl |-> 1, cookies |-> "none"]]

WarmStates == {Warmed, [Warmed EXCEPT !.write = 1], [Warmed EXCEPT !.warming = TRUE],
               [Warmed EXCEPT !.read = NotReported]}
WarmTargets == {[write |-> 3, read |-> 1], [write |-> 0, read |-> 0], [write |-> 1, read |-> 0]}

DeploymentsOf ==
    [warm |-> {[Healthy EXCEPT !.targets = w, !.Counters = c, !.PreQueue = p] :
                 w \in WarmTargets, c \in WarmStates, p \in WarmStates},
     limits |-> {[Healthy EXCEPT !.limits = q, !.targets = w] :
                   q \in {NotReported, 0, 1, 2, 3}, w \in WarmTargets},
     api |-> {[Healthy EXCEPT !.api = q] : q \in {NotReported, 0, 1, 2}},
     concurrency |-> {[Healthy EXCEPT !.concurrency = q] : q \in {NotReported, 0, 1}},
     open |-> {[Healthy EXCEPT !.open = s] :
                 s \in [state : {"absent", "disabled", "enabled"}, at : {NotReported, 0, 1, 2}]},
     controller |-> {[Healthy EXCEPT !.controller.state = s] :
                       s \in {"absent", "disabled", "enabled"}},
     gate |-> {[Healthy EXCEPT !.gate = g] : g \in [rules : 0 .. 2, fail_open_until : 0 .. 2]},
     edge |-> {[Healthy EXCEPT !.pointer = r, !.policy = p,
                               !.distribution = [default |-> d, behaviours |-> bs]] :
                 r \in {"absent", "malformed", "published"},
                 p \in [min_ttl : 0 .. 1, cookies : {"unset", "none", "whitelist"}],
                 d \in SUBSET {"viewer-request", "viewer-response"},
                 bs \in {{}} \cup {{b} : b \in Behaviours}
                        \cup {{[path |-> "status", gate |-> FALSE, policy |-> TRUE],
                               [path |-> "other", gate |-> g, policy |-> TRUE]} : g \in BOOLEAN}}]

OnReadiness == \E f \in DOMAIN Futures : ReadinessInit(DeploymentsOf[f], Futures[f])
NoReadiness == ReadinessInit({Healthy}, {})

-----------------------------------------------------------------------------
OnPaths == PathInit({<<"/">> \o rest : rest \in SeqOf(Characters \ {"x"}, MaxPath)})
NoPaths == PathInit({<<>>})

-----------------------------------------------------------------------------
Configs == [dormant : {FALSE}, enforce_from : {0, 1}, fail_open_until : {0}, bind : BOOLEAN]
Cookies == {NoCookie, Foreign("signature"), Foreign("event")}
Dormant == [dormant |-> TRUE, enforce_from |-> 0, fail_open_until |-> 0, bind |-> FALSE]

(* One task asks for its position at once, the others a lifetime later. *)
Spread == [v \in Loaders |-> IF v = "l1" THEN 0 ELSE 1]

-----------------------------------------------------------------------------
(* subject is about one part, and every other part is at rest. *)
About(part, started, rest) == IF subject = part THEN started ELSE rest

Init ==
    /\ subject \in {"permutation", "release", "readiness", "paths", "gate", "harness"}
    /\ About("permutation", OnPermutation, NoPermutation)
    /\ About("release", OnRelease, NoRelease)
    /\ About("readiness", OnReadiness, NoReadiness)
    /\ About("paths", OnPaths, NoPaths)
    /\ About("gate", GateInit(Configs, -1 .. 1, Viewers, Cookies),
                      GateInit({Dormant}, {0}, {Nobody}, {NoCookie}))
    /\ About("harness", HarnessInit(Modes, Spread), HarnessInit({"EveryTick"}, Spread))

BesidePermutation == <<subject, releaseVars, readinessVars, pathVars, gateVars, harnessVars>>
BesideRelease == <<subject, permutationVars, readinessVars, pathVars, gateVars, harnessVars>>
BesideReadiness == <<subject, permutationVars, releaseVars, pathVars, gateVars, harnessVars>>
BesidePaths == <<subject, permutationVars, releaseVars, readinessVars, gateVars, harnessVars>>
BesideGate == <<subject, permutationVars, releaseVars, readinessVars, pathVars, harnessVars>>
BesideHarness == <<subject, permutationVars, releaseVars, readinessVars, pathVars, gateVars>>

Permute == subject = "permutation" /\ PermutationNext /\ UNCHANGED BesidePermutation
Feed == subject = "release" /\ Pass /\ UNCHANGED BesideRelease
Assess == subject = "readiness" /\ ReadinessNext /\ UNCHANGED BesideReadiness
Normalize == subject = "paths" /\ normalized_path /\ UNCHANGED BesidePaths
Guard == subject = "gate" /\ GateNext /\ UNCHANGED BesideGate
Load == subject = "harness" /\ HarnessNext /\ UNCHANGED BesideHarness

Next == Permute \/ Feed \/ Assess \/ Normalize \/ Guard \/ Load

(* The loop of prp runs on. *)
Spec == Init /\ [][Next]_vars /\ WF_vars(Permute)
=============================================================================
