--------------------------- MODULE MCIntakeScenes ---------------------------
(***************************************************************************)
(* One run of Intake in two scenes, chosen at the start.  In "faults" two  *)
(* invocations and one opener meet every fault, and the operator only      *)
(* starts the pre-queue.  In "phases" two openers race the operator's walk *)
(* of the phase, one invocation at a time; or one opener does, and a call  *)
(* fails.                                                                  *)
(***************************************************************************)
EXTENDS MCIntake

VARIABLE scene

P == INSTANCE Intake WITH
    FaultKinds <- {"error"}, MaxFaults <- 1

Fired(o) == opc[o] # "idle" \/ result[o] # "none"
OneOpener == \A o, p \in Openers : Fired(o)' /\ Fired(p)' => o = p

RaceOrFault == faults' = 0 \/ OneOpener

OneInvocation == \A i, j \in Lambdas : i # j => "idle" \in {pc'[i], pc'[j]}

ScenesInit == Init /\ scene \in {"faults", "phases"}

Scene(s) == scene = s /\ UNCHANGED scene
Racing == OneInvocation /\ RaceOrFault

ScenesNext ==
    \/ Scene("faults") /\ AssignNext /\ UNCHANGED openVars
    \/ Scene("faults") /\ OpenNext /\ UNCHANGED <<queueVars, lambdaVars>> /\ OneOpener
    \/ Scene("faults") /\ ApplyPhase("pre_queue")
    \/ Scene("phases") /\ P!AssignNext /\ UNCHANGED openVars /\ Racing
    \/ Scene("phases") /\ P!OpenNext /\ UNCHANGED <<queueVars, lambdaVars>> /\ Racing
    \/ Scene("phases") /\ \E to \in OperatorPhases : P!ApplyPhase(to)
    \/ Scene("phases") /\ P!ForceMaintenance

ScenesSpec == ScenesInit /\ [][ScenesNext]_<<vars, scene>>

SceneSymmetry == LambdaSymmetry \cup Permutations({o1, o2})

(* CountedOnce, where no delivery is repeated and no write is ambiguous:   *)
(* a visitor who joins once, across racing opens and any walk of the       *)
(* phase, is in the line once.                                             *)
JoinedOnceCountedOnce == scene = "phases" => CountedOnce
=============================================================================
