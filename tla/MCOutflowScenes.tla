--------------------------- MODULE MCOutflowScenes --------------------------
(***************************************************************************)
(* One run of Outflow in two scenes, chosen at the start.  In "tabs" two   *)
(* calls of generate_token for one visitor, over one shard, meet two       *)
(* faults of any kind or an operator who pauses.  In "visitors" two        *)
(* visitors on two shards are admitted one call at a time, with one fault  *)
(* and no pause.  The clock is the cursor's run: nothing ages here.        *)
(***************************************************************************)
EXTENDS MCOutflow

VARIABLE scene

V == INSTANCE Outflow WITH
    FaultKinds <- {"error", "ambiguous"}, MaxFaults <- 1

Seen(v) ==
    prequeue[v] # NoRow \/ positions[v] # NoPosition \/ \E c \in Tabs : who[c] = v

OneVisitor == \A v \in Visitors \ {v1} : ~Seen(v)'

OneShard == \A s \in Shards \ {0} : shard_count'[s] = 0

PauseOrFault == stored_control' = "open" \/ faults' = 0

OneCall == \A c, d \in Tabs : c # d => "idle" \in {apc'[c], apc'[d]}

RateOf(s) == IF s = "tabs" THEN 2 ELSE 3

ScenesInit == scene \in {"tabs", "visitors"} /\ Init /\ target_rate = RateOf(scene)

Scene(s) == scene = s /\ UNCHANGED <<scene, target_rate>>
Tabbed == OneVisitor /\ OneShard /\ PauseOrFault
OneByOne == OneCall /\ UNCHANGED stored_control

ScenesNext ==
    \/ Scene("tabs") /\ LineStep /\ Tabbed
    \/ Scene("tabs") /\ ControllerStep /\ Tabbed
    \/ Scene("tabs") /\ AdmissionStep /\ Tabbed
    \/ Scene("tabs") /\ OperatorStep /\ Tabbed
    \/ Scene("visitors") /\ V!LineStep /\ OneByOne
    \/ Scene("visitors") /\ V!ControllerStep /\ OneByOne
    \/ Scene("visitors") /\ V!AdmissionStep /\ OneByOne

ScenesSpec == ScenesInit /\ [][ScenesNext]_<<vars, scene>>

TabSymmetry == Permutations({c1, c2})
=============================================================================
