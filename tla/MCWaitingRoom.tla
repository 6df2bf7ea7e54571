---------------------------- MODULE MCWaitingRoom ---------------------------
(* Small instances of WaitingRoom for TLC. *)
EXTENDS WaitingRoom

CONSTANTS s1, f1, f2, b1

MCPrp(seed, i, n) == i

(* The two kinds of visitor meet only in the line, so each is explored in  *)
(* a room of its own.                                                      *)
VARIABLE kind

MCInit == Init /\ kind \in {"scripted", "form"}

MCNext ==
    /\ \/ kind = "scripted" /\ PageStep
       \/ kind = "form" /\ FormNext
       \/ RoomStep
    /\ UNCHANGED kind

(* Fairness asks nothing of the kind that is not there. *)
MCFairness ==
    /\ RoomFairness
    /\ \A v \in Scripted : WF_vars(kind = "scripted" /\ PollGoesOn(v))
    /\ \A b \in Forms : WF_vars(kind = "form" /\ handle_wait(b))

MCSpec == MCInit /\ [][MCNext]_<<vars, kind>> /\ MCFairness

(* PageSettles, in the room that has a page: once the room stays open,     *)
(* everybody who keeps waiting.js in sight is let through or told to stop. *)
MCPageSettles == kind = "scripted" => PageSettles
=============================================================================
