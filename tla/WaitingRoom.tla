----------------------------- MODULE WaitingRoom ----------------------------
(***************************************************************************)
(* Waiting, end to end: visitors with and without the script, the join     *)
(* queue and its ingest, the read Lambda, the open, the operator and the   *)
(* cursor.  The ingest and the controller are modelled call by call in     *)
(* Intake and Outflow; here each is one step of module Line's kind.        *)
(***************************************************************************)
EXTENDS NoScript

CONSTANT EventPhases   \* the phases the operator moves the event through

ASSUME EventPhasesAssumption == EventPhases \subseteq Phases

vars == <<roomVars, cache, pageVars, formVars, faults>>

Init ==
    /\ TablesInit /\ ServingInit /\ ReadInit /\ PageInit /\ FormInit
    /\ phase = "pre_queue"

roomOnly == <<cache, page, chain, sent, unanswered, formVars>>

-----------------------------------------------------------------------------
Taken(v) == mail' = [mail EXCEPT ![v] = @ - 1]

(* A join read before the open is given a row; a second one changes        *)
(* nothing.  A row the open has not counted is stranded.                   *)
Registers(v) ==
    /\ phase = "pre_queue" /\ ~Opened /\ NoFault /\ Taken(v)
    /\ IF prequeue[v] # NoRow THEN UNCHANGED <<shard_count, prequeue>>
       ELSE \E s \in Shards :
              /\ prequeue' = [prequeue EXCEPT ![v] = [shard |-> s, local |-> shard_count[s]]]
              /\ shard_count' = [shard_count EXCEPT ![s] = @ + 1]
    /\ UNCHANGED <<queue_counter, positions>>

(* A join read after it goes to the back of the line, once, whatever the   *)
(* phase has been moved to since.                                          *)
Joins(v) ==
    /\ Opened /\ NoFault /\ Taken(v)
    /\ IF positions[v] # NoPosition THEN UNCHANGED <<queue_counter, positions>>
       ELSE /\ positions' = [positions EXCEPT ![v] = queue_counter + 1]
            /\ queue_counter' = queue_counter + 1
    /\ UNCHANGED <<shard_count, prequeue>>

(* Five receives and nothing to show for it. *)
DeadLetter(v) ==
    /\ Fault("error") /\ Taken(v)
    /\ UNCHANGED <<shard_count, prequeue, queue_counter, positions>>

Ingest(v) ==
    /\ mail[v] > 0
    /\ Registers(v) \/ Joins(v) \/ DeadLetter(v)
    /\ UNCHANGED <<phase, shuffle_seed, cohort, serving_counter, controlVars,
                   arrivals, waited, roomOnly>>

(* The controller releases somebody, never past the end of the line. *)
Release ==
    /\ Admitting /\ serving_counter <= queue_counter
    /\ serving_counter' = serving_counter + 1
    /\ UNCHANGED <<tables, controlVars, arrivals, cache, pageVars, formVars, faults>>

(* The open and the operator. *)
Opens ==
    /\ Open
    /\ UNCHANGED <<serving_counter, controlVars, arrivals, cache, pageVars, formVars, faults>>

Operator ==
    /\ \/ SetStoredControl /\ UNCHANGED tables
       \/ SetFailOpenUntil /\ UNCHANGED tables
       \/ (\E to \in EventPhases : SetPhase(to)) /\ UNCHANGED controlVars
    /\ UNCHANGED <<serving_counter, arrivals, cache, pageVars, formVars, faults>>

TtlStep ==
    /\ \E c \in Containers : TtlElapses(c)
    /\ UNCHANGED <<roomVars, pageVars, formVars, faults>>

PageStep == PageNext /\ UNCHANGED formVars

RoomStep == (\E v \in Visitors : Ingest(v)) \/ Release \/ Opens \/ Operator \/ TtlStep

Next == PageStep \/ FormNext \/ RoomStep

Spec == Init /\ [][Next]_vars

-----------------------------------------------------------------------------
(* Type correctness of the pages, the cookies and the cache. *)
TypeOK ==
    /\ TablesTypeOK /\ ServingTypeOK /\ ReadTypeOK /\ FormTypeOK
    /\ page \in [Scripted -> Page]
    /\ chain \in [Scripted -> [Chains -> Chain]]
    /\ mail \in [Visitors -> Nat] /\ waited \in [Visitors -> Nat]

(* schedule, redeem, the visibility handler: whatever fails, hides or      *)
(* overlaps, a page somebody can see and that has not ended for good has   *)
(* its next poll coming.                                                   *)
PollingNeverDies ==
    \A v \in Scripted :
        LET p == page[v]
        IN  p.left = "no" /\ ~p.stopped /\ ~p.hidden =>
                p.timer \/ \E k \in Chains : chain[v][k].pc # "idle"

(* inFlight, JOINED_KEY: a page puts one join in the queue, and another    *)
(* only for an answer it never heard or a place it gave up as gone.        *)
JoinsAccounted ==
    \A v \in Scripted : sent[v] <= 1 + page[v].rejoinCycles + unanswered[v]

(* giveUp is for a room that keeps failing: one fault, of any kind and at  *)
(* any time, never makes a page give up, even one whose registration raced *)
(* the open.                                                               *)
OneFaultForgiven == \A v \in Scripted : page[v].stopped => faults > 1

(* handle_enter: a browser that believes itself in line is in line, or its *)
(* join was accepted and lost later.                                       *)
CookieMeansJoined == \A b \in Forms : identity[b] # NoIdentity => identity[b] \in accepted

-----------------------------------------------------------------------------
(* Liveness: due polls are sent and answered, joins are processed, the     *)
(* cursor moves while there is somebody to release, caches expire and the  *)
(* wait page reloads itself.                                               *)
RoomFairness ==
    /\ \A v \in Visitors : WF_vars(Ingest(v))
    /\ WF_vars(Release) /\ WF_vars(TtlStep)

PollGoesOn(v) == (TimerFires(v) \/ ChainStep(v)) /\ UNCHANGED formVars

Fairness ==
    /\ RoomFairness
    /\ \A v \in Scripted : WF_vars(PollGoesOn(v))
    /\ \A b \in Forms : WF_vars(handle_wait(b))

LiveSpec == Spec /\ Fairness

StaysOpen == <>[](ServingState = "running")

(* Once the room stays open, everybody who keeps the page in sight is let  *)
(* through or told to stop, stragglers included.                           *)
PageSettles ==
    \A v \in Scripted :
        StaysOpen /\ <>[]~page[v].hidden => <>(page[v].left # "no" \/ page[v].stopped)

(* ... and a browser without the script is let in, if the identity it is   *)
(* left with has a place; a form posted twice may leave it with the other. *)
FormLetIn ==
    \A b \in Forms :
        StaysOpen /\ <>[](identity[b] # NoIdentity
                            /\ resolve_position(identity[b]) # NoPosition)
            => <>(b \in session)
=============================================================================
