------------------------------ MODULE Outflow -------------------------------
(***************************************************************************)
(* Letting the line through: the controller, generate_token, the operator  *)
(* and the clock, over a line that fills as module Line says it may.       *)
(***************************************************************************)
EXTENDS Controller, Admission

CONSTANTS
    MaxQueue,          \* bound: the longest line
    MaxLocal,          \* bound: local indices issued by one shard
    EventPhases        \* the phases the operator moves the event through

ASSUME BoundsAssumption ==
    MaxQueue \in Nat /\ MaxLocal \in Nat /\ EventPhases \subseteq Phases

VARIABLES              \* history
    holdMoves,         \* cursor moves since the current hold began
    given              \* the live position each visitor was given, if any

vars == <<tables, faults, controllerVars, controlVars, arrivals, admissionVars,
          holdMoves, given>>

Init ==
    /\ LineInit /\ faults = 0 /\ ServingInit /\ ControllerInit /\ AdmissionInit
    /\ holdMoves = 0 /\ given = [v \in Visitors |-> NoPosition]

(* The operator's stop, spelled out: it is what the properties are about. *)
OnHold == phase # "active" \/ stored_control = "paused" \/ fail_open_left > 0

TrackHold ==
    holdMoves' = IF ~OnHold' THEN 0
                 ELSE IF serving_counter' # serving_counter THEN holdMoves + 1
                 ELSE holdMoves

(* The live sequence gives a position once.  In Line that is because rows   *)
(* stay; here generate_token may replace one, which frees no position.     *)
GivesOnce ==
    LET Placed(v) == positions'[v] # positions[v]
    IN  /\ given' = [v \in Visitors |-> IF Placed(v) THEN positions'[v] ELSE given[v]]
        /\ \A v, w \in Visitors : Placed(v) => positions'[v] # given[w]

LineStep ==
    /\ LineNext /\ GivesOnce
    /\ queue_counter' <= MaxQueue
    /\ \A s \in Shards : shard_count'[s] <= MaxLocal
    /\ phase' \in EventPhases
    /\ UNCHANGED <<faults, controllerVars, controlVars, arrivals, admissionVars>>
    /\ TrackHold

ControllerStep ==
    /\ ControllerNext
    /\ UNCHANGED <<tables, controlVars, arrivals, admissionVars, given>>
    /\ TrackHold

AdmissionStep ==
    /\ AdmissionNext
    /\ UNCHANGED <<controllerVars, controlVars, holdMoves, given>>

OperatorStep ==
    /\ OperatorNext
    /\ UNCHANGED <<tables, faults, controllerVars, arrivals, admissionVars, given>>
    /\ TrackHold

ClockStep == Tick /\ UNCHANGED <<tables, faults, admissionVars, given>> /\ TrackHold

Next == LineStep \/ ControllerStep \/ AdmissionStep \/ OperatorStep \/ ClockStep

Spec == Init /\ [][Next]_vars

-----------------------------------------------------------------------------
(* Type correctness of the item, the executions and the calls. *)
TypeOK ==
    /\ TablesTypeOK /\ ServingTypeOK /\ ControllerTypeOK /\ AdmissionTypeOK
    /\ holdMoves \in Nat
    /\ given \in [Visitors -> Nat \cup {NoPosition}]

(* compute_release: no admission credit is banked past the end of the      *)
(* line, although the line's length is read well before the cursor is      *)
(* written, and other executions write in between.                         *)
NoBankedCredit == serving_counter <= queue_counter + 1

(* The cursor never moves back: somebody told it is their turn keeps it.   *)
CursorMonotone == [][serving_counter' >= serving_counter]_vars

(* A hold stops the line.  A pass that read the item before the operator's *)
(* write may still land, but however many executions overlap, the cursor   *)
(* moves at most once more for the rest of the hold.                       *)
HoldStopsTheLine == holdMoves <= 1

(* Nobody is let in before their turn: every session was minted for a      *)
(* position the cursor has passed, although the call read the cursor, the  *)
(* rows and the hold at different times.                                   *)
SessionsReached ==
    \A v \in Visitors : \A p \in sessions[v] : p < serving_counter

(* A position lets one visitor in: of two visitors, no calls of            *)
(* generate_token ever mint sessions for the same one, wherever each was   *)
(* placed when its row was read, cohort member, straggler or both.         *)
OnePlaceOneVisitor ==
    \A v, w \in Visitors : v # w => sessions[v] \cap sessions[w] = {}

(* An admitted row is final: no later call, join or straggler fix-up moves *)
(* an admitted visitor to another position.                                *)
AdmittedForGood ==
    [][\A v \in admitted : v \in admitted' /\ positions'[v] = positions[v]]_vars

(* What the controller measures: each admission is counted once, but for   *)
(* one miscount per failed claim, failed record or crash.                  *)
Counting == Cardinality({c \in Tabs : apc[c] = "record_arrival"})

ArrivalsAccounted ==
    /\ arrivals + Counting <= Cardinality(admitted) + faults
    /\ Cardinality(admitted) <= arrivals + Counting + faults

(* ARCHITECTURE 6.1: overlapping executions cannot double-advance.  The    *)
(* cursor moves at most once per interval.                                 *)
NoDoubleAdvance == [][serving_counter' # serving_counter => since > 0]_vars

-----------------------------------------------------------------------------
(***************************************************************************)
(* Why one guard on the cursor is enough: the inductive invariant behind   *)
(* NoBankedCredit, CursorMonotone and HoldStopsTheLine, in named parts.    *)
(***************************************************************************)

(* What a pass read lies behind what the item holds now. *)
ReadsBehind ==
    \A e \in Executions : cpc[e] = "read_arrivals" =>
        /\ item[e].serving <= serving_counter
        /\ item[e].queue <= queue_counter
        /\ item[e].serving <= item[e].queue + 1

(* A release is a move forward from a cursor already reached, inside the   *)
(* line as it is now.                                                      *)
WritesBehind ==
    \A e \in Executions : cpc[e] = "write_release" =>
        /\ decision[e].expected <= serving_counter
        /\ decision[e].expected <= decision[e].next
        /\ decision[e].next <= queue_counter + 1

(* Once the cursor has moved during a hold, every pass that could still    *)
(* write was computed from an older cursor, so its write will be refused.  *)
HoldSpent ==
    holdMoves = 1 =>
        /\ OnHold
        /\ \A e \in Executions :
            /\ cpc[e] = "read_arrivals" /\ item[e].admitting =>
                  item[e].serving < serving_counter
            /\ cpc[e] = "write_release" => decision[e].expected < serving_counter

(* Whatever overlaps, no pass in flight is ahead of the item it will write. *)
PassesBehind == ReadsBehind /\ WritesBehind /\ HoldSpent

-----------------------------------------------------------------------------
(***************************************************************************)
(* Why no two visitors meet: a visitor has at most two places, and each is *)
(* theirs for good.                                                        *)
(***************************************************************************)

(* No two pre-queue rows share a slot. *)
SlotsApart ==
    \A v, w \in Visitors :
        v # w /\ prequeue[v] # NoRow => prequeue[v] # prequeue[w]

(* A live position lies behind the cohort and is one visitor's, who keeps  *)
(* a Positions row from then on, if not that position.                     *)
GivenApart ==
    \A v \in Visitors : given[v] # NoPosition =>
        /\ Opened /\ given[v] > cohort.participant_count
        /\ positions[v] # NoPosition
        /\ \A w \in Visitors : v # w => given[v] # given[w]

(* The live position a visitor was given and the place they registered. *)
Places(v) ==
    ({given[v]} \ {NoPosition}) \cup (IF Counted(v) THEN {CohortPosition(v)} ELSE {})

(* What a row, a grant or a session names is a place of its visitor. *)
PlacesOwned ==
    /\ \A v \in Visitors : positions[v] \in Places(v) \cup {NoPosition}
    /\ \A v \in Visitors : sessions[v] \subseteq Places(v)
    /\ \A c \in Tabs :
           apc[c] \in {"claim", "record_arrival", "sign"} => grant[c] \in Places(who[c])

PlacesApart == SlotsApart /\ GivenApart /\ PlacesOwned

-----------------------------------------------------------------------------
(* Liveness: the schedule keeps starting executions, a started pass ends,  *)
(* and time goes by.  The operator and the visitors owe nothing.           *)
PassGoesOn(e) ==
    /\ PassStep(e)
    /\ UNCHANGED <<tables, controlVars, arrivals, admissionVars, given>>
    /\ TrackHold

Fairness == WF_vars(ClockStep) /\ \A e \in Executions : WF_vars(PassGoesOn(e))

(* Once admission stays open, everybody in line is let through, the last   *)
(* position included: neither lost races, failed passes nor a cursor parked *)
(* at the end of the line stop it.                                         *)
LineDrains == <>[]~OnHold => <>[](serving_counter = queue_counter + 1)
=============================================================================
