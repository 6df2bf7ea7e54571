------------------------------- MODULE Intake -------------------------------
(***************************************************************************)
(* Taking a place in line: assign_position, open_event and the operator's  *)
(* phase changes over the tables they share.                               *)
(***************************************************************************)
EXTENDS AssignPosition, OpenEvent

CONSTANT OperatorPhases    \* the phases the operator moves the event to

ASSUME OperatorPhasesAssumption == OperatorPhases \subseteq Phases

vars == <<tables, faults, queueVars, lambdaVars, openVars>>

Init == TablesInit /\ AssignInit /\ OpenInit

(***************************************************************************)
(* The operator (admin): apply_phase and apply_force_maintenance read the  *)
(* item and then write the phase on condition that it is still the one     *)
(* they read, so each takes effect as one step from the current phase.     *)
(***************************************************************************)
ApplyPhase(to) ==
    /\ to # "maintenance"
    /\ TransitionAllowed(phase, to)
    /\ to = "active" => Opened
    /\ phase' = to
    /\ UNCHANGED <<shuffle_seed, cohort, queue_counter, shard_count, prequeue,
                   positions, faults, queueVars, lambdaVars, openVars>>

ForceMaintenance ==
    /\ "maintenance" \in OperatorPhases
    /\ phase' = "maintenance"
    /\ UNCHANGED <<shuffle_seed, cohort, queue_counter, shard_count, prequeue,
                   positions, faults, queueVars, lambdaVars, openVars>>

Next ==
    \/ AssignNext /\ UNCHANGED openVars
    \/ OpenNext /\ UNCHANGED <<queueVars, lambdaVars>>
    \/ \E to \in OperatorPhases : ApplyPhase(to)
    \/ ForceMaintenance

Spec == Init /\ [][Next]_vars

-----------------------------------------------------------------------------
(* Type correctness of the tables, the queue, and both Lambdas. *)
TypeOK == TablesTypeOK /\ AssignTypeOK /\ OpenTypeOK

(***************************************************************************)
(* Every position a visitor can be shown or admitted on: the cohort        *)
(* position derived from a counted PreQueue row, and the Positions row.    *)
(***************************************************************************)
Held(v) ==
    {p \in {positions[v]} : p # NoPosition}
        \cup (IF Counted(v) THEN {CohortPosition(v)} ELSE {})

(* REQUIREMENTS F2.2: no position is issued twice.  Whatever the races     *)
(* between batches, the open's shard reads and its write, retries and      *)
(* duplicates, two visitors never hold a common position.                  *)
NoSharedPosition ==
    \A v, w \in Visitors : v # w => Held(v) \cap Held(w) = {}

(* REQUIREMENTS F2.1: a live joiner stands behind the whole cohort, in     *)
(* every phase the event can be walked to and back, and no Positions row   *)
(* exists before the open.                                                 *)
LiveBehindCohort ==
    \A v \in Visitors : positions[v] # NoPosition =>
        Opened /\ positions[v] > cohort.participant_count

(* The open never discards a live claim: queue_counter only moves forward, *)
(* although the open SETs it.  This is what the reject arm of              *)
(* process_batch exists for.                                               *)
NeverRewinds == [][queue_counter' >= queue_counter]_vars

(* The event opens exactly once: the seed, the offsets and the cohort size *)
(* are written together and never again, however often the open is fired.  *)
OpensOnce == [][Opened => UNCHANGED <<shuffle_seed, cohort>>]_vars

(* A visitor counted into the cohort holds no live position beside it, so  *)
(* that /queue_num (PreQueue row first) and generate_token (Positions row  *)
(* first) agree on where they stand.                                       *)
CountedOnce == \A v \in Visitors : Counted(v) => positions[v] = NoPosition

(***************************************************************************)
(* The intake side as its readers see it, the tables alone, is module      *)
(* Line: every step of every Lambda is one of its steps or invisible.      *)
(***************************************************************************)
L == INSTANCE Line WITH MaxBlock <- BatchSize

(* Intake implements Line: whatever is lost, repeated or raced, the tables *)
(* only ever change as the abstract line does.  Above all a row, once      *)
(* written, is permanent: a repeated join never moves it.                  *)
ImplementsLine == L!LineSpec

-----------------------------------------------------------------------------
(***************************************************************************)
(* Why no position is shared: the inductive invariant behind               *)
(* NoSharedPosition, in named parts.                                       *)
(***************************************************************************)

(* An opener writes only once it has read every shard. *)
SeenAll ==
    \A o \in Openers : opc[o] = "write" => seen[o] \in [Shards -> Nat]

(* The published cohort is the one its own shard counts fold to, and the   *)
(* live sequence starts behind it; before the open nothing was claimed.    *)
CohortCounts == [s \in Shards |-> ShardCount(cohort, s)]

OpenOutputs ==
    /\ Opened =>
        /\ CohortCounts \in [Shards -> Nat]
        /\ cohort = FromCounts(CohortCounts)
        /\ cohort.participant_count <= U64_MAX
        /\ cohort.participant_count <= queue_counter
    /\ ~Opened => queue_counter = 0

(* The live sequence is claimed from, and written for, only after the open. *)
LiveCalls == {"claim_live", "claim_straggler", "put_live", "put_straggler"}
LivePuts == {"put_live", "put_straggler"}

LiveAfterOpen == \A i \in Lambdas : pc[i] \in LiveCalls => Opened

(* Every local index an invocation has yet to write was issued by its      *)
(* shard, has no row, and belongs to no other record of any invocation.    *)
PrequeueSlots ==
    \A i \in Lambdas : pc[i] = "put_prequeue" => \A x \in todo[i] :
        /\ x.at < shard_count[shard[i]]
        /\ \A v \in Visitors : prequeue[v] # [shard |-> shard[i], local |-> x.at]
        /\ \A j \in Lambdas : pc[j] = "put_prequeue" /\ shard[j] = shard[i] =>
              \A y \in todo[j] : y.at = x.at => i = j /\ x = y

(* The same of the live positions, all of them behind the cohort. *)
LiveSlots ==
    \A i \in Lambdas : pc[i] \in LivePuts => \A x \in todo[i] :
        /\ cohort.participant_count < x.at /\ x.at <= queue_counter
        /\ \A v \in Visitors : positions[v] # x.at
        /\ \A j \in Lambdas : pc[j] \in LivePuts =>
              \A y \in todo[j] : y.at = x.at => i = j /\ x = y

(* Rows hold issued slots, and no two rows the same one. *)
RowsIssued ==
    \A v \in Visitors : prequeue[v] # NoRow =>
        /\ prequeue[v].local < shard_count[prequeue[v].shard]
        /\ \A w \in Visitors : prequeue[w] = prequeue[v] => v = w

PositionsIssued ==
    \A v \in Visitors : positions[v] # NoPosition =>
        /\ Opened
        /\ cohort.participant_count < positions[v] /\ positions[v] <= queue_counter
        /\ \A w \in Visitors : positions[w] = positions[v] => v = w

(* Every slot is issued once and written at most once, whichever           *)
(* invocations, faults and openers run between its claim and its write.    *)
SlotsOwned ==
    /\ SeenAll /\ OpenOutputs /\ LiveAfterOpen
    /\ PrequeueSlots /\ LiveSlots /\ RowsIssued /\ PositionsIssued

-----------------------------------------------------------------------------
(***************************************************************************)
(* Liveness.  An invocation that was started makes its calls or dies; the  *)
(* event source mapping keeps polling, so a visible message is delivered;  *)
(* and waiting.js re-joins while /queue_num answers 404 to its visitor.    *)
(* The operator and the open are under no obligation.                      *)
(***************************************************************************)
Placed(v) == Held(v) # {}

Deliver(m) == status[m] = "queued" /\ \E i \in Lambdas : Receive(i) /\ m \in batch'[i]

Rejoin(v) ==
    /\ Opened /\ ~Placed(v)
    /\ \E m \in Messages : Requester[m] = v /\ Send(m)

Fairness ==
    /\ \A i \in Lambdas : WF_vars(Invocation(i) /\ UNCHANGED openVars)
    /\ \A m \in Messages : WF_vars(Deliver(m) /\ UNCHANGED openVars)
    /\ \A v \in Visitors : WF_vars(Rejoin(v) /\ UNCHANGED openVars)

(* A visitor can still join: a well-formed message of theirs is unsent, or *)
(* waits in the queue with more deliveries left than faults to come.       *)
CanStillJoin(v) ==
    \E m \in Messages \ Malformed :
        /\ Requester[m] = v
        /\ \/ status[m] = "unsent"
           \/ /\ status[m] = "queued"
              /\ MaxReceives - received[m] > MaxFaults - faults

(* Nobody is stranded by the open: once the event is open, a visitor who   *)
(* can still join gets a position, whether they are a straggler the fix-up *)
(* missed, a join whose write failed, or a newcomer.                       *)
EveryJoinPlaced ==
    \A v \in Visitors : (Opened /\ CanStillJoin(v)) ~> Placed(v)
=============================================================================
