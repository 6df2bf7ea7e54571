------------------------------- MODULE ReadApi ------------------------------
(***************************************************************************)
(* The read Lambda: /status and /queue_num.  Each warm container answers   *)
(* from the Counters item as it last read it, until its cache's time is    *)
(* up, so two polls of one visitor may see the room go back in time.       *)
(***************************************************************************)
EXTENDS Serving

CONSTANT Containers

VARIABLE cache         \* each container's CountersCache

ServingStates == {"closed", "paused", "running", "fail_open"}

(* wr_common::serving_state *)
ServingState ==
    IF Resolve = "fail_open" THEN "fail_open"
    ELSE IF phase # "active" THEN "closed"
    ELSE IF Resolve = "paused" THEN "paused" ELSE "running"

(* What status publishes and queue_num needs of the item.  The offsets and *)
(* the seed are written once, so a copy that has them has the current ones. *)
Counters == [serving_state |-> ServingState, phase |-> phase,
             serving_position |-> serving_counter, opened |-> Opened]

Status == [serving_state : ServingStates, phase : Phases,
           serving_position : Nat, opened : BOOLEAN]

Empty == [serving_state |-> "closed", phase |-> "maintenance",
          serving_position |-> -1, opened |-> FALSE]

ReadTypeOK == cache \in [Containers -> Status \cup {Empty}]

ReadInit == cache = [c \in Containers |-> Empty]

(* A hit is answered from the slot, a miss reads the item and fills it. *)
CacheGet(c) == IF cache[c] # Empty THEN cache[c] ELSE Counters

load_counters(c) == cache' = [cache EXCEPT ![c] = CacheGet(c)]

(* The slot's time is up.  The mutant keeps what it once read for good. *)
TtlNever(c) == cache[c] = Empty /\ cache' = [cache EXCEPT ![c] = Counters]

TtlElapses(c) == cache[c] # Empty /\ cache' = [cache EXCEPT ![c] = Empty]

-----------------------------------------------------------------------------
(* queue_num's answers. *)
Found(p) == [status |-> 200, position |-> p]
Refused(code) == [status |-> code, position |-> NoPosition]

(* Positions alone, for a live joiner or a straggler. *)
position_response(v) ==
    IF positions[v] # NoPosition THEN Found(positions[v]) ELSE Refused(404)

(* A pre-queue row answers first; one that raced the open falls through. *)
queue_num(v, item) ==
    IF prequeue[v] = NoRow THEN position_response(v)
    ELSE IF ~item.opened THEN Refused(409)
    ELSE IF ResolveIndex(prequeue[v]) = LiveJoin THEN position_response(v)
    ELSE Found(CohortPosition(v))

-----------------------------------------------------------------------------
(* generate_token's answer, as one step: its calls are module Admission's. *)
resolve_position(v) ==
    IF positions[v] # NoPosition THEN positions[v]
    ELSE IF Counted(v) THEN CohortPosition(v) ELSE NoPosition

(* The row that would answer holds another secret's digest: ids and their  *)
(* secrets are minted and kept together, so somebody else used this one.   *)
NotHolder(v) ==
    /\ positions[v] # NoPosition \/ prequeue[v] # NoRow
    /\ Fault("not_holder")

(* The mutant waits for the cursor to pass the next position too. *)
AdmitsLate(v) ==
    /\ Admitting
    /\ resolve_position(v) # NoPosition
    /\ resolve_position(v) + 1 < serving_counter

Admits(v) ==
    /\ Admitting
    /\ resolve_position(v) # NoPosition
    /\ resolve_position(v) < serving_counter
=============================================================================
