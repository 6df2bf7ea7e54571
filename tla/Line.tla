-------------------------------- MODULE Line --------------------------------
(***************************************************************************)
(* What the intake side promises the rest of the system, whatever its      *)
(* Lambdas, queue and faults do: slots are issued by counters that only    *)
(* grow, a row takes an issued slot that nobody holds and then keeps it,   *)
(* and the open happens once, on counts the shards have already issued.    *)
(* Module Intake implements this; module Outflow is built on it.           *)
(***************************************************************************)
EXTENDS Tables

CONSTANT MaxBlock      \* the most slots one claim takes

ASSUME MaxBlockAssumption == MaxBlock \in Nat \ {0}

(* A shard issues a block of local indices, to rows or to nobody. *)
IssueLocal ==
    /\ \E s \in Shards, k \in 1 .. MaxBlock :
          shard_count' = [shard_count EXCEPT ![s] = @ + k]
    /\ UNCHANGED <<phase, shuffle_seed, cohort, queue_counter, prequeue, positions>>

(* A visitor without a row takes an issued local index. *)
Register(v) ==
    /\ prequeue[v] = NoRow
    /\ \E s \in Shards : \E l \in 0 .. shard_count[s] - 1 :
        /\ \A w \in Visitors : prequeue[w] # [shard |-> s, local |-> l]
        /\ prequeue' = [prequeue EXCEPT ![v] = [shard |-> s, local |-> l]]
    /\ UNCHANGED <<phase, shuffle_seed, cohort, queue_counter, shard_count, positions>>

(* The open: once, from the pre-queue, on counts no shard has yet to issue. *)
Open ==
    /\ ~Opened /\ phase = "pre_queue"
    /\ \E seed \in Seeds : shuffle_seed' = seed
    /\ \E counts \in [Shards -> 0 .. U64_MAX] :
        /\ \A s \in Shards : counts[s] <= shard_count[s]
        /\ FromCounts(counts).participant_count <= U64_MAX
        /\ cohort' = FromCounts(counts)
        /\ queue_counter' = FromCounts(counts).participant_count
    /\ phase' = "active"
    /\ UNCHANGED <<shard_count, prequeue, positions>>

(* The live sequence issues a block behind the cohort. *)
IssueLive ==
    /\ Opened
    /\ \E k \in 1 .. MaxBlock : queue_counter' = queue_counter + k
    /\ UNCHANGED <<phase, shuffle_seed, cohort, shard_count, prequeue, positions>>

(* A visitor without a position takes an issued one. *)
Join(v) ==
    /\ Opened /\ positions[v] = NoPosition
    /\ \E p \in cohort.participant_count + 1 .. queue_counter :
        /\ \A w \in Visitors : positions[w] # p
        /\ positions' = [positions EXCEPT ![v] = p]
    /\ UNCHANGED <<phase, shuffle_seed, cohort, queue_counter, shard_count, prequeue>>

(* The operator; active is reached only through the open. *)
SetPhase(to) ==
    /\ to = "active" => Opened
    /\ TransitionAllowed(phase, to)
    /\ phase' = to
    /\ UNCHANGED <<shuffle_seed, cohort, queue_counter, shard_count, prequeue,
                   positions>>

LineNext ==
    \/ IssueLocal \/ Open \/ IssueLive
    \/ \E v \in Visitors : Register(v) \/ Join(v)
    \/ \E to \in Phases : SetPhase(to)

LineInit ==
    /\ phase \in {"idle", "pre_queue"}
    /\ shuffle_seed = NoSeed /\ cohort = NoCohort /\ queue_counter = 0
    /\ shard_count = [s \in Shards |-> 0]
    /\ prequeue = [v \in Visitors |-> NoRow]
    /\ positions = [v \in Visitors |-> NoPosition]

LineSpec == LineInit /\ [][LineNext]_tables
=============================================================================
