------------------------------- MODULE Tables -------------------------------
(***************************************************************************)
(* What the Lambdas share: the event's Counters item, the pre-queue shard  *)
(* items, and the PreQueue and Positions tables.  DynamoDB itself is       *)
(* external: a single-item write is one atomic step, a consistent read     *)
(* returns the latest value, and any call may fail, with or without its    *)
(* write having landed.                                                    *)
(***************************************************************************)
EXTENDS Cohort, FiniteSets

CONSTANTS
    Visitors,          \* request ids
    Seeds,             \* permutation seeds the open may draw
    Prp(_, _, _),      \* Prp(seed, i, n): the position of index i of n
    U64_MAX,           \* the largest cohort size from_counts accepts
    FaultKinds,        \* which faults the environment may inject
    MaxFaults          \* how many of them

Faults == {"error", "ambiguous", "crash", "redelivery", "stale", "not_holder"}

ASSUME VisitorsAssumption == IsFiniteSet(Visitors)
ASSUME U64Assumption == U64_MAX \in Nat
ASSUME FaultAssumption == FaultKinds \subseteq Faults /\ MaxFaults \in Nat

(* The permutation of wr-common: a bijection of 0 .. n-1 for every seed.   *)
(* Module Permutation checks the Feistel construction itself against this.         *)
ASSUME PrpAssumption ==
    \A seed \in Seeds, n \in 0 .. U64_MAX : \A i \in 0 .. n - 1 :
        /\ Prp(seed, i, n) \in 0 .. n - 1
        /\ \A j \in 0 .. n - 1 : Prp(seed, i, n) = Prp(seed, j, n) => i = j

VARIABLES
    (* the event's Counters item *)
    phase,             \* the lifecycle phase
    shuffle_seed,      \* set by the open and by nothing else
    cohort,            \* the published offsets and cohort size
    queue_counter,     \* the live-join sequence
    (* the shard items *)
    shard_count,       \* indices issued so far by each shard
    (* the tables *)
    prequeue,          \* PreQueue row of each request id
    positions,         \* Positions row of each request id
    (* the environment *)
    faults             \* faults injected so far

tables == <<phase, shuffle_seed, cohort, queue_counter, shard_count,
            prequeue, positions>>

Phases == {"idle", "pre_queue", "active", "post_event", "maintenance"}

NoSeed == "none"
NoCohort == [offsets |-> [s \in Shards |-> 0], participant_count |-> 0]
NoRow == [shard |-> -1, local |-> -1]
NoPosition == -1

Row == [shard : Shards, local : Nat]

ASSUME SeedAssumption == NoSeed \notin Seeds

TablesTypeOK ==
    /\ phase \in Phases
    /\ shuffle_seed \in Seeds \cup {NoSeed}
    /\ cohort \in CohortOffsets
    /\ queue_counter \in Nat
    /\ shard_count \in [Shards -> Nat]
    /\ prequeue \in [Visitors -> Row \cup {NoRow}]
    /\ positions \in [Visitors -> Nat \cup {NoPosition}]
    /\ faults \in 0 .. MaxFaults

TablesInit ==
    /\ phase \in {"idle", "pre_queue"}     \* pre_queue when a start is scheduled
    /\ shuffle_seed = NoSeed
    /\ cohort = NoCohort
    /\ queue_counter = 0
    /\ shard_count = [s \in Shards |-> 0]
    /\ prequeue = [v \in Visitors |-> NoRow]
    /\ positions = [v \in Visitors |-> NoPosition]
    /\ faults = 0

(* open_outputs() is present: the three attributes are written together. *)
Opened == shuffle_seed # NoSeed

(* The phase moves an operator may make (admin, transition_allowed). *)
TransitionAllowed(from, to) ==
    \/ from = to \/ from = "maintenance" \/ to = "maintenance"
    \/ <<from, to>> \in {<<"idle", "pre_queue">>, <<"pre_queue", "active">>,
                         <<"active", "post_event">>}

(* A fault of one kind is injected; NoFault: the call simply succeeds. *)
Fault(kind) == kind \in FaultKinds /\ faults < MaxFaults /\ faults' = faults + 1
NoFault == UNCHANGED faults

-----------------------------------------------------------------------------
(* Where a registration resolves to: Counters::resolve_prequeue. *)

ResolveIndex(row) == Assign(cohort, row.shard, row.local)

Counted(v) == Opened /\ prequeue[v] # NoRow /\ ResolveIndex(prequeue[v]) # LiveJoin

CohortPosition(v) ==
    Prp(shuffle_seed, ResolveIndex(prequeue[v]), cohort.participant_count)
=============================================================================
