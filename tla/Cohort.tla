------------------------------- MODULE Cohort -------------------------------
(***************************************************************************)
(* The pre-queue index space (wr-common, permutation/assembly.rs).         *)
(*                                                                         *)
(* Registration is striped over SHARDS counters.  A row stores only its    *)
(* shard and its local index in that shard; opening the event fixes, once, *)
(* the prefix sums of the shard counts, from which every row's global      *)
(* index in 0 .. N-1 is rebuilt.                                           *)
(***************************************************************************)
EXTENDS Integers

CONSTANT SHARDS        \* number of pre-queue counters; 10 in every deployment

ASSUME ShardsAssumption == SHARDS \in Nat \ {0}

Shards == 0 .. SHARDS - 1

(***************************************************************************)
(* The loop of from_counts: running[s] is the total of the shards before   *)
(* s, and running[SHARDS] the cohort size.                                 *)
(***************************************************************************)
Running(counts) ==
    LET running[s \in 0 .. SHARDS] ==
            IF s = 0 THEN 0 ELSE running[s - 1] + counts[s - 1]
    IN  running

(* from_counts.  The sums are over Nat: its checked_add fails when the last *)
(* of them does not fit, which is how OpenEvent's CohortOverflows refuses. *)
FromCounts(counts) ==
    [offsets           |-> [s \in Shards |-> Running(counts)[s]],
     participant_count |-> Running(counts)[SHARDS]]

CohortOffsets == [offsets : [Shards -> Nat], participant_count : Nat]

(* The number of local indices the open counted for one shard. *)
ShardCount(cohort, s) ==
    (IF s + 1 \in Shards THEN cohort.offsets[s + 1]
                         ELSE cohort.participant_count) - cohort.offsets[s]

LiveJoin == -1         \* the row raced the open and has no cohort index

(***************************************************************************)
(* assign: the global index of a row, or LiveJoin.  The bound is the       *)
(* shard's own count.  The mutant is the global test i < N that the code's *)
(* comments warn against.                                                  *)
(***************************************************************************)
AssignGlobalBound(cohort, s, l) ==
    IF cohort.offsets[s] + l < cohort.participant_count
    THEN cohort.offsets[s] + l ELSE LiveJoin

Assign(cohort, s, l) ==
    IF l >= ShardCount(cohort, s) THEN LiveJoin ELSE cohort.offsets[s] + l
=============================================================================
