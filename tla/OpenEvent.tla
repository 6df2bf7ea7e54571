----------------------------- MODULE OpenEvent ------------------------------
(***************************************************************************)
(* The open_event Lambda: fired by the one-shot schedule, by its retries   *)
(* and by the operator's Open now.  The shard counts are ten items read by *)
(* one BatchGetItem, which is consistent per item and not across items, so *)
(* registrations may land between the reads and before the write.          *)
(***************************************************************************)
EXTENDS Tables

CONSTANT Openers       \* the calls that may fire the open

VARIABLES
    opc,               \* the call each opener makes next
    seen,              \* the shard counts it has read so far
    result             \* how its last call ended

openVars == <<opc, seen, result>>

Unread == -1
OpenCalls == {"idle", "read", "write", "check", "done"}
OpenResults == {"none", "opened", "already_open", "wrong_phase", "error"}

OpenTypeOK ==
    /\ opc \in [Openers -> OpenCalls]
    /\ seen \in [Openers -> [Shards -> Nat \cup {Unread}]]
    /\ result \in [Openers -> OpenResults]

NothingSeen == [s \in Shards |-> Unread]

OpenInit ==
    /\ opc = [o \in Openers |-> "idle"]
    /\ seen = [o \in Openers |-> NothingSeen]
    /\ result = [o \in Openers |-> "none"]

-----------------------------------------------------------------------------

Fire(o) ==
    /\ opc[o] = "idle"
    /\ opc' = [opc EXCEPT ![o] = "read"]
    /\ NoFault
    /\ UNCHANGED <<tables, seen, result>>

(* A call that ends in an error is fired again; one that succeeded is not. *)
EndOpen(o, r) ==
    /\ opc' = [opc EXCEPT ![o] = IF r \in {"error", "wrong_phase"} THEN "idle"
                                                                   ELSE "done"]
    /\ seen' = [seen EXCEPT ![o] = NothingSeen]
    /\ result' = [result EXCEPT ![o] = r]

ReadShardCount(o) ==
    /\ opc[o] = "read"
    /\ \E s \in Shards :
        /\ seen[o][s] = Unread
        /\ seen' = [seen EXCEPT ![o][s] = shard_count[s]]
        /\ opc' = [opc EXCEPT ![o] =
                     IF \E t \in Shards : seen'[o][t] = Unread THEN "read" ELSE "write"]
    /\ NoFault
    /\ UNCHANGED <<tables, result>>

(* Unprocessed keys, an unreadable item, or a store error: nothing is opened. *)
ReadShardCountsFails(o) ==
    /\ opc[o] = "read"
    /\ Fault("error")
    /\ EndOpen(o, "error")
    /\ UNCHANGED tables

(* from_counts refuses a cohort that does not fit a u64. *)
CohortOverflows(o) ==
    /\ opc[o] = "write"
    /\ FromCounts(seen[o]).participant_count > U64_MAX
    /\ NoFault
    /\ EndOpen(o, "error")
    /\ UNCHANGED tables

(* open_guard: the seed is absent and the event is in the pre-queue.  The  *)
(* mutant keeps only the phase clause.                                     *)
OpenGuardPhaseOnly == phase = "pre_queue"

OpenGuard == ~Opened /\ phase = "pre_queue"

(* The one update that opens the event. *)
SetOpenOutputs(o) ==
    /\ \E seed \in Seeds : shuffle_seed' = seed
    /\ cohort' = FromCounts(seen[o])
    /\ queue_counter' = FromCounts(seen[o]).participant_count
    /\ phase' = "active"
    /\ UNCHANGED <<shard_count, prequeue, positions>>

WriteOpen(o) ==
    /\ opc[o] = "write"
    /\ FromCounts(seen[o]).participant_count <= U64_MAX
    /\ \/ /\ NoFault /\ OpenGuard
          /\ SetOpenOutputs(o)
          /\ EndOpen(o, "opened")
       \/ /\ NoFault /\ ~OpenGuard
          /\ opc' = [opc EXCEPT ![o] = "check"]
          /\ UNCHANGED <<tables, seen, result>>
       \/ /\ \/ Fault("error") /\ UNCHANGED tables
             \/ Fault("ambiguous") /\ OpenGuard /\ SetOpenOutputs(o)
          /\ EndOpen(o, "error")

(* The guard was false: the seed's presence tells a double-fire from a     *)
(* wrong phase.  The read is not a consistent one, so it may miss the seed. *)
IsAlreadyOpen(o) ==
    /\ opc[o] = "check"
    /\ \/ NoFault /\ Opened /\ EndOpen(o, "already_open")
       \/ NoFault /\ ~Opened /\ EndOpen(o, "wrong_phase")
       \/ Fault("stale") /\ Opened /\ EndOpen(o, "wrong_phase")
       \/ Fault("error") /\ EndOpen(o, "error")
    /\ UNCHANGED tables

OpenCall(o) ==
    \/ ReadShardCount(o) \/ ReadShardCountsFails(o)
    \/ CohortOverflows(o) \/ WriteOpen(o) \/ IsAlreadyOpen(o)

OpenNext == \E o \in Openers : Fire(o) \/ OpenCall(o)
=============================================================================
