--------------------------- MODULE AssignPosition ---------------------------
(***************************************************************************)
(* The assign_position Lambda and the join queue that feeds it.            *)
(*                                                                         *)
(* Every invocation takes a batch of join messages through its store calls *)
(* one call per step, so that other invocations, the open and the operator *)
(* may act between any two of them.  The order of records in an SQS batch  *)
(* is arbitrary: a batch is a set, and the order in which its records take *)
(* their slots is chosen when the block is claimed.                        *)
(***************************************************************************)
EXTENDS Tables

CONSTANTS
    Messages,          \* join messages: every send is a message of its own
    Requester,         \* the request id each message carries
    Malformed,         \* messages classify_record rejects
    Lambdas,           \* concurrent invocations
    BatchSize,         \* batch_size of the event source mapping (100)
    MaxReceives        \* maxReceiveCount of the queue (5)

ASSUME MessagesAssumption ==
    /\ IsFiniteSet(Messages)
    /\ Requester \in [Messages -> Visitors]
    /\ Malformed \subseteq Messages
    /\ BatchSize \in Nat \ {0}
    /\ MaxReceives \in Nat \ {0}

VARIABLES
    status,            \* where each message is
    received,          \* how often it has been delivered
    pc,                \* the call each invocation makes next
    batch,             \* the records it was given
    group,             \* the records it claims a slot for
    shard,             \* the shard it drew
    todo,              \* claimed slots not yet written, as [m, at]
    written,           \* pre-queue rows it saw written, as [m, at]
    failed             \* the records it reports as failures

queueVars == <<status, received>>
lambdaVars == <<pc, batch, group, shard, todo, written, failed>>

Statuses == {"unsent", "queued", "inflight", "acked", "dead"}
Calls == {"idle", "load_counters", "registered_ids", "claim_prequeue",
          "put_prequeue", "fixup", "claim_straggler", "put_straggler",
          "claim_live", "put_live", "report"}
Write == [m : Messages, at : Nat]

AssignTypeOK ==
    /\ status \in [Messages -> Statuses]
    /\ received \in [Messages -> 0 .. MaxReceives]
    /\ \A m \in Messages :          \* the queue never offers a spent message
          status[m] \in {"unsent", "queued"} => received[m] < MaxReceives
    /\ pc \in [Lambdas -> Calls]
    /\ batch \in [Lambdas -> SUBSET Messages]
    /\ group \in [Lambdas -> SUBSET Messages]
    /\ shard \in [Lambdas -> Shards]
    /\ todo \in [Lambdas -> SUBSET Write]
    /\ written \in [Lambdas -> SUBSET Write]
    /\ failed \in [Lambdas -> SUBSET Messages]

AssignInit ==
    /\ status = [m \in Messages |-> "unsent"]
    /\ received = [m \in Messages |-> 0]
    /\ pc = [i \in Lambdas |-> "idle"]
    /\ batch = [i \in Lambdas |-> {}]
    /\ group = [i \in Lambdas |-> {}]
    /\ shard = [i \in Lambdas |-> 0]
    /\ todo = [i \in Lambdas |-> {}]
    /\ written = [i \in Lambdas |-> {}]
    /\ failed = [i \in Lambdas |-> {}]

-----------------------------------------------------------------------------
(* The queue: external, seen through the event source mapping. *)

(* The gateway enqueues a join.  A second message of the same visitor is a *)
(* reload, another tab, or the re-join of waiting.js after its misses.     *)
Send(m) ==
    /\ status[m] = "unsent"
    /\ status' = [status EXCEPT ![m] = "queued"]
    /\ NoFault
    /\ UNCHANGED <<tables, received, lambdaVars>>

(* A standard queue may deliver a message again after it was deleted. *)
Redeliver(m) ==
    /\ status[m] = "acked" /\ received[m] < MaxReceives
    /\ Fault("redelivery")
    /\ status' = [status EXCEPT ![m] = "queued"]
    /\ UNCHANGED <<tables, received, lambdaVars>>

(* A failed message is returned, or dead-lettered once it has had its tries. *)
Return(ms, acked) ==
    status' = [m \in Messages |->
                 IF m \in ms
                 THEN IF received[m] >= MaxReceives THEN "dead" ELSE "queued"
                 ELSE IF m \in acked THEN "acked" ELSE status[m]]

-----------------------------------------------------------------------------
(* Steps of an invocation. *)

Goto(i, call) == pc' = [pc EXCEPT ![i] = call]
Accepted(i) == batch[i] \ Malformed
FailWith(i, ms) ==
    /\ failed' = [failed EXCEPT ![i] = @ \cup ms]
    /\ Goto(i, "report")

(* An invocation starts: the shard is drawn before anything else, and the  *)
(* records that do not classify are dropped without being reported.        *)
Receive(i) ==
    /\ pc[i] = "idle"
    /\ \E ms \in SUBSET {m \in Messages : status[m] = "queued"} :
        /\ ms # {} /\ Cardinality(ms) <= BatchSize
        /\ status' = [m \in Messages |-> IF m \in ms THEN "inflight" ELSE status[m]]
        /\ received' = [m \in Messages |-> IF m \in ms THEN received[m] + 1
                                                       ELSE received[m]]
        /\ batch' = [batch EXCEPT ![i] = ms]
        /\ \/ /\ NoFault
              /\ Goto(i, IF ms \subseteq Malformed THEN "report" ELSE "load_counters")
              /\ UNCHANGED failed
           \/ /\ Fault("error")            \* the shard draw failed
              /\ FailWith(i, ms)
    /\ UNCHANGED <<tables, group, shard, todo, written>>

(* Which path the batch takes is decided once, on the open outputs.  The   *)
(* mutant also takes the live path in every phase but the pre-queue.       *)
LoadCountersByPhase(i) ==
    /\ pc[i] = "load_counters"
    /\ NoFault
    /\ IF Opened \/ phase # "pre_queue"
       THEN group' = [group EXCEPT ![i] = Accepted(i)] /\ Goto(i, "claim_live")
       ELSE Goto(i, "registered_ids") /\ UNCHANGED group
    /\ UNCHANGED <<tables, queueVars, batch, shard, todo, written, failed>>

LoadCounters(i) ==
    /\ pc[i] = "load_counters"
    /\ \/ /\ NoFault /\ Opened
          /\ group' = [group EXCEPT ![i] = Accepted(i)]
          /\ Goto(i, "claim_live")
          /\ UNCHANGED failed
       \/ /\ NoFault /\ ~Opened /\ phase = "pre_queue"
          /\ Goto(i, "registered_ids")
          /\ UNCHANGED <<group, failed>>
       \/ /\ \/ NoFault /\ ~Opened /\ phase # "pre_queue"
             \/ Fault("error")
          /\ FailWith(i, Accepted(i))
          /\ UNCHANGED group
    /\ UNCHANGED <<tables, queueVars, batch, shard, todo, written>>

(* One record per request id that is not known to be registered. *)
Deduped(g, ms, known) ==
    /\ \A m, n \in g : Requester[m] = Requester[n] => m = n
    /\ {Requester[m] : m \in g} = {Requester[m] : m \in ms} \ known

(* A failed or partial read leaves ids unknown, which are then claimed for. *)
RegisteredIds(i) ==
    /\ pc[i] = "registered_ids"
    /\ LET found == {v \in {Requester[m] : m \in Accepted(i)} : prequeue[v] # NoRow}
       IN  \E known \in SUBSET found, g \in SUBSET Accepted(i) :
             /\ (known = found /\ NoFault) \/ (known # found /\ Fault("error"))
             /\ Deduped(g, Accepted(i), known)
             /\ group' = [group EXCEPT ![i] = g]
             /\ Goto(i, IF g = {} THEN "report" ELSE "claim_prequeue")
    /\ UNCHANGED <<tables, queueVars, batch, shard, todo, written, failed>>

(* The ways the records of g can take the slots of a block from first on. *)
Blocks(g, first) ==
    {slot \in [g -> first .. first + Cardinality(g) - 1] :
        \A m, n \in g : slot[m] = slot[n] => m = n}

SlotWrites(g, slot) == {[m |-> m, at |-> slot[m]] : m \in g}

TakeSlots(i, g, blocks) ==
    \E slot \in blocks : todo' = [todo EXCEPT ![i] = SlotWrites(g, slot)]

(* Claims local indices [n - count, n - 1] of the drawn shard.  An add that *)
(* landed although the caller saw an error burns its indices.              *)
ClaimPrequeueBlock(i) ==
    /\ pc[i] = "claim_prequeue"
    /\ \E s \in Shards :
        LET count == Cardinality(group[i])
            added == [shard_count EXCEPT ![s] = @ + count]
        IN  \/ /\ NoFault
               /\ shard_count' = added
               /\ shard' = [shard EXCEPT ![i] = s]
               /\ TakeSlots(i, group[i], Blocks(group[i], shard_count[s]))
               /\ Goto(i, "put_prequeue")
               /\ UNCHANGED failed
            \/ /\ \/ Fault("error") /\ UNCHANGED shard_count
                  \/ Fault("ambiguous") /\ shard_count' = added
               /\ FailWith(i, group[i])
               /\ UNCHANGED <<shard, todo>>
    /\ UNCHANGED <<phase, shuffle_seed, cohort, queue_counter, prequeue,
                   positions, queueVars, batch, group, written>>

(* The next write of an invocation: slots are written in their order. *)
IsNextWrite(i, w) == w \in todo[i] /\ \A x \in todo[i] : w.at <= x.at

(* The conditional put of a pre-queue row, and its table unchanged if the  *)
(* request id already has one.                                             *)
PutRow(v, row) ==
    prequeue' = IF prequeue[v] = NoRow THEN [prequeue EXCEPT ![v] = row]
                                       ELSE prequeue

PutPrequeue(i) ==
    /\ pc[i] = "put_prequeue"
    /\ \E w \in todo[i] :
        LET v == Requester[w.m]
            row == [shard |-> shard[i], local |-> w.at]
        IN  /\ IsNextWrite(i, w)
            /\ todo' = [todo EXCEPT ![i] = @ \ {w}]
            /\ \/ /\ NoFault               \* written, or a duplicate: index burned
                  /\ PutRow(v, row)
                  /\ written' = [written EXCEPT ![i] =
                                   IF prequeue[v] = NoRow THEN @ \cup {w} ELSE @]
                  /\ UNCHANGED failed
               \/ /\ \/ Fault("error") /\ UNCHANGED prequeue
                     \/ Fault("ambiguous") /\ PutRow(v, row)
                  /\ failed' = [failed EXCEPT ![i] = @ \cup {w.m}]
                  /\ UNCHANGED written
            /\ Goto(i, IF todo[i] # {w} THEN "put_prequeue"
                       ELSE IF written'[i] # {} THEN "fixup" ELSE "report")
    /\ UNCHANGED <<phase, shuffle_seed, cohort, queue_counter, shard_count,
                   positions, queueVars, batch, group, shard>>

-----------------------------------------------------------------------------
(* fixup_stragglers: no failure in here is ever reported.  The mutant      *)
(* gives a live position to every row written, the counted ones too.       *)

StragglersAll(i) == written[i]

Stragglers(i) == {w \in written[i] : Assign(cohort, shard[i], w.at) = LiveJoin}

FixupStragglers(i) ==
    /\ pc[i] = "fixup"
    /\ \/ /\ NoFault
          /\ Goto(i, IF Opened /\ Stragglers(i) # {} THEN "claim_straggler"
                                                     ELSE "report")
       \/ Fault("error") /\ Goto(i, "report")
    /\ UNCHANGED <<tables, queueVars, batch, group, shard, todo, written, failed>>

(* Stragglers keep the order of their local indices. *)
ClaimStragglerBlock(i) ==
    /\ pc[i] = "claim_straggler"
    /\ LET ws == Stragglers(i)
           g == {w.m : w \in ws}
           inOrder == {slot \in Blocks(g, queue_counter + 1) :
                         \A w, x \in ws : w.at < x.at => slot[w.m] < slot[x.m]}
           added == queue_counter + Cardinality(g)
       IN  \/ /\ NoFault
              /\ queue_counter' = added
              /\ TakeSlots(i, g, inOrder)
              /\ Goto(i, "put_straggler")
           \/ /\ \/ Fault("error") /\ UNCHANGED queue_counter
                 \/ Fault("ambiguous") /\ queue_counter' = added
              /\ Goto(i, "report")
              /\ UNCHANGED todo
    /\ UNCHANGED <<phase, shuffle_seed, cohort, shard_count, prequeue, positions,
                   queueVars, batch, group, shard, written, failed>>

-----------------------------------------------------------------------------
(* process_live_batch. *)

ClaimLiveBlock(i) ==
    /\ pc[i] = "claim_live"
    /\ LET added == queue_counter + Cardinality(group[i])
       IN  \/ /\ NoFault
              /\ queue_counter' = added
              /\ TakeSlots(i, group[i], Blocks(group[i], queue_counter + 1))
              /\ Goto(i, "put_live")
              /\ UNCHANGED failed
           \/ /\ \/ Fault("error") /\ UNCHANGED queue_counter
                 \/ Fault("ambiguous") /\ queue_counter' = added
              /\ FailWith(i, group[i])
              /\ UNCHANGED todo
    /\ UNCHANGED <<phase, shuffle_seed, cohort, shard_count, prequeue, positions,
                   queueVars, batch, group, shard, written>>

(* The conditional put of a position: a row that exists is never replaced. *)
PutPositionRowBlindly(v, p) == positions' = [positions EXCEPT ![v] = p]

PutPositionRow(v, p) ==
    positions' = IF positions[v] = NoPosition THEN [positions EXCEPT ![v] = p]
                                              ELSE positions

(* A failed put is reported on the live path and swallowed in the fix-up. *)
PutPosition(i) ==
    /\ pc[i] \in {"put_live", "put_straggler"}
    /\ \E w \in todo[i] :
        LET v == Requester[w.m]
        IN  /\ IsNextWrite(i, w)
            /\ todo' = [todo EXCEPT ![i] = @ \ {w}]
            /\ \/ /\ NoFault
                  /\ PutPositionRow(v, w.at)
                  /\ UNCHANGED failed
               \/ /\ \/ Fault("error") /\ UNCHANGED positions
                     \/ Fault("ambiguous") /\ PutPositionRow(v, w.at)
                  /\ failed' = [failed EXCEPT ![i] =
                                  IF pc[i] = "put_live" THEN @ \cup {w.m} ELSE @]
            /\ Goto(i, IF todo[i] # {w} THEN pc[i] ELSE "report")
    /\ UNCHANGED <<phase, shuffle_seed, cohort, queue_counter, shard_count,
                   prequeue, queueVars, batch, group, shard, written>>

-----------------------------------------------------------------------------
(* The end of an invocation. *)

Forget(i) ==
    /\ Goto(i, "idle")
    /\ batch' = [batch EXCEPT ![i] = {}]
    /\ group' = [group EXCEPT ![i] = {}]
    /\ shard' = [shard EXCEPT ![i] = 0]
    /\ todo' = [todo EXCEPT ![i] = {}]
    /\ written' = [written EXCEPT ![i] = {}]
    /\ failed' = [failed EXCEPT ![i] = {}]

(* The reported failures return to the queue, everything else is deleted.  *)
(* The mutant acknowledges the whole batch.                                *)
ReportNothing(i) ==
    /\ pc[i] = "report"
    /\ NoFault
    /\ Return({}, batch[i])
    /\ Forget(i)
    /\ UNCHANGED <<tables, received>>

Report(i) ==
    /\ pc[i] = "report"
    /\ NoFault
    /\ Return(failed[i], batch[i] \ failed[i])
    /\ Forget(i)
    /\ UNCHANGED <<tables, received>>

(* The invocation dies between two calls: its whole batch is delivered     *)
(* again when the visibility timeout ends.                                 *)
Crash(i) ==
    /\ pc[i] # "idle"
    /\ Fault("crash")
    /\ Return(batch[i], {})
    /\ Forget(i)
    /\ UNCHANGED <<tables, received>>

Invocation(i) ==
    \/ LoadCounters(i) \/ RegisteredIds(i) \/ ClaimPrequeueBlock(i)
    \/ PutPrequeue(i) \/ FixupStragglers(i) \/ ClaimStragglerBlock(i)
    \/ ClaimLiveBlock(i) \/ PutPosition(i) \/ Report(i)

AssignNext ==
    \/ \E m \in Messages : Send(m) \/ Redeliver(m)
    \/ \E i \in Lambdas : Receive(i) \/ Invocation(i) \/ Crash(i)
=============================================================================
