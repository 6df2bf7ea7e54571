---------------------------- MODULE IntakeProofs ----------------------------
(***************************************************************************)
(* Proofs about Intake, for any number of visitors, messages, shards,      *)
(* concurrent invocations, openers and faults: its invariants, then that   *)
(* it implements Line.                                                     *)
(***************************************************************************)
EXTENDS Intake, CohortProofs, FiniteSetTheorems

-----------------------------------------------------------------------------
(* Facts about the helpers. *)

(* The size of a group of records is a natural number. *)
LEMMA GroupSize ==
    ASSUME NEW g \in SUBSET Messages
    PROVE  IsFiniteSet(g) /\ Cardinality(g) \in Nat
BY MessagesAssumption, FS_Subset, FS_CardinalityType

(* The slots a claim hands out are writes for its records, inside the      *)
(* block, and no two of them share a slot.                                 *)
LEMMA TakenSlots ==
    ASSUME NEW g \in SUBSET Messages, NEW first \in Nat, NEW slot \in Blocks(g, first)
    PROVE  /\ SlotWrites(g, slot) \in SUBSET Write
           /\ \A x \in SlotWrites(g, slot) :
                first <= x.at /\ x.at <= first + Cardinality(g) - 1
           /\ \A x, y \in SlotWrites(g, slot) : x.at = y.at => x = y
<1>1. Cardinality(g) \in Nat
    BY GroupSize
<1>2. \A m \in g : slot[m] \in first .. first + Cardinality(g) - 1
    BY DEF Blocks
<1>3. \A m, k \in g : slot[m] = slot[k] => m = k
    BY DEF Blocks
<1>. QED BY <1>1, <1>2, <1>3 DEF Write, SlotWrites

-----------------------------------------------------------------------------
(* Type correctness. *)

TypeInv == TypeOK /\ SeenAll

LEMMA TypeInit == Init => TypeInv
<1>. SUFFICES ASSUME Init PROVE TypeInv
    OBVIOUS
<1>1. TablesTypeOK
    BY ShardsAssumption, FaultAssumption
       DEF Init, TablesInit, TablesTypeOK, Phases, NoCohort, CohortOffsets, Shards
<1>2. AssignTypeOK
    BY ShardsAssumption, MessagesAssumption
       DEF Init, AssignInit, AssignTypeOK, Statuses, Calls, Shards
<1>3. OpenTypeOK /\ SeenAll
    BY DEF Init, OpenInit, OpenTypeOK, SeenAll, OpenCalls, OpenResults, NothingSeen
<1>. QED BY <1>1, <1>2, <1>3 DEF TypeInv, TypeOK

(* Injecting a fault, or none, keeps the budget. *)
LEMMA FaultsType ==
    ASSUME TablesTypeOK
    PROVE  /\ \A kind : Fault(kind) => faults' \in 0 .. MaxFaults
           /\ NoFault => faults' \in 0 .. MaxFaults
BY FaultAssumption DEF TablesTypeOK, Fault, NoFault

LEMMA TablesUnchanged ==
    ASSUME TablesTypeOK, UNCHANGED tables, faults' \in 0 .. MaxFaults
    PROVE  TablesTypeOK'
BY DEF TablesTypeOK, tables

LEMMA OpenersUnchanged ==
    ASSUME OpenTypeOK, SeenAll, UNCHANGED openVars
    PROVE  OpenTypeOK' /\ SeenAll'
BY DEF OpenTypeOK, SeenAll, openVars

(* One lemma per group of calls: what it changes keeps its type. *)
LEMMA SendType ==
    ASSUME TypeOK, NEW m \in Messages, Send(m) \/ Redeliver(m)
    PROVE  TablesTypeOK' /\ AssignTypeOK'
<1>1. TablesTypeOK'
    BY FaultsType, TablesUnchanged DEF TypeOK, Send, Redeliver
<1>2. AssignTypeOK'
    BY DEF TypeOK, AssignTypeOK, Send, Redeliver, lambdaVars, Statuses
<1>. QED BY <1>1, <1>2

LEMMA ReceiveType ==
    ASSUME TypeOK, NEW i \in Lambdas, Receive(i)
    PROVE  TablesTypeOK' /\ AssignTypeOK'
<1>1. TablesTypeOK'
    BY FaultsType, TablesUnchanged DEF TypeOK, Receive, tables
<1>2. AssignTypeOK'
    BY MessagesAssumption
       DEF TypeOK, AssignTypeOK, Receive, FailWith, Goto, Statuses, Calls
<1>. QED BY <1>1, <1>2

LEMMA LoadCountersType ==
    ASSUME TypeOK, NEW i \in Lambdas,
           LoadCounters(i) \/ RegisteredIds(i) \/ FixupStragglers(i)
    PROVE  TablesTypeOK' /\ AssignTypeOK'
<1>1. CASE LoadCounters(i)
    <2>1. TablesTypeOK'
        BY <1>1, FaultsType, TablesUnchanged DEF TypeOK, LoadCounters, tables
    <2>2. AssignTypeOK'
        BY <1>1 DEF TypeOK, AssignTypeOK, LoadCounters, FailWith, Goto, Accepted, Calls,
                    queueVars
    <2>. QED BY <2>1, <2>2
<1>2. CASE RegisteredIds(i)
    <2>1. TablesTypeOK'
        BY <1>2, FaultsType, TablesUnchanged DEF TypeOK, RegisteredIds, tables
    <2>2. AssignTypeOK'
        BY <1>2 DEF TypeOK, AssignTypeOK, RegisteredIds, Goto, Accepted, Calls, queueVars
    <2>. QED BY <2>1, <2>2
<1>3. CASE FixupStragglers(i)
    <2>1. TablesTypeOK'
        BY <1>3, FaultsType, TablesUnchanged DEF TypeOK, FixupStragglers, tables
    <2>2. AssignTypeOK'
        BY <1>3 DEF TypeOK, AssignTypeOK, FixupStragglers, Goto, Calls, queueVars
    <2>. QED BY <2>1, <2>2
<1>. QED BY <1>1, <1>2, <1>3

LEMMA EndType ==
    ASSUME TypeOK, NEW i \in Lambdas, Report(i) \/ Crash(i)
    PROVE  TablesTypeOK' /\ AssignTypeOK'
<1>1. TablesTypeOK'
    BY FaultsType, TablesUnchanged DEF TypeOK, Report, Crash
<1>2. status' \in [Messages -> Statuses] /\ received' = received
      /\ \A m \in Messages : status'[m] \in {"unsent", "queued"} => received[m] < MaxReceives
    BY MessagesAssumption DEF TypeOK, AssignTypeOK, Report, Crash, Return, Statuses
<1>3. AssignTypeOK'
    BY <1>2, ShardsAssumption
       DEF TypeOK, AssignTypeOK, Report, Crash, Forget, Goto, Calls, Shards
<1>. QED BY <1>1, <1>3

LEMMA ClaimPrequeueType ==
    ASSUME TypeOK, NEW i \in Lambdas, ClaimPrequeueBlock(i)
    PROVE  TablesTypeOK' /\ AssignTypeOK'
<1>1. group[i] \in SUBSET Messages /\ Cardinality(group[i]) \in Nat
    BY GroupSize DEF TypeOK, AssignTypeOK
<1>2. faults' \in 0 .. MaxFaults
    BY FaultsType DEF TypeOK, ClaimPrequeueBlock
<1>3. PICK s \in Shards :
        /\ \/ shard_count' = shard_count
           \/ shard_count' = [shard_count EXCEPT ![s] = @ + Cardinality(group[i])]
        /\ \/ UNCHANGED <<shard, todo>>
           \/ /\ shard' = [shard EXCEPT ![i] = s]
              /\ TakeSlots(i, group[i], Blocks(group[i], shard_count[s]))
        /\ UNCHANGED failed \/ failed' = [failed EXCEPT ![i] = @ \cup group[i]]
        /\ Goto(i, "put_prequeue") \/ Goto(i, "report")
    BY DEF ClaimPrequeueBlock, FailWith
<1>4. TablesTypeOK'
    BY <1>1, <1>2, <1>3 DEF TypeOK, TablesTypeOK, ClaimPrequeueBlock
<1>5. todo' \in [Lambdas -> SUBSET Write]
    <2>1. CASE UNCHANGED todo
        BY <2>1 DEF TypeOK, AssignTypeOK
    <2>2. CASE TakeSlots(i, group[i], Blocks(group[i], shard_count[s]))
        <3>1. shard_count[s] \in Nat
            BY DEF TypeOK, TablesTypeOK
        <3>2. PICK slot \in Blocks(group[i], shard_count[s]) :
                todo' = [todo EXCEPT ![i] = SlotWrites(group[i], slot)]
            BY <2>2 DEF TakeSlots
        <3>3. SlotWrites(group[i], slot) \in SUBSET Write
            BY <1>1, <3>1, TakenSlots
        <3>. QED BY <3>2, <3>3 DEF TypeOK, AssignTypeOK
    <2>. QED BY <1>3, <2>1, <2>2
<1>6. AssignTypeOK'
    BY <1>1, <1>3, <1>5
       DEF TypeOK, AssignTypeOK, ClaimPrequeueBlock, Goto, Calls, queueVars
<1>. QED BY <1>4, <1>6

LEMMA PutPrequeueType ==
    ASSUME TypeOK, NEW i \in Lambdas, PutPrequeue(i)
    PROVE  TablesTypeOK' /\ AssignTypeOK'
<1>1. faults' \in 0 .. MaxFaults
    BY FaultsType DEF TypeOK, PutPrequeue
<1>2. PICK w \in todo[i] :
        /\ prequeue' = prequeue
           \/ PutRow(Requester[w.m], [shard |-> shard[i], local |-> w.at])
        /\ todo' = [todo EXCEPT ![i] = @ \ {w}]
        /\ UNCHANGED written \/ written' = [written EXCEPT ![i] = @ \cup {w}]
        /\ UNCHANGED failed \/ failed' = [failed EXCEPT ![i] = @ \cup {w.m}]
        /\ Goto(i, "put_prequeue") \/ Goto(i, "fixup") \/ Goto(i, "report")
    BY DEF TypeOK, AssignTypeOK, PutPrequeue
<1>3. w.m \in Messages /\ w.at \in Nat /\ w \in Write /\ Requester[w.m] \in Visitors
      /\ shard[i] \in Shards
    BY MessagesAssumption DEF TypeOK, AssignTypeOK, Write
<1>4. prequeue' \in [Visitors -> Row \cup {NoRow}]
    <2>1. [shard |-> shard[i], local |-> w.at] \in Row
        BY <1>3 DEF Row
    <2>. QED BY <1>2, <1>3, <2>1 DEF PutRow, TypeOK, TablesTypeOK
<1>5. TablesTypeOK'
    BY <1>1, <1>4 DEF TypeOK, TablesTypeOK, PutPrequeue
<1>6. AssignTypeOK'
    BY <1>2, <1>3 DEF TypeOK, AssignTypeOK, PutPrequeue, Goto, Calls, queueVars
<1>. QED BY <1>5, <1>6

(* The live claims, of process_live_batch and of the fix-up. *)
LiveClaim(i) ==
    \E g \in SUBSET Messages :
        \/ /\ queue_counter' = queue_counter + Cardinality(g)
           /\ TakeSlots(i, g, Blocks(g, queue_counter + 1))
           /\ Goto(i, "put_live") \/ Goto(i, "put_straggler")
        \/ /\ \/ UNCHANGED queue_counter
              \/ queue_counter' = queue_counter + Cardinality(g)
           /\ Goto(i, "report")
           /\ UNCHANGED todo

LEMMA ClaimIsLiveClaim ==
    ASSUME TypeOK, NEW i \in Lambdas, ClaimLiveBlock(i) \/ ClaimStragglerBlock(i)
    PROVE  /\ LiveClaim(i)
           /\ pc[i] \in {"claim_live", "claim_straggler"}
           /\ faults' \in 0 .. MaxFaults
           /\ UNCHANGED failed \/ failed' = [failed EXCEPT ![i] = @ \cup group[i]]
           /\ UNCHANGED <<phase, shuffle_seed, cohort, shard_count, prequeue, positions,
                          queueVars, batch, group, shard, written>>
<1>1. CASE ClaimLiveBlock(i)
    <2>1. group[i] \in SUBSET Messages
        BY DEF TypeOK, AssignTypeOK
    <2>2. LiveClaim(i)
        BY <1>1, <2>1 DEF ClaimLiveBlock, LiveClaim, FailWith
    <2>3. faults' \in 0 .. MaxFaults
        BY <1>1, FaultsType DEF TypeOK, ClaimLiveBlock
    <2>. QED BY <1>1, <2>2, <2>3 DEF ClaimLiveBlock, FailWith
<1>2. CASE ClaimStragglerBlock(i)
    <2>. DEFINE ws == Stragglers(i)
                g == {w.m : w \in ws}
                inOrder == {slot \in Blocks(g, queue_counter + 1) :
                              \A w, x \in ws : w.at < x.at => slot[w.m] < slot[x.m]}
    <2>1. g \in SUBSET Messages
        BY DEF TypeOK, AssignTypeOK, Stragglers, Write
    <2>2. \/ /\ queue_counter' = queue_counter + Cardinality(g)
             /\ TakeSlots(i, g, inOrder)
             /\ Goto(i, "put_straggler")
          \/ /\ \/ UNCHANGED queue_counter
                \/ queue_counter' = queue_counter + Cardinality(g)
             /\ Goto(i, "report")
             /\ UNCHANGED todo
        BY <1>2 DEF ClaimStragglerBlock
    <2>3. TakeSlots(i, g, inOrder) => TakeSlots(i, g, Blocks(g, queue_counter + 1))
        BY DEF TakeSlots
    <2>4. LiveClaim(i)
        <3>. HIDE DEF g, inOrder
        <3>. QED BY <2>1, <2>2, <2>3 DEF LiveClaim
    <2>5. faults' \in 0 .. MaxFaults
        BY <1>2, FaultsType DEF TypeOK, ClaimStragglerBlock
    <2>. QED BY <1>2, <2>4, <2>5 DEF ClaimStragglerBlock
<1>. QED BY <1>1, <1>2

LEMMA ClaimLiveType ==
    ASSUME TypeOK, NEW i \in Lambdas, ClaimLiveBlock(i) \/ ClaimStragglerBlock(i)
    PROVE  TablesTypeOK' /\ AssignTypeOK'
<1>1. PICK g \in SUBSET Messages :
        /\ queue_counter' \in {queue_counter, queue_counter + Cardinality(g)}
        /\ \/ UNCHANGED todo
           \/ TakeSlots(i, g, Blocks(g, queue_counter + 1))
        /\ Goto(i, "put_live") \/ Goto(i, "put_straggler") \/ Goto(i, "report")
    BY ClaimIsLiveClaim DEF LiveClaim
<1>2. Cardinality(g) \in Nat
    BY GroupSize
<1>3. TablesTypeOK'
    BY <1>1, <1>2, ClaimIsLiveClaim DEF TypeOK, TablesTypeOK
<1>4. todo' \in [Lambdas -> SUBSET Write]
    <2>1. CASE UNCHANGED todo
        BY <2>1 DEF TypeOK, AssignTypeOK
    <2>2. CASE TakeSlots(i, g, Blocks(g, queue_counter + 1))
        <3>1. queue_counter + 1 \in Nat
            BY DEF TypeOK, TablesTypeOK
        <3>2. PICK slot \in Blocks(g, queue_counter + 1) :
                todo' = [todo EXCEPT ![i] = SlotWrites(g, slot)]
            BY <2>2 DEF TakeSlots
        <3>3. SlotWrites(g, slot) \in SUBSET Write
            BY <3>1, TakenSlots
        <3>. QED BY <3>2, <3>3 DEF TypeOK, AssignTypeOK
    <2>. QED BY <1>1, <2>1, <2>2
<1>5. AssignTypeOK'
    BY <1>1, <1>4, ClaimIsLiveClaim
       DEF TypeOK, AssignTypeOK, Goto, Calls, queueVars
<1>. QED BY <1>3, <1>5

LEMMA PutPositionType ==
    ASSUME TypeOK, NEW i \in Lambdas, PutPosition(i)
    PROVE  TablesTypeOK' /\ AssignTypeOK'
<1>1. faults' \in 0 .. MaxFaults
    BY FaultsType DEF TypeOK, PutPosition
<1>2. PICK w \in todo[i] :
        /\ positions' = positions \/ PutPositionRow(Requester[w.m], w.at)
        /\ todo' = [todo EXCEPT ![i] = @ \ {w}]
        /\ UNCHANGED failed \/ failed' = [failed EXCEPT ![i] = @ \cup {w.m}]
        /\ Goto(i, "put_live") \/ Goto(i, "put_straggler") \/ Goto(i, "report")
    BY DEF TypeOK, AssignTypeOK, PutPosition
<1>3. w.m \in Messages /\ w.at \in Nat /\ w \in Write /\ Requester[w.m] \in Visitors
    BY MessagesAssumption DEF TypeOK, AssignTypeOK, Write
<1>4. TablesTypeOK'
    BY <1>1, <1>2, <1>3 DEF TypeOK, TablesTypeOK, PutPosition, PutPositionRow
<1>5. AssignTypeOK'
    BY <1>2, <1>3 DEF TypeOK, AssignTypeOK, PutPosition, Goto, Calls, queueVars
<1>. QED BY <1>4, <1>5

-----------------------------------------------------------------------------
LEMMA OpenType ==
    ASSUME TypeInv, NEW o \in Openers, Fire(o) \/ OpenCall(o)
    PROVE  TablesTypeOK' /\ OpenTypeOK' /\ SeenAll'
<1>1. CASE Fire(o)
    <2>1. TablesTypeOK'
        BY <1>1, FaultsType, TablesUnchanged DEF TypeInv, TypeOK, Fire, tables
    <2>. QED BY <1>1, <2>1 DEF TypeInv, TypeOK, OpenTypeOK, SeenAll, Fire, OpenCalls
<1>2. CASE ReadShardCount(o)
    <2>1. TablesTypeOK'
        BY <1>2, FaultsType, TablesUnchanged DEF TypeInv, TypeOK, ReadShardCount, tables
    <2>2. PICK s \in Shards :
            /\ seen' = [seen EXCEPT ![o][s] = shard_count[s]]
            /\ opc' = [opc EXCEPT ![o] =
                         IF \E t \in Shards : seen'[o][t] = Unread THEN "read" ELSE "write"]
        BY <1>2 DEF ReadShardCount
    <2>3. seen' \in [Openers -> [Shards -> Nat \cup {Unread}]]
        BY <2>2 DEF TypeInv, TypeOK, TablesTypeOK, OpenTypeOK
    <2>4. OpenTypeOK'
        BY <1>2, <2>2, <2>3 DEF TypeInv, TypeOK, OpenTypeOK, ReadShardCount, OpenCalls
    <2>5. SeenAll'
        <3>1. SUFFICES ASSUME NEW p \in Openers, opc'[p] = "write"
                       PROVE  seen'[p] \in [Shards -> Nat]
            BY DEF SeenAll
        <3>2. CASE p = o
            <4>1. \A t \in Shards : seen'[o][t] # Unread
                BY <2>2, <3>1, <3>2 DEF TypeInv, TypeOK, OpenTypeOK
            <4>. QED BY <2>3, <3>2, <4>1
        <3>3. CASE p # o
            BY <2>2, <3>1, <3>3 DEF TypeInv, TypeOK, OpenTypeOK, SeenAll
        <3>. QED BY <3>2, <3>3
    <2>. QED BY <2>1, <2>4, <2>5
<1>3. ASSUME NEW r \in OpenResults, EndOpen(o, r)
      PROVE  OpenTypeOK' /\ SeenAll'
    BY <1>3 DEF TypeInv, TypeOK, OpenTypeOK, SeenAll, EndOpen, OpenCalls, NothingSeen
<1>4. CASE ReadShardCountsFails(o) \/ CohortOverflows(o) \/ IsAlreadyOpen(o)
    <2>1. TablesTypeOK'
        BY <1>4, FaultsType, TablesUnchanged
           DEF TypeInv, TypeOK, ReadShardCountsFails, CohortOverflows, IsAlreadyOpen
    <2>2. \E r \in OpenResults : EndOpen(o, r)
        BY <1>4 DEF ReadShardCountsFails, CohortOverflows, IsAlreadyOpen, OpenResults
    <2>. QED BY <1>3, <2>1, <2>2
<1>5. CASE WriteOpen(o)
    <2>1. seen[o] \in [Shards -> Nat]
        BY <1>5 DEF WriteOpen, TypeInv, SeenAll
    <2>2. FromCounts(seen[o]) \in CohortOffsets
        BY <2>1, FromCountsType
    <2>3. faults' \in 0 .. MaxFaults
        BY <1>5, FaultsType DEF TypeInv, TypeOK, WriteOpen
    <2>4. SetOpenOutputs(o) => TablesTypeOK'
        BY <2>2, <2>3
           DEF TypeInv, TypeOK, TablesTypeOK, SetOpenOutputs, CohortOffsets, Phases
    <2>5. UNCHANGED tables => TablesTypeOK'
        BY <2>3, TablesUnchanged DEF TypeInv, TypeOK
    <2>6. TablesTypeOK'
        BY <1>5, <2>4, <2>5 DEF WriteOpen
    <2>7. opc' = [opc EXCEPT ![o] = "check"] /\ UNCHANGED <<seen, result>>
            => OpenTypeOK' /\ SeenAll'
        BY DEF TypeInv, TypeOK, OpenTypeOK, SeenAll, OpenCalls
    <2>8. (\E r \in OpenResults : EndOpen(o, r)) => OpenTypeOK' /\ SeenAll'
        BY <1>3
    <2>. QED BY <1>5, <2>6, <2>7, <2>8 DEF WriteOpen, OpenResults
<1>. QED BY <1>1, <1>2, <1>4, <1>5 DEF OpenCall

LEMMA TypeNext == TypeInv /\ [Next]_vars => TypeInv'
<1>. SUFFICES ASSUME TypeInv, [Next]_vars PROVE TypeInv'
    OBVIOUS
<1>1. CASE AssignNext /\ UNCHANGED openVars
    <2>1. TablesTypeOK' /\ AssignTypeOK'
        BY <1>1, SendType, ReceiveType, LoadCountersType, EndType, ClaimPrequeueType,
           PutPrequeueType, ClaimLiveType, PutPositionType
           DEF TypeInv, AssignNext, Invocation
    <2>. QED BY <1>1, <2>1, OpenersUnchanged DEF TypeInv, TypeOK
<1>2. CASE OpenNext /\ UNCHANGED <<queueVars, lambdaVars>>
    <2>1. TablesTypeOK' /\ OpenTypeOK' /\ SeenAll'
        BY <1>2, OpenType DEF OpenNext
    <2>2. AssignTypeOK'
        BY <1>2 DEF TypeInv, TypeOK, AssignTypeOK, queueVars, lambdaVars
    <2>. QED BY <2>1, <2>2 DEF TypeInv, TypeOK
<1>3. CASE (\E to \in OperatorPhases : ApplyPhase(to)) \/ ForceMaintenance
    <2>1. TablesTypeOK'
        BY <1>3, OperatorPhasesAssumption
           DEF TypeInv, TypeOK, TablesTypeOK, ApplyPhase, ForceMaintenance, Phases
    <2>2. AssignTypeOK'
        BY <1>3 DEF TypeInv, TypeOK, AssignTypeOK, ApplyPhase, ForceMaintenance,
                    queueVars, lambdaVars
    <2>3. UNCHANGED openVars
        BY <1>3 DEF ApplyPhase, ForceMaintenance
    <2>. QED BY <2>1, <2>2, <2>3, OpenersUnchanged DEF TypeInv, TypeOK
<1>4. CASE UNCHANGED vars
    <2>1. TablesTypeOK' /\ AssignTypeOK'
        BY <1>4 DEF TypeInv, TypeOK, TablesTypeOK, AssignTypeOK, vars, tables, queueVars,
                    lambdaVars
    <2>2. UNCHANGED openVars
        BY <1>4 DEF vars
    <2>. QED BY <2>1, <2>2, OpenersUnchanged DEF TypeInv, TypeOK
<1>. QED BY <1>1, <1>2, <1>3, <1>4 DEF Next

(* Every variable keeps its type, the fault budget and the delivery limit  *)
(* of the queue included.                                                  *)
THEOREM TypeCorrect == Spec => []TypeOK
<1>1. TypeInv => TypeOK
    BY DEF TypeInv
<1>. QED BY <1>1, TypeInit, TypeNext, PTL DEF Spec

-----------------------------------------------------------------------------
(* The inductive invariant: every slot is issued once and written once. *)

IInv == TypeOK /\ SlotsOwned

Puts == LivePuts \cup {"put_prequeue"}

LEMMA InvInit == Init => IInv
<1>. SUFFICES ASSUME Init PROVE SlotsOwned
    BY TypeInit DEF IInv, TypeInv
<1>1. SeenAll
    BY TypeInit DEF TypeInv
<1>2. OpenOutputs
    BY DEF Init, TablesInit, OpenOutputs, Opened
<1>3. LiveAfterOpen /\ PrequeueSlots /\ LiveSlots
    BY DEF Init, AssignInit, LiveAfterOpen, PrequeueSlots, LiveSlots, LiveCalls, LivePuts
<1>4. RowsIssued /\ PositionsIssued
    BY DEF Init, TablesInit, RowsIssued, PositionsIssued
<1>. QED BY <1>1, <1>2, <1>3, <1>4 DEF SlotsOwned

(* A step that issues and writes nothing, and in which an invocation still *)
(* at a write keeps its slots, preserves the invariant.                    *)
LEMMA QuietStep ==
    ASSUME IInv, SeenAll',
           UNCHANGED <<shuffle_seed, cohort, queue_counter, shard_count, prequeue, positions>>,
           \A j \in Lambdas : pc'[j] \in Puts =>
               pc'[j] = pc[j] /\ todo'[j] = todo[j] /\ shard'[j] = shard[j],
           \A j \in Lambdas : pc'[j] \in LiveCalls => Opened
    PROVE  SlotsOwned'
<1>1. OpenOutputs'
    BY DEF IInv, SlotsOwned, OpenOutputs, Opened, CohortCounts
<1>2. LiveAfterOpen'
    BY DEF LiveAfterOpen, Opened
<1>3. PrequeueSlots'
    BY DEF IInv, SlotsOwned, PrequeueSlots, Puts
<1>4. LiveSlots'
    BY DEF IInv, SlotsOwned, LiveSlots, Puts
<1>5. RowsIssued' /\ PositionsIssued'
    BY DEF IInv, SlotsOwned, RowsIssued, PositionsIssued, Opened
<1>. QED BY <1>1, <1>2, <1>3, <1>4, <1>5 DEF SlotsOwned

(* The queue, the routing of a batch, and the end of an invocation. *)
LEMMA QuietCalls ==
    ASSUME IInv, SeenAll', UNCHANGED openVars,
           \/ \E m \in Messages : Send(m) \/ Redeliver(m)
           \/ \E i \in Lambdas :
                 \/ Receive(i) \/ LoadCounters(i) \/ RegisteredIds(i)
                 \/ FixupStragglers(i) \/ Report(i) \/ Crash(i)
    PROVE  SlotsOwned'
<1>1. UNCHANGED <<shuffle_seed, cohort, queue_counter, shard_count, prequeue, positions>>
    BY DEF Send, Redeliver, Receive, LoadCounters, RegisteredIds, FixupStragglers,
           Report, Crash, tables
<1>2. pc \in [Lambdas -> Calls] /\ LiveAfterOpen
    BY DEF IInv, TypeOK, AssignTypeOK, SlotsOwned
<1>3. CASE \E m \in Messages : Send(m) \/ Redeliver(m)
    <2>1. UNCHANGED <<pc, todo, shard>>
        BY <1>3 DEF Send, Redeliver, lambdaVars
    <2>. QED BY <1>1, <1>2, <2>1, QuietStep DEF LiveAfterOpen
<1>4. ASSUME NEW i \in Lambdas,
             \/ Receive(i) \/ LoadCounters(i) \/ RegisteredIds(i)
             \/ FixupStragglers(i) \/ Report(i) \/ Crash(i)
      PROVE  SlotsOwned'
    <2>1. pc' = [pc EXCEPT ![i] = pc'[i]] /\ pc'[i] \notin Puts
          /\ (pc'[i] \in LiveCalls => Opened)
        BY <1>2, <1>4 DEF Receive, LoadCounters, RegisteredIds, FixupStragglers, Report,
           Crash, Forget, FailWith, Goto, Puts, LivePuts, LiveCalls
    <2>2. \A j \in Lambdas : j # i =>
            pc'[j] = pc[j] /\ todo'[j] = todo[j] /\ shard'[j] = shard[j]
        <3>1. todo \in [Lambdas -> SUBSET Write] /\ shard \in [Lambdas -> Shards]
            BY DEF IInv, TypeOK, AssignTypeOK
        <3>2. UNCHANGED <<todo, shard>> \/ Forget(i)
            BY <1>4 DEF Receive, LoadCounters, RegisteredIds, FixupStragglers, Report, Crash
        <3>. QED BY <1>2, <2>1, <3>1, <3>2 DEF Forget
    <2>. QED BY <1>1, <1>2, <2>1, <2>2, QuietStep DEF LiveAfterOpen
<1>. QED BY <1>3, <1>4

-----------------------------------------------------------------------------
(* The pre-queue path. *)

LEMMA ClaimPrequeueInv ==
    ASSUME IInv, SeenAll', NEW i \in Lambdas, ClaimPrequeueBlock(i)
    PROVE  SlotsOwned'
<1>. DEFINE g == group[i]
            k == Cardinality(g)
<1>1. g \in SUBSET Messages /\ k \in Nat
    BY GroupSize DEF IInv, TypeOK, AssignTypeOK
<1>2. shard_count \in [Shards -> Nat] /\ prequeue \in [Visitors -> Row \cup {NoRow}]
      /\ todo \in [Lambdas -> SUBSET Write] /\ shard \in [Lambdas -> Shards]
      /\ pc \in [Lambdas -> Calls]
    BY DEF IInv, TypeOK, TablesTypeOK, AssignTypeOK
<1>. HIDE DEF k
<1>3. PICK s \in Shards :
        \/ /\ shard_count' = [shard_count EXCEPT ![s] = @ + k]
           /\ shard' = [shard EXCEPT ![i] = s]
           /\ TakeSlots(i, g, Blocks(g, shard_count[s]))
           /\ Goto(i, "put_prequeue")
        \/ /\ \/ UNCHANGED shard_count
              \/ shard_count' = [shard_count EXCEPT ![s] = @ + k]
           /\ UNCHANGED <<shard, todo>>
           /\ Goto(i, "report")
    BY DEF ClaimPrequeueBlock, FailWith, k
<1>4. \A t \in Shards : shard_count[t] \in Nat /\ shard_count'[t] \in Nat
                          /\ shard_count[t] <= shard_count'[t]
    BY <1>1, <1>2, <1>3
<1>5. UNCHANGED <<shuffle_seed, cohort, queue_counter, prequeue, positions>>
    BY DEF ClaimPrequeueBlock
<1>6. \A j \in Lambdas : j # i =>
        pc'[j] = pc[j] /\ todo'[j] = todo[j] /\ shard'[j] = shard[j]
    BY <1>2, <1>3 DEF Goto, TakeSlots
<1>7. pc'[i] \in {"put_prequeue", "report"}
    BY <1>2, <1>3 DEF Goto
<1>8. RowsIssued'
    <2>1. SUFFICES ASSUME NEW v \in Visitors, prequeue[v] # NoRow
                   PROVE  prequeue[v].local < shard_count'[prequeue[v].shard]
        BY <1>5 DEF RowsIssued, IInv, SlotsOwned
    <2>2. prequeue[v].shard \in Shards /\ prequeue[v].local \in Nat
          /\ prequeue[v].local < shard_count[prequeue[v].shard]
        BY <1>2, <2>1 DEF Row, RowsIssued, IInv, SlotsOwned
    <2>. QED BY <1>4, <2>2
<1>9. OpenOutputs' /\ LiveAfterOpen' /\ LiveSlots' /\ PositionsIssued'
    <2>1. OpenOutputs' /\ PositionsIssued'
        BY <1>5 DEF IInv, SlotsOwned, OpenOutputs, CohortCounts, Opened, PositionsIssued
    <2>2. LiveAfterOpen'
        BY <1>5, <1>6, <1>7 DEF IInv, SlotsOwned, LiveAfterOpen, LiveCalls, Opened
    <2>3. LiveSlots'
        BY <1>5, <1>6, <1>7 DEF IInv, SlotsOwned, LiveSlots, LivePuts
    <2>. QED BY <2>1, <2>2, <2>3
<1>10. CASE Goto(i, "report")
    <2>1. pc'[i] = "report"
        BY <1>2, <1>10 DEF Goto
    <2>2. PrequeueSlots'
        <3>1. SUFFICES ASSUME NEW j \in Lambdas, pc'[j] = "put_prequeue", NEW x \in todo'[j]
                       PROVE  /\ x.at < shard_count'[shard'[j]]
                              /\ \A v \in Visitors : prequeue'[v] # [shard |-> shard'[j], local |-> x.at]
                              /\ \A l \in Lambdas : pc'[l] = "put_prequeue" /\ shard'[l] = shard'[j] =>
                                    \A y \in todo'[l] : y.at = x.at => j = l /\ x = y
            BY DEF PrequeueSlots
        <3>2. j # i /\ pc[j] = "put_prequeue" /\ x \in todo[j] /\ x.at \in Nat /\ shard[j] \in Shards
            BY <1>2, <1>6, <2>1, <3>1 DEF Write
        <3>3. x.at < shard_count[shard[j]]
            BY <3>2 DEF IInv, SlotsOwned, PrequeueSlots
        <3>4. x.at < shard_count'[shard'[j]]
            BY <1>4, <1>6, <3>2, <3>3
        <3>. QED BY <1>5, <1>6, <2>1, <3>2, <3>4 DEF IInv, SlotsOwned, PrequeueSlots
    <2>. QED BY <1>8, <1>9, <2>2 DEF SlotsOwned
<1>11. CASE /\ shard_count' = [shard_count EXCEPT ![s] = @ + k]
            /\ shard' = [shard EXCEPT ![i] = s]
            /\ TakeSlots(i, g, Blocks(g, shard_count[s]))
    <2>1. PICK slot \in Blocks(g, shard_count[s]) :
            todo' = [todo EXCEPT ![i] = SlotWrites(g, slot)]
        BY <1>11 DEF TakeSlots
    <2>2. todo'[i] = SlotWrites(g, slot) /\ shard'[i] = s
        BY <1>2, <1>11, <2>1
    <2>3. \A x \in todo'[i] : /\ x.at \in Nat /\ shard_count[s] <= x.at
                               /\ x.at < shard_count'[s]
        <3>1. \A x \in todo'[i] : x \in Write /\ shard_count[s] <= x.at
                                   /\ x.at <= shard_count[s] + k - 1
            BY <1>1, <1>4, <2>2, TakenSlots DEF k
        <3>2. shard_count'[s] = shard_count[s] + k
            BY <1>2, <1>11
        <3>. QED BY <1>1, <1>4, <3>1, <3>2 DEF Write
    <2>4. \A x, y \in todo'[i] : x.at = y.at => x = y
        BY <1>1, <1>4, <2>2, TakenSlots
    <2>5. \A j \in Lambdas : \A x \in todo'[j] :
            j # i /\ pc'[j] = "put_prequeue" =>
              /\ x.at \in Nat /\ x.at < shard_count[shard[j]]
              /\ x.at < shard_count'[shard'[j]]
        BY <1>2, <1>4, <1>6 DEF IInv, SlotsOwned, PrequeueSlots, Write
    <2>6. PrequeueSlots'
        <3>1. SUFFICES ASSUME NEW j \in Lambdas, pc'[j] = "put_prequeue", NEW x \in todo'[j]
                       PROVE  /\ x.at < shard_count'[shard'[j]]
                              /\ \A v \in Visitors : prequeue[v] # [shard |-> shard'[j], local |-> x.at]
                              /\ \A l \in Lambdas : pc'[l] = "put_prequeue" /\ shard'[l] = shard'[j] =>
                                    \A y \in todo'[l] : y.at = x.at => j = l /\ x = y
            BY <1>5 DEF PrequeueSlots
        <3>2. x.at < shard_count'[shard'[j]]
            BY <2>2, <2>3, <2>5, <3>1
        <3>3. ASSUME NEW v \in Visitors, prequeue[v] = [shard |-> shard'[j], local |-> x.at]
              PROVE  FALSE
            <4>1. CASE j # i
                BY <1>6, <3>1, <3>3, <4>1 DEF IInv, SlotsOwned, PrequeueSlots
            <4>2. CASE j = i
                <5>1. prequeue[v] # NoRow
                    BY <2>2, <3>3, <4>2 DEF NoRow, Shards
                <5>2. prequeue[v].local < shard_count[prequeue[v].shard]
                    BY <5>1 DEF IInv, SlotsOwned, RowsIssued
                <5>3. x.at < shard_count[s]
                    BY <2>2, <3>3, <4>2, <5>2
                <5>. QED BY <1>4, <2>3, <4>2, <5>3
            <4>. QED BY <4>1, <4>2
        <3>4. ASSUME NEW l \in Lambdas, pc'[l] = "put_prequeue", shard'[l] = shard'[j],
                     NEW y \in todo'[l], y.at = x.at
              PROVE  j = l /\ x = y
            <4>1. CASE j # i /\ l # i
                <5>1. /\ pc[j] = "put_prequeue" /\ x \in todo[j]
                      /\ pc[l] = "put_prequeue" /\ y \in todo[l] /\ shard[l] = shard[j]
                    BY <1>6, <3>1, <3>4, <4>1
                <5>2. PrequeueSlots
                    BY DEF IInv, SlotsOwned
                <5>. QED BY <3>4, <5>1, <5>2 DEF PrequeueSlots
            <4>2. CASE j = i /\ l = i
                BY <2>4, <3>1, <3>4, <4>2
            <4>3. CASE j = i /\ l # i
                BY <1>4, <1>6, <2>2, <2>3, <2>5, <3>1, <3>4, <4>3
            <4>4. CASE j # i /\ l = i
                BY <1>4, <1>6, <2>2, <2>3, <2>5, <3>1, <3>4, <4>4
            <4>. QED BY <4>1, <4>2, <4>3, <4>4
        <3>. QED BY <3>2, <3>3, <3>4
    <2>. QED BY <1>8, <1>9, <2>6 DEF SlotsOwned
<1>. QED BY <1>3, <1>10, <1>11

(* Writing a pre-queue row uses up its slot. *)
LEMMA PutPrequeueInv ==
    ASSUME IInv, SeenAll', NEW i \in Lambdas, PutPrequeue(i)
    PROVE  SlotsOwned'
<1>1. prequeue \in [Visitors -> Row \cup {NoRow}] /\ todo \in [Lambdas -> SUBSET Write]
      /\ shard \in [Lambdas -> Shards] /\ pc \in [Lambdas -> Calls]
    BY DEF IInv, TypeOK, TablesTypeOK, AssignTypeOK
<1>2. PICK w \in todo[i] :
        /\ prequeue' = prequeue
           \/ PutRow(Requester[w.m], [shard |-> shard[i], local |-> w.at])
        /\ todo' = [todo EXCEPT ![i] = @ \ {w}]
        /\ Goto(i, "put_prequeue") \/ Goto(i, "fixup") \/ Goto(i, "report")
    BY DEF PutPrequeue
<1>. DEFINE u == Requester[w.m]
            row == [shard |-> shard[i], local |-> w.at]
<1>3. u \in Visitors /\ row \in Row /\ w.at \in Nat /\ shard[i] \in Shards
    BY <1>1, MessagesAssumption DEF Write, Row
<1>4. pc[i] = "put_prequeue" /\ UNCHANGED <<shuffle_seed, cohort, queue_counter,
        shard_count, positions, shard>>
    BY DEF PutPrequeue
<1>5. PrequeueSlots /\ RowsIssued
    BY DEF IInv, SlotsOwned
<1>6. /\ w.at < shard_count[shard[i]]
      /\ \A v \in Visitors : prequeue[v] # row
      /\ \A j \in Lambdas : pc[j] = "put_prequeue" /\ shard[j] = shard[i] =>
            \A y \in todo[j] : y.at = w.at => i = j /\ y = w
    BY <1>4, <1>5 DEF PrequeueSlots
<1>7. prequeue' = prequeue \/ prequeue' = [prequeue EXCEPT ![u] = row]
    BY <1>2 DEF PutRow
<1>8. RowsIssued'
    <2>1. CASE prequeue' = prequeue
        BY <1>4, <1>5, <2>1 DEF RowsIssued
    <2>2. CASE prequeue' = [prequeue EXCEPT ![u] = row]
        <3>1. row.local = w.at /\ row.shard = shard[i] /\ row # NoRow
            BY <1>3 DEF NoRow
        <3>2. \A v \in Visitors : v # u => prequeue'[v] = prequeue[v]
            BY <1>1, <2>2
        <3>3. prequeue'[u] = row
            BY <1>1, <1>3, <2>2
        <3>. HIDE DEF row, u
        <3>. QED BY <1>3, <1>4, <1>5, <1>6, <3>1, <3>2, <3>3 DEF RowsIssued
    <2>. QED BY <1>7, <2>1, <2>2
<1>9. \A j \in Lambdas : j # i => pc'[j] = pc[j] /\ todo'[j] = todo[j]
    BY <1>1, <1>2 DEF Goto
<1>10. pc'[i] \in {"put_prequeue", "fixup", "report"} /\ todo'[i] = todo[i] \ {w}
    BY <1>1, <1>2 DEF Goto
<1>11. \A j \in Lambdas : pc'[j] = "put_prequeue" =>
         pc[j] = "put_prequeue" /\ todo'[j] \subseteq todo[j]
    BY <1>4, <1>9, <1>10
<1>12. PrequeueSlots'
    <2>1. SUFFICES ASSUME NEW j \in Lambdas, pc'[j] = "put_prequeue", NEW x \in todo'[j]
                   PROVE  /\ x.at < shard_count[shard[j]]
                          /\ \A v \in Visitors : prequeue'[v] # [shard |-> shard[j], local |-> x.at]
                          /\ \A l \in Lambdas : pc'[l] = "put_prequeue" /\ shard[l] = shard[j] =>
                                \A y \in todo'[l] : y.at = x.at => j = l /\ x = y
        BY <1>4 DEF PrequeueSlots
    <2>2. pc[j] = "put_prequeue" /\ x \in todo[j]
        BY <1>11, <2>1
    <2>3. x.at < shard_count[shard[j]]
        BY <1>5, <2>2 DEF PrequeueSlots
    <2>4. ASSUME NEW v \in Visitors, prequeue'[v] = [shard |-> shard[j], local |-> x.at]
          PROVE  FALSE
        <3>1. prequeue[v] # [shard |-> shard[j], local |-> x.at]
            BY <1>5, <2>2 DEF PrequeueSlots
        <3>2. v = u /\ prequeue'[v] = row
            BY <1>1, <1>7, <2>4, <3>1
        <3>3. shard[j] = shard[i] /\ x.at = w.at
            BY <2>4, <3>2
        <3>4. i = j /\ x = w
            BY <1>6, <2>2, <3>3
        <3>. QED BY <1>10, <2>1, <3>4
    <2>5. ASSUME NEW l \in Lambdas, pc'[l] = "put_prequeue", shard[l] = shard[j],
                 NEW y \in todo'[l], y.at = x.at
          PROVE  j = l /\ x = y
        <3>1. pc[l] = "put_prequeue" /\ y \in todo[l]
            BY <1>11, <2>5
        <3>. QED BY <1>5, <2>2, <2>5, <3>1 DEF PrequeueSlots
    <2>. QED BY <2>3, <2>4, <2>5
<1>13. OpenOutputs' /\ PositionsIssued'
    BY <1>4 DEF IInv, SlotsOwned, OpenOutputs, CohortCounts, Opened, PositionsIssued
<1>14. LiveAfterOpen'
    BY <1>4, <1>9, <1>10 DEF IInv, SlotsOwned, LiveAfterOpen, LiveCalls, Opened
<1>15. LiveSlots'
    BY <1>4, <1>9, <1>10 DEF IInv, SlotsOwned, LiveSlots, LivePuts
<1>. QED BY <1>8, <1>12, <1>13, <1>14, <1>15 DEF SlotsOwned

-----------------------------------------------------------------------------
(* The live path and the fix-up. *)

LEMMA ClaimLiveInv ==
    ASSUME IInv, SeenAll', NEW i \in Lambdas, ClaimLiveBlock(i) \/ ClaimStragglerBlock(i)
    PROVE  SlotsOwned'
<1>1. queue_counter \in Nat /\ cohort.participant_count \in Nat
      /\ positions \in [Visitors -> Nat \cup {NoPosition}]
      /\ todo \in [Lambdas -> SUBSET Write] /\ pc \in [Lambdas -> Calls]
    BY DEF IInv, TypeOK, TablesTypeOK, AssignTypeOK, CohortOffsets
<1>2. /\ LiveClaim(i) /\ pc[i] \in LiveCalls
      /\ UNCHANGED <<shuffle_seed, cohort, shard_count, prequeue, positions, shard>>
    BY ClaimIsLiveClaim DEF IInv, LiveCalls
<1>3. Opened /\ cohort.participant_count <= queue_counter
    BY <1>2 DEF IInv, SlotsOwned, LiveAfterOpen, OpenOutputs
<1>4. PICK g \in SUBSET Messages :
        \/ /\ queue_counter' = queue_counter + Cardinality(g)
           /\ TakeSlots(i, g, Blocks(g, queue_counter + 1))
           /\ Goto(i, "put_live") \/ Goto(i, "put_straggler")
        \/ /\ \/ UNCHANGED queue_counter
              \/ queue_counter' = queue_counter + Cardinality(g)
           /\ Goto(i, "report")
           /\ UNCHANGED todo
    BY <1>2 DEF LiveClaim
<1>5. Cardinality(g) \in Nat
    BY GroupSize
<1>6. queue_counter' \in Nat /\ queue_counter <= queue_counter'
    BY <1>1, <1>4, <1>5
<1>7. \A j \in Lambdas : j # i => pc'[j] = pc[j] /\ todo'[j] = todo[j]
    BY <1>1, <1>4 DEF Goto, TakeSlots
<1>8. pc'[i] \in {"put_live", "put_straggler", "report"}
    BY <1>1, <1>4 DEF Goto
<1>9. OpenOutputs' /\ LiveAfterOpen' /\ RowsIssued'
    <2>1. OpenOutputs'
        <3>1. CohortCounts' = CohortCounts /\ cohort' = cohort /\ Opened'
            BY <1>2, <1>3 DEF CohortCounts, Opened
        <3>2. cohort.participant_count <= queue_counter'
            BY <1>1, <1>3, <1>6
        <3>. QED BY <1>3, <3>1, <3>2 DEF IInv, SlotsOwned, OpenOutputs
    <2>2. LiveAfterOpen' /\ RowsIssued'
        BY <1>2, <1>3 DEF IInv, SlotsOwned, LiveAfterOpen, RowsIssued, Opened
    <2>. QED BY <2>1, <2>2
<1>10. PrequeueSlots'
    BY <1>2, <1>7, <1>8 DEF IInv, SlotsOwned, PrequeueSlots
<1>11. PositionsIssued'
    <2>1. PositionsIssued
        BY DEF IInv, SlotsOwned
    <2>2. \A v \in Visitors : positions[v] # NoPosition /\ positions[v] <= queue_counter
                               => positions[v] <= queue_counter'
        BY <1>1, <1>6
    <2>. QED BY <1>2, <2>1, <2>2 DEF PositionsIssued, Opened
<1>12. LiveSlots
    BY DEF IInv, SlotsOwned
<1>13. \A j \in Lambdas : \A x \in todo'[j] : j # i /\ pc'[j] \in LivePuts =>
         x.at \in Nat /\ cohort.participant_count < x.at /\ x.at <= queue_counter
    BY <1>1, <1>7, <1>12 DEF LiveSlots, Write
<1>14. \A x \in todo'[i] : pc'[i] \in LivePuts =>
         /\ x.at \in Nat /\ queue_counter < x.at /\ x.at <= queue_counter'
         /\ \A y \in todo'[i] : x.at = y.at => x = y
    <2>1. CASE pc'[i] \notin LivePuts
        BY <2>1
    <2>2. CASE pc'[i] \in LivePuts
        <3>1. queue_counter' = queue_counter + Cardinality(g)
              /\ TakeSlots(i, g, Blocks(g, queue_counter + 1))
            BY <1>1, <1>4, <2>2 DEF Goto, LivePuts
        <3>2. PICK slot \in Blocks(g, queue_counter + 1) :
                todo' = [todo EXCEPT ![i] = SlotWrites(g, slot)]
            BY <3>1 DEF TakeSlots
        <3>3. todo'[i] = SlotWrites(g, slot)
            BY <1>1, <3>2
        <3>4. /\ \A x \in todo'[i] : x \in Write /\ queue_counter + 1 <= x.at
                 /\ x.at <= (queue_counter + 1) + Cardinality(g) - 1
              /\ \A x, y \in todo'[i] : x.at = y.at => x = y
            <4>. DEFINE first == queue_counter + 1
            <4>1. first \in Nat /\ slot \in Blocks(g, first)
                BY <1>1, <3>2
            <4>. HIDE DEF first
            <4>2. /\ \A x \in todo'[i] : x \in Write /\ first <= x.at
                     /\ x.at <= first + Cardinality(g) - 1
                  /\ \A x, y \in todo'[i] : x.at = y.at => x = y
                BY <3>3, <4>1, TakenSlots
            <4>. QED BY <4>2 DEF first
        <3>. QED BY <1>1, <1>5, <3>1, <3>4 DEF Write
    <2>. QED BY <2>1, <2>2
<1>15. LiveSlots'
    <2>1. SUFFICES ASSUME NEW j \in Lambdas, pc'[j] \in LivePuts, NEW x \in todo'[j]
                   PROVE  /\ cohort.participant_count < x.at /\ x.at <= queue_counter'
                          /\ \A v \in Visitors : positions[v] # x.at
                          /\ \A l \in Lambdas : pc'[l] \in LivePuts =>
                                \A y \in todo'[l] : y.at = x.at => j = l /\ x = y
        BY <1>2 DEF LiveSlots
    <2>2. cohort.participant_count < x.at /\ x.at <= queue_counter' /\ x.at \in Nat
        BY <1>1, <1>3, <1>6, <1>13, <1>14, <2>1
    <2>3. ASSUME NEW v \in Visitors, positions[v] = x.at
          PROVE  FALSE
        <3>1. CASE j = i
            <4>1. positions[v] <= queue_counter
                BY <2>2, <2>3 DEF IInv, SlotsOwned, PositionsIssued, NoPosition
            <4>. QED BY <1>1, <1>14, <2>1, <2>3, <3>1, <4>1
        <3>2. CASE j # i
            BY <1>7, <1>12, <2>1, <2>3, <3>2 DEF LiveSlots
        <3>. QED BY <3>1, <3>2
    <2>4. ASSUME NEW l \in Lambdas, pc'[l] \in LivePuts, NEW y \in todo'[l], y.at = x.at
          PROVE  j = l /\ x = y
        <3>1. CASE j # i /\ l # i
            BY <1>7, <1>12, <2>1, <2>4, <3>1 DEF LiveSlots
        <3>2. CASE j = i /\ l = i
            BY <1>14, <2>1, <2>4, <3>2
        <3>3. CASE j = i /\ l # i
            BY <1>1, <1>13, <1>14, <2>1, <2>4, <3>3
        <3>4. CASE j # i /\ l = i
            BY <1>1, <1>13, <1>14, <2>1, <2>4, <3>4
        <3>. QED BY <3>1, <3>2, <3>3, <3>4
    <2>. QED BY <2>2, <2>3, <2>4
<1>. QED BY <1>9, <1>10, <1>11, <1>15 DEF SlotsOwned

(* Writing a position uses up its slot. *)
LEMMA PutPositionInv ==
    ASSUME IInv, SeenAll', NEW i \in Lambdas, PutPosition(i)
    PROVE  SlotsOwned'
<1>1. positions \in [Visitors -> Nat \cup {NoPosition}] /\ todo \in [Lambdas -> SUBSET Write]
      /\ pc \in [Lambdas -> Calls]
    BY DEF IInv, TypeOK, TablesTypeOK, AssignTypeOK
<1>2. PICK w \in todo[i] :
        /\ positions' = positions \/ PutPositionRow(Requester[w.m], w.at)
        /\ todo' = [todo EXCEPT ![i] = @ \ {w}]
        /\ Goto(i, pc[i]) \/ Goto(i, "report")
    BY DEF PutPosition
<1>. DEFINE u == Requester[w.m]
<1>3. u \in Visitors /\ w.at \in Nat
    BY <1>1, MessagesAssumption DEF Write
<1>4. pc[i] \in LivePuts /\ UNCHANGED <<shuffle_seed, cohort, queue_counter,
        shard_count, prequeue, shard>>
    BY DEF PutPosition, LivePuts
<1>5. LiveSlots /\ PositionsIssued /\ Opened
    BY <1>4 DEF IInv, SlotsOwned, LiveAfterOpen, LiveCalls, LivePuts
<1>6. /\ cohort.participant_count < w.at /\ w.at <= queue_counter
      /\ \A v \in Visitors : positions[v] # w.at
      /\ \A j \in Lambdas : pc[j] \in LivePuts =>
            \A y \in todo[j] : y.at = w.at => i = j /\ y = w
    BY <1>4, <1>5 DEF LiveSlots
<1>7. positions' = positions \/ positions' = [positions EXCEPT ![u] = w.at]
    BY <1>2 DEF PutPositionRow
<1>8. PositionsIssued'
    <2>1. CASE positions' = positions
        BY <1>4, <1>5, <2>1 DEF PositionsIssued, Opened
    <2>2. CASE positions' = [positions EXCEPT ![u] = w.at]
        <3>1. \A v \in Visitors : v # u => positions'[v] = positions[v]
            BY <1>1, <2>2
        <3>2. positions'[u] = w.at
            BY <1>1, <1>3, <2>2
        <3>. HIDE DEF u
        <3>. QED BY <1>3, <1>4, <1>5, <1>6, <3>1, <3>2 DEF PositionsIssued, Opened
    <2>. QED BY <1>7, <2>1, <2>2
<1>9. \A j \in Lambdas : j # i => pc'[j] = pc[j] /\ todo'[j] = todo[j]
    BY <1>1, <1>2 DEF Goto
<1>10. pc'[i] \in {pc[i], "report"} /\ todo'[i] = todo[i] \ {w}
    BY <1>1, <1>2 DEF Goto
<1>11. \A j \in Lambdas : pc'[j] \in LivePuts =>
         pc[j] \in LivePuts /\ todo'[j] \subseteq todo[j]
    BY <1>4, <1>9, <1>10
<1>12. LiveSlots'
    <2>1. SUFFICES ASSUME NEW j \in Lambdas, pc'[j] \in LivePuts, NEW x \in todo'[j]
                   PROVE  /\ cohort.participant_count < x.at /\ x.at <= queue_counter
                          /\ \A v \in Visitors : positions'[v] # x.at
                          /\ \A l \in Lambdas : pc'[l] \in LivePuts =>
                                \A y \in todo'[l] : y.at = x.at => j = l /\ x = y
        BY <1>4 DEF LiveSlots
    <2>2. pc[j] \in LivePuts /\ x \in todo[j]
        BY <1>11, <2>1
    <2>3. cohort.participant_count < x.at /\ x.at <= queue_counter
        BY <1>5, <2>2 DEF LiveSlots
    <2>4. ASSUME NEW v \in Visitors, positions'[v] = x.at
          PROVE  FALSE
        <3>1. positions[v] # x.at
            BY <1>5, <2>2 DEF LiveSlots
        <3>2. x.at = w.at
            BY <1>1, <1>7, <2>4, <3>1
        <3>3. i = j /\ x = w
            BY <1>6, <2>2, <3>2
        <3>. QED BY <1>10, <2>1, <3>3
    <2>5. ASSUME NEW l \in Lambdas, pc'[l] \in LivePuts, NEW y \in todo'[l], y.at = x.at
          PROVE  j = l /\ x = y
        <3>1. pc[l] \in LivePuts /\ y \in todo[l]
            BY <1>11, <2>5
        <3>. QED BY <1>5, <2>2, <2>5, <3>1 DEF LiveSlots
    <2>. QED BY <2>3, <2>4, <2>5
<1>13. OpenOutputs' /\ RowsIssued'
    BY <1>4 DEF IInv, SlotsOwned, OpenOutputs, CohortCounts, Opened, RowsIssued
<1>14. LiveAfterOpen'
    BY <1>4, <1>5 DEF LiveAfterOpen, Opened
<1>15. PrequeueSlots'
    BY <1>4, <1>9, <1>10 DEF IInv, SlotsOwned, PrequeueSlots, LivePuts
<1>. QED BY <1>8, <1>12, <1>13, <1>14, <1>15 DEF SlotsOwned

-----------------------------------------------------------------------------
(* The open. *)

(* The write that opens the event finds no live claim and no position.     *)
LEMMA SetOpenOutputsInv ==
    ASSUME IInv, SeenAll', NEW o \in Openers, opc[o] = "write", OpenGuard,
           SetOpenOutputs(o), FromCounts(seen[o]).participant_count <= U64_MAX,
           UNCHANGED lambdaVars
    PROVE  SlotsOwned'
<1>1. seen[o] \in [Shards -> Nat]
    BY DEF IInv, SlotsOwned, SeenAll
<1>2. ~Opened /\ Opened'
    BY SeedAssumption DEF OpenGuard, SetOpenOutputs, Opened
<1>3. /\ cohort' = FromCounts(seen[o])
      /\ queue_counter' = cohort'.participant_count
      /\ UNCHANGED <<shard_count, prequeue, positions, pc, todo, shard>>
    BY DEF SetOpenOutputs, lambdaVars
<1>4. cohort' \in CohortOffsets /\ CohortCounts' = seen[o]
    <2>1. /\ FromCounts(seen[o]) \in CohortOffsets
          /\ \A s \in Shards : ShardCount(FromCounts(seen[o]), s) = seen[o][s]
        BY <1>1, FromCountsType
    <2>2. CohortCounts' = [s \in Shards |-> ShardCount(cohort', s)]
        BY DEF CohortCounts, ShardCount
    <2>. QED BY <1>1, <1>3, <2>1, <2>2
<1>5. OpenOutputs'
    <2>1. cohort'.participant_count \in Nat
        BY <1>4 DEF CohortOffsets
    <2>. QED BY <1>1, <1>2, <1>3, <1>4, <2>1 DEF OpenOutputs
<1>6. \A i \in Lambdas : pc'[i] \notin LiveCalls
    BY <1>2, <1>3 DEF IInv, SlotsOwned, LiveAfterOpen
<1>7. LiveAfterOpen' /\ LiveSlots'
    BY <1>6 DEF LiveAfterOpen, LiveSlots, LiveCalls, LivePuts
<1>8. PositionsIssued'
    BY <1>2, <1>3 DEF IInv, SlotsOwned, PositionsIssued
<1>9. PrequeueSlots' /\ RowsIssued'
    BY <1>3 DEF IInv, SlotsOwned, PrequeueSlots, RowsIssued
<1>. QED BY <1>5, <1>7, <1>8, <1>9 DEF SlotsOwned

LEMMA OpenInv ==
    ASSUME IInv, SeenAll', NEW o \in Openers, Fire(o) \/ OpenCall(o),
           UNCHANGED <<queueVars, lambdaVars>>
    PROVE  SlotsOwned'
<1>1. CASE UNCHANGED tables
    <2>1. UNCHANGED <<pc, todo, shard>>
        BY DEF lambdaVars
    <2>. QED BY <1>1, <2>1, QuietStep DEF tables, IInv, SlotsOwned, LiveAfterOpen
<1>2. CASE WriteOpen(o) /\ OpenGuard /\ SetOpenOutputs(o)
    <2>1. opc[o] = "write" /\ FromCounts(seen[o]).participant_count <= U64_MAX
        BY <1>2 DEF WriteOpen
    <2>. QED BY <1>2, <2>1, SetOpenOutputsInv
<1>3. UNCHANGED tables \/ (WriteOpen(o) /\ OpenGuard /\ SetOpenOutputs(o))
    BY DEF Fire, OpenCall, ReadShardCount, ReadShardCountsFails, CohortOverflows,
           WriteOpen, IsAlreadyOpen
<1>. QED BY <1>1, <1>2, <1>3

LEMMA InvNext == IInv /\ [Next]_vars => IInv'
<1>. SUFFICES ASSUME IInv, [Next]_vars PROVE IInv'
    OBVIOUS
<1>1. TypeOK' /\ SeenAll'
    BY TypeNext DEF TypeInv, IInv, SlotsOwned
<1>2. CASE AssignNext /\ UNCHANGED openVars
    BY <1>1, <1>2, QuietCalls, ClaimPrequeueInv, PutPrequeueInv, ClaimLiveInv,
       PutPositionInv DEF IInv, AssignNext, Invocation
<1>3. CASE OpenNext /\ UNCHANGED <<queueVars, lambdaVars>>
    BY <1>1, <1>3, OpenInv DEF IInv, OpenNext
<1>4. CASE (\E to \in OperatorPhases : ApplyPhase(to)) \/ ForceMaintenance \/ UNCHANGED vars
    <2>1. UNCHANGED <<shuffle_seed, cohort, queue_counter, shard_count, prequeue, positions,
                      pc, todo, shard>>
        BY <1>4 DEF ApplyPhase, ForceMaintenance, vars, tables, lambdaVars
    <2>. QED BY <1>1, <2>1, QuietStep DEF IInv, SlotsOwned, LiveAfterOpen
<1>. QED BY <1>2, <1>3, <1>4 DEF Next

(* Every slot is issued once and written at most once. *)
THEOREM SlotsOwnedCorrect == Spec => []SlotsOwned
<1>1. IInv => SlotsOwned
    BY DEF IInv
<1>. QED BY <1>1, InvInit, InvNext, PTL DEF Spec

-----------------------------------------------------------------------------
(* What the invariant is for. *)

(* A counted visitor's position lies inside the cohort, and tells them     *)
(* from every other counted visitor.                                       *)
LEMMA CohortPositions ==
    ASSUME IInv, NEW v \in Visitors, NEW w \in Visitors, Counted(v)
    PROVE  /\ CohortPosition(v) \in 0 .. cohort.participant_count - 1
           /\ Counted(w) /\ CohortPosition(v) = CohortPosition(w) => v = w
<1>. DEFINE counts == CohortCounts
            N == cohort.participant_count
            I(x) == ResolveIndex(prequeue[x])
<1>1. Opened /\ counts \in [Shards -> Nat] /\ cohort = FromCounts(counts) /\ N \in 0 .. U64_MAX
    BY U64Assumption DEF Counted, IInv, SlotsOwned, OpenOutputs, TypeOK, TablesTypeOK, CohortOffsets
<1>2. \A x \in Visitors : Counted(x) =>
        prequeue[x].shard \in Shards /\ prequeue[x].local \in Nat /\ I(x) # LiveJoin
    BY DEF Counted, IInv, TypeOK, TablesTypeOK, Row
<1>. HIDE DEF counts
<1>3. \A x, y \in Visitors : Counted(x) /\ Counted(y) =>
        I(x) \in 0 .. N - 1 /\ (I(x) = I(y) => prequeue[x].shard = prequeue[y].shard
                                             /\ prequeue[x].local = prequeue[y].local)
    BY <1>1, <1>2, AssignInjective DEF ResolveIndex
<1>4. shuffle_seed \in Seeds
    BY <1>1 DEF Opened, IInv, TypeOK, TablesTypeOK
<1>5. CohortPosition(v) \in 0 .. N - 1
    BY <1>1, <1>3, <1>4, PrpAssumption DEF CohortPosition
<1>6. ASSUME Counted(w), CohortPosition(v) = CohortPosition(w)
      PROVE  v = w
    <2>1. I(v) = I(w)
        BY <1>1, <1>3, <1>4, <1>6, PrpAssumption DEF CohortPosition
    <2>2. prequeue[v] \in Row /\ prequeue[w] \in Row
        BY <1>6 DEF Counted, IInv, TypeOK, TablesTypeOK
    <2>3. prequeue[v] = prequeue[w]
        BY <1>3, <1>6, <2>1, <2>2 DEF Row
    <2>. QED BY <2>3 DEF Counted, IInv, SlotsOwned, RowsIssued
<1>. QED BY <1>5, <1>6

(* REQUIREMENTS F2.2, for any number of visitors, shards, invocations,     *)
(* openers and faults: two visitors never hold a common position.          *)
THEOREM NoSharedPositionCorrect == Spec => []NoSharedPosition
<1>1. IInv => NoSharedPosition
    <2>. SUFFICES ASSUME IInv, NEW v \in Visitors, NEW w \in Visitors, v # w,
                         NEW p, p \in Held(v), p \in Held(w)
                  PROVE  FALSE
        BY DEF NoSharedPosition
    <2>1. \A x \in Visitors : p \in Held(x) =>
            \/ positions[x] = p /\ p # NoPosition
            \/ Counted(x) /\ p = CohortPosition(x)
        BY DEF Held
    <2>2. ASSUME NEW x \in Visitors, NEW y \in Visitors,
                 positions[x] = p, p # NoPosition, Counted(y), p = CohortPosition(y)
          PROVE  FALSE
        <3>1. cohort.participant_count \in Nat /\ cohort.participant_count < p
            BY <2>2 DEF IInv, TypeOK, TablesTypeOK, CohortOffsets, SlotsOwned, PositionsIssued
        <3>2. p \in 0 .. cohort.participant_count - 1
            BY <2>2, CohortPositions
        <3>. QED BY <3>1, <3>2
    <2>3. CASE positions[v] = p /\ p # NoPosition /\ positions[w] = p
        BY <2>3 DEF IInv, SlotsOwned, PositionsIssued
    <2>4. CASE Counted(v) /\ p = CohortPosition(v) /\ Counted(w) /\ p = CohortPosition(w)
        BY <2>4, CohortPositions
    <2>. QED BY <2>1, <2>2, <2>3, <2>4
<1>. QED BY <1>1, InvInit, InvNext, PTL DEF Spec

(* REQUIREMENTS F2.1: a live joiner stands behind the whole cohort. *)
THEOREM LiveBehindCohortCorrect == Spec => []LiveBehindCohort
<1>1. IInv => LiveBehindCohort
    BY DEF IInv, TypeOK, TablesTypeOK, CohortOffsets, SlotsOwned, PositionsIssued,
           LiveBehindCohort
<1>. QED BY <1>1, InvInit, InvNext, PTL DEF Spec

(* The open's SET never discards a live claim. *)
THEOREM NeverRewindsCorrect == Spec => NeverRewinds
<1>1. IInv /\ [Next]_vars => [queue_counter' >= queue_counter]_vars
    <2>. SUFFICES ASSUME IInv, Next PROVE queue_counter' >= queue_counter
        OBVIOUS
    <2>1. queue_counter \in Nat
        BY DEF IInv, TypeOK, TablesTypeOK
    <2>2. ASSUME UNCHANGED queue_counter PROVE queue_counter' >= queue_counter
        BY <2>1, <2>2
    <2>3. ASSUME NEW i \in Lambdas, ClaimLiveBlock(i) \/ ClaimStragglerBlock(i)
          PROVE  queue_counter' >= queue_counter
        <3>1. PICK g \in SUBSET Messages :
                queue_counter' \in {queue_counter, queue_counter + Cardinality(g)}
            BY <2>3, ClaimIsLiveClaim DEF IInv, LiveClaim
        <3>. QED BY <2>1, <3>1, GroupSize
    <2>4. ASSUME NEW o \in Openers, SetOpenOutputs(o), OpenGuard, opc[o] = "write"
          PROVE  queue_counter' >= queue_counter
        <3>1. queue_counter = 0
            BY <2>4 DEF OpenGuard, IInv, SlotsOwned, OpenOutputs
        <3>2. seen[o] \in [Shards -> Nat]
            BY <2>4 DEF IInv, SlotsOwned, SeenAll
        <3>3. FromCounts(seen[o]).participant_count \in Nat
            BY <3>2, FromCountsType DEF CohortOffsets
        <3>. QED BY <2>4, <3>1, <3>3 DEF SetOpenOutputs
    <2>5. CASE AssignNext /\ UNCHANGED openVars
        <3>1. \/ UNCHANGED queue_counter
              \/ \E i \in Lambdas : ClaimLiveBlock(i) \/ ClaimStragglerBlock(i)
            BY <2>5 DEF AssignNext, Invocation, Send, Redeliver, Receive, LoadCounters,
               RegisteredIds, ClaimPrequeueBlock, PutPrequeue, FixupStragglers,
               PutPosition, Report, Crash, tables
        <3>. QED BY <2>2, <2>3, <3>1
    <2>6. CASE OpenNext /\ UNCHANGED <<queueVars, lambdaVars>>
        <3>1. \/ UNCHANGED queue_counter
              \/ \E o \in Openers : SetOpenOutputs(o) /\ OpenGuard /\ opc[o] = "write"
            BY <2>6 DEF OpenNext, Fire, OpenCall, ReadShardCount, ReadShardCountsFails,
               CohortOverflows, WriteOpen, IsAlreadyOpen, tables
        <3>. QED BY <2>2, <2>4, <3>1
    <2>7. CASE (\E to \in OperatorPhases : ApplyPhase(to)) \/ ForceMaintenance
        BY <2>2, <2>7 DEF ApplyPhase, ForceMaintenance
    <2>. QED BY <2>5, <2>6, <2>7 DEF Next
<1>. QED BY <1>1, InvInit, InvNext, PTL DEF Spec, NeverRewinds

(* The seed, the offsets and the cohort size are written once. *)
THEOREM OpensOnceCorrect == Spec => OpensOnce
<1>1. [Next]_vars => [Opened => UNCHANGED <<shuffle_seed, cohort>>]_vars
    <2>. SUFFICES ASSUME Next, Opened PROVE UNCHANGED <<shuffle_seed, cohort>>
        OBVIOUS
    <2>1. CASE AssignNext /\ UNCHANGED openVars
        BY <2>1 DEF AssignNext, Invocation, Send, Redeliver, Receive, LoadCounters,
           RegisteredIds, ClaimPrequeueBlock, PutPrequeue, FixupStragglers, ClaimLiveBlock,
           ClaimStragglerBlock, PutPosition, Report, Crash, tables
    <2>2. CASE OpenNext /\ UNCHANGED <<queueVars, lambdaVars>>
        BY <2>2 DEF OpenNext, Fire, OpenCall, ReadShardCount, ReadShardCountsFails,
           CohortOverflows, WriteOpen, IsAlreadyOpen, OpenGuard, tables
    <2>3. CASE (\E to \in OperatorPhases : ApplyPhase(to)) \/ ForceMaintenance
        BY <2>3 DEF ApplyPhase, ForceMaintenance
    <2>. QED BY <2>1, <2>2, <2>3 DEF Next
<1>. QED BY <1>1, PTL DEF Spec, OpensOnce

-----------------------------------------------------------------------------
(* Intake implements Line, for any number of visitors, messages, shards,   *)
(* concurrent invocations, openers and faults: Outflow and WaitingRoom,    *)
(* which are built on Line, leave nothing out of what the intake side can  *)
(* do to the tables.  And a visitor whose joins are not repeated, by them  *)
(* or by a fault, is in the line once.                                     *)

-----------------------------------------------------------------------------
(* What the refinement needs beyond SlotsOwned: no claim is larger than    *)
(* the batch it is for, and no opener has seen a count its shard has not   *)
(* reached.                                                                *)
ClaimsInBatch ==
    \A i \in Lambdas :
        /\ pc[i] = "idle" => batch[i] = {}
        /\ Cardinality(batch[i]) <= BatchSize
        /\ group[i] \subseteq batch[i]
        /\ \A w \in todo[i] \cup written[i] : w.m \in batch[i]

SeenIssued == \A o \in Openers, s \in Shards : seen[o][s] <= shard_count[s]

LineInv == IInv /\ ClaimsInBatch /\ SeenIssued

-----------------------------------------------------------------------------
(* Line's own copies of what it extends are Intake's. *)
LEMMA SameFromCounts ==
    ASSUME NEW counts
    PROVE  L!FromCounts(counts) = FromCounts(counts)
BY DEF L!FromCounts, L!Running, L!Shards, FromCounts, Running, Shards

LEMMA LineInitially == Init => L!LineInit
BY DEF Init, TablesInit, L!LineInit, L!NoSeed, L!NoCohort, L!Shards, L!NoRow, L!NoPosition,
       NoSeed, NoCohort, Shards, NoRow, NoPosition

(* A batch is finite, and so is every group drawn from it. *)
LEMMA GroupInBatch ==
    ASSUME TypeOK, NEW i \in Lambdas, Cardinality(batch[i]) <= BatchSize,
           NEW g \in SUBSET batch[i]
    PROVE  Cardinality(g) \in 0 .. BatchSize
<1>1. batch[i] \in SUBSET Messages
    BY DEF TypeOK, AssignTypeOK
<1>2. IsFiniteSet(batch[i]) /\ Cardinality(batch[i]) \in Nat
    BY <1>1, GroupSize
<1>3. Cardinality(g) <= Cardinality(batch[i]) /\ Cardinality(g) \in Nat
    BY <1>1, <1>2, GroupSize, FS_Subset
<1>. QED BY <1>2, <1>3, MessagesAssumption

-----------------------------------------------------------------------------
(* ClaimsInBatch is preserved. *)

LEMMA BatchInit == Init => ClaimsInBatch /\ SeenIssued
<1>. SUFFICES ASSUME Init PROVE ClaimsInBatch /\ SeenIssued
    OBVIOUS
<1>1. Cardinality({}) = 0 /\ BatchSize \in Nat
    BY FS_EmptySet, MessagesAssumption
<1>2. ClaimsInBatch
    BY <1>1 DEF Init, AssignInit, ClaimsInBatch
<1>3. SeenIssued
    BY DEF Init, TablesInit, OpenInit, NothingSeen, Unread, SeenIssued
<1>. QED BY <1>2, <1>3

(* A claim takes slots for records of the batch. *)
LEMMA SlotsForBatch ==
    ASSUME NEW i \in Lambdas, NEW g \in SUBSET batch[i], NEW blocks,
           todo \in [Lambdas -> SUBSET Write], TakeSlots(i, g, blocks)
    PROVE  /\ \A w \in todo'[i] : w.m \in batch[i]
           /\ \A j \in Lambdas : j # i => todo'[j] = todo[j]
BY DEF TakeSlots, SlotWrites

(* The calls that claim and write nothing. *)
LEMMA ReceiveBatch ==
    ASSUME TypeOK, ClaimsInBatch, NEW i \in Lambdas, Receive(i)
    PROVE  ClaimsInBatch'
<1>1. PICK ms \in SUBSET Messages :
        /\ Cardinality(ms) <= BatchSize
        /\ batch' = [batch EXCEPT ![i] = ms]
    BY DEF Receive
<1>2. pc'[i] # "idle" /\ \A j \in Lambdas : j # i => pc'[j] = pc[j]
    BY DEF Receive, Goto, FailWith, TypeOK, AssignTypeOK
<1>3. group[i] = {} /\ todo[i] = {} /\ written[i] = {}
    <2>1. pc[i] = "idle"
        BY DEF Receive
    <2>. QED BY <2>1 DEF ClaimsInBatch
<1>4. UNCHANGED <<group, todo, written>>
    BY DEF Receive
<1>. QED BY <1>1, <1>2, <1>3, <1>4 DEF ClaimsInBatch, TypeOK, AssignTypeOK

LEMMA CallBatch ==
    ASSUME TypeOK, ClaimsInBatch, NEW i \in Lambdas,
           LoadCounters(i) \/ RegisteredIds(i) \/ FixupStragglers(i)
    PROVE  ClaimsInBatch'
<1>1. UNCHANGED <<batch, todo, written>>
    BY DEF LoadCounters, RegisteredIds, FixupStragglers
<1>2. pc[i] # "idle" /\ \A j \in Lambdas : pc'[j] = "idle" => pc[j] = "idle"
    BY DEF LoadCounters, RegisteredIds, FixupStragglers, Goto, FailWith, TypeOK, AssignTypeOK
<1>3. /\ group'[i] \subseteq batch[i]
      /\ \A j \in Lambdas : j # i => group'[j] = group[j]
    BY DEF LoadCounters, RegisteredIds, FixupStragglers, Accepted, ClaimsInBatch, TypeOK,
           AssignTypeOK
<1>. QED BY <1>1, <1>2, <1>3 DEF ClaimsInBatch

LEMMA EndBatch ==
    ASSUME TypeOK, ClaimsInBatch, NEW i \in Lambdas, Report(i) \/ Crash(i)
    PROVE  ClaimsInBatch'
<1>1. Forget(i)
    BY DEF Report, Crash
<1>2. Cardinality({}) = 0 /\ BatchSize \in Nat
    BY FS_EmptySet, MessagesAssumption
<1>. QED BY <1>1, <1>2 DEF Forget, Goto, ClaimsInBatch, TypeOK, AssignTypeOK

(* The claims. *)
LEMMA ClaimBatch ==
    ASSUME TypeOK, ClaimsInBatch, NEW i \in Lambdas,
           ClaimPrequeueBlock(i) \/ ClaimStragglerBlock(i) \/ ClaimLiveBlock(i)
    PROVE  ClaimsInBatch'
<1>1. UNCHANGED <<batch, group, written>>
    BY DEF ClaimPrequeueBlock, ClaimStragglerBlock, ClaimLiveBlock
<1>2. \A j \in Lambdas : pc'[j] = "idle" => pc[j] = "idle"
    BY DEF ClaimPrequeueBlock, ClaimStragglerBlock, ClaimLiveBlock, Goto, FailWith, TypeOK,
           AssignTypeOK
<1>3. todo \in [Lambdas -> SUBSET Write]
    BY DEF TypeOK, AssignTypeOK
<1>4. UNCHANGED todo \/ \E g \in SUBSET batch[i] : \E blocks : TakeSlots(i, g, blocks)
    <2>1. CASE ClaimPrequeueBlock(i) \/ ClaimLiveBlock(i)
        BY <2>1 DEF ClaimPrequeueBlock, ClaimLiveBlock, ClaimsInBatch
    <2>2. CASE ClaimStragglerBlock(i)
        <3>1. {w.m : w \in Stragglers(i)} \in SUBSET batch[i]
            BY DEF Stragglers, ClaimsInBatch
        <3>2. UNCHANGED todo
              \/ \E blocks : TakeSlots(i, {w.m : w \in Stragglers(i)}, blocks)
            BY <2>2 DEF ClaimStragglerBlock
        <3>. QED BY <3>1, <3>2
    <2>. QED BY <2>1, <2>2
<1>5. \A j \in Lambdas : \A w \in todo'[j] : w.m \in batch[j]
    BY <1>3, <1>4, SlotsForBatch DEF ClaimsInBatch
<1>. QED BY <1>1, <1>2, <1>5 DEF ClaimsInBatch

(* The puts. *)
LEMMA PutBatch ==
    ASSUME TypeOK, ClaimsInBatch, NEW i \in Lambdas, PutPrequeue(i) \/ PutPosition(i)
    PROVE  ClaimsInBatch'
<1>1. UNCHANGED <<batch, group>>
    BY DEF PutPrequeue, PutPosition
<1>2. \A j \in Lambdas : pc'[j] = "idle" => pc[j] = "idle"
    BY DEF PutPrequeue, PutPosition, Goto, TypeOK, AssignTypeOK
<1>3. PICK w \in todo[i] :
        /\ todo' = [todo EXCEPT ![i] = @ \ {w}]
        /\ UNCHANGED written \/ written' = [written EXCEPT ![i] = @ \cup {w}]
    BY DEF PutPrequeue, PutPosition, TypeOK, AssignTypeOK
<1>4. \A j \in Lambdas : todo'[j] \cup written'[j] \subseteq todo[j] \cup written[j]
    BY <1>3 DEF TypeOK, AssignTypeOK
<1>. QED BY <1>1, <1>2, <1>4 DEF ClaimsInBatch

-----------------------------------------------------------------------------
(* LineInv is inductive. *)

(* Shards only ever issue more. *)
LEMMA ShardsGrow ==
    ASSUME IInv, [Next]_vars, NEW s \in Shards
    PROVE  shard_count[s] <= shard_count'[s]
<1>1. shard_count \in [Shards -> Nat]
    BY DEF IInv, TypeOK, TablesTypeOK
<1>2. ASSUME NEW i \in Lambdas, ClaimPrequeueBlock(i)
      PROVE  shard_count[s] <= shard_count'[s]
    <2>1. Cardinality(group[i]) \in Nat
        BY GroupSize DEF IInv, TypeOK, AssignTypeOK
    <2>2. \/ shard_count' = shard_count
          \/ \E t \in Shards :
                shard_count' = [shard_count EXCEPT ![t] = @ + Cardinality(group[i])]
        BY <1>2 DEF ClaimPrequeueBlock
    <2>. QED BY <1>1, <2>1, <2>2
<1>3. ASSUME shard_count' = shard_count
      PROVE  shard_count[s] <= shard_count'[s]
    BY <1>1, <1>3
<1>4. CASE AssignNext /\ UNCHANGED openVars
    <2>1. \/ shard_count' = shard_count
          \/ \E i \in Lambdas : ClaimPrequeueBlock(i)
        BY <1>4 DEF AssignNext, Invocation, Send, Redeliver, Receive, LoadCounters,
           RegisteredIds, PutPrequeue, FixupStragglers, ClaimStragglerBlock, ClaimLiveBlock,
           PutPosition, Report, Crash, tables
    <2>. QED BY <1>2, <1>3, <2>1
<1>5. CASE OpenNext /\ UNCHANGED <<queueVars, lambdaVars>>
    BY <1>3, <1>5 DEF OpenNext, Fire, OpenCall, ReadShardCount, ReadShardCountsFails,
       CohortOverflows, WriteOpen, SetOpenOutputs, IsAlreadyOpen, tables
<1>6. CASE (\E to \in OperatorPhases : ApplyPhase(to)) \/ ForceMaintenance \/ UNCHANGED vars
    BY <1>3, <1>6 DEF ApplyPhase, ForceMaintenance, vars, tables
<1>. QED BY <1>4, <1>5, <1>6 DEF Next

(* What an opener newly sees is a count as it stands, or nothing. *)
LEMMA SeenNow ==
    ASSUME IInv, [Next]_vars, NEW o \in Openers, NEW s \in Shards
    PROVE  seen'[o][s] \in {seen[o][s], Unread, shard_count[s]}
<1>1. seen \in [Openers -> [Shards -> Nat \cup {Unread}]]
    BY DEF IInv, TypeOK, OpenTypeOK
<1>2. CASE OpenNext
    <2>1. PICK p \in Openers :
            \/ seen' = seen
            \/ seen' = [seen EXCEPT ![p] = NothingSeen]
            \/ \E t \in Shards : seen' = [seen EXCEPT ![p][t] = shard_count[t]]
        BY <1>2 DEF OpenNext, Fire, OpenCall, ReadShardCount, ReadShardCountsFails,
           CohortOverflows, WriteOpen, IsAlreadyOpen, EndOpen
    <2>. QED BY <1>1, <2>1 DEF NothingSeen
<1>3. CASE UNCHANGED seen
    BY <1>3
<1>. QED BY <1>2, <1>3 DEF Next, openVars, ApplyPhase, ForceMaintenance, vars

LEMMA SeenIssuedNext ==
    ASSUME IInv, SeenIssued, [Next]_vars
    PROVE  SeenIssued'
<1>. SUFFICES ASSUME NEW o \in Openers, NEW s \in Shards
              PROVE  seen'[o][s] <= shard_count'[s]
    BY DEF SeenIssued
<1>1. /\ shard_count[s] \in Nat /\ shard_count'[s] \in Nat
      /\ seen[o][s] \in Nat \cup {Unread}
    BY InvNext DEF IInv, TypeOK, TablesTypeOK, OpenTypeOK
<1>2. shard_count[s] <= shard_count'[s]
    BY ShardsGrow
<1>3. seen[o][s] <= shard_count[s]
    BY DEF SeenIssued
<1>. QED BY <1>1, <1>2, <1>3, SeenNow DEF Unread

LEMMA LineInvNext == LineInv /\ [Next]_vars => LineInv'
<1>. SUFFICES ASSUME LineInv, [Next]_vars PROVE LineInv'
    OBVIOUS
<1>1. TypeOK /\ ClaimsInBatch
    BY DEF LineInv, IInv
<1>2. ClaimsInBatch'
    <2>1. ASSUME UNCHANGED <<pc, batch, group, todo, written>>
          PROVE  ClaimsInBatch'
        BY <1>1, <2>1 DEF ClaimsInBatch
    <2>2. CASE \E m \in Messages : Send(m) \/ Redeliver(m)
        BY <2>1, <2>2 DEF Send, Redeliver, lambdaVars
    <2>3. CASE \E i \in Lambdas : Receive(i) \/ Invocation(i) \/ Crash(i)
        BY <1>1, <2>3, ReceiveBatch, CallBatch, EndBatch, ClaimBatch, PutBatch DEF Invocation
    <2>4. CASE UNCHANGED lambdaVars
        BY <2>1, <2>4 DEF lambdaVars
    <2>5. AssignNext \/ UNCHANGED lambdaVars
        BY DEF Next, ApplyPhase, ForceMaintenance, vars
    <2>. QED BY <2>2, <2>3, <2>4, <2>5 DEF AssignNext
<1>. QED BY <1>2, InvNext, SeenIssuedNext DEF LineInv

-----------------------------------------------------------------------------
(* Every step of Intake is a step of Line, or none. *)

LEMMA ClaimPrequeueStep ==
    ASSUME LineInv, NEW i \in Lambdas, ClaimPrequeueBlock(i)
    PROVE  L!IssueLocal \/ UNCHANGED tables
<1>. DEFINE k == Cardinality(group[i])
<1>1. k \in 0 .. BatchSize /\ BatchSize \in Nat
    BY GroupInBatch, MessagesAssumption DEF LineInv, IInv, ClaimsInBatch
<1>2. shard_count \in [Shards -> Nat]
    BY DEF LineInv, IInv, TypeOK, TablesTypeOK
<1>3. PICK s \in Shards :
        \/ shard_count' = shard_count
        \/ shard_count' = [shard_count EXCEPT ![s] = @ + k]
    BY DEF ClaimPrequeueBlock
<1>4. UNCHANGED <<phase, shuffle_seed, cohort, queue_counter, prequeue, positions>>
    BY DEF ClaimPrequeueBlock
<1>. HIDE DEF k
<1>5. CASE shard_count' = shard_count
    BY <1>4, <1>5 DEF tables
<1>6. CASE k = 0 /\ shard_count' = [shard_count EXCEPT ![s] = @ + k]
    <2>1. shard_count' = shard_count
        BY <1>2, <1>6
    <2>. QED BY <1>4, <2>1 DEF tables
<1>7. CASE k # 0 /\ shard_count' = [shard_count EXCEPT ![s] = @ + k]
    <2>1. k \in 1 .. BatchSize
        BY <1>1, <1>7
    <2>. QED BY <1>4, <1>7, <2>1 DEF L!IssueLocal, L!Shards, Shards
<1>. QED BY <1>3, <1>5, <1>6, <1>7

LEMMA PutPrequeueStep ==
    ASSUME LineInv, NEW i \in Lambdas, PutPrequeue(i)
    PROVE  (\E v \in Visitors : L!Register(v)) \/ UNCHANGED tables
<1>1. PICK w \in todo[i] :
        prequeue' = prequeue \/ PutRow(Requester[w.m], [shard |-> shard[i], local |-> w.at])
    BY DEF PutPrequeue
<1>. DEFINE v == Requester[w.m]
            row == [shard |-> shard[i], local |-> w.at]
<1>2. v \in Visitors /\ w.at \in Nat /\ shard[i] \in Shards
      /\ shard_count[shard[i]] \in Nat
    BY MessagesAssumption DEF LineInv, IInv, TypeOK, TablesTypeOK, AssignTypeOK, Write
<1>3. w.at < shard_count[shard[i]] /\ \A x \in Visitors : prequeue[x] # row
    BY DEF PutPrequeue, LineInv, IInv, SlotsOwned, PrequeueSlots
<1>4. UNCHANGED <<phase, shuffle_seed, cohort, queue_counter, shard_count, positions>>
    BY DEF PutPrequeue
<1>5. CASE prequeue' = prequeue
    BY <1>4, <1>5 DEF tables
<1>6. CASE prequeue[v] = NoRow /\ prequeue' = [prequeue EXCEPT ![v] = row]
    <2>1. w.at \in 0 .. shard_count[shard[i]] - 1
        BY <1>2, <1>3
    <2>2. L!Register(v)
        BY <1>2, <1>3, <1>4, <1>6, <2>1 DEF L!Register, L!NoRow, NoRow, L!Shards, Shards
    <2>. QED BY <1>2, <2>2
<1>. QED BY <1>1, <1>5, <1>6 DEF PutRow

LEMMA ClaimLiveStep ==
    ASSUME LineInv, NEW i \in Lambdas, ClaimLiveBlock(i) \/ ClaimStragglerBlock(i)
    PROVE  L!IssueLive \/ UNCHANGED tables
<1>1. queue_counter \in Nat /\ BatchSize \in Nat
    BY MessagesAssumption DEF LineInv, IInv, TypeOK, TablesTypeOK
<1>2. PICK g \in SUBSET batch[i] :
        queue_counter' \in {queue_counter, queue_counter + Cardinality(g)}
    <2>1. CASE ClaimLiveBlock(i)
        BY <2>1 DEF ClaimLiveBlock, LineInv, ClaimsInBatch
    <2>2. CASE ClaimStragglerBlock(i)
        <3>1. {w.m : w \in Stragglers(i)} \in SUBSET batch[i]
            BY DEF Stragglers, LineInv, ClaimsInBatch
        <3>2. queue_counter' \in
                {queue_counter, queue_counter + Cardinality({w.m : w \in Stragglers(i)})}
            BY <2>2 DEF ClaimStragglerBlock
        <3>. QED BY <3>1, <3>2
    <2>. QED BY <2>1, <2>2
<1>3. Cardinality(g) \in 0 .. BatchSize
    BY GroupInBatch DEF LineInv, IInv, ClaimsInBatch
<1>4. Opened
    BY DEF ClaimLiveBlock, ClaimStragglerBlock, LineInv, IInv, SlotsOwned, LiveAfterOpen,
           LiveCalls
<1>5. UNCHANGED <<phase, shuffle_seed, cohort, shard_count, prequeue, positions>>
    BY DEF ClaimLiveBlock, ClaimStragglerBlock
<1>6. CASE queue_counter' = queue_counter
    BY <1>5, <1>6 DEF tables
<1>7. CASE queue_counter' # queue_counter
    <2>1. Cardinality(g) \in 1 .. BatchSize
          /\ queue_counter' = queue_counter + Cardinality(g)
        BY <1>1, <1>2, <1>3, <1>7
    <2>. QED BY <1>4, <1>5, <2>1 DEF L!IssueLive, L!Opened, L!NoSeed, Opened, NoSeed
<1>. QED BY <1>6, <1>7

LEMMA PutPositionStep ==
    ASSUME LineInv, NEW i \in Lambdas, PutPosition(i)
    PROVE  (\E v \in Visitors : L!Join(v)) \/ UNCHANGED tables
<1>1. PICK w \in todo[i] : positions' = positions \/ PutPositionRow(Requester[w.m], w.at)
    BY DEF PutPosition
<1>. DEFINE v == Requester[w.m]
<1>2. /\ v \in Visitors /\ w.at \in Nat /\ queue_counter \in Nat
      /\ cohort.participant_count \in Nat
    BY MessagesAssumption
       DEF LineInv, IInv, TypeOK, TablesTypeOK, AssignTypeOK, Write, CohortOffsets
<1>3. pc[i] \in LivePuts
    BY DEF PutPosition, LivePuts
<1>4. /\ Opened
      /\ cohort.participant_count < w.at /\ w.at <= queue_counter
      /\ \A x \in Visitors : positions[x] # w.at
    BY <1>3 DEF LineInv, IInv, SlotsOwned, LiveAfterOpen, LiveCalls, LivePuts, LiveSlots
<1>5. UNCHANGED <<phase, shuffle_seed, cohort, queue_counter, shard_count, prequeue>>
    BY DEF PutPosition
<1>6. CASE positions' = positions
    BY <1>5, <1>6 DEF tables
<1>7. CASE positions[v] = NoPosition /\ positions' = [positions EXCEPT ![v] = w.at]
    <2>1. w.at \in cohort.participant_count + 1 .. queue_counter
        BY <1>2, <1>4
    <2>2. L!Join(v)
        BY <1>4, <1>5, <1>7, <2>1
           DEF L!Join, L!Opened, L!NoSeed, L!NoPosition, Opened, NoSeed, NoPosition
    <2>. QED BY <1>2, <2>2
<1>. QED BY <1>1, <1>6, <1>7 DEF PutPositionRow

(* The open publishes counts the shards have issued by now, although they  *)
(* were read one by one and may all have moved since.                      *)
LEMMA OpenStep ==
    ASSUME LineInv, NEW o \in Openers, Fire(o) \/ OpenCall(o)
    PROVE  L!Open \/ UNCHANGED tables
<1>. DEFINE counts == seen[o]
<1>1. \/ UNCHANGED tables
      \/ /\ opc[o] = "write" /\ OpenGuard /\ SetOpenOutputs(o)
         /\ FromCounts(counts).participant_count <= U64_MAX
    BY DEF Fire, OpenCall, ReadShardCount, ReadShardCountsFails, CohortOverflows, WriteOpen,
           IsAlreadyOpen
<1>2. CASE /\ opc[o] = "write" /\ OpenGuard /\ SetOpenOutputs(o)
           /\ FromCounts(counts).participant_count <= U64_MAX
    <2>1. counts \in [Shards -> Nat] /\ U64_MAX \in Nat
        BY <1>2, U64Assumption DEF LineInv, IInv, SlotsOwned, SeenAll
    <2>2. \A s \in Shards : counts[s] <= FromCounts(counts).participant_count
        <3>1. \A s \in Shards : s \in 0 .. SHARDS - 1 /\ s < SHARDS /\ SHARDS \in 0 .. SHARDS
            BY ShardsAssumption DEF Shards
        <3>2. \A s \in Shards : Running(counts)[s] \in Nat
            BY <2>1, <3>1, RunningType
        <3>3. \A s \in Shards : Running(counts)[s] + counts[s] <= Running(counts)[SHARDS]
            BY <2>1, <3>1, RunningMonotone
        <3>4. Running(counts)[SHARDS] \in Nat
            BY <2>1, ShardsAssumption, RunningType
        <3>5. FromCounts(counts).participant_count = Running(counts)[SHARDS]
            BY DEF FromCounts
        <3>. QED BY <2>1, <3>2, <3>3, <3>4, <3>5
    <2>3. FromCounts(counts).participant_count \in Nat
        BY <2>1, FromCountsType DEF CohortOffsets
    <2>4. counts \in [L!Shards -> 0 .. U64_MAX]
        <3>. HIDE DEF counts
        <3>1. \A s \in Shards : counts[s] \in 0 .. U64_MAX
            BY <1>2, <2>1, <2>2, <2>3
        <3>. QED BY <2>1, <3>1 DEF L!Shards, Shards
    <2>5. \A s \in L!Shards : counts[s] <= shard_count[s]
        BY DEF LineInv, SeenIssued, L!Shards, Shards
    <2>. HIDE DEF counts
    <2>6. L!FromCounts(counts) = FromCounts(counts)
        BY SameFromCounts
    <2>. QED BY <1>2, <2>4, <2>5, <2>6
             DEF counts, L!Open, L!Opened, L!NoSeed, OpenGuard, SetOpenOutputs, Opened, NoSeed
<1>. QED BY <1>1, <1>2

LEMMA PhaseStep ==
    ASSUME (\E to \in OperatorPhases : ApplyPhase(to)) \/ ForceMaintenance
    PROVE  \E to \in Phases : L!SetPhase(to)
<1>1. CASE \E to \in OperatorPhases : ApplyPhase(to)
    BY <1>1, OperatorPhasesAssumption
       DEF ApplyPhase, L!SetPhase, L!TransitionAllowed, TransitionAllowed, L!Opened,
           L!NoSeed, Opened, NoSeed
<1>2. CASE ForceMaintenance
    BY <1>2 DEF ForceMaintenance, Phases, L!SetPhase, L!TransitionAllowed
<1>. QED BY <1>1, <1>2

LEMMA LineStep == LineInv /\ [Next]_vars => [L!LineNext]_(L!tables)
<1>. SUFFICES ASSUME LineInv, [Next]_vars PROVE L!LineNext \/ UNCHANGED tables
    BY DEF L!tables, tables
<1>1. CASE AssignNext
    <2>1. CASE \E m \in Messages : Send(m) \/ Redeliver(m)
        BY <2>1 DEF Send, Redeliver
    <2>2. CASE \E i \in Lambdas : Receive(i) \/ Invocation(i) \/ Crash(i)
        <3>1. PICK i \in Lambdas : Receive(i) \/ Invocation(i) \/ Crash(i)
            BY <2>2
        <3>2. CASE \/ Receive(i) \/ LoadCounters(i) \/ RegisteredIds(i) \/ FixupStragglers(i)
                   \/ Report(i) \/ Crash(i)
            BY <3>2 DEF Receive, LoadCounters, RegisteredIds, FixupStragglers, Report, Crash
        <3>3. CASE ClaimPrequeueBlock(i) \/ PutPrequeue(i)
            BY <3>3, ClaimPrequeueStep, PutPrequeueStep DEF L!LineNext
        <3>4. CASE ClaimStragglerBlock(i) \/ ClaimLiveBlock(i) \/ PutPosition(i)
            BY <3>4, ClaimLiveStep, PutPositionStep DEF L!LineNext
        <3>. QED BY <3>1, <3>2, <3>3, <3>4 DEF Invocation
    <2>. QED BY <1>1, <2>1, <2>2 DEF AssignNext
<1>2. CASE OpenNext
    BY <1>2, OpenStep DEF OpenNext, L!LineNext
<1>3. CASE (\E to \in OperatorPhases : ApplyPhase(to)) \/ ForceMaintenance
    BY <1>3, PhaseStep DEF L!LineNext, L!Phases, Phases
<1>4. CASE UNCHANGED vars
    BY <1>4 DEF vars, tables
<1>. QED BY <1>1, <1>2, <1>3, <1>4 DEF Next

(* Whatever is lost, repeated or raced, and however many invocations and   *)
(* openers there are, the tables change only as the abstract line does.    *)
THEOREM IntakeImplementsLine == Spec => ImplementsLine
<1>1. Init => LineInv
    BY InvInit, BatchInit DEF LineInv
<1>. QED BY <1>1, LineInitially, LineInvNext, LineStep, PTL DEF Spec, ImplementsLine, L!LineSpec

-----------------------------------------------------------------------------
(* One join, one place.  When every visitor sends one message and a call   *)
(* that fails has done nothing, a visitor counted into the cohort holds no *)
(* live position.  That is about the tables; the invariant behind it is    *)
(* about who still holds the message: no table knows of a visitor whose    *)
(* message may yet be placed.                                              *)

JoinsOnce == \A m, n \in Messages : Requester[m] = Requester[n] => m = n

CleanFaults == FaultKinds \cap {"ambiguous", "crash", "redelivery"} = {}

Early == {"load_counters", "registered_ids", "claim_prequeue", "claim_live"}

(* A message that will be offered again, or that an invocation has yet to  *)
(* write or has given up on.                                               *)
Fresh(m) ==
    \/ status[m] \in {"unsent", "queued"}
    \/ \E i \in Lambdas :
        /\ m \in batch[i]
        /\ \/ pc[i] \in Early
           \/ m \in failed[i]
           \/ pc[i] \in {"put_prequeue", "put_live"} /\ \E x \in todo[i] : x.m = m

Unplaced ==
    \A m \in Messages : Fresh(m) =>
        prequeue[Requester[m]] = NoRow /\ positions[Requester[m]] = NoPosition

(* A message in flight is in one batch. *)
BatchesApart ==
    \A i \in Lambdas : \A m \in batch[i] :
        /\ status[m] = "inflight"
        /\ \A j \in Lambdas : m \in batch[j] => i = j

(* An invocation fails or writes nothing before its first write. *)
NothingYet ==
    \A i \in Lambdas :
        /\ failed[i] \subseteq batch[i]
        /\ pc[i] \in Early \cup {"idle"} => failed[i] = {} /\ written[i] = {}

(* What it has yet to write it writes once, and has not failed. *)
WritesOnce ==
    \A i \in Lambdas : pc[i] \in Puts => \A x \in todo[i] :
        /\ x.m \notin failed[i]
        /\ \A y \in todo[i] : x.m = y.m => x = y

(* What it has written it did not fail, and is where it says. *)
RowsWritten ==
    \A i \in Lambdas : \A w \in written[i] :
        /\ w.m \notin failed[i]
        /\ prequeue[Requester[w.m]] = [shard |-> shard[i], local |-> w.at]
        /\ pc[i] = "put_prequeue" => \A x \in todo[i] : x.m # w.m

(* The fix-up places nobody but stragglers. *)
StragglersOnly ==
    \A i \in Lambdas : pc[i] = "put_straggler" => \A x \in todo[i] :
        \E w \in Stragglers(i) : w.m = x.m

OnceInv ==
    /\ Unplaced /\ CountedOnce /\ BatchesApart /\ NothingYet
    /\ WritesOnce /\ RowsWritten /\ StragglersOnly

LEMMA OnceInit == Init => OnceInv
<1>. SUFFICES ASSUME Init PROVE OnceInv
    OBVIOUS
<1>1. Unplaced /\ CountedOnce
    BY MessagesAssumption DEF Init, TablesInit, Unplaced, CountedOnce, Counted, Opened
<1>2. BatchesApart /\ NothingYet /\ WritesOnce /\ RowsWritten /\ StragglersOnly
    BY DEF Init, AssignInit, BatchesApart, NothingYet, WritesOnce, RowsWritten, StragglersOnly
<1>. QED BY <1>1, <1>2 DEF OnceInv

(* A step that places nobody, makes nothing fresh that was not, and fails  *)
(* nothing for an invocation that has written or is writing.               *)
LEMMA OnceQuiet ==
    ASSUME OnceInv,
           UNCHANGED <<shuffle_seed, cohort, prequeue, positions, shard, todo, written>>,
           \A m \in Messages : Fresh(m)' => Fresh(m),
           BatchesApart', NothingYet',
           \A j \in Lambdas : pc'[j] \in Puts => pc'[j] = pc[j] /\ failed'[j] = failed[j],
           \A j \in Lambdas : failed'[j] = failed[j] \/ written[j] = {}
    PROVE  OnceInv'
<1>1. Unplaced'
    BY DEF OnceInv, Unplaced
<1>2. CountedOnce'
    BY DEF OnceInv, CountedOnce, Counted, Opened, ResolveIndex
<1>3. WritesOnce'
    BY DEF OnceInv, WritesOnce
<1>4. RowsWritten'
    BY DEF OnceInv, RowsWritten, Puts
<1>5. StragglersOnly'
    BY DEF OnceInv, StragglersOnly, Stragglers, Puts, LivePuts
<1>. QED BY <1>1, <1>2, <1>3, <1>4, <1>5 DEF OnceInv

LEMMA OnceSend ==
    ASSUME TypeOK, ClaimsInBatch, OnceInv, CleanFaults, NEW m \in Messages,
           Send(m) \/ Redeliver(m)
    PROVE  OnceInv'
<1>1. Send(m) /\ UNCHANGED <<tables, lambdaVars>>
    BY DEF Send, Redeliver, Fault, CleanFaults
<1>2. status[m] = "unsent" /\ status' = [status EXCEPT ![m] = "queued"]
    BY <1>1 DEF Send
<1>3. status \in [Messages -> Statuses]
    BY DEF TypeOK, AssignTypeOK
<1>4. \A n \in Messages : Fresh(n)' => Fresh(n)
    BY <1>1, <1>2, <1>3 DEF Fresh, lambdaVars
<1>5. BatchesApart' /\ NothingYet'
    BY <1>1, <1>2, <1>3 DEF OnceInv, BatchesApart, NothingYet, lambdaVars
<1>. QED BY <1>1, <1>4, <1>5, OnceQuiet DEF tables, lambdaVars

LEMMA OnceReceive ==
    ASSUME TypeOK, ClaimsInBatch, OnceInv, NEW i \in Lambdas, Receive(i)
    PROVE  OnceInv'
<1>1. PICK ms \in SUBSET {m \in Messages : status[m] = "queued"} :
        /\ status' = [m \in Messages |-> IF m \in ms THEN "inflight" ELSE status[m]]
        /\ batch' = [batch EXCEPT ![i] = ms]
        /\ \/ Goto(i, "report") /\ UNCHANGED failed
           \/ Goto(i, "load_counters") /\ UNCHANGED failed
           \/ FailWith(i, ms)
    BY DEF Receive
<1>2. /\ pc[i] = "idle" /\ batch[i] = {} /\ failed[i] = {} /\ written[i] = {} /\ todo[i] = {}
      /\ UNCHANGED <<tables, group, shard, todo, written>>
    BY DEF Receive, ClaimsInBatch, OnceInv, NothingYet
<1>3. /\ status \in [Messages -> Statuses] /\ batch \in [Lambdas -> SUBSET Messages]
      /\ pc \in [Lambdas -> Calls] /\ failed \in [Lambdas -> SUBSET Messages]
    BY DEF TypeOK, AssignTypeOK
<1>4. /\ batch'[i] = ms /\ pc'[i] \in {"report", "load_counters"}
      /\ failed'[i] \subseteq ms /\ (pc'[i] = "load_counters" => failed'[i] = {})
      /\ \A j \in Lambdas : j # i =>
            batch'[j] = batch[j] /\ pc'[j] = pc[j] /\ failed'[j] = failed[j]
    BY <1>1, <1>2, <1>3 DEF Goto, FailWith
<1>5. \A m \in Messages : Fresh(m)' => Fresh(m)
    <2>. SUFFICES ASSUME NEW m \in Messages, Fresh(m)' PROVE Fresh(m)
        OBVIOUS
    <2>1. CASE m \in ms
        BY <2>1 DEF Fresh
    <2>2. CASE m \notin ms
        <3>1. status'[m] = status[m]
            BY <1>1, <2>2
        <3>2. \A j \in Lambdas : m \in batch'[j] => j # i
            BY <1>4, <2>2
        <3>. QED BY <1>2, <1>4, <3>1, <3>2 DEF Fresh
    <2>. QED BY <2>1, <2>2
<1>6. BatchesApart'
    <2>. SUFFICES ASSUME NEW j \in Lambdas, NEW m \in batch'[j]
                  PROVE  status'[m] = "inflight" /\ \A k \in Lambdas : m \in batch'[k] => j = k
        BY DEF BatchesApart
    <2>1. m \in Messages /\ (m \in ms => status[m] = "queued")
        BY <1>3, <1>4
    <2>2. \A k \in Lambdas : m \in batch[k] =>
            status[m] = "inflight" /\ \A l \in Lambdas : m \in batch[l] => k = l
        BY DEF OnceInv, BatchesApart
    <2>. QED BY <1>1, <1>2, <1>4, <2>1, <2>2
<1>7. NothingYet'
    BY <1>2, <1>4 DEF OnceInv, NothingYet, Early
<1>8. \A j \in Lambdas : pc'[j] \in Puts => pc'[j] = pc[j] /\ failed'[j] = failed[j]
    BY <1>4 DEF Puts, LivePuts
<1>9. \A j \in Lambdas : failed'[j] = failed[j] \/ written[j] = {}
    BY <1>2, <1>4
<1>. QED BY <1>2, <1>5, <1>6, <1>7, <1>8, <1>9, OnceQuiet DEF tables

LEMMA OnceCalls ==
    ASSUME TypeOK, ClaimsInBatch, OnceInv, NEW i \in Lambdas,
           LoadCounters(i) \/ RegisteredIds(i) \/ FixupStragglers(i)
    PROVE  OnceInv'
<1>1. UNCHANGED <<tables, queueVars, batch, shard, todo, written>>
    BY DEF LoadCounters, RegisteredIds, FixupStragglers
<1>2. /\ batch \in [Lambdas -> SUBSET Messages] /\ pc \in [Lambdas -> Calls]
      /\ failed \in [Lambdas -> SUBSET Messages]
    BY DEF TypeOK, AssignTypeOK
<1>3. /\ \A j \in Lambdas : j # i => pc'[j] = pc[j] /\ failed'[j] = failed[j]
      /\ \/ pc[i] \in Early /\ failed'[i] \subseteq batch[i]
            /\ pc'[i] \in {"claim_live", "registered_ids", "claim_prequeue", "report"}
            /\ (pc'[i] # "report" => failed'[i] = failed[i])
         \/ failed'[i] = failed[i] /\ pc'[i] \in {"claim_straggler", "report"}
    <2>1. CASE LoadCounters(i)
        BY <1>2, <2>1 DEF LoadCounters, FailWith, Goto, Accepted, Early, OnceInv, NothingYet
    <2>2. CASE RegisteredIds(i)
        BY <1>2, <2>2 DEF RegisteredIds, Goto, Early, OnceInv, NothingYet
    <2>3. CASE FixupStragglers(i)
        BY <1>2, <2>3 DEF FixupStragglers, Goto
    <2>. QED BY <2>1, <2>2, <2>3
<1>4. \A m \in Messages : Fresh(m)' => Fresh(m)
    BY <1>1, <1>3 DEF Fresh, Early, queueVars
<1>5. BatchesApart'
    BY <1>1 DEF OnceInv, BatchesApart, queueVars
<1>6. NothingYet'
    BY <1>1, <1>3 DEF OnceInv, NothingYet, Early
<1>7. \A j \in Lambdas : pc'[j] \in Puts => pc'[j] = pc[j] /\ failed'[j] = failed[j]
    BY <1>3 DEF Puts, LivePuts
<1>8. \A j \in Lambdas : failed'[j] = failed[j] \/ written[j] = {}
    BY <1>3 DEF OnceInv, NothingYet
<1>. QED BY <1>1, <1>4, <1>5, <1>6, <1>7, <1>8, OnceQuiet DEF tables

(* What was given up is offered again; the rest is not. *)
LEMMA OnceReport ==
    ASSUME TypeOK, ClaimsInBatch, OnceInv, CleanFaults, NEW i \in Lambdas,
           Report(i) \/ Crash(i)
    PROVE  OnceInv'
<1>1. /\ status' = [m \in Messages |->
                      IF m \in failed[i]
                      THEN IF received[m] >= MaxReceives THEN "dead" ELSE "queued"
                      ELSE IF m \in batch[i] \ failed[i] THEN "acked" ELSE status[m]]
      /\ Forget(i) /\ UNCHANGED tables
    BY DEF Report, Crash, Return, Fault, CleanFaults
<1>2. /\ pc \in [Lambdas -> Calls] /\ batch \in [Lambdas -> SUBSET Messages]
      /\ shard \in [Lambdas -> Shards] /\ todo \in [Lambdas -> SUBSET Write]
      /\ written \in [Lambdas -> SUBSET Write] /\ failed \in [Lambdas -> SUBSET Messages]
    BY DEF TypeOK, AssignTypeOK
<1>3. /\ pc'[i] = "idle" /\ batch'[i] = {} /\ todo'[i] = {} /\ written'[i] = {}
      /\ failed'[i] = {}
      /\ \A j \in Lambdas : j # i =>
            /\ pc'[j] = pc[j] /\ batch'[j] = batch[j] /\ todo'[j] = todo[j]
            /\ written'[j] = written[j] /\ failed'[j] = failed[j] /\ shard'[j] = shard[j]
    BY <1>1, <1>2 DEF Forget, Goto
<1>4. failed[i] \subseteq batch[i] /\ BatchesApart
    BY DEF OnceInv, NothingYet
<1>5. \A m \in Messages : Fresh(m)' => Fresh(m)
    <2>. SUFFICES ASSUME NEW m \in Messages, Fresh(m)' PROVE Fresh(m)
        OBVIOUS
    <2>1. CASE m \in failed[i]
        BY <1>4, <2>1 DEF Fresh
    <2>2. CASE m \in batch[i] \ failed[i]
        <3>1. status'[m] = "acked" /\ \A j \in Lambdas : m \notin batch'[j]
            BY <1>1, <1>3, <1>4, <2>2 DEF BatchesApart
        <3>. QED BY <3>1 DEF Fresh
    <2>3. CASE m \notin batch[i]
        <3>1. status'[m] = status[m]
            BY <1>1, <1>4, <2>3
        <3>. QED BY <1>3, <3>1 DEF Fresh
    <2>. QED BY <2>1, <2>2, <2>3
<1>6. Unplaced' /\ CountedOnce'
    BY <1>1, <1>5 DEF OnceInv, Unplaced, CountedOnce, Counted, Opened, ResolveIndex, tables
<1>7. BatchesApart'
    <2>. SUFFICES ASSUME NEW j \in Lambdas, NEW m \in batch'[j]
                  PROVE  status'[m] = "inflight" /\ \A k \in Lambdas : m \in batch'[k] => j = k
        BY DEF BatchesApart
    <2>1. j # i /\ m \in batch[j] /\ m \in Messages
        BY <1>2, <1>3
    <2>2. m \notin batch[i] /\ status[m] = "inflight"
        BY <1>4, <2>1 DEF BatchesApart
    <2>. QED BY <1>1, <1>3, <1>4, <2>1, <2>2 DEF BatchesApart
<1>8. NothingYet'
    BY <1>3 DEF OnceInv, NothingYet
<1>9. WritesOnce'
    BY <1>3 DEF OnceInv, WritesOnce
<1>10. RowsWritten'
    BY <1>1, <1>3 DEF OnceInv, RowsWritten, tables
<1>11. StragglersOnly'
    BY <1>1, <1>3 DEF OnceInv, StragglersOnly, Stragglers, tables
<1>. QED BY <1>6, <1>7, <1>8, <1>9, <1>10, <1>11 DEF OnceInv

(* A claim hands each of its records one slot; nothing is written yet. *)
LEMMA SlotsApart ==
    ASSUME TypeOK, NEW i \in Lambdas, NEW g, NEW blocks, TakeSlots(i, g, blocks)
    PROVE  /\ \A x, y \in todo'[i] : x.m = y.m => x = y
           /\ \A x \in todo'[i] : x.m \in g
           /\ \A j \in Lambdas : j # i => todo'[j] = todo[j]
<1>1. todo \in [Lambdas -> SUBSET Write]
    BY DEF TypeOK, AssignTypeOK
<1>2. PICK slot \in blocks : todo' = [todo EXCEPT ![i] = SlotWrites(g, slot)]
    BY DEF TakeSlots
<1>3. todo'[i] = {[m |-> m, at |-> slot[m]] : m \in g}
    BY <1>1, <1>2 DEF SlotWrites
<1>. QED BY <1>1, <1>2, <1>3

LEMMA OnceClaim ==
    ASSUME TypeOK, ClaimsInBatch, OnceInv, NEW i \in Lambdas,
           ClaimPrequeueBlock(i) \/ ClaimLiveBlock(i)
    PROVE  OnceInv'
<1>1. /\ UNCHANGED <<shuffle_seed, cohort, prequeue, positions, status, batch, written>>
      /\ pc[i] \in {"claim_prequeue", "claim_live"}
    BY DEF ClaimPrequeueBlock, ClaimLiveBlock, queueVars
<1>2. /\ pc \in [Lambdas -> Calls] /\ shard \in [Lambdas -> Shards]
      /\ todo \in [Lambdas -> SUBSET Write] /\ failed \in [Lambdas -> SUBSET Messages]
    BY DEF TypeOK, AssignTypeOK
<1>3. /\ group[i] \subseteq batch[i] /\ failed[i] = {} /\ written[i] = {}
      /\ \A m \in batch[i] : m \in Messages => Fresh(m)
    BY <1>1 DEF ClaimsInBatch, OnceInv, NothingYet, Early, Fresh
<1>4. \A j \in Lambdas : j # i =>
        /\ pc'[j] = pc[j] /\ shard'[j] = shard[j] /\ todo'[j] = todo[j]
        /\ failed'[j] = failed[j]
    <2>1. CASE ClaimPrequeueBlock(i)
        BY <1>2, <2>1, SlotsApart DEF ClaimPrequeueBlock, FailWith, Goto
    <2>2. CASE ClaimLiveBlock(i)
        BY <1>2, <2>2, SlotsApart DEF ClaimLiveBlock, FailWith, Goto
    <2>. QED BY <2>1, <2>2
<1>5. \/ /\ pc'[i] \in {"put_prequeue", "put_live"} /\ failed'[i] = {}
         /\ \A x, y \in todo'[i] : x.m = y.m => x = y
      \/ pc'[i] = "report" /\ failed'[i] = group[i]
    <2>1. CASE ClaimPrequeueBlock(i)
        BY <1>2, <1>3, <2>1, SlotsApart DEF ClaimPrequeueBlock, FailWith, Goto
    <2>2. CASE ClaimLiveBlock(i)
        BY <1>2, <1>3, <2>2, SlotsApart DEF ClaimLiveBlock, FailWith, Goto
    <2>. QED BY <2>1, <2>2
<1>6. \A m \in Messages : Fresh(m)' => Fresh(m)
    BY <1>1, <1>3, <1>4 DEF Fresh
<1>7. Unplaced' /\ CountedOnce'
    BY <1>1, <1>6 DEF OnceInv, Unplaced, CountedOnce, Counted, Opened, ResolveIndex
<1>8. BatchesApart'
    BY <1>1 DEF OnceInv, BatchesApart
<1>9. NothingYet'
    BY <1>1, <1>3, <1>4, <1>5 DEF OnceInv, NothingYet, Early
<1>10. WritesOnce'
    BY <1>4, <1>5 DEF OnceInv, WritesOnce, Puts, LivePuts
<1>11. RowsWritten'
    BY <1>1, <1>3, <1>4 DEF OnceInv, RowsWritten
<1>12. StragglersOnly'
    BY <1>1, <1>4, <1>5 DEF OnceInv, StragglersOnly, Stragglers
<1>. QED BY <1>7, <1>8, <1>9, <1>10, <1>11, <1>12 DEF OnceInv

LEMMA OnceClaimStraggler ==
    ASSUME TypeOK, ClaimsInBatch, OnceInv, NEW i \in Lambdas, ClaimStragglerBlock(i)
    PROVE  OnceInv'
<1>1. /\ UNCHANGED <<shuffle_seed, cohort, prequeue, positions, status, batch, written, shard,
                     failed>>
      /\ pc[i] = "claim_straggler"
    BY DEF ClaimStragglerBlock, queueVars
<1>2. /\ pc \in [Lambdas -> Calls] /\ todo \in [Lambdas -> SUBSET Write]
    BY DEF TypeOK, AssignTypeOK
<1>. DEFINE g == {w.m : w \in Stragglers(i)}
<1>3. \/ UNCHANGED todo /\ pc'[i] = "report"
      \/ (\E blocks : TakeSlots(i, g, blocks)) /\ pc'[i] = "put_straggler"
    BY <1>2 DEF ClaimStragglerBlock, Goto
<1>. HIDE DEF g
<1>4. \A j \in Lambdas : j # i => pc'[j] = pc[j] /\ todo'[j] = todo[j]
    BY <1>2, <1>3, SlotsApart DEF ClaimStragglerBlock, Goto
<1>5. pc'[i] = "put_straggler" =>
        /\ \A x, y \in todo'[i] : x.m = y.m => x = y
        /\ \A x \in todo'[i] : x.m \in g
    BY <1>3, SlotsApart
<1>6. \A m \in Messages : Fresh(m)' => Fresh(m)
    BY <1>1, <1>3, <1>4 DEF Fresh, Early
<1>7. Unplaced' /\ CountedOnce'
    BY <1>1, <1>6 DEF OnceInv, Unplaced, CountedOnce, Counted, Opened, ResolveIndex
<1>8. BatchesApart' /\ NothingYet'
    BY <1>1, <1>3, <1>4 DEF OnceInv, BatchesApart, NothingYet, Early
<1>9. \A x \in g : x \notin failed[i]
    BY DEF g, Stragglers, OnceInv, RowsWritten
<1>10. WritesOnce'
    BY <1>1, <1>3, <1>4, <1>5, <1>9 DEF OnceInv, WritesOnce, Puts, LivePuts
<1>11. RowsWritten'
    BY <1>1, <1>3, <1>4 DEF OnceInv, RowsWritten
<1>12. StragglersOnly'
    <2>1. \A x \in g : \E w \in Stragglers(i) : w.m = x
        BY DEF g
    <2>. QED BY <1>1, <1>3, <1>4, <1>5, <2>1 DEF OnceInv, StragglersOnly, Stragglers
<1>. QED BY <1>7, <1>8, <1>10, <1>11, <1>12 DEF OnceInv

(* A put that landed leaves its message with nobody; one that failed       *)
(* leaves it where it was.                                                 *)
LEMMA OncePutPrequeue ==
    ASSUME IInv, ClaimsInBatch, OnceInv, CleanFaults, JoinsOnce, NEW i \in Lambdas,
           PutPrequeue(i)
    PROVE  OnceInv'
<1>1. /\ pc \in [Lambdas -> Calls] /\ todo \in [Lambdas -> SUBSET Write]
      /\ written \in [Lambdas -> SUBSET Write] /\ failed \in [Lambdas -> SUBSET Messages]
      /\ prequeue \in [Visitors -> Row \cup {NoRow}] /\ shard \in [Lambdas -> Shards]
      /\ batch \in [Lambdas -> SUBSET Messages]
    BY DEF IInv, TypeOK, TablesTypeOK, AssignTypeOK
<1>2. /\ UNCHANGED <<shuffle_seed, cohort, positions, status, batch, shard>>
      /\ pc[i] = "put_prequeue"
    BY DEF PutPrequeue, queueVars
<1>3. PICK w \in todo[i] :
        /\ todo' = [todo EXCEPT ![i] = @ \ {w}]
        /\ \/ /\ PutRow(Requester[w.m], [shard |-> shard[i], local |-> w.at])
              /\ written' = [written EXCEPT ![i] =
                               IF prequeue[Requester[w.m]] = NoRow THEN @ \cup {w} ELSE @]
              /\ UNCHANGED failed
           \/ /\ UNCHANGED <<prequeue, written>>
              /\ failed' = [failed EXCEPT ![i] = @ \cup {w.m}]
        /\ \/ Goto(i, "put_prequeue") /\ todo[i] # {w}
           \/ Goto(i, "fixup") \/ Goto(i, "report")
    BY DEF PutPrequeue, Fault, CleanFaults
<1>. DEFINE u == Requester[w.m]
            row == [shard |-> shard[i], local |-> w.at]
<1>4. /\ w.m \in Messages /\ u \in Visitors /\ w.m \in batch[i] /\ row # NoRow
      /\ w.at \in Nat /\ shard[i] \in Shards
    BY <1>1, MessagesAssumption DEF Write, ClaimsInBatch, NoRow, Shards
<1>5. Fresh(w.m)
    BY <1>2, <1>4 DEF Fresh
<1>6. prequeue[u] = NoRow /\ positions[u] = NoPosition
    BY <1>4, <1>5 DEF OnceInv, Unplaced
<1>7. /\ w.m \notin failed[i]
      /\ \A y \in todo[i] : y.m = w.m => y = w
      /\ status[w.m] = "inflight" /\ \A j \in Lambdas : w.m \in batch[j] => j = i
    BY <1>2, <1>4 DEF OnceInv, WritesOnce, BatchesApart, Puts
<1>8. \A j \in Lambdas : j # i =>
        /\ pc'[j] = pc[j] /\ todo'[j] = todo[j] /\ written'[j] = written[j]
        /\ failed'[j] = failed[j]
    BY <1>1, <1>3 DEF Goto
<1>9. /\ todo'[i] = todo[i] \ {w} /\ pc'[i] \in {"put_prequeue", "fixup", "report"}
      /\ \/ prequeue' = [prequeue EXCEPT ![u] = row]
            /\ written'[i] = written[i] \cup {w} /\ failed'[i] = failed[i]
         \/ prequeue' = prequeue /\ written'[i] = written[i]
            /\ failed'[i] = failed[i] \cup {w.m}
    BY <1>1, <1>3, <1>6 DEF Goto, PutRow
<1>10. \A v \in Visitors : v # u => prequeue'[v] = prequeue[v]
    BY <1>1, <1>9
<1>. HIDE DEF u, row
<1>11. \A m \in Messages : m # w.m => Requester[m] # u
    BY <1>4 DEF JoinsOnce, u
<1>12. \A m \in Messages : m # w.m /\ Fresh(m)' => Fresh(m)
    BY <1>2, <1>8, <1>9 DEF Fresh, Early
<1>13. Unplaced'
    <2>. SUFFICES ASSUME NEW m \in Messages, Fresh(m)'
                  PROVE  prequeue'[Requester[m]] = NoRow /\ positions'[Requester[m]] = NoPosition
        BY DEF Unplaced
    <2>1. CASE m # w.m
        BY <1>2, <1>10, <1>11, <1>12, <2>1, MessagesAssumption DEF OnceInv, Unplaced
    <2>2. CASE m = w.m /\ prequeue' = prequeue
        BY <1>2, <1>6, <2>2 DEF u
    <2>3. CASE m = w.m /\ failed'[i] = failed[i]
        BY <1>2, <1>7, <1>9, <2>3 DEF Fresh, Early
    <2>. QED BY <1>9, <2>1, <2>2, <2>3
<1>14. CountedOnce'
    BY <1>2, <1>6, <1>10 DEF OnceInv, CountedOnce, Counted, Opened, ResolveIndex
<1>15. BatchesApart'
    BY <1>2 DEF OnceInv, BatchesApart
<1>16. NothingYet'
    BY <1>2, <1>4, <1>8, <1>9 DEF OnceInv, NothingYet, Early
<1>17. WritesOnce'
    BY <1>2, <1>7, <1>8, <1>9 DEF OnceInv, WritesOnce, Puts, LivePuts
<1>18. RowsWritten'
    <2>. SUFFICES ASSUME NEW j \in Lambdas, NEW x \in written'[j]
                  PROVE  /\ x.m \notin failed'[j]
                         /\ prequeue'[Requester[x.m]] = [shard |-> shard[j], local |-> x.at]
                         /\ pc'[j] = "put_prequeue" => \A y \in todo'[j] : y.m # x.m
        BY <1>2 DEF RowsWritten
    <2>1. CASE x \in written[j]
        <3>1. /\ x.m \notin failed[j]
              /\ prequeue[Requester[x.m]] = [shard |-> shard[j], local |-> x.at]
              /\ pc[j] = "put_prequeue" => \A y \in todo[j] : y.m # x.m
              /\ x.m \in Messages /\ shard[j] \in Shards
            BY <1>1, <2>1 DEF OnceInv, RowsWritten, Write
        <3>2. prequeue[Requester[x.m]] # NoRow
            BY <3>1 DEF NoRow, Shards
        <3>3. Requester[x.m] # u /\ x.m # w.m
            BY <1>6, <3>2 DEF u
        <3>. QED BY <1>2, <1>8, <1>9, <1>10, <3>1, <3>3, MessagesAssumption
    <2>2. CASE x \notin written[j]
        <3>1. j = i /\ x = w /\ prequeue' = [prequeue EXCEPT ![u] = row]
              /\ failed'[i] = failed[i]
            BY <1>8, <1>9, <2>2
        <3>2. prequeue'[u] = row
            BY <1>1, <1>4, <3>1 DEF u
        <3>. QED BY <1>7, <1>9, <3>1, <3>2 DEF u, row
    <2>. QED BY <2>1, <2>2
<1>19. StragglersOnly'
    BY <1>2, <1>8, <1>9 DEF OnceInv, StragglersOnly, Stragglers
<1>. QED BY <1>13, <1>14, <1>15, <1>16, <1>17, <1>18, <1>19 DEF OnceInv

LEMMA OncePutPosition ==
    ASSUME IInv, ClaimsInBatch, OnceInv, CleanFaults, JoinsOnce, NEW i \in Lambdas,
           PutPosition(i)
    PROVE  OnceInv'
<1>1. /\ pc \in [Lambdas -> Calls] /\ todo \in [Lambdas -> SUBSET Write]
      /\ written \in [Lambdas -> SUBSET Write] /\ failed \in [Lambdas -> SUBSET Messages]
      /\ positions \in [Visitors -> Nat \cup {NoPosition}] /\ shard \in [Lambdas -> Shards]
      /\ batch \in [Lambdas -> SUBSET Messages]
    BY DEF IInv, TypeOK, TablesTypeOK, AssignTypeOK
<1>2. /\ UNCHANGED <<shuffle_seed, cohort, prequeue, status, batch, shard, written>>
      /\ pc[i] \in {"put_live", "put_straggler"}
    BY DEF PutPosition, queueVars
<1>3. PICK w \in todo[i] :
        /\ todo' = [todo EXCEPT ![i] = @ \ {w}]
        /\ \/ PutPositionRow(Requester[w.m], w.at) /\ UNCHANGED failed
           \/ /\ UNCHANGED positions
              /\ failed' = [failed EXCEPT ![i] =
                              IF pc[i] = "put_live" THEN @ \cup {w.m} ELSE @]
        /\ Goto(i, pc[i]) \/ Goto(i, "report")
    BY DEF PutPosition, Fault, CleanFaults
<1>. DEFINE u == Requester[w.m]
<1>4. w.m \in Messages /\ u \in Visitors /\ w.m \in batch[i]
    BY <1>1, MessagesAssumption DEF Write, ClaimsInBatch
<1>5. /\ w.m \notin failed[i]
      /\ \A y \in todo[i] : y.m = w.m => y = w
      /\ status[w.m] = "inflight" /\ \A j \in Lambdas : w.m \in batch[j] => j = i
    BY <1>2, <1>4 DEF OnceInv, WritesOnce, BatchesApart, Puts, LivePuts
<1>6. ~Counted(u)
    <2>1. CASE pc[i] = "put_live"
        <3>1. Fresh(w.m)
            BY <1>4, <2>1 DEF Fresh
        <3>. QED BY <1>4, <3>1 DEF OnceInv, Unplaced, Counted
    <2>2. CASE pc[i] = "put_straggler"
        <3>1. PICK x \in Stragglers(i) : x.m = w.m
            BY <2>2 DEF OnceInv, StragglersOnly
        <3>2. x \in written[i] /\ Assign(cohort, shard[i], x.at) = LiveJoin
            BY <3>1 DEF Stragglers
        <3>3. prequeue[u] = [shard |-> shard[i], local |-> x.at]
            BY <3>1, <3>2 DEF OnceInv, RowsWritten
        <3>. QED BY <3>2, <3>3 DEF Counted, ResolveIndex
    <2>. QED BY <1>2, <2>1, <2>2
<1>7. \A j \in Lambdas : j # i =>
        pc'[j] = pc[j] /\ todo'[j] = todo[j] /\ failed'[j] = failed[j]
    BY <1>1, <1>3 DEF Goto
<1>8. /\ todo'[i] = todo[i] \ {w} /\ pc'[i] \in {pc[i], "report"}
      /\ \/ failed'[i] = failed[i]
         \/ pc[i] = "put_live" /\ positions' = positions /\ failed'[i] = failed[i] \cup {w.m}
      /\ \A v \in Visitors : v # u => positions'[v] = positions[v]
    BY <1>1, <1>3 DEF Goto, PutPositionRow
<1>. HIDE DEF u
<1>9. \A m \in Messages : m # w.m => Requester[m] # u
    BY <1>4 DEF JoinsOnce, u
<1>10. \A m \in Messages : m # w.m /\ Fresh(m)' => Fresh(m)
    BY <1>2, <1>7, <1>8 DEF Fresh, Early
<1>11. Unplaced'
    <2>. SUFFICES ASSUME NEW m \in Messages, Fresh(m)'
                  PROVE  prequeue'[Requester[m]] = NoRow /\ positions'[Requester[m]] = NoPosition
        BY DEF Unplaced
    <2>1. CASE m # w.m
        BY <1>2, <1>8, <1>9, <1>10, <2>1, MessagesAssumption DEF OnceInv, Unplaced
    <2>2. CASE m = w.m /\ failed'[i] # failed[i]
        <3>1. Fresh(w.m)
            BY <1>4, <1>8, <2>2 DEF Fresh
        <3>. QED BY <1>2, <1>4, <1>8, <2>2, <3>1 DEF OnceInv, Unplaced
    <2>3. CASE m = w.m /\ failed'[i] = failed[i]
        BY <1>2, <1>5, <1>8, <2>3 DEF Fresh, Early
    <2>. QED BY <2>1, <2>2, <2>3
<1>12. CountedOnce'
    BY <1>2, <1>6, <1>8 DEF OnceInv, CountedOnce, Counted, Opened, ResolveIndex
<1>13. BatchesApart'
    BY <1>2 DEF OnceInv, BatchesApart
<1>14. NothingYet'
    BY <1>2, <1>4, <1>7, <1>8 DEF OnceInv, NothingYet, Early
<1>15. WritesOnce'
    BY <1>2, <1>5, <1>7, <1>8 DEF OnceInv, WritesOnce, Puts, LivePuts
<1>16. RowsWritten'
    <2>1. pc[i] = "put_live" => \A x \in written[i] : x.m # w.m
        <3>. SUFFICES ASSUME pc[i] = "put_live", NEW x \in written[i], x.m = w.m PROVE FALSE
            OBVIOUS
        <3>1. prequeue[u] = [shard |-> shard[i], local |-> x.at]
            BY DEF OnceInv, RowsWritten, u
        <3>2. prequeue[u] = NoRow
            BY <1>4 DEF OnceInv, Unplaced, Fresh, u
        <3>. QED BY <1>1, <3>1, <3>2 DEF NoRow, Shards
    <2>. QED BY <1>2, <1>7, <1>8, <2>1 DEF OnceInv, RowsWritten
<1>17. StragglersOnly'
    BY <1>2, <1>7, <1>8 DEF OnceInv, StragglersOnly, Stragglers
<1>. QED BY <1>11, <1>12, <1>13, <1>14, <1>15, <1>16, <1>17 DEF OnceInv

(* Before the open nobody has a position and nobody is being fixed up; the *)
(* open gives nobody either.                                               *)
LEMMA OnceOpen ==
    ASSUME IInv, OnceInv, UNCHANGED <<prequeue, positions, queueVars, lambdaVars>>,
           Opened => UNCHANGED <<shuffle_seed, cohort>>
    PROVE  OnceInv'
<1>1. UNCHANGED <<status, pc, batch, shard, todo, written, failed>>
    BY DEF queueVars, lambdaVars
<1>2. \A m \in Messages : Fresh(m)' => Fresh(m)
    BY <1>1 DEF Fresh
<1>3. BatchesApart' /\ NothingYet'
    BY <1>1 DEF OnceInv, BatchesApart, NothingYet
<1>4. CASE Opened
    BY <1>1, <1>2, <1>3, <1>4, OnceQuiet
<1>5. CASE ~Opened
    <2>1. \A i \in Lambdas : pc[i] # "put_straggler"
        BY <1>5 DEF IInv, SlotsOwned, LiveAfterOpen, LiveCalls
    <2>2. \A v \in Visitors : positions[v] = NoPosition
        BY <1>5 DEF IInv, SlotsOwned, PositionsIssued
    <2>3. Unplaced' /\ CountedOnce'
        BY <1>2, <2>2 DEF OnceInv, Unplaced, CountedOnce
    <2>4. WritesOnce' /\ RowsWritten'
        BY <1>1 DEF OnceInv, WritesOnce, RowsWritten
    <2>5. StragglersOnly'
        BY <1>1, <2>1 DEF StragglersOnly
    <2>. QED BY <1>3, <2>3, <2>4, <2>5 DEF OnceInv
<1>. QED BY <1>4, <1>5

LEMMA OnceNext ==
    ASSUME LineInv, OnceInv, CleanFaults, JoinsOnce, [Next]_vars
    PROVE  OnceInv'
<1>1. IInv /\ TypeOK /\ ClaimsInBatch
    BY DEF LineInv, IInv
<1>2. CASE AssignNext
    BY <1>1, <1>2, OnceSend, OnceReceive, OnceCalls, OnceReport, OnceClaim, OnceClaimStraggler,
       OncePutPrequeue, OncePutPosition DEF AssignNext, Invocation
<1>3. CASE ~AssignNext
    <2>1. UNCHANGED <<prequeue, positions, queueVars, lambdaVars>>
        BY <1>3 DEF Next, OpenNext, Fire, OpenCall, ReadShardCount, ReadShardCountsFails,
           CohortOverflows, WriteOpen, SetOpenOutputs, IsAlreadyOpen, ApplyPhase,
           ForceMaintenance, tables, vars
    <2>2. Opened => UNCHANGED <<shuffle_seed, cohort>>
        BY <1>3 DEF Next, OpenNext, Fire, OpenCall, ReadShardCount, ReadShardCountsFails,
           CohortOverflows, WriteOpen, IsAlreadyOpen, OpenGuard, ApplyPhase,
           ForceMaintenance, tables, vars
    <2>. QED BY <1>1, <2>1, <2>2, OnceOpen
<1>. QED BY <1>2, <1>3

(* REQUIREMENTS F2.5, as far as it holds: a visitor who sends one join     *)
(* that no call loses track of is in the line once, however the open, its  *)
(* retries, clean failures and the operator's phases cross the join.       *)
THEOREM CountedOnceCorrect ==
    ASSUME JoinsOnce, CleanFaults
    PROVE  Spec => []CountedOnce
<1>1. Init => LineInv /\ OnceInv
    BY InvInit, BatchInit, OnceInit DEF LineInv
<1>2. LineInv /\ OnceInv /\ [Next]_vars => (LineInv /\ OnceInv)'
    BY LineInvNext, OnceNext
<1>3. OnceInv => CountedOnce
    BY DEF OnceInv
<1>. QED BY <1>1, <1>2, <1>3, PTL DEF Spec
=============================================================================
