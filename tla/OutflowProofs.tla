---------------------------- MODULE OutflowProofs ---------------------------
(***************************************************************************)
(* Proofs about Outflow: the cursor and who is admitted behind it, for any *)
(* number of overlapping executions and calls, any line, any rates and any *)
(* faults.                                                                 *)
(***************************************************************************)
EXTENDS Outflow, CohortProofs, FiniteSetTheorems

-----------------------------------------------------------------------------
(* The arithmetic of compute_release. *)

(* What compute_release is given. *)
Inputs == [admitting : BOOLEAN, serving : Nat, last_serving : Nat,
           last_arrivals : Nat, queue : Nat, target : Nat,
           rate : Tenths \cup {NoRate}, elapsed : Nat]

LEMMA QuotientType ==
    ASSUME NEW a \in Nat, NEW b \in Nat, b > 0
    PROVE  a \div b \in Nat
OBVIOUS

(* m is at most b, so ten m over b is at most ten. *)
LEMMA TenthsOfPart ==
    ASSUME NEW m \in Nat, NEW b \in Nat, b > 0, m <= b
    PROVE  (10 * m) \div b \in 0 .. 10
<1>. DEFINE q == (10 * m) \div b
<1>1. q \in Nat
    BY QuotientType
<1>2. b * q <= 10 * m
    OBVIOUS
<1>3. ASSUME q >= 11 PROVE FALSE
    <2>1. b * 11 <= b * q
        BY <1>1, <1>3
    <2>. QED BY <2>1, <1>1, <1>2
<1>. QED BY <1>1, <1>3

LEMMA SmoothedType ==
    ASSUME NEW in \in Inputs, NEW total \in Nat
    PROVE  Smoothed(in, total) \in Tenths
<1>. DEFINE r == ReleasedLast(in)
            m == Least(SaturatingSub(total, in.last_arrivals), r)
<1>0. in.serving \in Nat /\ in.last_serving \in Nat /\ in.last_arrivals \in Nat
      /\ in.rate \in Tenths \cup {NoRate}
    BY DEF Inputs
<1>1. r \in Nat /\ m \in Nat /\ m <= r
    BY <1>0 DEF ReleasedLast, Least, Most, SaturatingSub
<1>2. CASE Unmeasurable(in)
    BY <1>0, <1>2 DEF Smoothed, Most, Tenths, NoRate
<1>3. CASE ~Unmeasurable(in)
    <2>1. r > 0
        BY <1>1, <1>3 DEF Unmeasurable
    <2>2. (10 * m) \div r \in 0 .. 10
        BY <1>1, <2>1, TenthsOfPart
    <2>3. ObservedNoShow(in, total) \in 0 .. 10
        BY <2>2 DEF ObservedNoShow
    <2>4. \A o, p \in 0 .. 10 : (3 * o + 7 * p) \div 10 \in 0 .. 10
        OBVIOUS
    <2>. QED BY <1>0, <1>3, <2>3, <2>4 DEF Smoothed, Tenths
<1>. QED BY <1>2, <1>3

LEMMA AskedType ==
    ASSUME NEW in \in Inputs, NEW total \in Nat
    PROVE  Asked(in, total) \in Nat
<1>. DEFINE s == Smoothed(in, total)
<1>1. s \in 0 .. 10 /\ in.target \in Nat
    BY SmoothedType DEF Inputs, Tenths
<1>2. s < 10 => (20 * in.target + (10 - s)) \div (2 * (10 - s)) \in Nat
    <2>. SUFFICES ASSUME s < 10
                  PROVE (20 * in.target + (10 - s)) \div (2 * (10 - s)) \in Nat
        OBVIOUS
    <2>1. 20 * in.target + (10 - s) \in Nat /\ 2 * (10 - s) \in Nat /\ 2 * (10 - s) > 0
        BY <1>1
    <2>. QED BY <2>1, QuotientType
<1>3. BoundedRelease(in.target, s) \in Nat
    BY <1>1, <1>2 DEF BoundedRelease, Least
<1>. QED BY <1>1, <1>3 DEF Asked

(* The clamps of compute_release: forwards, and inside the line it read. *)
LEMMA ReleaseInLine ==
    ASSUME NEW in \in Inputs, NEW total \in Nat, in.serving <= in.queue + 1
    PROVE  /\ ComputeRelease(in, total) \in Decision
           /\ ComputeRelease(in, total).expected = in.serving
           /\ in.serving <= ComputeRelease(in, total).next
           /\ ComputeRelease(in, total).next <= in.queue + 1
<1>1. Asked(in, total) \in Nat /\ Smoothed(in, total) \in Tenths
    BY AskedType, SmoothedType
<1>2. in.serving \in Nat /\ in.queue \in Nat
    BY DEF Inputs
<1>3. /\ NextServing(in, total) \in Nat
      /\ in.serving <= NextServing(in, total)
      /\ NextServing(in, total) <= in.queue + 1
    BY <1>1, <1>2 DEF NextServing, Least, Most
<1>. QED BY <1>1, <1>2, <1>3 DEF ComputeRelease, Decision

-----------------------------------------------------------------------------
(* Type correctness. *)

TypeInv == TypeOK /\ Published

LEMMA FaultsType ==
    ASSUME faults \in 0 .. MaxFaults
    PROVE  /\ \A kind : Fault(kind) => faults' \in 0 .. MaxFaults
           /\ NoFault => faults' \in 0 .. MaxFaults
BY FaultAssumption DEF Fault, NoFault

LEMMA TypeInit == Init => TypeInv
<1>. SUFFICES ASSUME Init PROVE TypeInv
    OBVIOUS
<1>1. TablesTypeOK
    BY ShardsAssumption, FaultAssumption
       DEF Init, LineInit, TablesTypeOK, Phases, NoCohort, CohortOffsets, Shards
<1>2. ServingTypeOK
    BY FailOpenAssumption DEF Init, ServingInit, ServingTypeOK
<1>3. ControllerTypeOK
    BY PassesAssumption, StaleAssumption
       DEF Init, ControllerInit, ControllerTypeOK, NoItem, Item, NoDecision, Decision, Tenths
<1>4. AdmissionTypeOK
    BY DEF Init, AdmissionInit, AdmissionTypeOK, NoCounters
<1>5. Published /\ holdMoves \in Nat /\ given \in [Visitors -> Nat \cup {NoPosition}]
    BY DEF Init, LineInit, Published, Opened
<1>. QED BY <1>1, <1>2, <1>3, <1>4, <1>5 DEF TypeInv, TypeOK

(* A step of the line keeps the tables, and only lengthens the line. *)
LEMMA LineTypes ==
    ASSUME TypeInv, LineNext, faults' = faults
    PROVE  TablesTypeOK' /\ Published' /\ queue_counter' >= queue_counter
<1>. USE DEF TypeInv, TypeOK, TablesTypeOK
<1>1. CASE IssueLocal
    <2>1. shard_count' \in [Shards -> Nat]
        BY <1>1 DEF IssueLocal
    <2>. QED BY <1>1, <2>1 DEF IssueLocal, Published, Opened
<1>2. CASE Open
    <2>1. PICK counts \in [Shards -> 0 .. U64_MAX] :
            /\ FromCounts(counts).participant_count <= U64_MAX
            /\ cohort' = FromCounts(counts)
            /\ queue_counter' = FromCounts(counts).participant_count
        BY <1>2 DEF Open
    <2>2. counts \in [Shards -> Nat]
        BY U64Assumption
    <2>3. cohort' \in CohortOffsets /\ queue_counter' \in Nat
        BY <2>1, <2>2, FromCountsType DEF CohortOffsets
    <2>4. shuffle_seed' \in Seeds /\ phase' \in Phases /\ queue_counter = 0
        BY <1>2 DEF Open, Phases, Published
    <2>5. Published'
        BY <2>1, <2>2, <2>4, SeedAssumption DEF Published, Opened
    <2>. QED BY <1>2, <2>3, <2>4, <2>5 DEF Open
<1>3. CASE IssueLive
    <2>1. queue_counter' \in Nat /\ queue_counter' >= queue_counter
        BY <1>3 DEF IssueLive
    <2>. QED BY <1>3, <2>1 DEF IssueLive, Published, Opened
<1>4. ASSUME NEW v \in Visitors, Register(v)
      PROVE  TablesTypeOK' /\ Published' /\ queue_counter' >= queue_counter
    <2>1. prequeue' \in [Visitors -> Row \cup {NoRow}]
        BY <1>4 DEF Register, Row
    <2>. QED BY <1>4, <2>1 DEF Register, Published, Opened
<1>5. ASSUME NEW v \in Visitors, Join(v)
      PROVE  TablesTypeOK' /\ Published' /\ queue_counter' >= queue_counter
    <2>1. cohort.participant_count \in Nat
        BY DEF CohortOffsets
    <2>2. positions' \in [Visitors -> Nat \cup {NoPosition}]
        BY <1>5, <2>1 DEF Join
    <2>. QED BY <1>5, <2>2 DEF Join, Published, Opened
<1>6. ASSUME NEW to \in Phases, SetPhase(to)
      PROVE  TablesTypeOK' /\ Published' /\ queue_counter' >= queue_counter
    BY <1>6 DEF SetPhase, Published, Opened
<1>. QED BY <1>1, <1>2, <1>3, <1>4, <1>5, <1>6 DEF LineNext

(* Ending a pass resets the execution. *)
LEMMA EndedTypes ==
    ASSUME ControllerTypeOK, NEW e \in Executions, NEW failed \in BOOLEAN,
           EndPass(e, failed)
    PROVE  /\ cpc' \in [Executions -> {"waiting", "read_arrivals", "write_release"}]
           /\ pass' \in [Executions -> 0 .. PASSES - 1]
           /\ gap' \in [Executions -> 0 .. 1]
           /\ item' \in [Executions -> Item]
           /\ decision' \in [Executions -> Decision]
           /\ age' \in [Executions -> 0 .. STALE]
<1>1. NoItem \in Item /\ NoDecision \in Decision
    BY StaleAssumption DEF NoItem, Item, NoDecision, Decision, Tenths
<1>2. pass' \in [Executions -> 0 .. PASSES - 1]
    BY PassesAssumption DEF ControllerTypeOK, EndPass, Ended
<1>. QED BY <1>1, <1>2, StaleAssumption DEF ControllerTypeOK, EndPass, Ended

LEMMA ControllerTypes ==
    ASSUME TypeInv, PassesBehind, NEW e \in Executions, UNCHANGED <<tables, arrivals>>,
           PassStep(e) \/ PassFails(e)
    PROVE  ControllerTypeOK' /\ serving_counter' \in Nat /\ faults' \in 0 .. MaxFaults
<1>. USE DEF TypeInv, TypeOK
<1>1. CASE ReadItem(e)
    <2>1. item' \in [Executions -> Item]
        BY <1>1 DEF ReadItem, Item, ControllerTypeOK, ServingTypeOK, TablesTypeOK, Admitting
    <2>. QED BY <1>1, <2>1, StaleAssumption, FaultsType
             DEF ReadItem, ControllerTypeOK, ServingTypeOK, TablesTypeOK, baselineVars
<1>2. CASE ReadArrivals(e)
    <2>1. PICK total \in 0 .. arrivals :
            /\ (total = arrivals /\ NoFault) \/ (total # arrivals /\ Fault("stale"))
            /\ \/ /\ item[e].admitting
                  /\ decision' = [decision EXCEPT ![e] = ComputeRelease(item[e], total)]
                  /\ cpc' = [cpc EXCEPT ![e] = "write_release"]
                  /\ item' = [item EXCEPT ![e] = NoItem]
                  /\ UNCHANGED <<pass, gap, age>>
               \/ ~item[e].admitting /\ EndPass(e, FALSE)
        BY <1>2 DEF ReadArrivals
    <2>2. total \in Nat /\ faults' \in 0 .. MaxFaults
        BY <2>1, FaultsType DEF ServingTypeOK, TablesTypeOK
    <2>3. UNCHANGED <<serving_counter, baselineVars>>
        BY <1>2 DEF ReadArrivals
    <2>4. CASE item[e].admitting
        <3>1. item[e] \in Inputs
            <4>1. item[e] \in Item
                BY DEF ControllerTypeOK
            <4>2. \A t \in Rates \cup {0} : t \in Nat
                BY RatesAssumption
            <4>3. \A t \in 0 .. STALE : t \in Nat
                BY StaleAssumption
            <4>. QED BY <4>1, <4>2, <4>3 DEF Item, Inputs
        <3>2. ComputeRelease(item[e], total) \in Decision
            BY <1>2, <2>2, <3>1, ReleaseInLine DEF PassesBehind, ReadsBehind, ReadArrivals
        <3>3. NoItem \in Item
            BY StaleAssumption DEF NoItem, Item, Tenths
        <3>. QED BY <2>1, <2>2, <2>3, <2>4, <3>2, <3>3
                 DEF ControllerTypeOK, ServingTypeOK, baselineVars
    <2>5. CASE ~item[e].admitting
        BY <2>1, <2>2, <2>3, <2>5, EndedTypes
           DEF ControllerTypeOK, ServingTypeOK, baselineVars
    <2>. QED BY <2>4, <2>5
<1>3. CASE WriteRelease(e)
    <2>1. faults' \in 0 .. MaxFaults
        BY <1>3, FaultsType DEF WriteRelease, TablesTypeOK
    <2>2. \E failed \in BOOLEAN : EndPass(e, failed)
        BY <1>3 DEF WriteRelease
    <2>3. Land(e) \/ UNCHANGED <<serving_counter, baselineVars>>
        BY <1>3 DEF WriteRelease
    <2>4. CASE Land(e)
        <3>1. decision[e] \in Decision /\ age[e] \in 0 .. STALE
            BY DEF ControllerTypeOK
        <3>. QED BY <2>1, <2>2, <2>4, <3>1, EndedTypes DEF Land, Decision, ControllerTypeOK
    <2>5. CASE UNCHANGED <<serving_counter, baselineVars>>
        BY <2>1, <2>2, <2>5, EndedTypes DEF ControllerTypeOK, ServingTypeOK, baselineVars
    <2>. QED BY <2>3, <2>4, <2>5
<1>4. CASE PassFails(e)
    BY <1>4, FaultsType, EndedTypes
       DEF PassFails, ControllerTypeOK, ServingTypeOK, TablesTypeOK, baselineVars
<1>. QED BY <1>1, <1>2, <1>3, <1>4 DEF PassStep

(* A call that ends forgets everything. *)
LEMMA RespondTypes ==
    ASSUME AdmissionTypeOK, NEW c \in Tabs, Respond(c), UNCHANGED admissionRows
    PROVE  AdmissionTypeOK'
BY DEF AdmissionTypeOK, Respond, Then, admissionRows, NoCounters

LEMMA DecideTypes ==
    ASSUME AdmissionTypeOK, NEW c \in Tabs, NEW p \in Nat, Decide(c, p),
           UNCHANGED admissionRows
    PROVE  AdmissionTypeOK'
<1>1. CASE Respond(c)
    BY <1>1, RespondTypes
<1>2. CASE ~Respond(c)
    BY <1>2 DEF Decide, AdmissionTypeOK, Then, admissionRows
<1>. QED BY <1>1, <1>2

(* A call in flight has a visitor. *)
Attended == \A c \in Tabs : apc[c] # "idle" => who[c] \in Visitors

LEMMA AttendedStep ==
    ASSUME AdmissionTypeOK, Attended, AdmissionNext
    PROVE  Attended'
<1>1. PICK c \in Tabs :
        \/ \E v \in Visitors : LoadAdmission(c, v)
        \/ LoadPosition(c) \/ LoadPrequeue(c) \/ ClaimAdmission(c)
        \/ RecordArrival(c) \/ Sign(c) \/ CallFails(c)
    BY DEF AdmissionNext
<1>2. CASE \E v \in Visitors : LoadAdmission(c, v)
    BY <1>2 DEF AdmissionTypeOK, Attended, LoadAdmission, Then
<1>3. CASE Respond(c)
    BY <1>3 DEF AdmissionTypeOK, Attended, Respond, Then
<1>4. CASE ~Respond(c) /\ (LoadPosition(c) \/ LoadPrequeue(c))
    BY <1>4 DEF AdmissionTypeOK, Attended, LoadPosition, LoadPrequeue, Decide, Then
<1>5. CASE ClaimAdmission(c) \/ RecordArrival(c)
    BY <1>5 DEF AdmissionTypeOK, Attended, ClaimAdmission, RecordArrival, Then
<1>6. Sign(c) \/ CallFails(c) => Respond(c)
    BY DEF Sign, CallFails
<1>. QED BY <1>1, <1>2, <1>3, <1>4, <1>5, <1>6

LEMMA AdmissionTypes ==
    ASSUME TypeInv, Attended, AdmissionNext
    PROVE  /\ AdmissionTypeOK' /\ TablesTypeOK' /\ arrivals' \in Nat
           /\ Published' /\ queue_counter' = queue_counter /\ phase' = phase
<1>. USE DEF TypeInv, TypeOK
<1>1. PICK c \in Tabs :
        \/ \E v \in Visitors : LoadAdmission(c, v)
        \/ LoadPosition(c) \/ LoadPrequeue(c) \/ ClaimAdmission(c)
        \/ RecordArrival(c) \/ Sign(c) \/ CallFails(c)
    BY DEF AdmissionNext
<1>2. faults' \in 0 .. MaxFaults
    BY <1>1, FaultsType
       DEF TablesTypeOK, LoadAdmission, LoadPosition, LoadPrequeue, ClaimAdmission,
           RecordArrival, Sign, CallFails
<1>3. \/ ClaimAdmission(c)
      \/ UNCHANGED tables /\ ~ClaimAdmission(c)
    BY <1>1 DEF LoadAdmission, LoadPosition, LoadPrequeue, RecordArrival, Sign, CallFails
<1>4. ASSUME UNCHANGED tables
      PROVE  TablesTypeOK' /\ Published' /\ queue_counter' = queue_counter /\ phase' = phase
    BY <1>2, <1>4 DEF tables, TablesTypeOK, Published, Opened
<1>5. CASE ClaimAdmission(c)
    <2>1. who[c] \in Visitors /\ grant[c] \in Nat
        BY <1>5 DEF Attended, ClaimAdmission, AdmissionTypeOK
    <2>2. positions' \in [Visitors -> Nat \cup {NoPosition}] /\ admitted' \subseteq Visitors
        BY <1>5, <2>1 DEF ClaimAdmission, SetAdmitted, TablesTypeOK, AdmissionTypeOK
    <2>3. AdmissionTypeOK'
        BY <1>5, <2>2 DEF ClaimAdmission, AdmissionTypeOK, Then
    <2>4. TablesTypeOK'
        BY <1>2, <1>5, <2>2 DEF ClaimAdmission, TablesTypeOK
    <2>5. Published' /\ arrivals' \in Nat /\ queue_counter' = queue_counter /\ phase' = phase
        BY <1>5 DEF ClaimAdmission, Published, Opened, ServingTypeOK
    <2>. QED BY <2>3, <2>4, <2>5
<1>6. CASE ~ClaimAdmission(c)
    <2>1. arrivals' \in Nat
        BY <1>1, <1>6 DEF ServingTypeOK, LoadAdmission, LoadPosition, LoadPrequeue,
                          RecordArrival, Sign, CallFails
    <2>2. CASE \E v \in Visitors : LoadAdmission(c, v)
        <3>1. PICK v \in Visitors : LoadAdmission(c, v)
            BY <2>2
        <3>2. Admitting \in BOOLEAN /\ serving_counter \in Nat
            BY DEF Admitting, ServingTypeOK
        <3>. QED BY <2>1, <3>1, <3>2, <1>3, <1>4, <1>6
                 DEF LoadAdmission, AdmissionTypeOK, Then, admissionRows
    <2>3. CASE LoadPosition(c)
        <3>1. who[c] \in Visitors
            BY <2>3 DEF Attended, LoadPosition
        <3>2. positions[who[c]] # NoPosition => positions[who[c]] \in Nat
            BY <3>1 DEF TablesTypeOK
        <3>3. AdmissionTypeOK'
            <4>1. CASE positions[who[c]] # NoPosition
                BY <2>3, <4>1, <3>2, DecideTypes DEF LoadPosition
            <4>2. CASE positions[who[c]] = NoPosition
                BY <2>3, <4>2 DEF LoadPosition, AdmissionTypeOK, Then, admissionRows
            <4>. QED BY <4>1, <4>2
        <3>. QED BY <2>1, <3>3, <1>3, <1>4, <1>6
    <2>4. CASE LoadPrequeue(c)
        <3>1. who[c] \in Visitors
            BY <2>4 DEF Attended, LoadPrequeue
        <3>2. Counted(who[c]) => CohortPosition(who[c]) \in Nat
            BY <3>1, CohortPositionType
        <3>3. AdmissionTypeOK'
            BY <2>4, <3>2, DecideTypes, RespondTypes DEF LoadPrequeue
        <3>. QED BY <2>1, <3>3, <1>3, <1>4, <1>6
    <2>5. CASE RecordArrival(c)
        BY <2>1, <2>5, <1>3, <1>4, <1>6 DEF RecordArrival, AdmissionTypeOK, Then, admissionRows
    <2>6. CASE Sign(c)
        <3>1. who[c] \in Visitors /\ grant[c] \in Nat
            BY <2>6 DEF Attended, Sign, AdmissionTypeOK
        <3>2. sessions' \in [Visitors -> SUBSET Nat] /\ admitted' = admitted
            BY <2>6, <3>1 DEF Sign, AdmissionTypeOK
        <3>3. AdmissionTypeOK'
            BY <2>6, <3>2 DEF Sign, Respond, Then, AdmissionTypeOK, NoCounters
        <3>. QED BY <2>1, <3>3, <1>3, <1>4, <1>6
    <2>7. CASE CallFails(c)
        BY <2>1, <2>7, <1>3, <1>4, <1>6, RespondTypes DEF CallFails
    <2>. QED BY <1>1, <1>6, <2>2, <2>3, <2>4, <2>5, <2>6, <2>7
<1>. QED BY <1>3, <1>5, <1>6

-----------------------------------------------------------------------------
(* The cursor. *)

CursorInv == NoBankedCredit /\ HoldStopsTheLine /\ PassesBehind

IInv == TypeInv /\ Attended /\ CursorInv

LEMMA AdmittingNotHeld == ServingTypeOK /\ Admitting => ~OnHold
BY FailOpenAssumption DEF ServingTypeOK, Admitting, Resolve, OnHold

(* A step that leaves the cursor and the executions alone. *)
LEMMA QuietStep ==
    ASSUME IInv, UNCHANGED <<serving_counter, cpc, item, decision>>,
           queue_counter' \in Nat, queue_counter' >= queue_counter,
           TrackHold \/ (holdMoves' = holdMoves /\ UNCHANGED <<phase, stored_control, fail_open_left>>)
    PROVE  CursorInv' /\ holdMoves' \in Nat
<1>. USE DEF IInv, CursorInv, PassesBehind, TypeInv, TypeOK
<1>1. serving_counter \in Nat /\ queue_counter \in Nat /\ holdMoves \in Nat
      /\ item \in [Executions -> Item] /\ decision \in [Executions -> Decision]
    BY DEF ServingTypeOK, TablesTypeOK, ControllerTypeOK
<1>2. NoBankedCredit'
    <2>1. serving_counter <= queue_counter + 1
        BY DEF NoBankedCredit
    <2>2. serving_counter' = serving_counter
        OBVIOUS
    <2>3. \A q \in Nat : q >= queue_counter => serving_counter <= q + 1
        BY ONLY <1>1, <2>1
    <2>. QED BY <2>2, <2>3 DEF NoBankedCredit
<1>3. holdMoves' \in {0, holdMoves} /\ (holdMoves' = 1 => holdMoves = 1)
      /\ (holdMoves' = 1 => OnHold')
    BY <1>1 DEF TrackHold, OnHold, HoldSpent
<1>4. ReadsBehind'
    BY <1>1 DEF ReadsBehind, Item
<1>5. WritesBehind'
    BY <1>1 DEF WritesBehind, Decision
<1>6. HoldSpent'
    BY <1>3 DEF HoldSpent
<1>. QED BY <1>1, <1>2, <1>3, <1>4, <1>5, <1>6 DEF HoldStopsTheLine

(* A pass ends without having moved the cursor. *)
LEMMA IdleEnd ==
    ASSUME IInv, NEW e \in Executions, NEW failed \in BOOLEAN, EndPass(e, failed),
           UNCHANGED <<serving_counter, queue_counter, phase, stored_control, fail_open_left>>,
           TrackHold
    PROVE  CursorInv' /\ holdMoves' \in Nat
<1>. USE DEF IInv, CursorInv, PassesBehind, TypeInv, TypeOK
<1>1. cpc \in [Executions -> {"waiting", "read_arrivals", "write_release"}]
      /\ item \in [Executions -> Item] /\ decision \in [Executions -> Decision]
      /\ holdMoves \in Nat
    BY DEF ControllerTypeOK
<1>2. /\ cpc'[e] = "waiting"
      /\ \A f \in Executions : f # e => /\ cpc'[f] = cpc[f] /\ item'[f] = item[f]
                                        /\ decision'[f] = decision[f]
    BY <1>1 DEF EndPass, Ended
<1>3. holdMoves' \in {0, holdMoves} /\ (holdMoves' = 1 => holdMoves = 1)
      /\ (holdMoves' = 1 => OnHold')
    BY <1>1 DEF TrackHold
<1>4. NoBankedCredit' /\ HoldStopsTheLine'
    BY <1>1, <1>3 DEF NoBankedCredit, HoldStopsTheLine
<1>5. ReadsBehind'
    BY <1>2 DEF ReadsBehind
<1>6. WritesBehind'
    BY <1>2 DEF WritesBehind
<1>7. HoldSpent'
    BY <1>2, <1>3 DEF HoldSpent
<1>. QED BY <1>1, <1>3, <1>4, <1>5, <1>6, <1>7

(* The release of one pass lands. *)
LEMMA LandStep ==
    ASSUME IInv, NEW e \in Executions, NEW failed \in BOOLEAN, EndPass(e, failed),
           cpc[e] = "write_release", CursorUnmoved(e), Land(e),
           UNCHANGED <<queue_counter, phase, stored_control, fail_open_left>>, TrackHold
    PROVE  CursorInv' /\ holdMoves' \in Nat /\ serving_counter' >= serving_counter
<1>. USE DEF IInv, CursorInv, PassesBehind, TypeInv, TypeOK
<1>1. cpc \in [Executions -> {"waiting", "read_arrivals", "write_release"}]
      /\ item \in [Executions -> Item] /\ decision \in [Executions -> Decision]
      /\ holdMoves \in Nat /\ serving_counter \in Nat /\ queue_counter \in Nat
    BY DEF ControllerTypeOK, ServingTypeOK, TablesTypeOK
<1>2. /\ cpc'[e] = "waiting"
      /\ \A f \in Executions : f # e => /\ cpc'[f] = cpc[f] /\ item'[f] = item[f]
                                        /\ decision'[f] = decision[f]
    BY <1>1 DEF EndPass, Ended
<1>3. /\ serving_counter' \in Nat
      /\ serving_counter' >= serving_counter
      /\ serving_counter' <= queue_counter + 1
    BY <1>1 DEF Land, CursorUnmoved, WritesBehind, Decision
<1>4. serving_counter' # serving_counter => holdMoves = 0
    BY <1>1 DEF CursorUnmoved, HoldSpent, HoldStopsTheLine, Decision
<1>5. NoBankedCredit'
    BY <1>3 DEF NoBankedCredit
<1>6. \A f \in Executions : item[f].serving \in Nat /\ decision[f].expected \in Nat
    BY <1>1 DEF Item, Decision
<1>7. ReadsBehind'
    BY <1>1, <1>2, <1>3, <1>6 DEF ReadsBehind
<1>8. WritesBehind'
    BY <1>1, <1>2, <1>3, <1>6 DEF WritesBehind
<1>9. CASE serving_counter' = serving_counter
    <2>1. holdMoves' \in {0, holdMoves} /\ (holdMoves' = 1 => holdMoves = 1)
          /\ (holdMoves' = 1 => OnHold')
        BY <1>1, <1>9 DEF TrackHold
    <2>2. HoldSpent'
        BY <1>2, <1>9, <2>1 DEF HoldSpent
    <2>. QED BY <1>1, <1>3, <1>5, <1>7, <1>8, <2>1, <2>2 DEF HoldStopsTheLine
<1>10. CASE serving_counter' # serving_counter
    <2>1. holdMoves' \in {0, 1} /\ (holdMoves' = 1 => OnHold')
        BY <1>4, <1>10 DEF TrackHold
    <2>2. serving_counter < serving_counter'
        BY <1>1, <1>3, <1>10
    <2>3. HoldSpent'
        BY <1>1, <1>2, <1>3, <1>6, <2>1, <2>2 DEF HoldSpent, ReadsBehind, WritesBehind
    <2>. QED BY <1>3, <1>5, <1>7, <1>8, <2>1, <2>3 DEF HoldStopsTheLine
<1>. QED BY <1>9, <1>10

LEMMA ControllerCursor ==
    ASSUME IInv, NEW e \in Executions, PassStep(e) \/ PassFails(e),
           UNCHANGED <<tables, controlVars, arrivals>>, TrackHold
    PROVE  CursorInv' /\ holdMoves' \in Nat /\ serving_counter' >= serving_counter
<1>0. UNCHANGED <<queue_counter, phase, stored_control, fail_open_left>>
    BY DEF tables, controlVars
<1>1. cpc \in [Executions -> {"waiting", "read_arrivals", "write_release"}]
      /\ item \in [Executions -> Item] /\ decision \in [Executions -> Decision]
      /\ holdMoves \in Nat /\ serving_counter \in Nat /\ queue_counter \in Nat
      /\ arrivals \in Nat
    BY DEF IInv, TypeInv, TypeOK, ControllerTypeOK, ServingTypeOK, TablesTypeOK
<1>2. CASE ReadItem(e)
    <2>. USE DEF IInv, CursorInv, PassesBehind, TypeInv, TypeOK
    <2>1. /\ serving_counter' = serving_counter
          /\ cpc'[e] = "read_arrivals" /\ item'[e].admitting = Admitting
          /\ item'[e].serving = serving_counter /\ item'[e].queue = queue_counter
          /\ decision' = decision
          /\ \A f \in Executions : f # e => cpc'[f] = cpc[f] /\ item'[f] = item[f]
        BY <1>1, <1>2 DEF ReadItem
    <2>2. holdMoves' \in {0, holdMoves} /\ (holdMoves' = 1 => holdMoves = 1)
          /\ (holdMoves' = 1 => OnHold') /\ (OnHold' <=> OnHold)
        BY <1>0, <1>1, <2>1 DEF TrackHold, OnHold
    <2>3. NoBankedCredit' /\ HoldStopsTheLine'
        BY <1>0, <1>1, <2>1, <2>2 DEF NoBankedCredit, HoldStopsTheLine
    <2>4. ReadsBehind'
        BY <1>0, <1>1, <2>1 DEF ReadsBehind, NoBankedCredit
    <2>5. WritesBehind'
        BY <1>0, <2>1 DEF WritesBehind
    <2>6. HoldSpent'
        BY <2>1, <2>2, AdmittingNotHeld DEF HoldSpent
    <2>. QED BY <1>1, <2>1, <2>2, <2>3, <2>4, <2>5, <2>6
<1>3. CASE ReadArrivals(e) /\ item[e].admitting
    <2>. USE DEF IInv, CursorInv, PassesBehind, TypeInv, TypeOK
    <2>1. PICK total \in 0 .. arrivals :
            /\ decision' = [decision EXCEPT ![e] = ComputeRelease(item[e], total)]
            /\ cpc' = [cpc EXCEPT ![e] = "write_release"]
            /\ item' = [item EXCEPT ![e] = NoItem]
        BY <1>3 DEF ReadArrivals
    <2>2. item[e] \in Inputs
        <3>1. \A t \in Rates \cup {0} : t \in Nat
            BY RatesAssumption
        <3>2. \A t \in 0 .. STALE : t \in Nat
            BY StaleAssumption
        <3>. QED BY <1>1, <3>1, <3>2 DEF Item, Inputs
    <2>3. /\ item[e].serving <= serving_counter /\ item[e].queue <= queue_counter
          /\ item[e].serving <= item[e].queue + 1
          /\ holdMoves = 1 => item[e].serving < serving_counter
        BY <1>3 DEF ReadArrivals, ReadsBehind, HoldSpent
    <2>4. /\ decision'[e] \in Decision
          /\ decision'[e].expected = item[e].serving
          /\ item[e].serving <= decision'[e].next
          /\ decision'[e].next <= item[e].queue + 1
        BY <1>1, <2>1, <2>2, <2>3, ReleaseInLine
    <2>5. /\ serving_counter' = serving_counter /\ cpc'[e] = "write_release"
          /\ \A f \in Executions : f # e => /\ cpc'[f] = cpc[f] /\ item'[f] = item[f]
                                            /\ decision'[f] = decision[f]
        BY <1>1, <1>3, <2>1 DEF ReadArrivals
    <2>6. holdMoves' \in {0, holdMoves} /\ (holdMoves' = 1 => holdMoves = 1)
          /\ (holdMoves' = 1 => OnHold')
        BY <1>1, <2>5 DEF TrackHold
    <2>7. NoBankedCredit' /\ HoldStopsTheLine'
        BY <1>0, <1>1, <2>5, <2>6 DEF NoBankedCredit, HoldStopsTheLine
    <2>8. ReadsBehind'
        BY <1>0, <2>5 DEF ReadsBehind
    <2>9. WritesBehind'
        BY <1>0, <1>1, <2>2, <2>3, <2>4, <2>5 DEF WritesBehind, Inputs, Decision
    <2>10. HoldSpent'
        BY <2>3, <2>4, <2>5, <2>6 DEF HoldSpent
    <2>. QED BY <1>1, <2>5, <2>6, <2>7, <2>8, <2>9, <2>10
<1>4. CASE ReadArrivals(e) /\ ~item[e].admitting
    <2>1. (\E failed \in BOOLEAN : EndPass(e, failed)) /\ serving_counter' = serving_counter
        BY <1>4 DEF ReadArrivals
    <2>. QED BY <1>0, <1>1, <2>1, IdleEnd
<1>5. CASE WriteRelease(e)
    <2>1. \E failed \in BOOLEAN : EndPass(e, failed)
        BY <1>5 DEF WriteRelease
    <2>2. cpc[e] = "write_release"
        BY <1>5 DEF WriteRelease
    <2>3. CASE CursorUnmoved(e) /\ Land(e)
        BY <1>0, <2>1, <2>2, <2>3, LandStep
    <2>4. CASE UNCHANGED serving_counter
        BY <1>0, <1>1, <2>1, <2>4, IdleEnd
    <2>. QED BY <1>5, <2>3, <2>4 DEF WriteRelease
<1>6. CASE PassFails(e)
    <2>1. (\E failed \in BOOLEAN : EndPass(e, failed)) /\ serving_counter' = serving_counter
        BY <1>6 DEF PassFails
    <2>. QED BY <1>0, <1>1, <2>1, IdleEnd
<1>. QED BY <1>2, <1>3, <1>4, <1>5, <1>6 DEF PassStep

LEMMA CursorInit == Init => IInv
<1>. SUFFICES ASSUME Init PROVE IInv
    OBVIOUS
<1>1. TypeInv
    BY TypeInit
<1>2. Attended
    BY DEF Init, AdmissionInit, Attended
<1>3. CursorInv
    BY DEF Init, LineInit, ServingInit, ControllerInit, CursorInv, NoBankedCredit,
           HoldStopsTheLine, PassesBehind, ReadsBehind, WritesBehind, HoldSpent
<1>. QED BY <1>1, <1>2, <1>3 DEF IInv

LEMMA CursorNext ==
    ASSUME IInv, [Next]_vars
    PROVE  IInv' /\ serving_counter' >= serving_counter
<1>. USE DEF IInv
<1>0. serving_counter \in Nat /\ queue_counter \in Nat /\ TypeOK
    BY DEF TypeInv, TypeOK, ServingTypeOK, TablesTypeOK
<1>1. given' \in [Visitors -> Nat \cup {NoPosition}]
    <2>1. CASE LineStep
        <3>1. TablesTypeOK'
            BY <2>1, LineTypes DEF LineStep
        <3>. QED BY <1>0, <2>1, <3>1 DEF LineStep, GivesOnce, TypeOK, TablesTypeOK
    <2>2. CASE UNCHANGED given
        BY <1>0, <2>2 DEF TypeOK
    <2>. QED BY <2>1, <2>2
             DEF Next, ControllerStep, AdmissionStep, OperatorStep, ClockStep, vars
<1>2. CASE LineStep
    <2>1. UNCHANGED <<faults, controllerVars, controlVars, arrivals, admissionVars>>
          /\ LineNext /\ TrackHold
        BY <1>2 DEF LineStep
    <2>2. TablesTypeOK' /\ Published' /\ queue_counter' >= queue_counter
        BY <2>1, LineTypes
    <2>3. CursorInv' /\ holdMoves' \in Nat
        <3>1. UNCHANGED <<serving_counter, cpc, item, decision>>
            BY <2>1 DEF controllerVars, executionVars
        <3>2. queue_counter' \in Nat
            BY <2>2 DEF TablesTypeOK
        <3>. QED BY <2>1, <2>2, <3>1, <3>2, QuietStep
    <2>4. ServingTypeOK' /\ ControllerTypeOK' /\ AdmissionTypeOK' /\ Attended'
        BY <2>1, <1>0 DEF TypeOK, ServingTypeOK, ControllerTypeOK, AdmissionTypeOK, Attended,
              controllerVars, executionVars, baselineVars, controlVars, admissionVars,
              admissionRows, callVars
    <2>5. serving_counter' = serving_counter
        BY <2>1 DEF controllerVars
    <2>. QED BY <1>0, <1>1, <2>2, <2>3, <2>4, <2>5 DEF TypeInv, TypeOK
<1>3. CASE ControllerStep
    <2>1. PICK e \in Executions : PassStep(e) \/ PassFails(e)
        BY <1>3 DEF ControllerStep, ControllerNext
    <2>2. UNCHANGED <<tables, controlVars, arrivals, admissionVars>> /\ TrackHold
        BY <1>3 DEF ControllerStep
    <2>3. ControllerTypeOK' /\ serving_counter' \in Nat /\ faults' \in 0 .. MaxFaults
        BY <2>1, <2>2, ControllerTypes DEF CursorInv
    <2>4. CursorInv' /\ holdMoves' \in Nat /\ serving_counter' >= serving_counter
        BY <2>1, <2>2, ControllerCursor
    <2>5. TablesTypeOK' /\ ServingTypeOK' /\ AdmissionTypeOK' /\ Attended' /\ Published'
        BY <2>2, <2>3, <1>0 DEF TypeInv, TypeOK, ServingTypeOK, TablesTypeOK, AdmissionTypeOK,
              Attended, Published, Opened, tables, controlVars, admissionVars, admissionRows,
              callVars
    <2>. QED BY <1>1, <2>3, <2>4, <2>5 DEF TypeInv, TypeOK
<1>4. CASE AdmissionStep
    <2>1. AdmissionNext /\ UNCHANGED <<controllerVars, controlVars, holdMoves>>
        BY <1>4 DEF AdmissionStep
    <2>2. /\ AdmissionTypeOK' /\ TablesTypeOK' /\ arrivals' \in Nat
          /\ Published' /\ queue_counter' = queue_counter /\ phase' = phase
        BY <2>1, AdmissionTypes
    <2>3. Attended'
        BY <1>0, <2>1, AttendedStep DEF TypeOK
    <2>4. CursorInv' /\ holdMoves' \in Nat
        <3>1. UNCHANGED <<serving_counter, cpc, item, decision, stored_control, fail_open_left>>
            BY <2>1 DEF controllerVars, executionVars, controlVars
        <3>. QED BY <1>0, <2>1, <2>2, <3>1, QuietStep
    <2>5. ServingTypeOK' /\ ControllerTypeOK' /\ serving_counter' = serving_counter
        BY <1>0, <2>1, <2>2 DEF TypeOK, ServingTypeOK, ControllerTypeOK, controllerVars,
              executionVars, baselineVars, controlVars
    <2>. QED BY <1>0, <1>1, <2>2, <2>3, <2>4, <2>5 DEF TypeInv, TypeOK
<1>5. CASE OperatorStep
    <2>1. /\ OperatorNext /\ TrackHold
          /\ UNCHANGED <<tables, faults, controllerVars, arrivals, admissionVars>>
        BY <1>5 DEF OperatorStep
    <2>2. ServingTypeOK'
        BY <1>0, <2>1 DEF TypeOK, ServingTypeOK, OperatorNext, SetStoredControl,
              SetFailOpenUntil, SetRate, controllerVars
    <2>3. CursorInv' /\ holdMoves' \in Nat
        BY <1>0, <2>1, QuietStep DEF controllerVars, executionVars, tables
    <2>4. TablesTypeOK' /\ ControllerTypeOK' /\ AdmissionTypeOK' /\ Attended' /\ Published'
        BY <2>1, <1>0 DEF TypeInv, TypeOK, TablesTypeOK, ControllerTypeOK, AdmissionTypeOK,
              Attended, Published, Opened, tables, controllerVars, executionVars,
              baselineVars, admissionVars, admissionRows, callVars
    <2>5. serving_counter' = serving_counter
        BY <2>1 DEF controllerVars
    <2>. QED BY <1>0, <1>1, <2>2, <2>3, <2>4, <2>5 DEF TypeInv, TypeOK
<1>6. CASE ClockStep
    <2>1. Tick /\ TrackHold /\ UNCHANGED <<tables, faults, admissionVars>>
        BY <1>6 DEF ClockStep
    <2>2. ServingTypeOK' /\ serving_counter' = serving_counter
        BY <1>0, <2>1, FailOpenAssumption DEF TypeOK, ServingTypeOK, Tick, SaturatingSub, Most
    <2>3. ControllerTypeOK'
        BY <1>0, <2>1, StaleAssumption DEF TypeOK, ControllerTypeOK, Tick, Older, Least
    <2>4. CursorInv' /\ holdMoves' \in Nat
        BY <1>0, <2>1, QuietStep DEF Tick, tables
    <2>5. TablesTypeOK' /\ AdmissionTypeOK' /\ Attended' /\ Published'
        BY <2>1, <1>0 DEF TypeInv, TypeOK, TablesTypeOK, AdmissionTypeOK, Attended, Published,
              Opened, tables, admissionVars, admissionRows, callVars
    <2>. QED BY <1>0, <1>1, <2>2, <2>3, <2>4, <2>5 DEF TypeInv, TypeOK
<1>7. CASE UNCHANGED vars
    <2>1. UNCHANGED <<serving_counter, cpc, item, decision, phase, stored_control,
                      fail_open_left, queue_counter, holdMoves>>
        BY <1>7 DEF vars, tables, controllerVars, executionVars, controlVars
    <2>2. CursorInv' /\ holdMoves' \in Nat
        BY <1>0, <2>1, QuietStep
    <2>3. TypeOK' /\ Attended' /\ Published'
        BY <1>0, <1>7, <1>1, <2>2 DEF TypeInv, TypeOK, TablesTypeOK, ServingTypeOK, ControllerTypeOK,
              AdmissionTypeOK, Attended, Published, Opened, vars, tables, controllerVars,
              executionVars, baselineVars, controlVars, admissionVars, admissionRows, callVars
    <2>. QED BY <1>0, <2>1, <2>2, <2>3 DEF TypeInv
<1>. QED BY <1>2, <1>3, <1>4, <1>5, <1>6, <1>7 DEF Next

LEMMA CursorInductive == Spec => []IInv
<1>1. Init => IInv
    BY CursorInit
<1>2. IInv /\ [Next]_vars => IInv'
    BY CursorNext
<1>. QED BY <1>1, <1>2, PTL DEF Spec

-----------------------------------------------------------------------------

(* Type correctness of everything that lets the line through. *)
THEOREM OutflowTypeCorrect == Spec => []TypeOK
<1>1. IInv => TypeOK
    BY DEF IInv, TypeInv
<1>. QED BY <1>1, CursorInductive, PTL

(* No release ever passes the end of the line, however many executions     *)
(* overlap and however old their reads are.                                *)
THEOREM NoBankedCreditCorrect == Spec => []NoBankedCredit
<1>1. IInv => NoBankedCredit
    BY DEF IInv, CursorInv
<1>. QED BY <1>1, CursorInductive, PTL

(* A hold lets at most the release in flight through. *)
THEOREM HoldStopsTheLineCorrect == Spec => []HoldStopsTheLine
<1>1. IInv => HoldStopsTheLine
    BY DEF IInv, CursorInv
<1>. QED BY <1>1, CursorInductive, PTL

(* Whatever overlaps, no pass in flight is ahead of the item it will write. *)
THEOREM PassesBehindCorrect == Spec => []PassesBehind
<1>1. IInv => PassesBehind
    BY DEF IInv, CursorInv
<1>. QED BY <1>1, CursorInductive, PTL

(* The cursor never moves back. *)
THEOREM CursorMonotoneCorrect == Spec => CursorMonotone
<1>1. IInv /\ [Next]_vars => [serving_counter' >= serving_counter]_vars
    BY CursorNext
<1>. QED BY <1>1, CursorInductive, PTL DEF Spec, CursorMonotone

-----------------------------------------------------------------------------
(* Admission: nobody early, nobody moved.                                  *)

(* A call holds a cursor that was reached, and a grant that lies behind it *)
(* for good, although the item it read may have moved on.                  *)
Granted == {"claim", "record_arrival", "sign"}

GrantsReached ==
    \A c \in Tabs :
        /\ apc[c] # "idle" => counters[c].serving <= serving_counter
        /\ apc[c] \in Granted => grant[c] < serving_counter

(* An admitted visitor has a row, which no join replaces. *)
AdmittedPlaced == \A v \in admitted : positions[v] # NoPosition

AdmitInv == GrantsReached /\ SessionsReached /\ AdmittedPlaced

LEMMA AdmitInit == Init => AdmitInv
BY DEF Init, AdmissionInit, AdmitInv, GrantsReached, SessionsReached, AdmittedPlaced, Granted

(* Nothing outside generate_token disturbs a call: the cursor only moves   *)
(* on, and a row that is there stays.                                      *)
LEMMA AdmitQuiet ==
    ASSUME IInv, AdmitInv, UNCHANGED admissionVars,
           serving_counter' \in Nat, serving_counter' >= serving_counter,
           \A v \in Visitors : positions[v] # NoPosition => positions'[v] = positions[v]
    PROVE  AdmitInv' /\ \A v \in admitted : v \in admitted' /\ positions'[v] = positions[v]
<1>. USE DEF AdmitInv, admissionVars, admissionRows, callVars
<1>1. /\ serving_counter \in Nat /\ admitted \subseteq Visitors
      /\ sessions \in [Visitors -> SUBSET Nat] /\ grant \in [Tabs -> Nat]
      /\ counters \in [Tabs -> [admitting : BOOLEAN, serving : Nat]]
    BY DEF IInv, TypeInv, TypeOK, ServingTypeOK, AdmissionTypeOK
<1>2. GrantsReached'
    BY <1>1 DEF GrantsReached
<1>3. SessionsReached'
    BY <1>1 DEF SessionsReached
<1>4. AdmittedPlaced' /\ \A v \in admitted : v \in admitted' /\ positions'[v] = positions[v]
    BY <1>1 DEF AdmittedPlaced
<1>. QED BY <1>2, <1>3, <1>4

LEMMA LineKeepsRows ==
    ASSUME LineNext, TablesTypeOK
    PROVE  \A v \in Visitors : positions[v] # NoPosition => positions'[v] = positions[v]
BY DEF LineNext, IssueLocal, Open, IssueLive, Register, Join, SetPhase, TablesTypeOK

(* One call of generate_token. *)
LEMMA AdmitCall ==
    ASSUME IInv, AdmitInv, AdmissionNext, serving_counter' = serving_counter
    PROVE  AdmitInv' /\ \A v \in admitted : v \in admitted' /\ positions'[v] = positions[v]
<1>. USE DEF AdmitInv
<1>1. /\ serving_counter \in Nat /\ admitted \subseteq Visitors
      /\ sessions \in [Visitors -> SUBSET Nat] /\ grant \in [Tabs -> Nat]
      /\ apc \in [Tabs -> {"idle", "load_position", "load_prequeue", "claim",
                            "record_arrival", "sign"}]
      /\ counters \in [Tabs -> [admitting : BOOLEAN, serving : Nat]]
      /\ positions \in [Visitors -> Nat \cup {NoPosition}]
    BY DEF IInv, TypeInv, TypeOK, ServingTypeOK, AdmissionTypeOK, TablesTypeOK
<1>2. PICK c \in Tabs :
        \/ \E v \in Visitors : LoadAdmission(c, v)
        \/ LoadPosition(c) \/ LoadPrequeue(c) \/ ClaimAdmission(c)
        \/ RecordArrival(c) \/ Sign(c) \/ CallFails(c)
    BY DEF AdmissionNext
<1>3. ASSUME Respond(c) PROVE GrantsReached'
    BY <1>1, <1>3 DEF GrantsReached, Respond, Then, Granted
<1>4. ASSUME UNCHANGED <<admissionRows, positions>>
      PROVE  /\ SessionsReached' /\ AdmittedPlaced'
             /\ \A v \in admitted : v \in admitted' /\ positions'[v] = positions[v]
    BY <1>4 DEF SessionsReached, AdmittedPlaced, admissionRows
<1>5. CASE \E v \in Visitors : LoadAdmission(c, v)
    <2>1. GrantsReached' /\ UNCHANGED <<admissionRows, positions>>
        BY <1>1, <1>5 DEF LoadAdmission, Then, GrantsReached, Granted, tables
    <2>. QED BY <1>4, <2>1
<1>6. ASSUME NEW p, p \in Nat, Decide(c, p), apc[c] # "idle"
      PROVE  GrantsReached'
    BY <1>1, <1>3, <1>6 DEF Decide, Then, GrantsReached, Granted
<1>7. CASE LoadPosition(c)
    <2>1. who[c] \in Visitors
        BY <1>7 DEF IInv, Attended, LoadPosition
    <2>2. CASE Decide(c, positions[who[c]]) /\ positions[who[c]] # NoPosition
        BY <1>1, <1>4, <1>6, <1>7, <2>1, <2>2 DEF LoadPosition, tables
    <2>3. CASE Then(c, "load_prequeue") /\ UNCHANGED <<who, counters, grant>>
        <3>1. GrantsReached'
            BY <1>1, <1>7, <2>3 DEF LoadPosition, Then, GrantsReached, Granted
        <3>. QED BY <1>4, <1>7, <3>1 DEF LoadPosition, tables
    <2>. QED BY <1>7, <2>2, <2>3 DEF LoadPosition
<1>8. CASE LoadPrequeue(c)
    <2>1. who[c] \in Visitors
        BY <1>8 DEF IInv, Attended, LoadPrequeue
    <2>2. Counted(who[c]) => CohortPosition(who[c]) \in Nat
        BY <2>1, CohortPositionType DEF IInv, TypeInv, TypeOK
    <2>3. GrantsReached'
        BY <1>3, <1>6, <1>8, <2>2 DEF LoadPrequeue
    <2>. QED BY <1>4, <1>8, <2>3 DEF LoadPrequeue, tables
<1>9. CASE ClaimAdmission(c)
    <2>1. who[c] \in Visitors /\ grant[c] \in Nat
        BY <1>1, <1>9 DEF IInv, Attended, ClaimAdmission
    <2>2. GrantsReached' /\ SessionsReached'
        BY <1>1, <1>9 DEF ClaimAdmission, Then, GrantsReached, Granted, SessionsReached
    <2>3. CASE SetAdmitted(c) /\ MayClaim(c)
        BY <1>1, <2>1, <2>2, <2>3 DEF SetAdmitted, MayClaim, AdmittedPlaced, NoPosition
    <2>4. CASE UNCHANGED <<admitted, positions>>
        BY <2>2, <2>4 DEF AdmittedPlaced
    <2>. QED BY <1>9, <2>3, <2>4 DEF ClaimAdmission
<1>10. CASE RecordArrival(c)
    <2>1. GrantsReached' /\ UNCHANGED <<admissionRows, positions>>
        BY <1>1, <1>10 DEF RecordArrival, Then, GrantsReached, Granted, tables
    <2>. QED BY <1>4, <2>1
<1>11. CASE Sign(c)
    <2>1. who[c] \in Visitors /\ grant[c] < serving_counter
        BY <1>11 DEF IInv, Attended, Sign, GrantsReached, Granted
    <2>2. SessionsReached'
        BY <1>1, <1>11, <2>1 DEF Sign, SessionsReached
    <2>3. GrantsReached'
        BY <1>3, <1>11 DEF Sign
    <2>. QED BY <1>11, <2>2, <2>3 DEF Sign, AdmittedPlaced, tables
<1>12. CASE CallFails(c)
    BY <1>3, <1>4, <1>12 DEF CallFails, tables
<1>. QED BY <1>2, <1>5, <1>7, <1>8, <1>9, <1>10, <1>11, <1>12

LEMMA AdmitNext ==
    ASSUME IInv, AdmitInv, [Next]_vars
    PROVE  AdmitInv' /\ \A v \in admitted : v \in admitted' /\ positions'[v] = positions[v]
<1>1. serving_counter' \in Nat /\ serving_counter' >= serving_counter
    BY CursorNext DEF IInv, TypeInv, TypeOK, ServingTypeOK
<1>2. CASE AdmissionStep
    BY <1>2, AdmitCall DEF AdmissionStep, controllerVars
<1>3. CASE LineStep
    BY <1>1, <1>3, AdmitQuiet, LineKeepsRows DEF LineStep, IInv, TypeInv, TypeOK
<1>4. CASE ControllerStep \/ OperatorStep \/ ClockStep \/ UNCHANGED vars
    <2>1. UNCHANGED <<admissionVars, positions>>
        BY <1>4 DEF ControllerStep, OperatorStep, ClockStep, vars, tables
    <2>. QED BY <1>1, <2>1, AdmitQuiet
<1>. QED BY <1>2, <1>3, <1>4 DEF Next

LEMMA AdmitInductive == Spec => [](IInv /\ AdmitInv)
<1>1. Init => IInv /\ AdmitInv
    BY CursorInit, AdmitInit
<1>2. IInv /\ AdmitInv /\ [Next]_vars => IInv' /\ AdmitInv'
    BY CursorNext, AdmitNext
<1>. QED BY <1>1, <1>2, PTL DEF Spec

(* Nobody is let in before their turn, whichever of the item, the rows and *)
(* the hold changed between the calls of generate_token.                   *)
THEOREM SessionsReachedCorrect == Spec => []SessionsReached
<1>1. AdmitInv => SessionsReached
    BY DEF AdmitInv
<1>. QED BY <1>1, AdmitInductive, PTL

(* claim_admission: an admitted row is final.                              *)
THEOREM AdmittedForGoodCorrect == Spec => AdmittedForGood
<1>1. IInv /\ AdmitInv /\ [Next]_vars =>
        [\A v \in admitted : v \in admitted' /\ positions'[v] = positions[v]]_vars
    BY AdmitNext
<1>. QED BY <1>1, AdmitInductive, PTL DEF Spec, AdmittedForGood

-----------------------------------------------------------------------------
(* One place, one visitor.                                                 *)

(* The position of a counted row is one of the cohort's, and tells the     *)
(* rows apart: shards, local indices and the permutation lose nothing.     *)
LEMMA CohortPlaces ==
    ASSUME IInv, NEW v \in Visitors, Counted(v)
    PROVE  /\ CohortPosition(v) \in Nat
           /\ CohortPosition(v) <= cohort.participant_count
           /\ \A w \in Visitors :
                Counted(w) /\ CohortPosition(v) = CohortPosition(w) => prequeue[v] = prequeue[w]
<1>. USE DEF IInv, TypeInv, TypeOK
<1>. DEFINE N == cohort.participant_count
            Index(w) == ResolveIndex(prequeue[w])
<1>1. Opened /\ shuffle_seed \in Seeds
    BY DEF Counted, Opened, TablesTypeOK
<1>2. N \in 0 .. U64_MAX
    BY <1>1 DEF TablesTypeOK, CohortOffsets, Published
<1>3. PICK counts \in [Shards -> Nat] : cohort = FromCounts(counts)
    BY <1>1 DEF Published
<1>4. \A w \in Visitors : Counted(w) =>
          /\ prequeue[w] \in Row
          /\ prequeue[w].shard \in Shards /\ prequeue[w].local \in Nat
          /\ Index(w) # LiveJoin
    BY DEF Counted, TablesTypeOK, Row
<1>5. \A w \in Visitors : Counted(w) => Index(w) \in 0 .. N - 1
    BY <1>3, <1>4, AssignInjective DEF ResolveIndex
<1>6. CohortPosition(v) \in 0 .. N - 1
    BY <1>1, <1>2, <1>5, PrpAssumption DEF CohortPosition
<1>7. ASSUME NEW w \in Visitors, Counted(w), CohortPosition(v) = CohortPosition(w)
      PROVE  prequeue[v] = prequeue[w]
    <2>1. Index(v) = Index(w)
        BY <1>1, <1>2, <1>5, <1>7, PrpAssumption DEF CohortPosition
    <2>2. prequeue[v].shard = prequeue[w].shard /\ prequeue[v].local = prequeue[w].local
        BY <1>3, <1>4, <1>7, <2>1, AssignInjective DEF ResolveIndex
    <2>. QED BY <1>4, <1>7, <2>2 DEF Row
<1>. QED BY <1>2, <1>6, <1>7

LEMMA PlacesDisjoint ==
    ASSUME IInv, SlotsApart, GivenApart, NEW v \in Visitors, NEW w \in Visitors, v # w
    PROVE  Places(v) \cap Places(w) = {}
<1>1. given[v] \in Nat \cup {NoPosition} /\ given[w] \in Nat \cup {NoPosition}
      /\ cohort.participant_count \in Nat
    BY DEF IInv, TypeInv, TypeOK, TablesTypeOK, CohortOffsets
<1>2. Counted(v) => CohortPosition(v) # given[w]
    BY <1>1, CohortPlaces DEF GivenApart, NoPosition
<1>3. Counted(w) => CohortPosition(w) # given[v]
    BY <1>1, CohortPlaces DEF GivenApart, NoPosition
<1>4. Counted(v) /\ Counted(w) => CohortPosition(v) # CohortPosition(w)
    BY CohortPlaces DEF SlotsApart, Counted
<1>5. given[v] # NoPosition => given[v] # given[w]
    BY DEF GivenApart
<1>. QED BY <1>2, <1>3, <1>4, <1>5 DEF Places

(* What stands when the places of visitors only grow, and the calls wait.  *)
LEMMA PlacesGrow ==
    ASSUME IInv, PlacesOwned, UNCHANGED admissionVars,
           \A v \in Visitors : Places(v) \subseteq Places(v)',
           \A v \in Visitors :
               positions'[v] = positions[v] \/ positions'[v] \in Places(v)'
    PROVE  PlacesOwned'
<1>1. \A c \in Tabs : apc[c] \in {"claim", "record_arrival", "sign"} => who[c] \in Visitors
    BY DEF IInv, Attended
<1>2. \A v \in Visitors : positions'[v] \in Places(v)' \cup {NoPosition}
    BY DEF PlacesOwned
<1>3. \A v \in Visitors : sessions'[v] \subseteq Places(v)'
    BY DEF PlacesOwned, admissionVars, admissionRows
<1>4. (\A c \in Tabs :
          apc[c] \in {"claim", "record_arrival", "sign"} => grant[c] \in Places(who[c]))'
    BY <1>1 DEF PlacesOwned, admissionVars, callVars
<1>. QED BY <1>2, <1>3, <1>4 DEF PlacesOwned

(* Whoever is placed, by registering, by the open or by joining, is placed *)
(* apart from everybody else, and keeps the places they had.               *)
LEMMA PlacesLine ==
    ASSUME IInv, PlacesApart, LineStep
    PROVE  PlacesApart'
<1>. USE DEF IInv, TypeInv, TypeOK, TablesTypeOK
<1>1. UNCHANGED admissionVars /\ GivesOnce /\ LineNext
    BY DEF LineStep
<1>2. given' = [v \in Visitors |->
                   IF positions'[v] # positions[v] THEN positions'[v] ELSE given[v]]
    BY <1>1 DEF GivesOnce
<1>3. ASSUME UNCHANGED positions PROVE given' = given
    BY <1>2, <1>3
<1>4. CASE IssueLocal \/ IssueLive \/ \E to \in Phases : SetPhase(to)
    <2>1. UNCHANGED <<shuffle_seed, cohort, prequeue, positions>>
        BY <1>4 DEF IssueLocal, IssueLive, SetPhase
    <2>2. given' = given
        BY <1>3, <2>1
    <2>3. \A v \in Visitors : Places(v)' = Places(v)
        BY <2>1, <2>2 DEF Places, Counted, Opened, CohortPosition, ResolveIndex
    <2>4. PlacesOwned'
        BY <1>1, <2>1, <2>3, PlacesGrow DEF PlacesApart
    <2>. QED BY <2>1, <2>2, <2>4 DEF PlacesApart, SlotsApart, GivenApart, Opened
<1>5. CASE Open
    <2>1. ~Opened /\ UNCHANGED <<prequeue, positions>>
        BY <1>5 DEF Open
    <2>2. given' = given /\ \A v \in Visitors : given[v] = NoPosition
        BY <1>3, <2>1 DEF PlacesApart, GivenApart
    <2>3. \A v \in Visitors : Places(v) = {}
        BY <2>1, <2>2 DEF Places, Counted
    <2>4. PlacesOwned'
        BY <1>1, <2>1, <2>3, PlacesGrow DEF PlacesApart
    <2>. QED BY <2>1, <2>2, <2>4 DEF PlacesApart, SlotsApart, GivenApart
<1>6. ASSUME NEW v \in Visitors, Register(v) PROVE PlacesApart'
    <2>1. PICK s \in Shards : \E l \in 0 .. shard_count[s] - 1 :
            /\ \A w \in Visitors : prequeue[w] # [shard |-> s, local |-> l]
            /\ prequeue' = [prequeue EXCEPT ![v] = [shard |-> s, local |-> l]]
        BY <1>6 DEF Register
    <2>2. PICK l \in 0 .. shard_count[s] - 1 :
            /\ \A w \in Visitors : prequeue[w] # [shard |-> s, local |-> l]
            /\ prequeue' = [prequeue EXCEPT ![v] = [shard |-> s, local |-> l]]
        BY <2>1
    <2>3. prequeue[v] = NoRow /\ UNCHANGED <<shuffle_seed, cohort, positions>>
        BY <1>6 DEF Register
    <2>4. given' = given
        BY <1>3, <2>3
    <2>5. /\ prequeue'[v] = [shard |-> s, local |-> l]
          /\ \A w \in Visitors : w # v => prequeue'[w] = prequeue[w]
        BY <2>2
    <2>6. SlotsApart'
        BY <2>2, <2>5 DEF PlacesApart, SlotsApart
    <2>7. \A w \in Visitors : Places(w) \subseteq Places(w)'
        <3>1. \A w \in Visitors : w # v => Places(w)' = Places(w)
            BY <2>3, <2>4, <2>5 DEF Places, Counted, Opened, CohortPosition, ResolveIndex
        <3>2. Places(v) \subseteq Places(v)'
            BY <2>3, <2>4 DEF Places, Counted
        <3>. QED BY <3>1, <3>2
    <2>8. PlacesOwned'
        BY <1>1, <2>3, <2>7, PlacesGrow DEF PlacesApart
    <2>. QED BY <2>3, <2>4, <2>6, <2>8 DEF PlacesApart, GivenApart, Opened
<1>7. ASSUME NEW v \in Visitors, Join(v) PROVE PlacesApart'
    <2>1. PICK p \in cohort.participant_count + 1 .. queue_counter :
            positions' = [positions EXCEPT ![v] = p]
        BY <1>7 DEF Join
    <2>2. /\ Opened /\ positions[v] = NoPosition
          /\ UNCHANGED <<shuffle_seed, cohort, prequeue>>
        BY <1>7 DEF Join
    <2>3. p \in Nat /\ p > cohort.participant_count /\ p # NoPosition
        BY <2>1 DEF CohortOffsets, NoPosition
    <2>4. /\ given'[v] = p
          /\ \A w \in Visitors : w # v => given'[w] = given[w] /\ positions'[w] = positions[w]
          /\ positions'[v] = p
        BY <1>2, <2>1, <2>2, <2>3
    <2>5. \A w \in Visitors : p # given[w]
        BY <1>1, <2>2, <2>3, <2>4 DEF GivesOnce
    <2>6. given[v] = NoPosition
        BY <2>2 DEF PlacesApart, GivenApart
    <2>7. GivenApart'
        <3>1. ASSUME NEW w \in Visitors, given'[w] # NoPosition
              PROVE  /\ Opened' /\ given'[w] > cohort'.participant_count
                     /\ positions'[w] # NoPosition
                     /\ \A u \in Visitors : w # u => given'[w] # given'[u]
            <4>1. CASE w = v
                BY <2>2, <2>3, <2>4, <2>5, <4>1 DEF Opened
            <4>2. CASE w # v
                BY <2>2, <2>4, <2>5, <3>1, <4>2 DEF PlacesApart, GivenApart, Opened
            <4>. QED BY <4>1, <4>2
        <3>. QED BY <3>1 DEF GivenApart
    <2>8. \A w \in Visitors : Places(w) \subseteq Places(w)'
        BY <2>2, <2>4, <2>6 DEF Places, Counted, Opened, CohortPosition, ResolveIndex
    <2>9. positions'[v] \in Places(v)'
        BY <2>3, <2>4 DEF Places
    <2>10. PlacesOwned'
        BY <1>1, <2>4, <2>8, <2>9, PlacesGrow DEF PlacesApart
    <2>. QED BY <2>2, <2>7, <2>10 DEF PlacesApart, SlotsApart
<1>. QED BY <1>1, <1>4, <1>5, <1>6, <1>7 DEF LineNext

(* generate_token takes what it grants from the rows of the visitor who    *)
(* asks, and writes it to nobody else.                                     *)
LEMMA PlacesCall ==
    ASSUME IInv, PlacesApart, AdmissionNext, UNCHANGED given
    PROVE  PlacesApart'
<1>. USE DEF IInv, TypeInv, TypeOK
<1>0. /\ sessions \in [Visitors -> SUBSET Nat] /\ grant \in [Tabs -> Nat]
      /\ apc \in [Tabs -> {"idle", "load_position", "load_prequeue", "claim",
                            "record_arrival", "sign"}]
      /\ who \in [Tabs -> Visitors \cup {Nobody}]
      /\ positions \in [Visitors -> Nat \cup {NoPosition}]
    BY DEF AdmissionTypeOK, TablesTypeOK
<1>1. PICK c \in Tabs :
        \/ \E v \in Visitors : LoadAdmission(c, v)
        \/ LoadPosition(c) \/ LoadPrequeue(c) \/ ClaimAdmission(c)
        \/ RecordArrival(c) \/ Sign(c) \/ CallFails(c)
    BY DEF AdmissionNext
<1>2. UNCHANGED <<shuffle_seed, cohort, prequeue>>
    BY <1>1 DEF tables, LoadAdmission, LoadPosition, LoadPrequeue, ClaimAdmission,
                RecordArrival, Sign, CallFails
<1>3. \A v : Places(v)' = Places(v)
    BY <1>2 DEF Places, Counted, Opened, CohortPosition, ResolveIndex
<1>. DEFINE Rows == \A v \in Visitors : positions[v] \in Places(v) \cup {NoPosition}
            Minted == \A v \in Visitors : sessions[v] \subseteq Places(v)
            Granting == \A d \in Tabs : apc[d] \in {"claim", "record_arrival", "sign"} =>
                            grant[d] \in Places(who[d])
<1>4. Rows /\ Minted /\ Granting
    BY DEF PlacesApart, PlacesOwned
<1>5. apc[c] # "idle" => who[c] \in Visitors
    BY DEF Attended
<1>6. ASSUME Respond(c) PROVE Granting'
    BY <1>0, <1>3, <1>4, <1>6 DEF Respond, Then
<1>7. ASSUME NEW p \in Places(who[c]), Decide(c, p) PROVE Granting'
    <2>1. CASE Respond(c)
        BY <1>6, <2>1
    <2>2. CASE grant' = [grant EXCEPT ![c] = p] /\ Then(c, "claim") /\ UNCHANGED who
        BY <1>0, <1>3, <1>4, <2>2 DEF Then
    <2>. QED BY <1>7, <2>1, <2>2 DEF Decide
<1>8. ASSUME UNCHANGED <<positions, sessions>> PROVE Rows' /\ Minted'
    BY <1>3, <1>4, <1>8
<1>9. Rows' /\ Minted' /\ Granting' /\ \A v \in Visitors :
          positions[v] # NoPosition => positions'[v] # NoPosition
    <2>1. CASE \E v \in Visitors : LoadAdmission(c, v)
        <3>1. Granting'
            BY <1>0, <1>3, <1>4, <2>1 DEF LoadAdmission, Then
        <3>. QED BY <1>8, <2>1, <3>1 DEF LoadAdmission, tables, admissionRows
    <2>2. CASE LoadPosition(c)
        <3>1. positions[who[c]] # NoPosition => positions[who[c]] \in Places(who[c])
            BY <1>4, <1>5, <2>2 DEF LoadPosition
        <3>2. CASE positions[who[c]] # NoPosition /\ Decide(c, positions[who[c]])
            BY <1>7, <1>8, <2>2, <3>1, <3>2 DEF LoadPosition, tables, admissionRows
        <3>3. CASE Then(c, "load_prequeue") /\ UNCHANGED <<who, counters, grant>>
            <4>1. Granting'
                BY <1>0, <1>3, <1>4, <3>3 DEF Then
            <4>. QED BY <1>8, <2>2, <4>1 DEF LoadPosition, tables, admissionRows
        <3>. QED BY <2>2, <3>2, <3>3 DEF LoadPosition
    <2>3. CASE LoadPrequeue(c)
        <3>1. Counted(who[c]) => CohortPosition(who[c]) \in Places(who[c])
            BY DEF Places
        <3>2. Granting'
            BY <1>6, <1>7, <2>3, <3>1 DEF LoadPrequeue
        <3>. QED BY <1>8, <2>3, <3>2 DEF LoadPrequeue, tables, admissionRows
    <2>4. CASE ClaimAdmission(c)
        <3>1. apc[c] = "claim" /\ UNCHANGED <<sessions, who, grant>>
            BY <2>4 DEF ClaimAdmission
        <3>2. who[c] \in Visitors /\ grant[c] \in Places(who[c]) /\ grant[c] # NoPosition
            BY <1>0, <1>4, <1>5, <3>1 DEF NoPosition
        <3>3. Then(c, "record_arrival") \/ Then(c, "sign")
            BY <2>4 DEF ClaimAdmission
        <3>4. Granting'
            BY <1>0, <1>3, <1>4, <3>1, <3>2, <3>3 DEF Then
        <3>5. \/ UNCHANGED positions
              \/ positions' = [positions EXCEPT ![who[c]] = grant[c]]
            BY <2>4 DEF ClaimAdmission, SetAdmitted
        <3>6. Rows' /\ Minted' /\ \A v \in Visitors :
                  positions[v] # NoPosition => positions'[v] # NoPosition
            BY <1>0, <1>3, <1>4, <3>1, <3>2, <3>5
        <3>. QED BY <3>4, <3>6
    <2>5. CASE RecordArrival(c)
        <3>1. Granting'
            BY <1>0, <1>3, <1>4, <2>5 DEF RecordArrival, Then
        <3>. QED BY <1>8, <2>5, <3>1 DEF RecordArrival, tables, admissionRows
    <2>6. CASE Sign(c)
        <3>1. who[c] \in Visitors /\ grant[c] \in Places(who[c])
            BY <1>4, <1>5, <2>6 DEF Sign
        <3>2. \/ UNCHANGED sessions
              \/ sessions' = [sessions EXCEPT ![who[c]] = @ \cup {grant[c]}]
            BY <2>6 DEF Sign
        <3>3. Minted'
            BY <1>0, <1>3, <1>4, <3>1, <3>2
        <3>4. Rows' /\ UNCHANGED positions
            BY <1>3, <1>4, <2>6 DEF Sign, tables
        <3>5. Granting'
            BY <1>6, <2>6 DEF Sign
        <3>. QED BY <3>3, <3>4, <3>5
    <2>7. CASE CallFails(c)
        BY <1>6, <1>8, <2>7 DEF CallFails, tables, admissionRows
    <2>. QED BY <1>1, <2>1, <2>2, <2>3, <2>4, <2>5, <2>6, <2>7
<1>10. PlacesOwned'
    BY <1>9 DEF PlacesOwned
<1>. QED BY <1>2, <1>9, <1>10 DEF PlacesApart, SlotsApart, GivenApart, Opened

LEMMA PlacesNext ==
    ASSUME IInv, PlacesApart, [Next]_vars
    PROVE  PlacesApart'
<1>1. CASE LineStep
    BY <1>1, PlacesLine
<1>2. CASE AdmissionStep
    BY <1>2, PlacesCall DEF AdmissionStep
<1>3. CASE ControllerStep \/ OperatorStep \/ ClockStep \/ UNCHANGED vars
    <2>1. UNCHANGED <<tables, admissionVars, given>>
        BY <1>3 DEF ControllerStep, OperatorStep, ClockStep, vars
    <2>2. \A v : Places(v)' = Places(v)
        BY <2>1 DEF tables, Places, Counted, Opened, CohortPosition, ResolveIndex
    <2>3. PlacesOwned'
        BY <2>1, <2>2, PlacesGrow DEF PlacesApart, tables
    <2>. QED BY <2>1, <2>3 DEF PlacesApart, SlotsApart, GivenApart, Opened, tables
<1>. QED BY <1>1, <1>2, <1>3 DEF Next

(* No two visitors are ever let in on one position, whichever rows their   *)
(* calls read and however often either was placed.                         *)
THEOREM OnePlaceOneVisitorCorrect == Spec => []OnePlaceOneVisitor
<1>1. Init => IInv /\ PlacesApart
    <2>1. Init => PlacesApart
        BY DEF Init, LineInit, AdmissionInit, PlacesApart, SlotsApart, GivenApart, PlacesOwned
    <2>. QED BY <2>1, CursorInit
<1>2. IInv /\ PlacesApart /\ [Next]_vars => IInv' /\ PlacesApart'
    BY CursorNext, PlacesNext
<1>3. IInv /\ PlacesApart => OnePlaceOneVisitor
    <2>. SUFFICES ASSUME IInv, PlacesApart, NEW v \in Visitors, NEW w \in Visitors, v # w
                  PROVE  sessions[v] \cap sessions[w] = {}
        BY DEF OnePlaceOneVisitor
    <2>1. Places(v) \cap Places(w) = {}
        BY PlacesDisjoint DEF PlacesApart
    <2>. QED BY <2>1 DEF PlacesApart, PlacesOwned
<1>. QED BY <1>1, <1>2, <1>3, PTL DEF Spec

-----------------------------------------------------------------------------
(* The arrivals the controller measures no-shows from.                     *)

Recording == {c \in Tabs : apc[c] = "record_arrival"}

Tallies == arrivals \in Nat /\ Counting \in Nat /\ Cardinality(admitted) \in Nat /\ faults \in Nat

LEMMA TalliesType == IInv => Tallies
<1>. SUFFICES ASSUME IInv PROVE Tallies
    OBVIOUS
<1>1. arrivals \in Nat /\ faults \in Nat /\ admitted \subseteq Visitors
    BY FaultAssumption
       DEF IInv, TypeInv, TypeOK, ServingTypeOK, TablesTypeOK, AdmissionTypeOK
<1>2. IsFiniteSet(admitted) /\ IsFiniteSet(Recording)
    BY <1>1, VisitorsAssumption, TabsAssumption, FS_Subset DEF Recording
<1>. QED BY <1>1, <1>2, FS_CardinalityType DEF Tallies, Counting, Recording

(* One call moves: it may enter record_arrival, or leave it. *)
LEMMA CountingMoves ==
    ASSUME AdmissionTypeOK, NEW c \in Tabs, NEW call, Then(c, call)
    PROVE  Counting' = (Counting - (IF apc[c] = "record_arrival" THEN 1 ELSE 0))
                         + (IF call = "record_arrival" THEN 1 ELSE 0)
<1>. DEFINE R == Recording \ {c}
<1>1. IsFiniteSet(Recording) /\ IsFiniteSet(R) /\ c \notin R
    BY TabsAssumption, FS_Subset DEF Recording
<1>2. Recording = IF apc[c] = "record_arrival" THEN R \cup {c} ELSE R
    BY DEF Recording
<1>3. Recording' = IF call = "record_arrival" THEN R \cup {c} ELSE R
    BY DEF Recording, Then, AdmissionTypeOK
<1>4. Cardinality(R) \in Nat /\ Cardinality(R \cup {c}) = Cardinality(R) + 1
    BY <1>1, FS_AddElement, FS_CardinalityType
<1>5. Counting = Cardinality(Recording) /\ Counting' = Cardinality(Recording')
    BY DEF Counting, Recording
<1>6. Counting = Cardinality(R) + (IF apc[c] = "record_arrival" THEN 1 ELSE 0)
    <2>1. CASE apc[c] = "record_arrival"
        BY <1>2, <1>4, <1>5, <2>1
    <2>2. CASE apc[c] # "record_arrival"
        BY <1>2, <1>4, <1>5, <2>2
    <2>. QED BY <2>1, <2>2
<1>7. Counting' = Cardinality(R) + (IF call = "record_arrival" THEN 1 ELSE 0)
    <2>1. CASE call = "record_arrival"
        BY <1>3, <1>4, <1>5, <2>1
    <2>2. CASE call # "record_arrival"
        BY <1>3, <1>4, <1>5, <2>2
    <2>. QED BY <2>1, <2>2
<1>. QED BY <1>4, <1>6, <1>7

(* A call that counts nothing leaves the tallies alone. *)
LEMMA TalliesQuiet ==
    ASSUME IInv, ArrivalsAccounted, UNCHANGED <<arrivals, admitted>>, Counting' = Counting,
           faults' \in Nat, faults' >= faults
    PROVE  ArrivalsAccounted'
BY TalliesType DEF Tallies, ArrivalsAccounted

LEMMA TalliesCall ==
    ASSUME IInv, ArrivalsAccounted, AdmissionNext
    PROVE  ArrivalsAccounted'
<1>. USE DEF IInv, TypeInv, TypeOK
<1>1. Tallies
    BY TalliesType
<1>2. PICK c \in Tabs :
        \/ \E v \in Visitors : LoadAdmission(c, v)
        \/ LoadPosition(c) \/ LoadPrequeue(c) \/ ClaimAdmission(c)
        \/ RecordArrival(c) \/ Sign(c) \/ CallFails(c)
    BY DEF AdmissionNext
<1>3. faults' \in Nat /\ faults' >= faults
    BY <1>1, <1>2
       DEF Tallies, Fault, NoFault, LoadAdmission, LoadPosition, LoadPrequeue, ClaimAdmission,
           RecordArrival, Sign, CallFails
<1>4. ASSUME NEW call, Then(c, call)
      PROVE  Counting' = (Counting - (IF apc[c] = "record_arrival" THEN 1 ELSE 0))
                           + (IF call = "record_arrival" THEN 1 ELSE 0)
    BY <1>4, CountingMoves
<1>5. CASE \E v \in Visitors : LoadAdmission(c, v)
    <2>1. Counting' = Counting
        BY <1>1, <1>4, <1>5 DEF LoadAdmission, Tallies
    <2>. QED BY <1>3, <1>5, <2>1, TalliesQuiet DEF LoadAdmission, admissionRows
<1>6. CASE LoadPosition(c) \/ LoadPrequeue(c)
    <2>1. apc[c] # "record_arrival" /\ UNCHANGED <<arrivals, admitted>>
        BY <1>6 DEF LoadPosition, LoadPrequeue, admissionRows
    <2>2. Then(c, "idle") \/ Then(c, "claim") \/ Then(c, "load_prequeue")
        BY <1>6 DEF LoadPosition, LoadPrequeue, Decide, Respond
    <2>3. Counting' = Counting
        BY <1>1, <1>4, <2>1, <2>2 DEF Tallies
    <2>. QED BY <1>3, <2>1, <2>3, TalliesQuiet
<1>7. CASE ClaimAdmission(c)
    <2>1. apc[c] = "claim" /\ arrivals' = arrivals
        BY <1>7 DEF ClaimAdmission
    <2>2. Then(c, "record_arrival") => Counting' = Counting + 1
        BY <1>1, <1>4, <2>1 DEF Tallies
    <2>3. SetAdmitted(c) /\ MayClaim(c) =>
            Cardinality(admitted') = Cardinality(admitted) + 1
        <3>1. IsFiniteSet(admitted)
            BY VisitorsAssumption, FS_Subset DEF AdmissionTypeOK
        <3>. QED BY <3>1, FS_AddElement DEF SetAdmitted, MayClaim
    <2>4. CASE NoFault /\ MayClaim(c) /\ SetAdmitted(c) /\ Then(c, "record_arrival")
        BY <1>1, <2>1, <2>2, <2>3, <2>4 DEF Tallies, ArrivalsAccounted, NoFault
    <2>5. CASE Then(c, "sign") /\ UNCHANGED admitted
        <3>1. Counting' = Counting
            BY <1>1, <1>4, <2>1, <2>5 DEF Tallies
        <3>. QED BY <1>3, <2>1, <2>5, <3>1, TalliesQuiet
    <2>6. CASE Fault("error") /\ Then(c, "record_arrival") /\ UNCHANGED admitted
        BY <1>1, <2>1, <2>2, <2>6 DEF Tallies, ArrivalsAccounted, Fault
    <2>7. CASE Fault("ambiguous") /\ MayClaim(c) /\ SetAdmitted(c) /\ Then(c, "record_arrival")
        BY <1>1, <2>1, <2>2, <2>3, <2>7 DEF Tallies, ArrivalsAccounted, Fault
    <2>. QED BY <1>7, <2>4, <2>5, <2>6, <2>7 DEF ClaimAdmission
<1>8. CASE RecordArrival(c)
    <2>1. Counting' = Counting - 1 /\ UNCHANGED admitted
        BY <1>1, <1>4, <1>8 DEF RecordArrival, admissionRows, Tallies
    <2>2. \/ NoFault /\ arrivals' = arrivals + 1
          \/ Fault("error") /\ arrivals' = arrivals
          \/ Fault("ambiguous") /\ arrivals' = arrivals + 1
        BY <1>8 DEF RecordArrival
    <2>. QED BY <1>1, <2>1, <2>2 DEF Tallies, ArrivalsAccounted, Fault, NoFault
<1>9. CASE Sign(c)
    <2>1. Counting' = Counting
        BY <1>1, <1>4, <1>9 DEF Sign, Respond, Tallies
    <2>. QED BY <1>3, <1>9, <2>1, TalliesQuiet DEF Sign
<1>10. CASE CallFails(c)
    <2>1. Then(c, "idle") /\ UNCHANGED <<arrivals, admitted>>
        BY <1>10 DEF CallFails, Respond, admissionRows
    <2>2. CASE apc[c] = "record_arrival"
        <3>1. faults' = faults + 1 /\ Counting' = Counting - 1
            BY <1>1, <1>4, <1>10, <2>1, <2>2 DEF CallFails, Fault, Tallies
        <3>. QED BY <1>1, <2>1, <3>1 DEF Tallies, ArrivalsAccounted
    <2>3. CASE apc[c] # "record_arrival"
        <3>1. Counting' = Counting
            BY <1>1, <1>4, <2>1, <2>3 DEF Tallies
        <3>. QED BY <1>3, <2>1, <3>1, TalliesQuiet
    <2>. QED BY <2>2, <2>3
<1>. QED BY <1>2, <1>5, <1>6, <1>7, <1>8, <1>9, <1>10

LEMMA TalliesNext ==
    ASSUME IInv, ArrivalsAccounted, [Next]_vars
    PROVE  ArrivalsAccounted'
<1>1. CASE AdmissionStep
    BY <1>1, TalliesCall DEF AdmissionStep
<1>2. CASE LineStep \/ ControllerStep \/ OperatorStep \/ ClockStep \/ UNCHANGED vars
    <2>1. UNCHANGED <<arrivals, admissionVars>>
        BY <1>2 DEF LineStep, ControllerStep, OperatorStep, ClockStep, Tick, vars
    <2>2. faults' \in Nat /\ faults' >= faults
        <3>1. faults \in Nat
            BY TalliesType DEF Tallies
        <3>2. CASE ControllerStep
            <4>1. PICK e \in Executions : PassStep(e) \/ PassFails(e)
                BY <3>2 DEF ControllerStep, ControllerNext
            <4>2. NoFault \/ \E kind : Fault(kind)
                BY <4>1 DEF PassStep, ReadItem, ReadArrivals, WriteRelease, PassFails
            <4>. QED BY <3>1, <4>2 DEF NoFault, Fault
        <3>3. CASE UNCHANGED faults
            BY <3>1, <3>3
        <3>. QED BY <1>2, <3>2, <3>3 DEF LineStep, OperatorStep, ClockStep, vars
    <2>. QED BY <2>1, <2>2, TalliesQuiet
             DEF admissionVars, admissionRows, callVars, Counting
<1>. QED BY <1>1, <1>2 DEF Next

(* generate_token: a visitor is counted among the arrivals once, when they *)
(* are first admitted; only a failed call or a crash miscounts one.        *)
THEOREM ArrivalsAccountedCorrect == Spec => []ArrivalsAccounted
<1>1. Init => IInv /\ ArrivalsAccounted
    <2>1. ASSUME Init PROVE ArrivalsAccounted
        <3>1. arrivals = 0 /\ faults = 0 /\ admitted = {} /\ Recording = {}
            BY <2>1 DEF Init, ServingInit, AdmissionInit, Recording
        <3>. QED BY <3>1, FS_EmptySet DEF ArrivalsAccounted, Counting, Recording
    <2>. QED BY <2>1, CursorInit
<1>2. IInv /\ ArrivalsAccounted /\ [Next]_vars => IInv' /\ ArrivalsAccounted'
    BY CursorNext, TalliesNext
<1>. QED BY <1>1, <1>2, PTL DEF Spec
=============================================================================
