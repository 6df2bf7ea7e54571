---------------------------- MODULE CohortProofs ----------------------------
(***************************************************************************)
(* What the arithmetic of CohortOffsets guarantees for every number of     *)
(* shards and every vector of shard counts: the prefix sums cut 0 .. N-1   *)
(* into one block per shard, so an index is never given out twice, and a   *)
(* counted row always has a position.                                      *)
(***************************************************************************)
EXTENDS Tables, WellFoundedInduction, TLAPS

(* A non-empty set of naturals has a least element. *)
LEMMA LeastNat ==
    ASSUME NEW T \in SUBSET Nat, T # {}
    PROVE  \E x \in T : \A y \in T : x <= y
<1>1. PICK x \in T : \A y \in T : <<y, x>> \notin OpToRel(<, Nat)
    BY NatLessThanWellFounded, WFMin, Zenon
<1>2. \A y \in T : ~(y < x)
    BY <1>1 DEF OpToRel
<1>3. \A y \in T : x <= y
    BY <1>2
<1>. QED BY <1>3

(* The recursive definition in Running has a solution on every prefix. *)
LEMMA RunningExists ==
    ASSUME NEW counts, NEW k \in Nat
    PROVE  \E f : f = [s \in 0 .. k |->
                         IF s = 0 THEN 0 ELSE f[s - 1] + counts[s - 1]]
<1>. DEFINE Solves(f, j) ==
              f = [s \in 0 .. j |-> IF s = 0 THEN 0 ELSE f[s - 1] + counts[s - 1]]
            Bad == {j \in Nat : ~\E f : Solves(f, j)}
<1>1. SUFFICES ASSUME Bad # {} PROVE FALSE
    OBVIOUS
<1>2. PICK j \in Bad : \A y \in Bad : j <= y
    BY <1>1, LeastNat, Zenon
<1>3. CASE j = 0
    <2>. DEFINE f == [s \in 0 .. 0 |-> 0]
    <2>1. Solves(f, j)
        BY <1>3
    <2>. QED BY <2>1, <1>2
<1>4. CASE j # 0
    <2>0. j \in Nat
        BY Zenon
    <2>1. j - 1 \in Nat /\ j - 1 \notin Bad
        <3>. HIDE DEF Bad
        <3>. QED BY <2>0, <1>2, <1>4
    <2>2. PICK g : Solves(g, j - 1)
        BY <2>1
    <2>. DEFINE f == [s \in 0 .. j |-> IF s = j THEN g[j - 1] + counts[j - 1] ELSE g[s]]
    <2>3. \A s \in 0 .. j : f[s] = IF s = 0 THEN 0 ELSE f[s - 1] + counts[s - 1]
        BY <2>1, <2>2, <1>4
    <2>4. Solves(f, j)
        BY <2>3
    <2>. QED BY <2>4, <1>2
<1>. QED BY <1>3, <1>4

(* The equation of the loop in from_counts. *)
LEMMA RunningEquation ==
    ASSUME NEW counts
    PROVE  Running(counts) =
             [s \in 0 .. SHARDS |->
                IF s = 0 THEN 0 ELSE Running(counts)[s - 1] + counts[s - 1]]
<1>1. SHARDS \in Nat
    BY ShardsAssumption
<1>2. \E f : f = [s \in 0 .. SHARDS |->
                    IF s = 0 THEN 0 ELSE f[s - 1] + counts[s - 1]]
    BY <1>1, RunningExists
<1>. QED BY <1>2 DEF Running

(* The running totals are naturals. *)
LEMMA RunningType ==
    ASSUME NEW counts \in [Shards -> Nat]
    PROVE  Running(counts) \in [0 .. SHARDS -> Nat]
<1>. DEFINE R == Running(counts)
            Bad == {s \in 0 .. SHARDS : R[s] \notin Nat}
<1>1. R = [s \in 0 .. SHARDS |-> IF s = 0 THEN 0 ELSE R[s - 1] + counts[s - 1]]
    BY RunningEquation
<1>. HIDE DEF R
<1>2. SUFFICES ASSUME Bad # {} PROVE FALSE
    BY <1>1 DEF R
<1>3. Bad \in SUBSET Nat
    BY ShardsAssumption
<1>4. PICK s \in Bad : \A y \in Bad : s <= y
    BY <1>2, <1>3, LeastNat, Zenon
<1>5. s # 0 /\ s - 1 \in Shards /\ s - 1 \notin Bad
    BY <1>1, <1>4, ShardsAssumption DEF Shards
<1>6. R[s] = R[s - 1] + counts[s - 1] /\ R[s - 1] \in Nat
    BY <1>1, <1>4, <1>5, ShardsAssumption DEF Shards
<1>. QED BY <1>4, <1>5, <1>6

(* Each shard's block starts at or after the end of every earlier one. *)
LEMMA RunningMonotone ==
    ASSUME NEW counts \in [Shards -> Nat], NEW s \in Shards, NEW t \in 0 .. SHARDS,
           s < t
    PROVE  Running(counts)[s] + counts[s] <= Running(counts)[t]
<1>. DEFINE R == Running(counts)
            Bad == {u \in 0 .. SHARDS : s < u /\ ~(R[s] + counts[s] <= R[u])}
<1>1. R = [u \in 0 .. SHARDS |-> IF u = 0 THEN 0 ELSE R[u - 1] + counts[u - 1]]
    BY RunningEquation
<1>2. R \in [0 .. SHARDS -> Nat]
    BY RunningType
<1>. HIDE DEF R
<1>3. SUFFICES ASSUME Bad # {} PROVE FALSE
    BY DEF R
<1>4. Bad \in SUBSET Nat
    BY ShardsAssumption
<1>5. PICK u \in Bad : \A y \in Bad : u <= y
    BY <1>3, <1>4, LeastNat, Zenon
<1>6. u - 1 \in Shards /\ u - 1 \notin Bad /\ u # 0
    BY <1>5, ShardsAssumption DEF Shards
<1>7. R[u] = R[u - 1] + counts[u - 1]
    BY <1>1, <1>5, <1>6
<1>8. R[s] \in Nat /\ R[u - 1] \in Nat /\ counts[u - 1] \in Nat /\ counts[s] \in Nat
    BY <1>2, <1>6, ShardsAssumption DEF Shards
<1>9. CASE u - 1 = s
    BY <1>5, <1>7, <1>8, <1>9
<1>10. CASE u - 1 # s
    <2>1. s < u - 1 /\ u - 1 \in 0 .. SHARDS
        BY <1>5, <1>6, <1>10, ShardsAssumption DEF Shards
    <2>2. R[s] + counts[s] <= R[u - 1]
        BY <2>1, <1>6
    <2>. QED BY <2>2, <1>5, <1>7, <1>8
<1>. QED BY <1>9, <1>10

-----------------------------------------------------------------------------
(* The published cohort is well formed, and gives back each shard's count. *)
LEMMA FromCountsType ==
    ASSUME NEW counts \in [Shards -> Nat]
    PROVE  /\ FromCounts(counts) \in CohortOffsets
           /\ \A s \in Shards : ShardCount(FromCounts(counts), s) = counts[s]
<1>. DEFINE R == Running(counts)
<1>1. R = [u \in 0 .. SHARDS |-> IF u = 0 THEN 0 ELSE R[u - 1] + counts[u - 1]]
    BY RunningEquation
<1>2. R \in [0 .. SHARDS -> Nat]
    BY RunningType
<1>3. FromCounts(counts) = [offsets |-> [s \in Shards |-> R[s]],
                            participant_count |-> R[SHARDS]]
    BY DEF FromCounts
<1>. HIDE DEF R
<1>4. FromCounts(counts) \in CohortOffsets
    BY <1>2, <1>3, ShardsAssumption DEF CohortOffsets, Shards
<1>5. ASSUME NEW s \in Shards
      PROVE  ShardCount(FromCounts(counts), s) = counts[s]
    <2>1. s + 1 \in 0 .. SHARDS /\ s + 1 # 0 /\ s \in 0 .. SHARDS
        BY ShardsAssumption DEF Shards
    <2>2. R[s + 1] = R[s] + counts[s]
        BY <1>1, <2>1, ShardsAssumption DEF Shards
    <2>3. ShardCount(FromCounts(counts), s) = R[s + 1] - R[s]
        BY <1>3, <2>1, ShardsAssumption DEF ShardCount, Shards
    <2>4. R[s] \in Nat /\ counts[s] \in Nat
        BY <1>2, <2>1
    <2>. QED BY <2>2, <2>3, <2>4
<1>. QED BY <1>4, <1>5

(* A local index that was counted resolves inside its shard's block; one   *)
(* that was not is a live join.                                            *)
LEMMA AssignInBlock ==
    ASSUME NEW counts \in [Shards -> Nat], NEW s \in Shards, NEW l \in Nat
    PROVE  /\ l >= counts[s] => Assign(FromCounts(counts), s, l) = LiveJoin
           /\ l < counts[s] =>
                /\ Assign(FromCounts(counts), s, l) = Running(counts)[s] + l
                /\ Assign(FromCounts(counts), s, l) # LiveJoin
<1>1. ShardCount(FromCounts(counts), s) = counts[s]
    BY FromCountsType
<1>2. FromCounts(counts).offsets[s] = Running(counts)[s]
    BY DEF FromCounts
<1>3. Running(counts)[s] \in Nat
    BY RunningType, ShardsAssumption DEF Shards
<1>. QED BY <1>1, <1>2, <1>3 DEF Assign, LiveJoin

(***************************************************************************)
(* assembly.rs, assign: a counted row's global index lies inside the       *)
(* cohort, and two rows with the same global index are the same row.       *)
(***************************************************************************)
THEOREM AssignInjective ==
    ASSUME NEW counts \in [Shards -> Nat],
           NEW s \in Shards, NEW l \in Nat, NEW t \in Shards, NEW m \in Nat,
           Assign(FromCounts(counts), s, l) # LiveJoin
    PROVE  /\ Assign(FromCounts(counts), s, l)
                \in 0 .. FromCounts(counts).participant_count - 1
           /\ Assign(FromCounts(counts), s, l) = Assign(FromCounts(counts), t, m)
                => s = t /\ l = m
<1>. DEFINE R == Running(counts)
<1>1. R \in [0 .. SHARDS -> Nat] /\ FromCounts(counts).participant_count = R[SHARDS]
    BY RunningType DEF FromCounts
<1>2. l < counts[s] /\ Assign(FromCounts(counts), s, l) = R[s] + l
    BY AssignInBlock
<1>3. R[s] + counts[s] <= R[SHARDS]
    BY RunningMonotone, ShardsAssumption DEF Shards
<1>4. R[s] \in Nat /\ R[t] \in Nat /\ R[SHARDS] \in Nat
      /\ counts[s] \in Nat /\ counts[t] \in Nat
    BY <1>1, ShardsAssumption DEF Shards
<1>5. Assign(FromCounts(counts), s, l) \in 0 .. R[SHARDS] - 1
    BY <1>2, <1>3, <1>4
<1>6. ASSUME Assign(FromCounts(counts), s, l) = Assign(FromCounts(counts), t, m)
      PROVE  s = t /\ l = m
    <2>1. m < counts[t] /\ R[s] + l = R[t] + m
        BY <1>2, <1>6, AssignInBlock
    <2>2. s < t => R[s] + counts[s] <= R[t]
        BY RunningMonotone, ShardsAssumption DEF Shards
    <2>3. t < s => R[t] + counts[t] <= R[s]
        BY RunningMonotone, ShardsAssumption DEF Shards
    <2>4. s = t
        BY <1>2, <1>4, <2>1, <2>2, <2>3 DEF Shards
    <2>. QED BY <1>4, <2>1, <2>4
<1>. QED BY <1>1, <1>5, <1>6

-----------------------------------------------------------------------------

(* The cohort an open publishes is what its shard counts fold to. *)
Published ==
    /\ Opened => /\ cohort.participant_count <= U64_MAX
                 /\ \E counts \in [Shards -> Nat] : cohort = FromCounts(counts)
    /\ ~Opened => queue_counter = 0

(* A counted row resolves to a natural number. *)
LEMMA CohortPositionType ==
    ASSUME TablesTypeOK, Published, NEW v \in Visitors, Counted(v)
    PROVE  CohortPosition(v) \in Nat
<1>. DEFINE N == cohort.participant_count
            i == ResolveIndex(prequeue[v])
<1>1. Opened /\ i # LiveJoin /\ prequeue[v] # NoRow
    BY DEF Counted
<1>2. N \in 0 .. U64_MAX
    BY <1>1 DEF TablesTypeOK, CohortOffsets, Published
<1>3. PICK counts \in [Shards -> Nat] : cohort = FromCounts(counts)
    BY <1>1 DEF Published
<1>4. prequeue[v].shard \in Shards /\ prequeue[v].local \in Nat
    BY <1>1 DEF TablesTypeOK, Row
<1>5. i \in 0 .. N - 1
    BY <1>1, <1>3, <1>4, AssignInjective DEF ResolveIndex
<1>6. shuffle_seed \in Seeds
    BY <1>1 DEF Opened, TablesTypeOK
<1>. QED BY <1>2, <1>5, <1>6, PrpAssumption DEF CohortPosition
=============================================================================
