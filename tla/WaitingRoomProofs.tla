-------------------------- MODULE WaitingRoomProofs --------------------------
(***************************************************************************)
(* Proofs about the waiting page and the form, for any number of visitors, *)
(* browsers, containers and faults, and any limits of the script.          *)
(***************************************************************************)
EXTENDS WaitingRoom, CohortProofs

-----------------------------------------------------------------------------
(* The inductive invariant, in named parts.                                *)

(* inFlight does its work: a page has at most the one chain x in flight.   *)
OnlyChain(k, x) == [j \in Chains |-> IF j = k THEN x ELSE Idle]

(* What the page knows of its chain. *)
InStep(p, x) ==
    /\ p.inFlight <=> x.pc # "idle"
    /\ p.left # "no" => x.pc = "idle"
    /\ p.admitting => p.left # "no" \/ x.pc = "redeem"
    /\ x.pc \in {"join", "joining"} => ~p.joined /\ p.joinAttempts > 0
    /\ x.pc = "idle" => x = Idle
    /\ p.left = "no" /\ ~p.stopped /\ ~p.hidden => p.timer \/ x.pc # "idle"

Heard(x) == x.pc = "joining" /\ x.answer = "accepted"

(* A join is spent on the place the page holds, on one it gave up as gone, *)
(* or on an answer it never heard.                                         *)
Spent(p, x, n, lost) ==
    n <= p.rejoinCycles + lost + (IF p.joined \/ Heard(x) THEN 1 ELSE 0)

PageInv ==
    \A v \in Scripted : \E k \in Chains, x \in Chain :
        /\ chain[v] = OnlyChain(k, x)
        /\ InStep(page[v], x)
        /\ Spent(page[v], x, sent[v], unanswered[v])

HistoryOK == sent \in [Scripted -> Nat] /\ unanswered \in [Scripted -> Nat]

(* A cached item is an old one, and what it says was opened stays so. *)
CacheInv == \A c \in Containers : cache[c].opened => Opened

(* A cookie on its way carries a join the queue took. *)
PostingInv ==
    \A x \in Forms \X Posts : posting[x] # NoIdentity => posting[x] \in accepted

RoomInv ==
    /\ TypeOK /\ Published /\ PageInv /\ HistoryOK /\ CacheInv
    /\ PostingInv /\ CookieMeansJoined

-----------------------------------------------------------------------------
(* A room that has failed once at most.                                    *)

Raced(v) == Opened /\ prequeue[v] # NoRow /\ ResolveIndex(prequeue[v]) = LiveJoin

Races(v) == IF Raced(v) THEN 1 ELSE 0

(* Nothing the ingest has done, and nothing left for it to do, gives v a   *)
(* place.                                                                  *)
Gone(v) == mail[v] = 0 /\ positions[v] = NoPosition /\ (prequeue[v] = NoRow \/ Raced(v))

Patience(v) == faults + (IF mail[v] > 0 THEN waited[v] ELSE MaxDelay)

(* Each join beyond the first answers for a fault or for the race with the *)
(* open, and a place that is gone for one not yet answered for.  Until it  *)
(* is gone, misses are the ingest's delay or a fault.                      *)
Forgives(p, x, failed, raced, gone, patience) ==
    /\ ~p.stopped /\ p.joinBlocked = 0
    /\ p.joinAttempts <= failed + (IF x.pc = "join" \/ Heard(x) THEN 1 ELSE 0)
    /\ ~p.joined =>
          p.misses + (IF x.pc = "asking" \/ (x.pc = "joining" /\ x.answer = "refused")
                      THEN 1 ELSE 0) <= failed
    /\ p.rejoinCycles <= failed + raced
    /\ (p.joined \/ Heard(x)) /\ gone => p.rejoinCycles < failed + raced
    /\ ~gone => p.misses <= patience

ForgivingInv ==
    /\ \A v \in Visitors : waited[v] <= MaxDelay
    /\ faults <= 1 =>
          \A v \in Scripted : \E k \in Chains, x \in Chain :
              /\ chain[v] = OnlyChain(k, x)
              /\ Forgives(page[v], x, faults, Races(v), Gone(v), Patience(v))

-----------------------------------------------------------------------------
(* The backoff.                                                            *)

LEMMA DoublingsExist ==
    ASSUME NEW n \in Nat
    PROVE  \E f : f = [i \in 0 .. n |-> IF i = 0 THEN 1 ELSE 2 * f[i - 1]]
<1>. DEFINE Solves(f, j) == f = [i \in 0 .. j |-> IF i = 0 THEN 1 ELSE 2 * f[i - 1]]
            Bad == {j \in Nat : ~\E f : Solves(f, j)}
<1>1. SUFFICES ASSUME Bad # {} PROVE FALSE
    OBVIOUS
<1>2. PICK j \in Bad : \A y \in Bad : j <= y
    BY <1>1, LeastNat, Zenon
<1>3. CASE j = 0
    <2>1. Solves([i \in 0 .. 0 |-> 1], j)
        BY <1>3
    <2>. QED BY <2>1, <1>2
<1>4. CASE j # 0
    <2>0. j \in Nat
        BY Zenon
    <2>1. j - 1 \in Nat /\ j - 1 \notin Bad
        <3>. HIDE DEF Bad
        <3>. QED BY <2>0, <1>2, <1>4
    <2>2. PICK g : Solves(g, j - 1)
        BY <2>1
    <2>. DEFINE f == [i \in 0 .. j |-> IF i = j THEN 2 * g[j - 1] ELSE g[i]]
    <2>3. \A i \in 0 .. j : f[i] = IF i = 0 THEN 1 ELSE 2 * f[i - 1]
        BY <2>1, <2>2, <1>4
    <2>4. Solves(f, j)
        BY <2>3
    <2>. QED BY <2>4, <1>2
<1>. QED BY <1>3, <1>4

LEMMA BackoffType ==
    /\ \A n \in 1 .. MAX_JOIN_ATTEMPTS : Backoff(n) \in Nat
    /\ MAX_JOIN_ATTEMPTS > 0 => Backoff(1) = 0
<1>. DEFINE N == MAX_JOIN_ATTEMPTS
            D == Doublings
            Bad == {i \in 0 .. N : ~(D[i] \in Nat /\ D[i] > 0)}
<1>1. N \in Nat
    BY PageAssumption
<1>2. D = [i \in 0 .. N |-> IF i = 0 THEN 1 ELSE 2 * D[i - 1]]
    BY <1>1, DoublingsExist DEF Doublings
<1>. HIDE DEF N, D
<1>3. D[0] = 1
    BY <1>1, <1>2
<1>4. Bad = {}
    <2>1. SUFFICES ASSUME Bad # {} PROVE FALSE
        OBVIOUS
    <2>2. Bad \in SUBSET Nat
        BY <1>1
    <2>3. PICK i \in Bad : \A y \in Bad : i <= y
        BY <2>1, <2>2, LeastNat, Zenon
    <2>4. i # 0 /\ i - 1 \in 0 .. N /\ i - 1 \notin Bad
        BY <1>1, <1>3, <2>3
    <2>5. D[i] = 2 * D[i - 1]
        BY <1>2, <2>3, <2>4
    <2>. QED BY <2>3, <2>4, <2>5
<1>. QED BY <1>1, <1>3, <1>4 DEF Backoff, N, D

-----------------------------------------------------------------------------
(* What the parts of a chain step make of a page.                          *)

Moves(v, k, q, x) ==
    page' = [page EXCEPT ![v] = q] /\ chain' = [chain EXCEPT ![v][k] = x]

(* Nothing but the poll itself has changed. *)
SameMemory(p, q) ==
    /\ q.stopped = p.stopped /\ q.joined = p.joined
    /\ q.joinAttempts = p.joinAttempts /\ q.joinBlocked = p.joinBlocked
    /\ q.misses = p.misses /\ q.rejoinCycles = p.rejoinCycles

(* A page whose chain has an answer in its hands. *)
Riding(p) == p \in Page /\ p.inFlight /\ p.left = "no" /\ ~p.admitting

Follows(v, k, p, pcs) ==
    \E q \in Page, x \in Chain :
        /\ Moves(v, k, q, x) /\ InStep(q, x) /\ SameMemory(p, q)
        /\ x.pc \in pcs

LEMMA Limits ==
    /\ MAX_JOIN_ATTEMPTS \in Nat /\ MAX_MISSES \in Nat
    /\ MAX_REJOIN_CYCLES \in Nat /\ MaxDelay \in Nat
    /\ 0 \in 0 .. MAX_JOIN_ATTEMPTS
    /\ Scripted \subseteq Visitors
BY PageAssumption

LEMMA ScheduledType ==
    ASSUME NEW p \in Page
    PROVE  /\ Scheduled(p) \in Page /\ SameMemory(p, Scheduled(p))
           /\ Scheduled(p).left = p.left /\ Scheduled(p).admitting = p.admitting
           /\ Scheduled(p).hidden = p.hidden
           /\ p.stopped \/ Scheduled(p).timer = ~p.hidden
BY DEF Scheduled, Page, SameMemory

LEMMA IdleType == Idle \in Chain
BY DEF Idle, Chain

LEMMA CaughtFollows ==
    ASSUME NEW v, NEW k, NEW p, p \in Page, p.left = "no", ~p.admitting, Caught(v, k, p)
    PROVE  Follows(v, k, p, {"idle"})
<1>. DEFINE q == [Scheduled(p) EXCEPT !.inFlight = FALSE]
<1>0. Scheduled(p) \in Page
    BY ScheduledType
<1>1. q \in Page
    BY <1>0 DEF Page
<1>2. InStep(q, Idle) /\ SameMemory(p, q)
    BY ScheduledType DEF Page, InStep, SameMemory, Idle
<1>3. Moves(v, k, q, Idle)
    BY DEF Caught, Settle, Moves
<1>. QED BY <1>1, <1>2, <1>3, IdleType DEF Follows, Idle

LEMMA PlacedFollows ==
    ASSUME NEW v, NEW k, NEW s, NEW p, s \in Status \cup {Empty}, Riding(p),
           Placed(v, k, s, p)
    PROVE  Follows(v, k, p, {"idle", "redeem"})
<1>1. CASE Caught(v, k, p)
    BY <1>1, CaughtFollows DEF Riding, Follows
<1>2. CASE GoOn(v, k, "redeem", s, [p EXCEPT !.admitting = TRUE])
    <2>. DEFINE q == [p EXCEPT !.admitting = TRUE]
                x == [pc |-> "redeem", s |-> s, answer |-> "none"]
    <2>1. q \in Page /\ x \in Chain
        BY DEF Riding, Page, Chain
    <2>2. InStep(q, x) /\ SameMemory(p, q)
        BY DEF Riding, Page, InStep, SameMemory
    <2>3. Moves(v, k, q, x)
        BY <1>2 DEF GoOn, Moves
    <2>. QED BY <2>1, <2>2, <2>3 DEF Follows
<1>. QED BY <1>1, <1>2 DEF Placed, Caught, Riding

LEMMA AfterJoinFollows ==
    ASSUME NEW v, NEW k, NEW s, NEW p, s \in Status \cup {Empty}, Riding(p),
           AfterJoin(v, k, s, p)
    PROVE  Follows(v, k, p, {"idle", "redeem", "asking"})
<1>1. CASE Caught(v, k, p)
    BY <1>1, CaughtFollows DEF Riding, Follows
<1>2. CASE Placed(v, k, s, p)
    BY <1>2, PlacedFollows DEF Follows
<1>3. CASE GoOn(v, k, "asking", s, p)
    <2>. DEFINE x == [pc |-> "asking", s |-> s, answer |-> "none"]
    <2>1. x \in Chain /\ InStep(p, x) /\ SameMemory(p, p) /\ Moves(v, k, p, x)
        BY <1>3 DEF Riding, Page, Chain, InStep, SameMemory, GoOn, Moves
    <2>. QED BY <2>1 DEF Follows, Riding
<1>. QED BY <1>1, <1>2, <1>3 DEF AfterJoin, Caught

LEMMA JoinFollows ==
    ASSUME NEW v, NEW k, NEW s, NEW p, s \in Status \cup {Empty}, Riding(p),
           join(v, k, s, p)
    PROVE  \/ Follows(v, k, p, {"idle", "redeem", "asking"})
                /\ (p.joined \/ p.joinBlocked > 0)
           \/ Follows(v, k, Stop(p), {"idle", "redeem", "asking"}) /\ OutOfAttempts(p)
           \/ /\ ~p.joined /\ ~OutOfAttempts(p)
              /\ GoOn(v, k, "join", s, [p EXCEPT !.joinAttempts = @ + 1])
<1>1. CASE AfterJoin(v, k, s, p) /\ (p.joined \/ p.joinBlocked > 0)
    BY <1>1, AfterJoinFollows
<1>2. CASE AfterJoin(v, k, s, Stop(p)) /\ OutOfAttempts(p)
    <2>1. Riding(Stop(p))
        BY DEF Riding, Stop, Page
    <2>. QED BY <1>2, <2>1, AfterJoinFollows
<1>3. CASE /\ ~p.joined /\ ~OutOfAttempts(p)
           /\ GoOn(v, k, "join", s, [p EXCEPT !.joinAttempts = @ + 1])
    BY <1>3
<1>. QED BY <1>1, <1>2, <1>3 DEF join

(* A step of the sole chain of v is a step of the whole room. *)
LEMMA ChainMoves ==
    ASSUME TypeOK, NEW v \in Scripted, NEW k \in Chains, NEW x \in Chain,
           NEW q \in Page, NEW y \in Chain,
           chain[v] = OnlyChain(k, x), Moves(v, k, q, y)
    PROVE  /\ page' \in [Scripted -> Page] /\ chain' \in [Scripted -> [Chains -> Chain]]
           /\ page'[v] = q /\ chain'[v] = OnlyChain(k, y)
           /\ \A w \in Scripted \ {v} : page'[w] = page[w] /\ chain'[w] = chain[w]
<1>1. page \in [Scripted -> Page] /\ chain \in [Scripted -> [Chains -> Chain]]
    BY DEF TypeOK
<1>2. chain'[v] = [chain[v] EXCEPT ![k] = y]
    BY <1>1 DEF Moves
<1>3. chain'[v] = OnlyChain(k, y)
    BY <1>2 DEF OnlyChain
<1>. QED BY <1>1, <1>3 DEF Moves

(* The chain that takes a step is the one in flight. *)
LEMMA TheChain ==
    ASSUME TypeOK, PageInv, NEW v \in Scripted, NEW k \in Chains, chain[v][k].pc # "idle"
    PROVE  /\ chain[v][k] \in Chain /\ page[v] \in Page
           /\ chain[v] = OnlyChain(k, chain[v][k])
           /\ InStep(page[v], chain[v][k])
           /\ Spent(page[v], chain[v][k], sent[v], unanswered[v])
<1>1. PICK j \in Chains, x \in Chain :
        /\ chain[v] = OnlyChain(j, x) /\ InStep(page[v], x)
        /\ Spent(page[v], x, sent[v], unanswered[v])
    BY DEF PageInv
<1>2. j = k /\ x = chain[v][k]
    BY <1>1 DEF OnlyChain, Idle
<1>. QED BY <1>1, <1>2 DEF TypeOK

(* What a chain step owes the invariant: the page and the chain it leaves. *)
LEMMA StepKeeps ==
    ASSUME TypeOK, PageInv, NEW v \in Scripted, NEW k \in Chains, NEW x \in Chain,
           NEW q \in Page, NEW y \in Chain,
           chain[v] = OnlyChain(k, x), Moves(v, k, q, y),
           InStep(q, y), Spent(q, y, sent'[v], unanswered'[v]),
           \A w \in Scripted \ {v} : sent'[w] = sent[w] /\ unanswered'[w] = unanswered[w]
    PROVE  /\ page' \in [Scripted -> Page] /\ chain' \in [Scripted -> [Chains -> Chain]]
           /\ PageInv'
<1>1. /\ page' \in [Scripted -> Page] /\ chain' \in [Scripted -> [Chains -> Chain]]
      /\ page'[v] = q /\ chain'[v] = OnlyChain(k, y)
      /\ \A w \in Scripted \ {v} : page'[w] = page[w] /\ chain'[w] = chain[w]
    BY ChainMoves
<1>2. ASSUME NEW w \in Scripted
      PROVE  \E j \in Chains, z \in Chain :
                /\ chain'[w] = OnlyChain(j, z)
                /\ InStep(page'[w], z)
                /\ Spent(page'[w], z, sent'[w], unanswered'[w])
    <2>1. CASE w = v
        BY <1>1, <2>1
    <2>2. CASE w # v
        BY <1>1, <2>2 DEF PageInv
    <2>. QED BY <2>1, <2>2
<1>. QED BY <1>1, <1>2 DEF PageInv, OnlyChain

PagesKept ==
    /\ page' \in [Scripted -> Page] /\ chain' \in [Scripted -> [Chains -> Chain]]
    /\ PageInv'

LEMMA FollowsKeeps ==
    ASSUME TypeOK, PageInv, NEW v \in Scripted, NEW k \in Chains, chain[v][k].pc # "idle",
           NEW r \in Page, NEW pcs \in SUBSET {"idle", "redeem", "asking"},
           Follows(v, k, r, pcs), Spent(r, Idle, sent'[v], unanswered'[v]),
           \A w \in Scripted \ {v} : sent'[w] = sent[w] /\ unanswered'[w] = unanswered[w]
    PROVE  PagesKept
<1>1. PICK q \in Page, y \in Chain :
        Moves(v, k, q, y) /\ InStep(q, y) /\ SameMemory(r, q) /\ y.pc \in pcs
    BY DEF Follows
<1>2. Spent(q, y, sent'[v], unanswered'[v])
    BY <1>1 DEF Spent, SameMemory, Heard, Idle
<1>3. chain[v] = OnlyChain(k, chain[v][k]) /\ chain[v][k] \in Chain
    BY TheChain
<1>. QED BY <1>1, <1>2, <1>3, StepKeeps DEF PagesKept

LEMMA LeavesFollows ==
    ASSUME NEW v, NEW k, NEW p, p \in Page, p.left # "no", Settle(v, k, p)
    PROVE  Follows(v, k, p, {"idle"})
<1>. DEFINE q == [p EXCEPT !.inFlight = FALSE]
<1>1. q \in Page /\ InStep(q, Idle) /\ SameMemory(p, q)
    BY DEF Page, InStep, SameMemory, Idle
<1>2. Moves(v, k, q, Idle)
    BY DEF Settle, Moves
<1>. QED BY <1>1, <1>2, IdleType DEF Follows, Idle

(* What a container answers. *)
LEMMA CacheGetType ==
    ASSUME TypeOK, CacheInv, NEW c \in Containers
    PROVE  CacheGet(c) \in Status /\ (CacheGet(c).opened => Opened)
<1>1. Counters \in Status /\ (Counters.opened => Opened)
    BY DEF TypeOK, TablesTypeOK, ServingTypeOK, Counters, Status, ServingState, ServingStates,
           Opened
<1>. QED BY <1>1 DEF TypeOK, ReadTypeOK, CacheGet, CacheInv

LEMMA QueueNumType ==
    ASSUME TypeOK, Published, NEW v \in Visitors, NEW item, item.opened => Opened
    PROVE  queue_num(v, item).status = 200 => queue_num(v, item).position \in Nat
<1>1. positions[v] # NoPosition => positions[v] \in Nat
    BY DEF TypeOK, TablesTypeOK
<1>2. CASE prequeue[v] # NoRow /\ item.opened /\ ResolveIndex(prequeue[v]) # LiveJoin
    <2>1. Counted(v)
        BY <1>2 DEF Counted
    <2>2. CohortPosition(v) \in Nat
        BY <2>1, CohortPositionType DEF TypeOK
    <2>. QED BY <1>2, <2>2 DEF queue_num, Found
<1>. QED BY <1>1, <1>2 DEF queue_num, position_response, Found, Refused

-----------------------------------------------------------------------------
(* The steps of a chain.                                                   *)

LEMMA StatusKeeps ==
    ASSUME RoomInv, NEW v \in Scripted, NEW k \in Chains, StatusAnswered(v, k)
    PROVE  PagesKept
<1>. DEFINE p == page[v]
            x == chain[v][k]
<1>0. TypeOK /\ PageInv /\ CacheInv /\ x.pc = "status" /\ UNCHANGED <<sent, unanswered>>
    BY DEF RoomInv, StatusAnswered
<1>1. /\ x \in Chain /\ p \in Page /\ chain[v] = OnlyChain(k, x)
      /\ InStep(p, x) /\ Spent(p, x, sent[v], unanswered[v])
    BY <1>0, TheChain
<1>2. Riding(p) /\ Riding(forgetPosition(p))
    BY <1>0, <1>1 DEF InStep, Riding, forgetPosition, Page
<1>3. Spent(p, Idle, sent'[v], unanswered'[v])
    BY <1>0, <1>1 DEF Spent, Heard, Idle
<1>4. ASSUME NEW r, Riding(r), r.joined = p.joined, r.rejoinCycles = p.rejoinCycles,
             NEW s \in Status, join(v, k, s, r)
      PROVE  PagesKept
    <2>1. CASE Follows(v, k, r, {"idle", "redeem", "asking"})
        <3>1. Spent(r, Idle, sent'[v], unanswered'[v])
            BY <1>3, <1>4 DEF Spent
        <3>. QED BY <1>0, <1>4, <2>1, <3>1, FollowsKeeps DEF Riding
    <2>2. CASE Follows(v, k, Stop(r), {"idle", "redeem", "asking"})
        <3>1. Stop(r) \in Page /\ Spent(Stop(r), Idle, sent'[v], unanswered'[v])
            BY <1>3, <1>4 DEF Spent, Stop, Page, Riding
        <3>. QED BY <1>0, <2>2, <3>1, FollowsKeeps
    <2>3. CASE /\ ~r.joined /\ ~OutOfAttempts(r)
               /\ GoOn(v, k, "join", s, [r EXCEPT !.joinAttempts = @ + 1])
        <3>. DEFINE q == [r EXCEPT !.joinAttempts = @ + 1]
                    y == [pc |-> "join", s |-> s, answer |-> "none"]
        <3>1. q \in Page /\ q.joined = r.joined /\ q.rejoinCycles = r.rejoinCycles
              /\ q.joinAttempts > 0 /\ q.inFlight /\ ~q.admitting /\ q.left = "no"
            BY <1>4, <2>3, PageAssumption DEF Riding, Page, OutOfAttempts
        <3>2. y \in Chain /\ Moves(v, k, q, y) /\ y.pc = "join"
            BY <2>3 DEF Chain, GoOn, Moves
        <3>3. InStep(q, y)
            BY <2>3, <3>1 DEF InStep
        <3>. HIDE DEF q, y
        <3>4. Spent(q, y, sent'[v], unanswered'[v])
            BY <1>3, <1>4, <3>1, <3>2 DEF Spent, Heard, Idle
        <3>. QED BY <1>0, <1>1, <3>1, <3>2, <3>3, <3>4, StepKeeps DEF PagesKept
    <2>. QED BY <1>4, <2>1, <2>2, <2>3, JoinFollows
<1>5. ASSUME NEW r, Riding(r), r.joined = p.joined, r.rejoinCycles = p.rejoinCycles,
             Caught(v, k, r)
      PROVE  PagesKept
    <2>1. Follows(v, k, r, {"idle"}) /\ Spent(r, Idle, sent'[v], unanswered'[v])
        BY <1>3, <1>5, CaughtFollows DEF Spent, Riding
    <2>. QED BY <1>0, <1>5, <2>1, FollowsKeeps DEF Riding
<1>6. CASE Settle(v, k, [p EXCEPT !.left = "fail_open", !.timer = FALSE])
    <2>. DEFINE r == [p EXCEPT !.left = "fail_open", !.timer = FALSE]
    <2>1. r \in Page /\ r.left # "no" /\ Spent(r, Idle, sent'[v], unanswered'[v])
        BY <1>1, <1>3 DEF Page, Spent
    <2>2. Follows(v, k, r, {"idle"})
        BY <1>6, <2>1, LeavesFollows
    <2>. HIDE DEF r
    <2>. QED BY <1>0, <2>1, <2>2, FollowsKeeps
<1>7. CASE Caught(v, k, p)
    BY <1>2, <1>5, <1>7
<1>8. CASE \E c \in Containers : join(v, k, CacheGet(c), p)
                                    \/ join(v, k, CacheGet(c), forgetPosition(p))
    <2>1. forgetPosition(p).joined = p.joined /\ forgetPosition(p).rejoinCycles = p.rejoinCycles
        BY <1>1 DEF forgetPosition, Page
    <2>. HIDE DEF p, x
    <2>. QED BY <1>0, <1>2, <1>4, <1>8, <2>1, CacheGetType
<1>9. CASE Caught(v, k, forgetPosition(p))
    <2>1. forgetPosition(p).joined = p.joined /\ forgetPosition(p).rejoinCycles = p.rejoinCycles
        BY <1>1 DEF forgetPosition, Page
    <2>. HIDE DEF p, x
    <2>. QED BY <1>2, <1>5, <1>9, <2>1
<1>10. \/ Caught(v, k, p) \/ Caught(v, k, forgetPosition(p))
       \/ Settle(v, k, [p EXCEPT !.left = "fail_open", !.timer = FALSE])
       \/ \E c \in Containers : join(v, k, CacheGet(c), p)
                                  \/ join(v, k, CacheGet(c), forgetPosition(p))
    BY DEF StatusAnswered, Caught
<1>. QED BY <1>6, <1>7, <1>8, <1>9, <1>10

LEMMA PostedKeeps ==
    ASSUME RoomInv, NEW v \in Scripted, NEW k \in Chains, JoinPosted(v, k)
    PROVE  PagesKept /\ HistoryOK'
<1>. DEFINE p == page[v]
            x == chain[v][k]
<1>0. TypeOK /\ PageInv /\ HistoryOK /\ x.pc = "join" /\ page' = page
    BY DEF RoomInv, JoinPosted
<1>1. /\ x \in Chain /\ p \in Page /\ chain[v] = OnlyChain(k, x)
      /\ InStep(p, x) /\ Spent(p, x, sent[v], unanswered[v])
    BY <1>0, TheChain
<1>2. PICK a \in {"accepted", "refused", "lost"} :
        /\ chain' = [chain EXCEPT ![v][k].pc = "joining", ![v][k].answer = a]
        /\ sent' = IF a = "refused" THEN sent ELSE [sent EXCEPT ![v] = @ + 1]
        /\ unanswered' = IF a = "lost" THEN [unanswered EXCEPT ![v] = @ + 1] ELSE unanswered
    BY DEF JoinPosted
<1>. DEFINE y == [x EXCEPT !.pc = "joining", !.answer = a]
<1>3. y \in Chain /\ y.pc = "joining" /\ y.answer = a
    BY <1>1 DEF Chain
<1>4. Moves(v, k, p, y)
    BY <1>0, <1>2 DEF TypeOK, Moves
<1>5. InStep(p, y)
    BY <1>0, <1>1, <1>3 DEF InStep
<1>6. HistoryOK'
    BY <1>0, <1>2 DEF HistoryOK
<1>7. Spent(p, y, sent'[v], unanswered'[v])
    BY <1>0, <1>1, <1>2, <1>3 DEF Spent, Heard, HistoryOK, InStep, Page
<1>8. \A w \in Scripted \ {v} : sent'[w] = sent[w] /\ unanswered'[w] = unanswered[w]
    BY <1>0, <1>2 DEF HistoryOK
<1>. HIDE DEF p, x, y
<1>. QED BY <1>0, <1>1, <1>3, <1>4, <1>5, <1>6, <1>7, <1>8, StepKeeps DEF PagesKept

LEMMA AnsweredKeeps ==
    ASSUME RoomInv, NEW v \in Scripted, NEW k \in Chains, JoinAnswered(v, k)
    PROVE  PagesKept
<1>. DEFINE p == page[v]
            x == chain[v][k]
            s == x.s
            r == [p EXCEPT !.joined = TRUE, !.joinAttempts = 0]
            b == [p EXCEPT !.joinBlocked = Backoff(p.joinAttempts)]
<1>0. TypeOK /\ PageInv /\ x.pc = "joining" /\ UNCHANGED <<sent, unanswered>>
    BY DEF RoomInv, JoinAnswered
<1>1. /\ x \in Chain /\ p \in Page /\ chain[v] = OnlyChain(k, x)
      /\ InStep(p, x) /\ Spent(p, x, sent'[v], unanswered'[v])
    BY <1>0, TheChain
<1>2. s \in Status \cup {Empty} /\ Riding(p)
    BY <1>0, <1>1 DEF InStep, Riding, Chain
<1>3. CASE x.answer = "accepted" /\ AfterJoin(v, k, s, r)
    <2>1. Riding(r)
        BY <1>2, Limits DEF Riding, Page
    <2>2. Spent(r, Idle, sent'[v], unanswered'[v])
        BY <1>0, <1>1, <1>3 DEF Spent, Heard, Page, InStep
    <2>3. Follows(v, k, r, {"idle", "redeem", "asking"})
        BY <1>2, <1>3, <2>1, AfterJoinFollows
    <2>. HIDE DEF r, p, x, s
    <2>. QED BY <1>0, <2>1, <2>2, <2>3, FollowsKeeps DEF Riding, x
<1>4. CASE x.answer = "refused" /\ AfterJoin(v, k, s, b)
    <2>1. Backoff(p.joinAttempts) \in Nat
        BY <1>0, <1>1, BackoffType DEF InStep, Page
    <2>2. Riding(b)
        BY <1>2, <2>1 DEF Riding, Page
    <2>3. Spent(b, Idle, sent'[v], unanswered'[v])
        <3>1. b.joined = p.joined /\ b.rejoinCycles = p.rejoinCycles
            BY <1>1 DEF Page
        <3>. HIDE DEF b, p
        <3>. QED BY <1>1, <1>4, <3>1 DEF Spent, Heard, Idle
    <2>4. Follows(v, k, b, {"idle", "redeem", "asking"})
        BY <1>2, <1>4, <2>2, AfterJoinFollows
    <2>. HIDE DEF b, p, x, s
    <2>. QED BY <1>0, <2>2, <2>3, <2>4, FollowsKeeps DEF Riding, x
<1>5. CASE x.answer = "lost" /\ Caught(v, k, p)
    <2>1. Follows(v, k, p, {"idle"})
        BY <1>2, <1>5, CaughtFollows DEF Riding
    <2>2. Spent(p, Idle, sent'[v], unanswered'[v])
        BY <1>1, <1>5 DEF Spent, Heard, Idle
    <2>. HIDE DEF p, x
    <2>. QED BY <1>0, <1>1, <2>1, <2>2, FollowsKeeps DEF x
<1>. QED BY <1>3, <1>4, <1>5 DEF JoinAnswered

LEMMA MissedKeeps ==
    ASSUME RoomInv, NEW v \in Scripted, NEW k \in Chains, chain[v][k].pc = "asking",
           Missed(v, k), UNCHANGED <<sent, unanswered>>
    PROVE  PagesKept
<1>. DEFINE x == chain[v][k]
            p == [page[v] EXCEPT !.misses = @ + 1]
            q == [p EXCEPT !.rejoinCycles = @ + 1]
<1>0. TypeOK /\ PageInv
    BY DEF RoomInv
<1>1. /\ x \in Chain /\ page[v] \in Page /\ chain[v] = OnlyChain(k, x)
      /\ InStep(page[v], x) /\ Spent(page[v], x, sent[v], unanswered[v])
    BY <1>0, TheChain
<1>2. /\ p \in Page /\ ~p.admitting /\ p.left = "no"
      /\ p.rejoinCycles = page[v].rejoinCycles /\ p.joined = page[v].joined
    BY <1>1 DEF Page, InStep
<1>3. sent[v] <= page[v].rejoinCycles + unanswered[v] + (IF page[v].joined THEN 1 ELSE 0)
    BY <1>1 DEF Spent, Heard
<1>. HIDE DEF p
<1>4. q \in Page /\ ~q.admitting /\ q.left = "no" /\ q.rejoinCycles = p.rejoinCycles + 1
      /\ q.joined = p.joined
    BY <1>2 DEF Page
<1>5. sent[v] <= q.rejoinCycles + unanswered[v]
    BY <1>0, <1>2, <1>3, <1>4 DEF RoomInv, HistoryOK, Page
<1>. HIDE DEF q
<1>6. CASE Caught(v, k, p)
    <2>1. Follows(v, k, p, {"idle"})
        BY <1>2, <1>6, CaughtFollows
    <2>2. Spent(p, Idle, sent'[v], unanswered'[v])
        BY <1>2, <1>3 DEF Spent, Heard, Idle
    <2>. QED BY <1>0, <1>2, <2>1, <2>2, FollowsKeeps
<1>7. CASE Settle(v, k, Stop(q))
    <2>1. Stop(q) \in Page /\ ~Stop(q).admitting /\ Stop(q).left = "no"
          /\ Scheduled(Stop(q)) = Stop(q)
          /\ Stop(q).rejoinCycles = q.rejoinCycles
        BY <1>4 DEF Stop, Page, Scheduled
    <2>2. Follows(v, k, Stop(q), {"idle"})
        BY <1>7, <2>1, CaughtFollows DEF Caught
    <2>3. Spent(Stop(q), Idle, sent'[v], unanswered'[v])
        BY <1>5, <2>1, <1>4 DEF Spent, RoomInv, HistoryOK, Page
    <2>. QED BY <1>0, <2>1, <2>2, <2>3, FollowsKeeps
<1>8. CASE Caught(v, k, forgetJoin(q))
    <2>1. /\ forgetJoin(q) \in Page /\ ~forgetJoin(q).admitting /\ forgetJoin(q).left = "no"
          /\ forgetJoin(q).rejoinCycles = q.rejoinCycles
        BY <1>4, Limits DEF forgetJoin, forgetPosition, Page
    <2>2. Follows(v, k, forgetJoin(q), {"idle"})
        BY <1>8, <2>1, CaughtFollows
    <2>3. Spent(forgetJoin(q), Idle, sent'[v], unanswered'[v])
        BY <1>5, <2>1, <1>4 DEF Spent, RoomInv, HistoryOK, Page
    <2>. QED BY <1>0, <2>1, <2>2, <2>3, FollowsKeeps
<1>. QED BY <1>6, <1>7, <1>8 DEF Missed, Caught, p, q

LEMMA AskedKeeps ==
    ASSUME RoomInv, NEW v \in Scripted, NEW k \in Chains, Asked(v, k)
    PROVE  PagesKept
<1>. DEFINE x == chain[v][k]
            p == [page[v] EXCEPT !.misses = 0]
<1>0. TypeOK /\ PageInv /\ Published /\ CacheInv /\ x.pc = "asking" /\ UNCHANGED <<sent, unanswered>>
    BY DEF RoomInv, Asked
<1>1. /\ x \in Chain /\ page[v] \in Page /\ chain[v] = OnlyChain(k, x)
      /\ InStep(page[v], x) /\ Spent(page[v], x, sent[v], unanswered[v])
    BY <1>0, TheChain
<1>2. /\ Riding(page[v]) /\ Riding(p) /\ x.s \in Status \cup {Empty}
      /\ p.rejoinCycles = page[v].rejoinCycles /\ p.joined = page[v].joined
    BY <1>0, <1>1 DEF InStep, Riding, Page, Chain
<1>3. Spent(page[v], Idle, sent'[v], unanswered'[v])
    BY <1>0, <1>1 DEF Spent, Heard, Idle
<1>4. CASE Missed(v, k)
    BY <1>0, <1>4, MissedKeeps
<1>. HIDE DEF p
<1>5. ASSUME NEW r, r \in {page[v], p}, Caught(v, k, r)
      PROVE  PagesKept
    <2>1. r \in Page /\ Spent(r, Idle, sent'[v], unanswered'[v])
        BY <1>2, <1>3, <1>5 DEF Spent, Riding
    <2>2. Follows(v, k, r, {"idle"})
        BY <1>2, <1>5, CaughtFollows DEF Riding
    <2>. QED BY <1>0, <2>1, <2>2, FollowsKeeps
<1>6. ASSUME NEW c \in Containers, queue_num(v, CacheGet(c)).status = 200,
             Placed(v, k, x.s, [p EXCEPT !.knownPosition = queue_num(v, CacheGet(c)).position])
      PROVE  PagesKept
    <2>. DEFINE n == queue_num(v, CacheGet(c)).position
                r == [p EXCEPT !.knownPosition = n]
    <2>1. n \in Nat
        BY <1>0, <1>6, CacheGetType, QueueNumType, PageAssumption
    <2>. HIDE DEF n
    <2>2. Riding(r) /\ r.rejoinCycles = p.rejoinCycles /\ r.joined = p.joined
        BY <1>2, <2>1 DEF Riding, Page
    <2>3. Placed(v, k, x.s, r)
        BY <1>6 DEF n
    <2>. HIDE DEF r
    <2>4. Follows(v, k, r, {"idle", "redeem"})
        BY <1>2, <2>2, <2>3, PlacedFollows
    <2>5. Spent(r, Idle, sent'[v], unanswered'[v])
        BY <1>2, <1>3, <2>2 DEF Spent
    <2>. QED BY <1>0, <2>2, <2>4, <2>5, FollowsKeeps DEF Riding
<1>. QED BY <1>4, <1>5, <1>6 DEF Asked, p

LEMMA RedeemKeeps ==
    ASSUME RoomInv, NEW v \in Scripted, NEW k \in Chains, RedeemAnswered(v, k)
    PROVE  PagesKept
<1>. DEFINE x == chain[v][k]
            p == page[v]
            r == [p EXCEPT !.left = "admitted", !.timer = FALSE]
            d == [p EXCEPT !.left = "not_holder", !.timer = FALSE, !.admitting = FALSE]
            f == [p EXCEPT !.admitting = FALSE]
<1>0. TypeOK /\ PageInv /\ x.pc = "redeem" /\ UNCHANGED <<sent, unanswered>>
    BY DEF RoomInv, RedeemAnswered, NotHolder
<1>1. /\ x \in Chain /\ p \in Page /\ InStep(p, x)
      /\ Spent(p, x, sent[v], unanswered[v])
    BY <1>0, TheChain
<1>2. /\ r \in Page /\ r.left # "no" /\ Spent(r, Idle, sent'[v], unanswered'[v])
      /\ d \in Page /\ d.left # "no" /\ Spent(d, Idle, sent'[v], unanswered'[v])
      /\ f \in Page /\ f.left = "no" /\ ~f.admitting /\ Spent(f, Idle, sent'[v], unanswered'[v])
    BY <1>0, <1>1 DEF Page, Spent, Heard, Idle, InStep
<1>3. Settle(v, k, r) \/ Settle(v, k, d) \/ Caught(v, k, f)
    BY DEF RedeemAnswered, RedeemFailed, Caught
<1>. HIDE DEF r, d, f
<1>4. Follows(v, k, r, {"idle"}) \/ Follows(v, k, d, {"idle"}) \/ Follows(v, k, f, {"idle"})
    BY <1>2, <1>3, LeavesFollows, CaughtFollows
<1>. QED BY <1>0, <1>2, <1>4, FollowsKeeps

-----------------------------------------------------------------------------
(* The browser's own steps.                                                *)

(* The page changes while its chain stays as it was. *)
LEMMA PageKeeps ==
    ASSUME TypeOK, PageInv, NEW v \in Scripted, NEW k \in Chains, NEW x \in Chain,
           chain[v] = OnlyChain(k, x), NEW q \in Page,
           page' = [page EXCEPT ![v] = q], UNCHANGED <<chain, sent, unanswered>>,
           InStep(q, x), Spent(q, x, sent[v], unanswered[v])
    PROVE  PagesKept
<1>1. Moves(v, k, q, x)
    BY DEF Moves, TypeOK, OnlyChain
<1>2. Spent(q, x, sent'[v], unanswered'[v])
    OBVIOUS
<1>. QED BY <1>1, <1>2, StepKeeps DEF PagesKept

(* tick, of a page r that only lost its timer or came into sight. *)
LEMMA TickKeeps ==
    ASSUME RoomInv, NEW v \in Scripted, NEW r \in Page, tick(v, r),
           page[v].left = "no", r.left = "no", r.inFlight = page[v].inFlight,
           r.admitting = page[v].admitting, SameMemory(page[v], r),
           UNCHANGED <<sent, unanswered>>
    PROVE  PagesKept
<1>0. TypeOK /\ PageInv
    BY DEF RoomInv
<1>1. PICK k \in Chains, x \in Chain :
        /\ chain[v] = OnlyChain(k, x) /\ InStep(page[v], x)
        /\ Spent(page[v], x, sent[v], unanswered[v])
    BY <1>0 DEF PageInv
<1>2. CASE r.inFlight /\ page' = [page EXCEPT ![v] = [r EXCEPT !.catchUpWanted = TRUE]]
           /\ UNCHANGED chain
    <2>. DEFINE q == [r EXCEPT !.catchUpWanted = TRUE]
    <2>1. q \in Page /\ InStep(q, x)
        BY <1>1, <1>2 DEF Page, InStep, SameMemory
    <2>2. Spent(q, x, sent[v], unanswered[v])
        BY <1>1 DEF Page, Spent, SameMemory
    <2>. HIDE DEF q
    <2>3. page' = [page EXCEPT ![v] = q]
        BY <1>2 DEF q
    <2>. QED BY <1>0, <1>1, <1>2, <2>1, <2>2, <2>3, PageKeeps
<1>3. ASSUME ~r.inFlight, NEW j \in Chains, chain' = [chain EXCEPT ![v][j].pc = "status"],
             NEW b \in 0 .. (IF r.joinBlocked = 0 THEN 0 ELSE r.joinBlocked - 1),
             page' = [page EXCEPT ![v] = [r EXCEPT !.inFlight = TRUE, !.joinBlocked = b]]
      PROVE  PagesKept
    <2>. DEFINE q == [r EXCEPT !.inFlight = TRUE, !.joinBlocked = b]
                y == [Idle EXCEPT !.pc = "status"]
    <2>1. x = Idle /\ x.pc = "idle"
        BY <1>1, <1>3 DEF InStep
    <2>2. chain[v] = OnlyChain(j, Idle) /\ chain[v][j] = Idle
        BY <1>1, <2>1 DEF OnlyChain
    <2>3. y \in Chain /\ y.pc = "status"
        BY DEF Idle, Chain
    <2>4. chain' = [chain EXCEPT ![v][j] = y]
        BY <1>0, <1>3, <2>2 DEF TypeOK
    <2>5. b \in Nat
        BY DEF Page
    <2>6. q \in Page /\ q.inFlight /\ q.left = "no" /\ q.joined = page[v].joined
          /\ q.rejoinCycles = page[v].rejoinCycles /\ q.admitting = page[v].admitting
        BY <2>5 DEF Page, SameMemory
    <2>. HIDE DEF q, y
    <2>7. InStep(q, y) /\ Spent(q, y, sent'[v], unanswered'[v])
        BY <1>1, <2>1, <2>3, <2>6 DEF InStep, Spent, Heard
    <2>8. Moves(v, j, q, y)
        BY <1>3, <2>4 DEF Moves, q
    <2>. QED BY <1>0, <2>2, <2>3, <2>6, <2>7, <2>8, IdleType, StepKeeps DEF PagesKept
<1>. QED BY <1>2, <1>3 DEF tick, Busy

LEMMA BrowserKeeps ==
    ASSUME RoomInv, NEW v \in Scripted, TimerFires(v) \/ Hide(v) \/ Show(v)
    PROVE  PagesKept
<1>0. TypeOK /\ PageInv /\ page[v] \in Page /\ page[v].left = "no" /\ UNCHANGED <<sent, unanswered>>
    BY DEF RoomInv, TypeOK, TimerFires, Hide, Show
<1>1. PICK k \in Chains, x \in Chain :
        /\ chain[v] = OnlyChain(k, x) /\ InStep(page[v], x)
        /\ Spent(page[v], x, sent[v], unanswered[v])
    BY <1>0 DEF PageInv
<1>2. CASE TimerFires(v)
    <2>. DEFINE r == [page[v] EXCEPT !.timer = FALSE]
    <2>1. /\ r \in Page /\ r.left = "no" /\ r.inFlight = page[v].inFlight
          /\ r.admitting = page[v].admitting /\ SameMemory(page[v], r)
        BY <1>0 DEF Page, SameMemory
    <2>2. tick(v, r)
        BY <1>2 DEF TimerFires
    <2>. HIDE DEF r
    <2>. QED BY <1>0, <2>1, <2>2, TickKeeps
<1>3. CASE Hide(v)
    <2>. DEFINE q == [page[v] EXCEPT !.hidden = TRUE, !.timer = FALSE]
    <2>1. q \in Page /\ InStep(q, x) /\ Spent(q, x, sent[v], unanswered[v])
        BY <1>0, <1>1 DEF Page, InStep, Spent
    <2>2. page' = [page EXCEPT ![v] = q] /\ UNCHANGED chain
        BY <1>0, <1>3 DEF Hide, TypeOK
    <2>. HIDE DEF q
    <2>. QED BY <1>0, <1>1, <2>1, <2>2, PageKeeps
<1>4. CASE Show(v)
    <2>. DEFINE p == [page[v] EXCEPT !.hidden = FALSE, !.timer = FALSE]
                u == [p EXCEPT !.timer = TRUE]
    <2>1. /\ p \in Page /\ p.left = "no" /\ p.inFlight = page[v].inFlight
          /\ p.admitting = page[v].admitting /\ SameMemory(page[v], p)
        BY <1>0 DEF Page, SameMemory
    <2>2. page[v].stopped => InStep(p, x)
        BY <1>0, <1>1 DEF Page, InStep
    <2>3. u \in Page /\ InStep(u, x) /\ Spent(u, x, sent[v], unanswered[v])
        BY <1>0, <1>1 DEF Page, InStep, Spent
    <2>4. Spent(p, x, sent[v], unanswered[v])
        BY <1>0, <1>1 DEF Page, Spent
    <2>5. \/ page[v].stopped /\ page' = [page EXCEPT ![v] = p] /\ UNCHANGED chain
          \/ tick(v, p)
          \/ page' = [page EXCEPT ![v] = u] /\ UNCHANGED chain
        BY <1>4 DEF Show
    <2>. HIDE DEF p, u
    <2>. QED BY <1>0, <1>1, <2>1, <2>2, <2>3, <2>4, <2>5, TickKeeps, PageKeeps
<1>. QED BY <1>2, <1>3, <1>4

LEMMA ReloadKeeps ==
    ASSUME RoomInv, NEW v \in Scripted, Reload(v)
    PROVE  PagesKept /\ HistoryOK'
<1>0. TypeOK /\ PageInv /\ HistoryOK /\ page[v] \in Page
    BY DEF RoomInv, TypeOK
<1>. DEFINE q == Loaded(page[v].joined)
<1>1. q \in Page /\ InStep(q, Idle) /\ q.rejoinCycles = 0 /\ q.joined = page[v].joined
    BY <1>0, Limits DEF Loaded, Page, InStep, Idle
<1>2. /\ page' = [page EXCEPT ![v] = q]
      /\ chain' = [chain EXCEPT ![v] = [k \in Chains |-> Idle]]
      /\ sent' = [sent EXCEPT ![v] = IF page[v].joined THEN 1 ELSE 0]
      /\ unanswered' = [unanswered EXCEPT ![v] = 0]
    BY DEF Reload
<1>. HIDE DEF q
<1>3. Spent(q, Idle, sent'[v], unanswered'[v])
    BY <1>0, <1>1, <1>2 DEF Spent, HistoryOK
<1>4. HistoryOK'
    BY <1>0, <1>2 DEF HistoryOK
<1>5. /\ page' \in [Scripted -> Page] /\ chain' \in [Scripted -> [Chains -> Chain]]
      /\ page'[v] = q /\ chain'[v] = [k \in Chains |-> Idle]
      /\ \A w \in Scripted \ {v} : /\ page'[w] = page[w] /\ chain'[w] = chain[w]
                                   /\ sent'[w] = sent[w] /\ unanswered'[w] = unanswered[w]
    BY <1>0, <1>1, <1>2, IdleType DEF TypeOK, HistoryOK
<1>6. ASSUME NEW w \in Scripted
      PROVE  \E j \in Chains, z \in Chain :
                /\ chain'[w] = OnlyChain(j, z)
                /\ InStep(page'[w], z)
                /\ Spent(page'[w], z, sent'[w], unanswered'[w])
    <2>1. CASE w = v
        <3>1. PICK j \in Chains : TRUE
            BY PageAssumption
        <3>2. chain'[v] = OnlyChain(j, Idle)
            BY <1>5 DEF OnlyChain
        <3>. QED BY <1>1, <1>3, <1>5, <2>1, <3>2, IdleType
    <2>2. CASE w # v
        BY <1>0, <1>5, <2>2 DEF PageInv
    <2>. QED BY <2>1, <2>2
<1>7. PageInv'
    BY <1>6 DEF PageInv, OnlyChain
<1>. QED BY <1>4, <1>5, <1>7 DEF PagesKept

-----------------------------------------------------------------------------
(* The queue, the caches and the item while the pages poll.                *)

QueueOK == mail \in [Visitors -> Nat] /\ waited \in [Visitors -> Nat]

FaultsOK == faults \in 0 .. MaxFaults

LEMMA FaultsType ==
    ASSUME FaultsOK
    PROVE  (\A kind : Fault(kind) => FaultsOK') /\ (NoFault => FaultsOK')
BY FaultAssumption DEF Fault, NoFault, FaultsOK

LEMMA CacheKeeps ==
    ASSUME TypeOK, CacheInv, NEW c \in Containers, load_counters(c), UNCHANGED roomVars
    PROVE  ReadTypeOK' /\ CacheInv'
<1>1. CacheGet(c) \in Status /\ (CacheGet(c).opened => Opened)
    BY CacheGetType
<1>2. Opened' <=> Opened
    BY DEF roomVars, tables, Opened
<1>. QED BY <1>1, <1>2 DEF load_counters, TypeOK, ReadTypeOK, CacheInv

LEMMA CacheQuiet ==
    ASSUME TypeOK, CacheInv, UNCHANGED cache, Opened => Opened'
    PROVE  ReadTypeOK' /\ CacheInv'
BY DEF TypeOK, ReadTypeOK, CacheInv

LEMMA ChainTypes ==
    ASSUME RoomInv, NEW v \in Scripted, NEW k \in Chains,
           \/ StatusAnswered(v, k) \/ JoinPosted(v, k) \/ JoinAnswered(v, k)
           \/ Asked(v, k) \/ RedeemAnswered(v, k)
    PROVE  QueueOK' /\ ReadTypeOK' /\ CacheInv' /\ FaultsOK' /\ UNCHANGED roomVars
<1>0. TypeOK /\ CacheInv /\ QueueOK /\ v \in Visitors
    BY Limits DEF RoomInv, TypeOK, QueueOK
<1>1. UNCHANGED roomVars
    BY DEF StatusAnswered, JoinPosted, JoinAnswered, Asked, RedeemAnswered
<1>2. FaultsOK'
    <2>1. FaultsOK
        BY <1>0 DEF TypeOK, TablesTypeOK, FaultsOK
    <2>2. NoFault \/ \E kind : Fault(kind)
        BY DEF StatusAnswered, JoinPosted, JoinAnswered, Asked, RedeemAnswered, NotHolder
    <2>. QED BY <2>1, <2>2, FaultsType
<1>3. QueueOK'
    <2>1. CASE Enqueue(v)
        BY <1>0, <2>1 DEF Enqueue, QueueOK
    <2>2. CASE UNCHANGED <<mail, waited>>
        BY <1>0, <2>2 DEF QueueOK
    <2>3. CASE Missed(v, k) /\ UNCHANGED mail
        BY <1>0, <2>3 DEF Missed, QueueOK
    <2>. QED BY <2>1, <2>2, <2>3
             DEF StatusAnswered, JoinPosted, JoinAnswered, Asked, RedeemAnswered
<1>4. ReadTypeOK' /\ CacheInv'
    <2>1. (\E c \in Containers : load_counters(c)) \/ UNCHANGED cache
        BY DEF StatusAnswered, JoinPosted, JoinAnswered, Asked, RedeemAnswered
    <2>. QED BY <1>0, <1>1, <2>1, CacheKeeps, CacheQuiet DEF roomVars, tables, Opened
<1>. QED BY <1>1, <1>2, <1>3, <1>4

(* A step of the pages, piece by piece. *)
LEMMA PageStepKeeps ==
    ASSUME RoomInv, PageStep
    PROVE  RoomInv'
<1>0. TypeOK /\ HistoryOK /\ CacheInv /\ QueueOK /\ FaultsOK /\ UNCHANGED formVars
    BY DEF RoomInv, TypeOK, TablesTypeOK, QueueOK, FaultsOK, PageStep
<1>1. PICK v \in Scripted : TimerFires(v) \/ Hide(v) \/ Show(v) \/ ChainStep(v) \/ Reload(v)
    BY DEF PageStep, PageNext
<1>2. /\ PagesKept /\ HistoryOK' /\ QueueOK' /\ ReadTypeOK' /\ CacheInv' /\ FaultsOK'
      /\ UNCHANGED roomVars
    <2>1. CASE TimerFires(v) \/ Hide(v) \/ Show(v)
        <3>1. UNCHANGED <<roomVars, cache, mail, waited, sent, unanswered, faults>>
            BY <2>1 DEF TimerFires, Hide, Show
        <3>. QED BY <1>0, <2>1, <3>1, BrowserKeeps, CacheQuiet
                 DEF roomVars, tables, Opened, HistoryOK, QueueOK, FaultsOK
    <2>2. CASE Reload(v)
        <3>1. UNCHANGED <<roomVars, cache, mail, waited>> /\ Fault("crash")
            BY <2>2 DEF Reload
        <3>. QED BY <1>0, <2>2, <3>1, ReloadKeeps, CacheQuiet, FaultsType
                 DEF roomVars, tables, Opened, QueueOK
    <2>3. ASSUME NEW k \in Chains,
                 \/ StatusAnswered(v, k) \/ JoinAnswered(v, k)
                 \/ Asked(v, k) \/ RedeemAnswered(v, k)
          PROVE  /\ PagesKept /\ HistoryOK' /\ QueueOK' /\ ReadTypeOK' /\ CacheInv'
                 /\ FaultsOK' /\ UNCHANGED roomVars
        <3>1. UNCHANGED <<sent, unanswered>>
            BY <2>3 DEF StatusAnswered, JoinAnswered, Asked, RedeemAnswered
        <3>2. PagesKept
            BY <2>3, StatusKeeps, AnsweredKeeps, AskedKeeps, RedeemKeeps
        <3>. QED BY <1>0, <2>3, <3>1, <3>2, ChainTypes DEF HistoryOK
    <2>4. ASSUME NEW k \in Chains, JoinPosted(v, k)
          PROVE  /\ PagesKept /\ HistoryOK' /\ QueueOK' /\ ReadTypeOK' /\ CacheInv'
                 /\ FaultsOK' /\ UNCHANGED roomVars
        BY <2>4, PostedKeeps, ChainTypes
    <2>. QED BY <1>1, <2>1, <2>2, <2>3, <2>4 DEF ChainStep
<1>3. TablesTypeOK' /\ ServingTypeOK' /\ Published'
    BY <1>0, <1>2 DEF RoomInv, TypeOK, TablesTypeOK, ServingTypeOK, Published, Opened, FaultsOK,
          roomVars, tables, controlVars
<1>4. FormTypeOK' /\ PostingInv' /\ CookieMeansJoined'
    BY <1>0 DEF RoomInv, TypeOK, FormTypeOK, PostingInv, CookieMeansJoined, formVars
<1>. QED BY <1>2, <1>3, <1>4 DEF RoomInv, TypeOK, PagesKept, QueueOK

-----------------------------------------------------------------------------
(* The forms, the ingest, the open, the operator and the caches.           *)

LEMMA FormStepKeeps ==
    ASSUME RoomInv, FormNext
    PROVE  RoomInv'
<1>0. TypeOK /\ QueueOK /\ FaultsOK /\ CacheInv /\ PostingInv /\ CookieMeansJoined
    BY DEF RoomInv, TypeOK, TablesTypeOK, QueueOK, FaultsOK
<1>1. PICK b \in Forms :
        \/ \E i \in Posts : handle_enter(b, i) \/ set_cookie(b, i)
        \/ handle_wait(b) \/ clear_identity_cookie(b)
    BY DEF FormNext
<1>2. UNCHANGED <<roomVars, cache, page, chain, sent, unanswered>>
    BY <1>1 DEF handle_enter, set_cookie, handle_wait, clear_identity_cookie, NotHolder, pageVars
<1>3. FaultsOK'
    <2>1. NoFault \/ \E kind : Fault(kind)
        BY <1>1 DEF handle_enter, set_cookie, handle_wait, clear_identity_cookie, NotHolder, SendFails
    <2>. QED BY <1>0, <2>1, FaultsType
<1>4. QueueOK'
    <2>1. (\E v \in Visitors : Enqueue(v)) \/ UNCHANGED <<mail, waited>>
        BY <1>1 DEF handle_enter, set_cookie, handle_wait, clear_identity_cookie, NotHolder, pageVars, Mint
    <2>. QED BY <1>0, <2>1 DEF Enqueue, QueueOK
<1>5. FormTypeOK' /\ PostingInv' /\ CookieMeansJoined'
    <2>0. FormTypeOK
        BY <1>0 DEF TypeOK
    <2>1. ASSUME NEW i \in Posts, handle_enter(b, i)
          PROVE  FormTypeOK' /\ PostingInv' /\ CookieMeansJoined'
        <3>1. PICK v \in Mint :
                \/ /\ posting' = [posting EXCEPT ![<<b, i>>] = v]
                   /\ accepted' = accepted \cup {v}
                   /\ UNCHANGED identity
                \/ UNCHANGED <<posting, identity, accepted>>
                \/ accepted' = accepted \cup {v} /\ UNCHANGED <<posting, identity>>
            BY <2>1 DEF handle_enter, SendFails
        <3>2. v \in Visitors \ Scripted /\ v # NoIdentity /\ <<b, i>> \in Forms \X Posts
              /\ session' = session
            BY <2>1, IdentityAssumption DEF Mint, handle_enter
        <3>. QED BY <1>0, <2>0, <3>1, <3>2 DEF FormTypeOK, PostingInv, CookieMeansJoined
    <2>2. ASSUME NEW i \in Posts, set_cookie(b, i)
          PROVE  FormTypeOK' /\ PostingInv' /\ CookieMeansJoined'
        BY <1>0, <2>0, <2>2 DEF set_cookie, FormTypeOK, PostingInv, CookieMeansJoined
    <2>3. ASSUME handle_wait(b)
          PROVE  FormTypeOK' /\ PostingInv' /\ CookieMeansJoined'
        BY <1>0, <2>0, <2>3 DEF handle_wait, FormTypeOK, PostingInv, CookieMeansJoined
    <2>4. ASSUME clear_identity_cookie(b)
          PROVE  FormTypeOK' /\ PostingInv' /\ CookieMeansJoined'
        BY <1>0, <2>0, <2>4 DEF clear_identity_cookie, FormTypeOK, PostingInv, CookieMeansJoined
    <2>. QED BY <1>1, <2>1, <2>2, <2>3, <2>4
<1>6. TablesTypeOK' /\ ServingTypeOK' /\ Published'
    BY <1>0, <1>2, <1>3 DEF RoomInv, TypeOK, TablesTypeOK, ServingTypeOK, Published, Opened,
          FaultsOK, roomVars, tables, controlVars
<1>7. ReadTypeOK' /\ CacheInv'
    BY <1>0, <1>2, CacheQuiet DEF roomVars, tables, Opened
<1>8. PageInv' /\ HistoryOK'
    BY <1>2 DEF RoomInv, PageInv, HistoryOK
<1>. QED BY <1>0, <1>2, <1>4, <1>5, <1>6, <1>7, <1>8 DEF RoomInv, TypeOK, QueueOK

(* A step of the room leaves the pages and the forms alone. *)
LEMMA RoomQuiet ==
    ASSUME RoomInv, UNCHANGED <<page, chain, sent, unanswered, formVars>>,
           TablesTypeOK', ServingTypeOK', Published', ReadTypeOK', CacheInv', QueueOK'
    PROVE  RoomInv'
<1>1. PageInv' /\ HistoryOK' /\ FormTypeOK' /\ PostingInv' /\ CookieMeansJoined'
    BY DEF RoomInv, TypeOK, PageInv, HistoryOK, FormTypeOK, PostingInv, CookieMeansJoined,
           formVars
<1>. QED BY <1>1 DEF RoomInv, TypeOK, QueueOK

LEMMA IngestKeeps ==
    ASSUME RoomInv, NEW v \in Visitors, Ingest(v)
    PROVE  RoomInv'
<1>0. /\ TypeOK /\ Published /\ CacheInv /\ QueueOK /\ FaultsOK
      /\ UNCHANGED <<phase, shuffle_seed, cohort, serving_counter, controlVars, arrivals,
                     waited, roomOnly>>
    BY DEF RoomInv, TypeOK, TablesTypeOK, QueueOK, FaultsOK, Ingest
<1>1. QueueOK'
    BY <1>0 DEF Ingest, Registers, Joins, DeadLetter, Taken, QueueOK
<1>2. FaultsOK'
    BY <1>0, FaultsType DEF Ingest, Registers, Joins, DeadLetter
<1>3. /\ queue_counter' \in Nat /\ shard_count' \in [Shards -> Nat]
      /\ prequeue' \in [Visitors -> Row \cup {NoRow}]
      /\ positions' \in [Visitors -> Nat \cup {NoPosition}]
      /\ ~Opened => queue_counter' = queue_counter
    <2>. USE DEF TypeOK, TablesTypeOK
    <2>1. CASE Registers(v)
        <3>1. CASE UNCHANGED <<shard_count, prequeue>>
            BY <1>0, <2>1, <3>1 DEF Registers
        <3>2. ASSUME NEW s \in Shards,
                     prequeue' = [prequeue EXCEPT ![v] =
                                    [shard |-> s, local |-> shard_count[s]]],
                     shard_count' = [shard_count EXCEPT ![s] = @ + 1]
              PROVE  /\ shard_count' \in [Shards -> Nat]
                     /\ prequeue' \in [Visitors -> Row \cup {NoRow}]
            BY <1>0, <3>2 DEF Row
        <3>. QED BY <1>0, <2>1, <3>1, <3>2 DEF Registers
    <2>2. CASE Joins(v)
        BY <1>0, <2>2 DEF Joins
    <2>3. CASE DeadLetter(v)
        BY <1>0, <2>3 DEF DeadLetter
    <2>. QED BY <2>1, <2>2, <2>3 DEF Ingest
<1>4. TablesTypeOK' /\ Published'
    BY <1>0, <1>2, <1>3 DEF TypeOK, TablesTypeOK, Published, Opened, FaultsOK
<1>5. ServingTypeOK' /\ ReadTypeOK' /\ CacheInv'
    BY <1>0, CacheQuiet DEF TypeOK, ServingTypeOK, controlVars, Opened, roomOnly
<1>. QED BY <1>0, <1>1, <1>4, <1>5, RoomQuiet DEF roomOnly

LEMMA OpensKeeps ==
    ASSUME RoomInv, Opens
    PROVE  RoomInv'
<1>0. /\ TypeOK /\ Published /\ CacheInv /\ QueueOK /\ Open
      /\ UNCHANGED <<serving_counter, controlVars, arrivals, cache, pageVars, formVars, faults,
                     shard_count, prequeue, positions>>
    BY DEF RoomInv, TypeOK, QueueOK, Opens, Open
<1>1. PICK counts \in [Shards -> 0 .. U64_MAX] :
        /\ FromCounts(counts).participant_count <= U64_MAX
        /\ cohort' = FromCounts(counts)
        /\ queue_counter' = FromCounts(counts).participant_count
    BY <1>0 DEF Open
<1>2. counts \in [Shards -> Nat]
    BY U64Assumption
<1>3. cohort' \in CohortOffsets /\ queue_counter' \in Nat
    BY <1>1, <1>2, FromCountsType DEF CohortOffsets
<1>4. shuffle_seed' \in Seeds /\ phase' \in Phases
    BY <1>0 DEF Open, Phases
<1>5. Published' /\ Opened'
    BY <1>1, <1>2, <1>4, SeedAssumption DEF Published, Opened
<1>6. TablesTypeOK' /\ ServingTypeOK' /\ QueueOK'
    BY <1>0, <1>3, <1>4 DEF TypeOK, TablesTypeOK, ServingTypeOK, QueueOK, controlVars, pageVars
<1>7. ReadTypeOK' /\ CacheInv'
    BY <1>0, <1>5, CacheQuiet
<1>. QED BY <1>0, <1>5, <1>6, <1>7, RoomQuiet DEF pageVars

LEMMA RoomStepKeeps ==
    ASSUME RoomInv, RoomStep
    PROVE  RoomInv'
<1>0. TypeOK /\ Published /\ CacheInv /\ QueueOK
    BY DEF RoomInv, TypeOK, QueueOK
<1>1. CASE Release
    <2>1. UNCHANGED <<tables, controlVars, arrivals, cache, pageVars, formVars, faults>>
          /\ serving_counter' = serving_counter + 1
        BY <1>1 DEF Release
    <2>2. TablesTypeOK' /\ ServingTypeOK' /\ Published' /\ QueueOK'
        BY <1>0, <2>1 DEF TypeOK, TablesTypeOK, ServingTypeOK, Published, Opened, QueueOK,
              tables, controlVars, pageVars
    <2>3. ReadTypeOK' /\ CacheInv'
        BY <1>0, <2>1, CacheQuiet DEF tables, Opened
    <2>. QED BY <2>1, <2>2, <2>3, RoomQuiet DEF pageVars
<1>2. CASE Operator
    <2>1. UNCHANGED <<serving_counter, arrivals, cache, pageVars, formVars, faults>>
        BY <1>2 DEF Operator
    <2>2. \/ UNCHANGED tables /\ (SetStoredControl \/ SetFailOpenUntil)
          \/ UNCHANGED controlVars /\ \E to \in Phases : SetPhase(to)
        BY <1>2, EventPhasesAssumption DEF Operator
    <2>3. TablesTypeOK' /\ ServingTypeOK' /\ Published' /\ (Opened => Opened')
        BY <1>0, <2>1, <2>2
           DEF TypeOK, TablesTypeOK, ServingTypeOK, Published, Opened, tables, controlVars,
               SetStoredControl, SetFailOpenUntil, SetPhase
    <2>4. ReadTypeOK' /\ CacheInv' /\ QueueOK'
        BY <1>0, <2>1, <2>3, CacheQuiet DEF QueueOK, pageVars
    <2>. QED BY <2>1, <2>3, <2>4, RoomQuiet DEF pageVars
<1>3. CASE TtlStep
    <2>1. PICK c \in Containers : TtlElapses(c) /\ UNCHANGED <<roomVars, pageVars, formVars, faults>>
        BY <1>3 DEF TtlStep
    <2>2. ReadTypeOK' /\ CacheInv'
        BY <1>0, <2>1 DEF TtlElapses, TypeOK, ReadTypeOK, CacheInv, Empty, roomVars, tables,
              Opened
    <2>3. TablesTypeOK' /\ ServingTypeOK' /\ Published' /\ QueueOK'
        BY <1>0, <2>1 DEF TypeOK, TablesTypeOK, ServingTypeOK, Published, Opened, QueueOK,
              roomVars, tables, controlVars, pageVars
    <2>. QED BY <2>1, <2>2, <2>3, RoomQuiet DEF pageVars
<1>. QED BY <1>1, <1>2, <1>3, IngestKeeps, OpensKeeps DEF RoomStep

LEMMA RoomInit == Init => RoomInv
<1>. SUFFICES ASSUME Init PROVE RoomInv
    OBVIOUS
<1>1. TablesTypeOK /\ Published
    BY ShardsAssumption, FaultAssumption
       DEF Init, TablesInit, TablesTypeOK, Phases, NoCohort, CohortOffsets, Shards, Published,
           Opened
<1>2. ServingTypeOK /\ ReadTypeOK /\ FormTypeOK
    BY FailOpenAssumption
       DEF Init, ServingInit, ServingTypeOK, ReadInit, ReadTypeOK, FormInit, FormTypeOK
<1>3. /\ page = [v \in Scripted |-> Loaded(FALSE)]
      /\ chain = [v \in Scripted |-> [k \in Chains |-> Idle]]
      /\ mail = [v \in Visitors |-> 0] /\ waited = [v \in Visitors |-> 0]
      /\ sent = [v \in Scripted |-> 0] /\ unanswered = [v \in Scripted |-> 0]
    BY DEF Init, PageInit
<1>4. Loaded(FALSE) \in Page /\ InStep(Loaded(FALSE), Idle) /\ Spent(Loaded(FALSE), Idle, 0, 0)
    BY Limits DEF Loaded, Page, InStep, Idle, Spent, Heard
<1>5. PageInv
    <2>1. PICK k \in Chains : TRUE
        BY PageAssumption
    <2>2. ASSUME NEW v \in Scripted
          PROVE  /\ chain[v] = OnlyChain(k, Idle) /\ InStep(page[v], Idle)
                 /\ Spent(page[v], Idle, sent[v], unanswered[v])
        BY <1>3, <1>4 DEF OnlyChain
    <2>. QED BY <2>2, IdleType DEF PageInv
<1>6. TypeOK /\ HistoryOK
    BY <1>1, <1>2, <1>3, <1>4, IdleType DEF TypeOK, HistoryOK
<1>7. CacheInv /\ PostingInv /\ CookieMeansJoined
    BY DEF Init, ReadInit, FormInit, CacheInv, PostingInv, CookieMeansJoined, Empty
<1>. QED BY <1>1, <1>5, <1>6, <1>7 DEF RoomInv

LEMMA RoomNext ==
    ASSUME RoomInv, [Next]_vars
    PROVE  RoomInv'
<1>1. CASE UNCHANGED vars
    BY <1>1 DEF vars, roomVars, tables, controlVars, pageVars, formVars, RoomInv, TypeOK,
          TablesTypeOK, ServingTypeOK, ReadTypeOK, FormTypeOK, Published, Opened, PageInv,
          HistoryOK, CacheInv, PostingInv, CookieMeansJoined
<1>. QED BY <1>1, PageStepKeeps, FormStepKeeps, RoomStepKeeps DEF Next

LEMMA RoomInductive == Spec => []RoomInv
BY RoomInit, RoomNext, PTL DEF Spec

-----------------------------------------------------------------------------

(* Type correctness of the pages, the cookies, the caches and the tables.  *)
THEOREM WaitingRoomTypeCorrect == Spec => []TypeOK
<1>1. RoomInv => TypeOK
    BY DEF RoomInv
<1>. QED BY <1>1, RoomInductive, PTL

(* schedule, redeem and the visibility handler: a page in sight that has   *)
(* not ended always has its next poll coming.                              *)
THEOREM PollingNeverDiesCorrect == Spec => []PollingNeverDies
<1>1. RoomInv => PollingNeverDies
    <2>. SUFFICES ASSUME RoomInv, NEW v \in Scripted,
                         page[v].left = "no", ~page[v].stopped, ~page[v].hidden
                  PROVE  page[v].timer \/ \E k \in Chains : chain[v][k].pc # "idle"
        BY DEF PollingNeverDies
    <2>1. PICK k \in Chains, x \in Chain : chain[v] = OnlyChain(k, x) /\ InStep(page[v], x)
        BY DEF RoomInv, PageInv
    <2>. QED BY <2>1 DEF InStep, OnlyChain
<1>. QED BY <1>1, RoomInductive, PTL

(* tick and join: no page ever puts a join in the queue that it does not   *)
(* owe to a place given up or an answer lost.                              *)
THEOREM JoinsAccountedCorrect == Spec => []JoinsAccounted
<1>1. RoomInv => JoinsAccounted
    <2>. SUFFICES ASSUME RoomInv, NEW v \in Scripted
                  PROVE  sent[v] <= 1 + page[v].rejoinCycles + unanswered[v]
        BY DEF JoinsAccounted
    <2>1. PICK k \in Chains, x \in Chain : Spent(page[v], x, sent[v], unanswered[v])
        BY DEF RoomInv, PageInv
    <2>2. sent[v] \in Nat /\ unanswered[v] \in Nat /\ page[v].rejoinCycles \in Nat
        BY DEF RoomInv, TypeOK, HistoryOK, Page
    <2>. QED BY <2>1, <2>2 DEF Spent
<1>. QED BY <1>1, RoomInductive, PTL

(* handle_enter: the cookie is given only for a join the queue took.       *)
THEOREM CookieMeansJoinedCorrect == Spec => []CookieMeansJoined
<1>1. RoomInv => CookieMeansJoined
    BY DEF RoomInv
<1>. QED BY <1>1, RoomInductive, PTL

-----------------------------------------------------------------------------
(* One fault is forgiven, by a page lenient enough.                        *)

Lenient ==
    MAX_JOIN_ATTEMPTS >= 2 /\ MAX_REJOIN_CYCLES >= 2 /\ MAX_MISSES > MaxDelay + 1

(* What a step of somebody else does to the measures of v. *)
Undisturbed(v) ==
    /\ faults' >= faults /\ Races(v)' >= Races(v)
    /\ Gone(v)' => Gone(v) \/ Races(v)' > Races(v) \/ faults' > faults
    /\ ~Gone(v)' => ~Gone(v) /\ Patience(v)' >= Patience(v)

Measured(v) ==
    faults \in Nat /\ Races(v) \in 0 .. 1 /\ Patience(v) \in Nat /\ Gone(v) \in BOOLEAN

LEMMA CountsType ==
    ASSUME TypeOK, TypeOK', NEW v \in Visitors
    PROVE  /\ faults \in Nat /\ mail[v] \in Nat /\ waited[v] \in Nat
           /\ faults' \in Nat /\ mail'[v] \in Nat /\ waited'[v] \in Nat
<1>1. MaxFaults \in Nat
    BY FaultAssumption
<1>. QED BY <1>1 DEF TypeOK, TablesTypeOK

LEMMA MeasuresType ==
    ASSUME TypeOK, TypeOK', NEW v \in Visitors
    PROVE  Measured(v) /\ Measured(v)'
<1>1. Patience(v) \in Nat /\ Patience(v)' \in Nat
    BY CountsType, Limits DEF Patience
<1>2. Races(v) \in 0 .. 1 /\ Races(v)' \in 0 .. 1
    BY DEF Races
<1>3. Gone(v) \in BOOLEAN /\ Gone(v)' \in BOOLEAN
    BY DEF Gone
<1>. QED BY <1>1, <1>2, <1>3, CountsType DEF Measured

(* v's own page after a step that leaves its memory. *)
LEMMA RestForgives ==
    ASSUME NEW v \in Visitors, Measured(v), Measured(v)', Undisturbed(v),
           NEW p \in Page, NEW q \in Page, NEW x \in Chain, NEW y \in Chain,
           Forgives(p, x, faults, Races(v), Gone(v), Patience(v)), SameMemory(p, q),
           \/ y = x
           \/ /\ x.pc # "join" /\ ~Heard(x)
              /\ y.pc \in {"idle", "status", "redeem"} \/ (y.pc = "asking" /\ p.joined)
    PROVE  Forgives(q, y, faults', Races(v)', Gone(v)', Patience(v)')
<1>1. /\ p.joinAttempts \in Nat /\ p.misses \in Nat /\ p.rejoinCycles \in Nat
      /\ p.joined \in BOOLEAN
    BY Limits DEF Page
<1>. QED BY <1>1 DEF Forgives, SameMemory, Undisturbed, Measured, Heard

LEMMA Untouched ==
    ASSUME TypeOK, TypeOK', NEW v \in Visitors, faults' >= faults,
           mail'[v] = mail[v], waited'[v] = waited[v],
           positions'[v] = positions[v], prequeue'[v] = prequeue[v],
           UNCHANGED <<shuffle_seed, cohort>>
    PROVE  Undisturbed(v)
<1>1. (Raced(v)' <=> Raced(v)) /\ Races(v)' = Races(v) /\ Races(v) \in Nat
    BY DEF Raced, Races, Opened, ResolveIndex
<1>2. Gone(v)' <=> Gone(v)
    BY <1>1 DEF Gone
<1>3. Patience(v)' >= Patience(v)
    BY Limits, CountsType DEF Patience
<1>. QED BY <1>1, <1>2, <1>3 DEF Undisturbed

(* The ingest serves v's mail: it gives v a place, or a chance to get one, *)
(* or it fails.                                                            *)
LEMMA IngestUndisturbed ==
    ASSUME TypeOK, TypeOK', NEW v \in Visitors, Ingest(v), waited[v] <= MaxDelay
    PROVE  Undisturbed(v)
<1>1. /\ mail[v] \in Nat /\ mail[v] > 0 /\ mail'[v] = mail[v] - 1 /\ waited'[v] = waited[v]
      /\ UNCHANGED <<shuffle_seed, cohort>> /\ waited[v] \in Nat /\ faults \in Nat
      /\ faults' >= faults
    BY FaultAssumption
       DEF Ingest, Registers, Joins, DeadLetter, Taken, TypeOK, TablesTypeOK, Fault, NoFault
<1>2. ~Gone(v)
    BY <1>1 DEF Gone
<1>3. Patience(v)' >= Patience(v)
    BY <1>1, CountsType, Limits DEF Patience
<1>4. CASE Registers(v)
    <2>1. ~Opened /\ ~Opened' /\ prequeue'[v] # NoRow
        BY <1>1, <1>4 DEF Registers, Opened, TypeOK, TablesTypeOK, Row, NoRow, Shards
    <2>2. ~Raced(v) /\ ~Raced(v)' /\ Races(v) = 0 /\ Races(v)' = 0
        BY <2>1 DEF Raced, Races
    <2>. QED BY <1>1, <1>2, <1>3, <2>1, <2>2 DEF Undisturbed, Gone
<1>5. CASE Joins(v)
    <2>1. positions'[v] # NoPosition /\ prequeue' = prequeue
        BY <1>5 DEF Joins, TypeOK, TablesTypeOK, NoPosition
    <2>2. Races(v)' = Races(v) /\ Races(v) \in Nat
        BY <1>1, <2>1 DEF Raced, Races, Opened, ResolveIndex
    <2>. QED BY <1>1, <1>2, <1>3, <2>1, <2>2 DEF Undisturbed, Gone
<1>6. CASE DeadLetter(v)
    <2>1. faults' > faults /\ prequeue' = prequeue
        BY <1>1, <1>6 DEF DeadLetter, Fault
    <2>2. Races(v)' = Races(v) /\ Races(v) \in Nat
        BY <1>1, <2>1 DEF Raced, Races, Opened, ResolveIndex
    <2>. QED BY <1>1, <1>2, <1>3, <2>1, <2>2 DEF Undisturbed
<1>. QED BY <1>4, <1>5, <1>6 DEF Ingest

(* The open may strand v's row: that is what the extra join is for. *)
LEMMA OpenUndisturbed ==
    ASSUME TypeOK, TypeOK', NEW v \in Visitors, Opens
    PROVE  Undisturbed(v)
<1>1. /\ ~Opened /\ Opened' /\ UNCHANGED <<faults, mail, waited, positions, prequeue>>
      /\ faults \in Nat
    BY SeedAssumption, FaultAssumption
       DEF Opens, Open, Opened, pageVars, TypeOK, TablesTypeOK
<1>2. ~Raced(v) /\ Races(v) = 0 /\ Races(v)' \in Nat /\ (Raced(v)' => Races(v)' = 1)
    BY <1>1 DEF Raced, Races
<1>3. Gone(v)' => Gone(v) \/ Raced(v)'
    BY <1>1 DEF Gone
<1>4. Gone(v) => Gone(v)'
    BY <1>1, <1>2 DEF Gone
<1>5. Patience(v)' >= Patience(v)
    <2>1. Patience(v) \in Nat
        BY MeasuresType DEF Measured
    <2>. QED BY <1>1, <2>1 DEF Patience, pageVars
<1>. QED BY <1>1, <1>2, <1>3, <1>4, <1>5 DEF Undisturbed

(* Nobody's page moves. *)
LEMMA ForgivingQuiet ==
    ASSUME TypeOK, TypeOK', ForgivingInv, UNCHANGED <<page, chain>>,
           faults' >= faults, \A v \in Scripted : Undisturbed(v),
           \A v \in Visitors : waited'[v] <= MaxDelay
    PROVE  ForgivingInv'
<1>1. ASSUME faults' <= 1, NEW v \in Scripted
      PROVE  \E k \in Chains, x \in Chain :
                /\ chain'[v] = OnlyChain(k, x)
                /\ Forgives(page'[v], x, faults', Races(v)', Gone(v)', Patience(v)')
    <2>1. faults <= 1 /\ v \in Visitors /\ page[v] \in Page
        BY <1>1, Limits, FaultAssumption DEF TypeOK, TablesTypeOK
    <2>2. PICK k \in Chains, x \in Chain :
            /\ chain[v] = OnlyChain(k, x)
            /\ Forgives(page[v], x, faults, Races(v), Gone(v), Patience(v))
        BY <2>1 DEF ForgivingInv
    <2>3. Measured(v) /\ Measured(v)'
        BY <2>1, MeasuresType
    <2>4. SameMemory(page[v], page[v])
        BY DEF SameMemory
    <2>5. Forgives(page[v], x, faults', Races(v)', Gone(v)', Patience(v)')
        BY <2>1, <2>2, <2>3, <2>4, RestForgives
    <2>. QED BY <2>2, <2>5
<1>. QED BY <1>1 DEF ForgivingInv, OnlyChain

(* One page moves. *)
LEMMA ForgivingMoves ==
    ASSUME TypeOK, TypeOK', ForgivingInv, NEW v \in Scripted, faults' >= faults,
           \A u \in Visitors : waited'[u] <= MaxDelay,
           \A w \in Scripted \ {v} :
               page'[w] = page[w] /\ chain'[w] = chain[w] /\ Undisturbed(w),
           faults' <= 1 =>
             \E k \in Chains, x \in Chain :
                /\ chain'[v] = OnlyChain(k, x)
                /\ Forgives(page'[v], x, faults', Races(v)', Gone(v)', Patience(v)')
    PROVE  ForgivingInv'
<1>1. ASSUME faults' <= 1, NEW w \in Scripted, w # v
      PROVE  \E k \in Chains, x \in Chain :
                /\ chain'[w] = OnlyChain(k, x)
                /\ Forgives(page'[w], x, faults', Races(w)', Gone(w)', Patience(w)')
    <2>1. /\ faults <= 1 /\ w \in Visitors /\ page[w] \in Page /\ Undisturbed(w)
          /\ page'[w] = page[w] /\ chain'[w] = chain[w]
        BY <1>1, Limits, FaultAssumption DEF TypeOK, TablesTypeOK
    <2>2. PICK k \in Chains, x \in Chain :
            /\ chain[w] = OnlyChain(k, x)
            /\ Forgives(page[w], x, faults, Races(w), Gone(w), Patience(w))
        BY <2>1 DEF ForgivingInv
    <2>3. Measured(w) /\ Measured(w)'
        BY <2>1, MeasuresType
    <2>4. SameMemory(page[w], page[w])
        BY DEF SameMemory
    <2>5. Forgives(page[w], x, faults', Races(w)', Gone(w)', Patience(w)')
        BY <2>1, <2>2, <2>3, <2>4, RestForgives
    <2>. QED BY <2>1, <2>2, <2>5
<1>. QED BY <1>1 DEF ForgivingInv, OnlyChain

StillForgives(v) ==
    \E k \in Chains, x \in Chain :
        /\ chain'[v] = OnlyChain(k, x)
        /\ Forgives(page'[v], x, faults', Races(v)', Gone(v)', Patience(v)')

LEMMA TheForgiven ==
    ASSUME TypeOK, PageInv, ForgivingInv, faults <= 1,
           NEW v \in Scripted, NEW k \in Chains, chain[v][k].pc # "idle"
    PROVE  Forgives(page[v], chain[v][k], faults, Races(v), Gone(v), Patience(v))
<1>1. PICK j \in Chains, x \in Chain :
        /\ chain[v] = OnlyChain(j, x)
        /\ Forgives(page[v], x, faults, Races(v), Gone(v), Patience(v))
    BY DEF ForgivingInv
<1>2. j = k /\ x = chain[v][k]
    BY <1>1 DEF OnlyChain, Idle
<1>. QED BY <1>1, <1>2

LEMMA FollowsForgives ==
    ASSUME TypeOK, PageInv, NEW v \in Scripted, NEW k \in Chains, chain[v][k].pc # "idle",
           NEW r, NEW pcs, Follows(v, k, r, pcs),
           \A q \in Page, y \in Chain : SameMemory(r, q) /\ y.pc \in pcs =>
               Forgives(q, y, faults', Races(v)', Gone(v)', Patience(v)')
    PROVE  StillForgives(v)
<1>1. PICK q \in Page, y \in Chain :
        Moves(v, k, q, y) /\ InStep(q, y) /\ SameMemory(r, q) /\ y.pc \in pcs
    BY DEF Follows
<1>2. chain[v][k] \in Chain /\ chain[v] = OnlyChain(k, chain[v][k])
    BY TheChain
<1>3. page'[v] = q /\ chain'[v] = OnlyChain(k, y)
    BY <1>1, <1>2, ChainMoves
<1>. QED BY <1>1, <1>3 DEF StillForgives

(* A chain step that leaves the room, the mail and the waiting alone. *)
LEMMA ChainUndisturbed ==
    ASSUME TypeOK, TypeOK', NEW v \in Scripted, UNCHANGED <<roomVars, mail, waited>>,
           NoFault \/ \E kind : Fault(kind)
    PROVE  v \in Visitors /\ Measured(v) /\ Measured(v)' /\ Undisturbed(v)
<1>1. v \in Visitors
    BY Limits
<1>2. faults' >= faults
    BY <1>1, CountsType DEF NoFault, Fault
<1>. QED BY <1>1, <1>2, MeasuresType, Untouched DEF roomVars, tables

LEMMA StatusForgives ==
    ASSUME RoomInv, RoomInv', ForgivingInv, Lenient, faults <= 1,
           NEW v \in Scripted, NEW k \in Chains, StatusAnswered(v, k)
    PROVE  StillForgives(v)
<1>. DEFINE p == page[v]
            x == chain[v][k]
<1>0. /\ TypeOK /\ TypeOK' /\ PageInv /\ x.pc = "status"
      /\ UNCHANGED <<roomVars, mail, waited>>
      /\ NoFault \/ \E kind : Fault(kind)
    BY DEF RoomInv, StatusAnswered
<1>1. x \in Chain /\ p \in Page /\ InStep(p, x) /\ chain[v] = OnlyChain(k, x)
    BY <1>0, TheChain
<1>2. Forgives(p, x, faults, Races(v), Gone(v), Patience(v))
    BY <1>0, TheForgiven
<1>3. v \in Visitors /\ Measured(v) /\ Measured(v)' /\ Undisturbed(v)
    BY <1>0, ChainUndisturbed
<1>4. Riding(p) /\ Riding(forgetPosition(p)) /\ SameMemory(p, forgetPosition(p))
      /\ SameMemory(p, p)
    BY <1>0, <1>1 DEF InStep, Riding, forgetPosition, Page, SameMemory
<1>5. ASSUME NEW r \in Page, SameMemory(p, r), NEW pcs, Follows(v, k, r, pcs),
             \A pc \in pcs : pc \in {"idle", "redeem"} \/ (pc = "asking" /\ r.joined)
      PROVE  StillForgives(v)
    <2>1. ASSUME NEW q \in Page, NEW y \in Chain, SameMemory(r, q), y.pc \in pcs
          PROVE  Forgives(q, y, faults', Races(v)', Gone(v)', Patience(v)')
        <3>1. SameMemory(p, q)
            BY <1>5, <2>1 DEF SameMemory
        <3>2. y.pc \in {"idle", "status", "redeem"} \/ (y.pc = "asking" /\ p.joined)
            BY <1>5, <2>1 DEF SameMemory
        <3>3. x.pc # "join" /\ ~Heard(x)
            BY <1>0 DEF Heard
        <3>. QED BY <1>1, <1>2, <1>3, <3>1, <3>2, <3>3, RestForgives
    <2>. QED BY <1>0, <1>5, <2>1, FollowsForgives
<1>6. ASSUME NEW r, Riding(r), SameMemory(p, r), Caught(v, k, r)
      PROVE  StillForgives(v)
    <2>1. Follows(v, k, r, {"idle"})
        BY <1>6, CaughtFollows DEF Riding
    <2>2. \A pc \in {"idle"} : pc \in {"idle", "redeem"} \/ (pc = "asking" /\ r.joined)
        OBVIOUS
    <2>. HIDE DEF p, x
    <2>. QED BY <1>5, <1>6, <2>1, <2>2 DEF Riding
<1>7. CASE Settle(v, k, [p EXCEPT !.left = "fail_open", !.timer = FALSE])
    <2>. DEFINE r == [p EXCEPT !.left = "fail_open", !.timer = FALSE]
    <2>1. r \in Page /\ r.left # "no" /\ SameMemory(p, r)
        BY <1>1 DEF Page, SameMemory
    <2>2. Follows(v, k, r, {"idle"})
        BY <1>7, <2>1, LeavesFollows
    <2>3. \A pc \in {"idle"} : pc \in {"idle", "redeem"} \/ (pc = "asking" /\ r.joined)
        OBVIOUS
    <2>. HIDE DEF p, x, r
    <2>. QED BY <1>5, <2>1, <2>2, <2>3
<1>8. ASSUME NEW r, Riding(r), SameMemory(p, r), NEW s \in Status, join(v, k, s, r)
      PROVE  StillForgives(v)
    <2>0. /\ r.joinBlocked = 0 /\ ~OutOfAttempts(r) /\ r.joinAttempts \in Nat
          /\ r.joinAttempts <= faults
        BY <1>0, <1>1, <1>2, <1>3, <1>8, Limits
           DEF Forgives, SameMemory, OutOfAttempts, Lenient, Heard, Page, Measured
    <2>1. CASE Follows(v, k, r, {"idle", "redeem", "asking"}) /\ r.joined
        BY <1>5, <1>8, <2>1 DEF Riding
    <2>2. CASE ~r.joined /\ GoOn(v, k, "join", s, [r EXCEPT !.joinAttempts = @ + 1])
        <3>. DEFINE q == [r EXCEPT !.joinAttempts = @ + 1]
                    y == [pc |-> "join", s |-> s, answer |-> "none"]
        <3>1. q.stopped = p.stopped /\ q.joinBlocked = p.joinBlocked /\ q.joined = p.joined
              /\ q.misses = p.misses /\ q.rejoinCycles = p.rejoinCycles
              /\ q.joinAttempts = r.joinAttempts + 1 /\ q \in Page
            BY <1>8, <2>0, <2>2, Limits DEF SameMemory, Riding, Page, OutOfAttempts
        <3>2. y \in Chain /\ y.pc = "join"
            BY DEF Chain
        <3>3. Moves(v, k, q, y)
            BY <2>2 DEF GoOn, Moves
        <3>. HIDE DEF q, y
        <3>4. Forgives(q, y, faults', Races(v)', Gone(v)', Patience(v)')
            <4>1. p.misses \in Nat /\ p.rejoinCycles \in Nat
                BY <1>1 DEF Page
            <4>. QED BY <1>0, <1>2, <1>3, <2>0, <2>2, <3>1, <3>2, <4>1
                     DEF Forgives, Undisturbed, Measured, Heard
        <3>5. page'[v] = q /\ chain'[v] = OnlyChain(k, y)
            BY <1>0, <1>1, <3>1, <3>2, <3>3, ChainMoves
        <3>. QED BY <3>2, <3>4, <3>5 DEF StillForgives
    <2>. QED BY <1>8, <2>0, <2>1, <2>2, JoinFollows
<1>9. \/ Caught(v, k, p) \/ Caught(v, k, forgetPosition(p))
      \/ Settle(v, k, [p EXCEPT !.left = "fail_open", !.timer = FALSE])
      \/ \E c \in Containers : join(v, k, CacheGet(c), p)
                                 \/ join(v, k, CacheGet(c), forgetPosition(p))
    BY DEF StatusAnswered, Caught
<1>10. \A c \in Containers : CacheGet(c) \in Status
    BY CacheGetType DEF RoomInv
<1>. HIDE DEF p, x
<1>. QED BY <1>4, <1>6, <1>7, <1>8, <1>9, <1>10

LEMMA PostedMoves ==
    ASSUME TypeOK, NEW v \in Scripted, NEW k \in Chains, NEW a, page' = page,
           chain' = [chain EXCEPT ![v][k].pc = "joining", ![v][k].answer = a]
    PROVE  Moves(v, k, page[v], [chain[v][k] EXCEPT !.pc = "joining", !.answer = a])
BY DEF TypeOK, Moves

LEMMA PostedForgives ==
    ASSUME RoomInv, RoomInv', ForgivingInv, faults <= 1,
           NEW v \in Scripted, NEW k \in Chains, JoinPosted(v, k)
    PROVE  StillForgives(v) /\ faults' >= faults /\ waited'[v] <= MaxDelay
<1>. DEFINE p == page[v]
            x == chain[v][k]
<1>0. TypeOK /\ TypeOK' /\ PageInv /\ x.pc = "join" /\ page' = page /\ UNCHANGED roomVars
    BY DEF RoomInv, JoinPosted
<1>1. x \in Chain /\ p \in Page /\ InStep(p, x) /\ chain[v] = OnlyChain(k, x)
    BY <1>0, TheChain
<1>2. Forgives(p, x, faults, Races(v), Gone(v), Patience(v))
    BY <1>0, TheForgiven
<1>3. v \in Visitors
    BY Limits
<1>4. Measured(v) /\ Measured(v)'
    BY <1>0, <1>3, MeasuresType
<1>5. PICK a \in {"accepted", "refused", "lost"} :
        /\ chain' = [chain EXCEPT ![v][k].pc = "joining", ![v][k].answer = a]
        /\ IF a = "accepted" THEN faults' = faults ELSE faults' = faults + 1
        /\ IF a = "refused" THEN UNCHANGED <<mail, waited>> ELSE Enqueue(v)
    BY DEF JoinPosted, NoFault, Fault
<1>. DEFINE y == [x EXCEPT !.pc = "joining", !.answer = a]
<1>6. y \in Chain /\ y.pc = "joining" /\ y.answer = a
    BY <1>1 DEF Chain
<1>7. Moves(v, k, p, y)
    BY <1>0, <1>5, PostedMoves
<1>8. page'[v] = p /\ chain'[v] = OnlyChain(k, y)
    BY <1>0, <1>1, <1>6, <1>7, ChainMoves
<1>9. /\ p.misses \in Nat /\ p.rejoinCycles \in Nat /\ p.joinAttempts \in Nat /\ ~p.joined
      /\ ~Heard(x) /\ (Heard(y) <=> a = "accepted")
    BY <1>0, <1>1, <1>6, Limits DEF Page, InStep, Heard
<1>10. Races(v)' = Races(v)
    BY <1>0 DEF Races, Raced, Opened, ResolveIndex, roomVars, tables
<1>11. CASE a = "refused"
    <2>1. (Gone(v)' <=> Gone(v)) /\ Patience(v)' >= Patience(v) /\ waited' = waited
        BY <1>0, <1>3, <1>5, <1>11, CountsType, Limits
           DEF Gone, Raced, Opened, ResolveIndex, roomVars, tables, Patience
    <2>2. Forgives(p, y, faults', Races(v)', Gone(v)', Patience(v)')
        BY <1>0, <1>2, <1>4, <1>5, <1>6, <1>9, <1>10, <1>11, <2>1 DEF Forgives, Measured
    <2>. QED BY <1>3, <1>4, <1>5, <1>6, <1>8, <1>11, <2>1, <2>2
             DEF StillForgives, ForgivingInv, Measured
<1>12. CASE a # "refused"
    <2>1. mail'[v] > 0 /\ waited'[v] = 0
        BY <1>0, <1>3, <1>5, <1>12, CountsType DEF Enqueue, TypeOK
    <2>2. ~Gone(v)' /\ Patience(v)' = faults'
        BY <1>0, <1>3, <2>1, CountsType DEF Gone, Patience
    <2>3. Forgives(p, y, faults', Races(v)', Gone(v)', Patience(v)')
        BY <1>0, <1>2, <1>4, <1>5, <1>6, <1>9, <1>10, <1>12, <2>2 DEF Forgives, Measured
    <2>. QED BY <1>3, <1>4, <1>5, <1>6, <1>8, <1>12, <2>1, <2>3, Limits
             DEF StillForgives, Measured
<1>. QED BY <1>11, <1>12

LEMMA AnsweredForgives ==
    ASSUME RoomInv, RoomInv', ForgivingInv, faults <= 1,
           NEW v \in Scripted, NEW k \in Chains, JoinAnswered(v, k)
    PROVE  StillForgives(v)
<1>. DEFINE p == page[v]
            x == chain[v][k]
            s == x.s
            r == [p EXCEPT !.joined = TRUE, !.joinAttempts = 0]
            b == [p EXCEPT !.joinBlocked = Backoff(p.joinAttempts)]
<1>0. /\ TypeOK /\ TypeOK' /\ PageInv /\ x.pc = "joining"
      /\ UNCHANGED <<roomVars, mail, waited, faults>>
    BY DEF RoomInv, JoinAnswered, NoFault
<1>1. x \in Chain /\ p \in Page /\ InStep(p, x) /\ chain[v] = OnlyChain(k, x)
    BY <1>0, TheChain
<1>2. Forgives(p, x, faults, Races(v), Gone(v), Patience(v))
    BY <1>0, TheForgiven
<1>3. v \in Visitors /\ Measured(v) /\ Measured(v)' /\ Undisturbed(v)
    BY <1>0, ChainUndisturbed DEF NoFault
<1>4. /\ p.misses \in Nat /\ p.rejoinCycles \in Nat /\ p.joinAttempts \in Nat
      /\ p.joinAttempts > 0 /\ ~p.joined
    BY <1>0, <1>1, Limits DEF Page, InStep
<1>5. s \in Status \cup {Empty} /\ Riding(p)
    BY <1>0, <1>1 DEF InStep, Riding, Chain
<1>6. CASE x.answer = "accepted" /\ AfterJoin(v, k, s, r)
    <2>1. Riding(r)
        BY <1>5, Limits DEF Riding, Page
    <2>2. /\ r.joined /\ r.joinAttempts = 0 /\ r.stopped = p.stopped /\ r.misses = p.misses
          /\ r.joinBlocked = p.joinBlocked /\ r.rejoinCycles = p.rejoinCycles
        BY <1>1 DEF Page
    <2>3. Follows(v, k, r, {"idle", "redeem", "asking"})
        BY <1>5, <1>6, <2>1, AfterJoinFollows
    <2>4. Heard(x)
        BY <1>0, <1>6 DEF Heard
    <2>. HIDE DEF p, x, s, r
    <2>5. ASSUME NEW q \in Page, NEW y \in Chain, SameMemory(r, q),
                 y.pc \in {"idle", "redeem", "asking"}
          PROVE  Forgives(q, y, faults', Races(v)', Gone(v)', Patience(v)')
        <3>1. /\ ~q.stopped /\ q.joined /\ q.joinAttempts = 0 /\ q.joinBlocked = 0
              /\ q.misses = p.misses /\ q.rejoinCycles = p.rejoinCycles
            BY <1>2, <2>2, <2>5 DEF Forgives, SameMemory
        <3>2. /\ p.rejoinCycles <= faults + Races(v)
              /\ Gone(v) => p.rejoinCycles < faults + Races(v)
              /\ ~Gone(v) => p.misses <= Patience(v)
            BY <1>2, <2>4 DEF Forgives
        <3>3. /\ q.rejoinCycles <= faults' + Races(v)'
              /\ Gone(v)' => q.rejoinCycles < faults' + Races(v)'
              /\ ~Gone(v)' => q.misses <= Patience(v)'
            BY <1>3, <1>4, <3>1, <3>2 DEF Undisturbed, Measured
        <3>4. faults' \in Nat /\ Gone(v)' \in BOOLEAN /\ Races(v)' \in Nat
              /\ q.rejoinCycles \in Nat /\ q.misses \in Nat
            BY <1>3, <1>4, <3>1 DEF Measured
        <3>5. /\ ~(y.pc = "join" \/ (y.pc = "joining" /\ y.answer = "accepted"))
              /\ q.joinAttempts <= faults'
            BY <2>5, <3>1, <3>4
        <3>6. ASSUME NEW n \in Nat, n = 0
              PROVE  q.joinAttempts <= faults' + n
            BY <3>4, <3>5, <3>6
        <3>7. q.joinAttempts <= faults' + (IF y.pc = "join" \/ Heard(y) THEN 1 ELSE 0)
            BY <3>5, <3>6, Zenon DEF Heard
        <3>. QED BY <3>1, <3>3, <3>7 DEF Forgives
    <2>. QED BY <1>0, <2>3, <2>5, FollowsForgives DEF x
<1>7. CASE x.answer = "refused" /\ AfterJoin(v, k, s, b)
    <2>1. p.joinAttempts = 1
        BY <1>0, <1>2, <1>3, <1>4, <1>7 DEF Forgives, Heard, Measured
    <2>2. MAX_JOIN_ATTEMPTS > 0
        BY <1>1, <2>1, Limits DEF Page
    <2>3. /\ Riding(b) /\ b.joined = p.joined /\ b.joinAttempts = p.joinAttempts
          /\ b.stopped = p.stopped /\ b.misses = p.misses /\ b.joinBlocked = 0
          /\ b.rejoinCycles = p.rejoinCycles
        BY <1>5, <2>1, <2>2, BackoffType DEF Riding, Page
    <2>4. Follows(v, k, b, {"idle", "redeem", "asking"})
        BY <1>5, <1>7, <2>3, AfterJoinFollows
    <2>. HIDE DEF b
    <2>5. ASSUME NEW q \in Page, NEW y \in Chain, SameMemory(b, q),
                 y.pc \in {"idle", "redeem", "asking"}
          PROVE  Forgives(q, y, faults', Races(v)', Gone(v)', Patience(v)')
        BY <1>0, <1>2, <1>3, <1>4, <1>7, <2>3, <2>5
           DEF Forgives, SameMemory, Undisturbed, Measured, Heard
    <2>. QED BY <1>0, <2>4, <2>5, FollowsForgives
<1>8. CASE x.answer = "lost" /\ Caught(v, k, p)
    <2>1. Follows(v, k, p, {"idle"})
        BY <1>5, <1>8, CaughtFollows DEF Riding
    <2>2. ASSUME NEW q \in Page, NEW y \in Chain, SameMemory(p, q), y.pc \in {"idle"}
          PROVE  Forgives(q, y, faults', Races(v)', Gone(v)', Patience(v)')
        BY <1>0, <1>1, <1>2, <1>3, <1>8, <2>2, RestForgives DEF Heard
    <2>. QED BY <1>0, <2>1, <2>2, FollowsForgives
<1>. QED BY <1>6, <1>7, <1>8 DEF JoinAnswered

(* What is left to show when the chain has no join under way. *)
LEMMA SettledForgives ==
    ASSUME NEW q, NEW y, NEW failed \in Nat, NEW raced \in Nat, NEW gone \in BOOLEAN,
           NEW patience \in Nat,
           y.pc \in {"idle", "redeem"}, ~q.stopped, q.joinBlocked = 0,
           q.joinAttempts \in Nat, q.misses \in Nat, q.rejoinCycles \in Nat,
           q.joinAttempts <= failed, ~q.joined => q.misses <= failed,
           q.rejoinCycles <= failed + raced,
           q.joined /\ gone => q.rejoinCycles < failed + raced,
           ~gone => q.misses <= patience
    PROVE  Forgives(q, y, failed, raced, gone, patience)
<1>1. ~(y.pc = "join" \/ (y.pc = "joining" /\ y.answer = "accepted"))
    OBVIOUS
<1>2. ~(y.pc = "asking" \/ (y.pc = "joining" /\ y.answer = "refused"))
    OBVIOUS
<1>. QED BY <1>1, <1>2 DEF Forgives, Heard

(* What is known of a page whose chain asks for its position. *)
LEMMA AskingForgives ==
    ASSUME NEW p \in Page, NEW x \in Chain, x.pc = "asking", NEW failed \in Nat,
           NEW raced \in Nat, NEW gone, NEW patience, Forgives(p, x, failed, raced, gone, patience)
    PROVE  /\ p.joinAttempts \in Nat /\ p.misses \in Nat /\ p.rejoinCycles \in Nat
           /\ p.joined \in BOOLEAN
           /\ ~p.stopped /\ p.joinBlocked = 0 /\ p.joinAttempts <= failed
           /\ ~p.joined => p.misses + 1 <= failed
           /\ p.rejoinCycles <= failed + raced
           /\ p.joined /\ gone => p.rejoinCycles < failed + raced
           /\ ~gone => p.misses <= patience
<1>1. ~(x.pc = "join" \/ (x.pc = "joining" /\ x.answer = "accepted"))
    OBVIOUS
<1>2. x.pc = "asking" \/ (x.pc = "joining" /\ x.answer = "refused")
    OBVIOUS
<1>3. p.joinAttempts \in Nat /\ p.misses \in Nat /\ p.rejoinCycles \in Nat /\ p.joined \in BOOLEAN
    BY Limits DEF Page
<1>4. p.joinAttempts <= failed
    BY <1>1, <1>3 DEF Forgives, Heard
<1>5. ~p.joined => p.misses + 1 <= failed
    BY <1>2, <1>3 DEF Forgives
<1>. QED BY <1>3, <1>4, <1>5 DEF Forgives

(* A 404 for somebody with no mail on its way is final. *)
LEMMA MissMeansGone ==
    ASSUME NEW v, NEW item, item.opened => Opened, mail[v] = 0,
           queue_num(v, item).status = 404
    PROVE  Gone(v)
BY DEF queue_num, position_response, Found, Refused, Gone, Raced

LEMMA MissedForgives ==
    ASSUME RoomInv, RoomInv', ForgivingInv, Lenient, faults' <= 1,
           NEW v \in Scripted, NEW k \in Chains, chain[v][k].pc = "asking",
           Missed(v, k), UNCHANGED <<roomVars, mail>>,
           Fault("stale") \/ (NoFault /\ (mail[v] = 0 => Gone(v)))
    PROVE  StillForgives(v)
<1>. DEFINE x == chain[v][k]
            p == [page[v] EXCEPT !.misses = @ + 1]
            q == [p EXCEPT !.rejoinCycles = @ + 1]
<1>0. TypeOK /\ TypeOK' /\ PageInv /\ v \in Visitors /\ waited[v] <= MaxDelay
    BY Limits DEF RoomInv, ForgivingInv
<1>1. /\ x \in Chain /\ page[v] \in Page /\ chain[v] = OnlyChain(k, x)
      /\ InStep(page[v], x)
    BY <1>0, TheChain
<1>2. Measured(v) /\ Measured(v)'
    BY <1>0, MeasuresType
<1>3. faults <= 1 /\ faults' \in {faults, faults + 1}
    BY <1>2 DEF Measured, Fault, NoFault
<1>4. Forgives(page[v], x, faults, Races(v), Gone(v), Patience(v))
    BY <1>0, <1>3, TheForgiven
<1>5. Races(v)' = Races(v) /\ (Gone(v)' <=> Gone(v))
    BY DEF Races, Gone, Raced, Opened, ResolveIndex, roomVars, tables
<1>. DEFINE m == page[v].misses
            n == page[v].rejoinCycles
<1>6. /\ page[v].joinAttempts \in Nat /\ m \in Nat /\ n \in Nat /\ page[v].joined \in BOOLEAN
      /\ ~page[v].stopped /\ page[v].joinBlocked = 0 /\ page[v].joinAttempts <= faults
      /\ ~page[v].joined => m + 1 <= faults
      /\ n <= faults + Races(v)
      /\ page[v].joined /\ Gone(v) => n < faults + Races(v)
      /\ ~Gone(v) => m <= Patience(v)
    <2>. HIDE DEF x
    <2>1. x.pc = "asking"
        BY DEF x
    <2>. QED BY <1>1, <1>2, <1>4, <2>1, AskingForgives DEF Measured
<1>7. ~Gone(v) => m + 1 <= Patience(v)' /\ Patience(v)' <= faults' + MaxDelay
    <2>1. CASE mail[v] > 0
        <3>1. waited[v] < MaxDelay /\ waited'[v] = waited[v] + 1 /\ mail' = mail
            BY <1>0, <2>1 DEF Missed, TypeOK
        <3>. QED BY <1>0, <1>2, <1>3, <1>6, <2>1, <3>1, CountsType, Limits DEF Patience, Measured
    <2>2. CASE mail[v] = 0 /\ Fault("stale")
        <3>1. faults' = faults + 1 /\ mail' = mail
            BY <2>2 DEF Fault
        <3>. QED BY <1>2, <1>6, <2>2, <3>1, Limits DEF Patience, Measured
    <2>. QED BY <1>0, <2>1, <2>2, CountsType
<1>8. /\ p \in Page /\ ~p.admitting /\ p.left = "no"
      /\ p.misses = m + 1 /\ p.rejoinCycles = n /\ p.stopped = page[v].stopped
      /\ p.joined = page[v].joined /\ p.joinAttempts = page[v].joinAttempts
      /\ p.joinBlocked = page[v].joinBlocked
    BY <1>1 DEF Page, InStep
<1>. HIDE DEF p
<1>9. q \in Page /\ ~q.admitting /\ q.left = "no" /\ q.rejoinCycles = n + 1
      /\ q.stopped = p.stopped
    BY <1>6, <1>8 DEF Page
<1>10. \/ Caught(v, k, p)
       \/ m + 1 >= MAX_MISSES /\ n + 1 > MAX_REJOIN_CYCLES
       \/ m + 1 >= MAX_MISSES /\ Caught(v, k, forgetJoin(q))
    <2>1. /\ [page[v] EXCEPT !.misses = @ + 1].misses = m + 1
          /\ q.rejoinCycles = n + 1
        BY <1>8, <1>9 DEF p
    <2>. QED BY <2>1 DEF Missed, Caught, p
<1>. HIDE DEF q, x
<1>11. CASE Caught(v, k, p)
    <2>1. Follows(v, k, p, {"idle"})
        BY <1>8, <1>11, CaughtFollows
    <2>2. ASSUME NEW r \in Page, NEW y \in Chain, SameMemory(p, r), y.pc \in {"idle"}
          PROVE  Forgives(r, y, faults', Races(v)', Gone(v)', Patience(v)')
        <3>1. /\ ~r.stopped /\ r.joinBlocked = 0 /\ r.joinAttempts = page[v].joinAttempts
              /\ r.misses = m + 1 /\ r.rejoinCycles = n /\ r.joined = page[v].joined
            BY <1>6, <1>8, <2>2 DEF SameMemory
        <3>. HIDE DEF m, n
        <3>2. /\ r.joinAttempts <= faults' /\ (~r.joined => r.misses <= faults')
              /\ r.rejoinCycles <= faults' + Races(v)'
              /\ r.joined /\ Gone(v)' => r.rejoinCycles < faults' + Races(v)'
              /\ ~Gone(v)' => r.misses <= Patience(v)'
            BY <1>2, <1>3, <1>5, <1>6, <1>7, <3>1 DEF Measured
        <3>3. /\ r.joinAttempts \in Nat /\ r.misses \in Nat /\ r.rejoinCycles \in Nat
              /\ faults' \in Nat /\ Races(v)' \in Nat /\ Gone(v)' \in BOOLEAN
              /\ Patience(v)' \in Nat
            BY <1>2, <1>6, <3>1 DEF Measured
        <3>. QED BY <2>2, <3>1, <3>2, <3>3, SettledForgives
    <2>. QED BY <1>0, <2>1, <2>2, FollowsForgives
<1>12. ASSUME m + 1 >= MAX_MISSES
       PROVE  page[v].joined /\ n < faults + Races(v)
    <2>. HIDE DEF m, n
    <2>1. Gone(v)
        BY <1>2, <1>6, <1>7, <1>12, Limits DEF Lenient, Measured
    <2>2. page[v].joined
        BY <1>2, <1>3, <1>6, <1>12, Limits DEF Lenient, Measured
    <2>. QED BY <1>6, <2>1, <2>2
<1>13. CASE m + 1 >= MAX_MISSES /\ n + 1 > MAX_REJOIN_CYCLES
    <2>. HIDE DEF m, n
    <2>. QED BY <1>2, <1>3, <1>6, <1>12, <1>13, Limits DEF Lenient, Measured
<1>14. CASE m + 1 >= MAX_MISSES /\ Caught(v, k, forgetJoin(q))
    <2>. DEFINE f == forgetJoin(q)
    <2>1. /\ f \in Page /\ ~f.admitting /\ f.left = "no" /\ f.rejoinCycles = n + 1
          /\ ~f.stopped /\ ~f.joined /\ f.joinAttempts = 0 /\ f.misses = 0
          /\ f.joinBlocked = 0
        BY <1>6, <1>8, <1>9, Limits DEF forgetJoin, forgetPosition, Page
    <2>. HIDE DEF f
    <2>2. Follows(v, k, f, {"idle"})
        BY <1>14, <2>1, CaughtFollows DEF f
    <2>3. ASSUME NEW r \in Page, NEW y \in Chain, SameMemory(f, r), y.pc \in {"idle"}
          PROVE  Forgives(r, y, faults', Races(v)', Gone(v)', Patience(v)')
        <3>1. /\ ~r.stopped /\ r.joinBlocked = 0 /\ r.joinAttempts = 0
              /\ r.misses = 0 /\ r.rejoinCycles = n + 1 /\ ~r.joined
            BY <2>1, <2>3 DEF SameMemory
        <3>. HIDE DEF m, n
        <3>2. r.rejoinCycles <= faults' + Races(v)'
            BY <1>2, <1>3, <1>5, <1>6, <1>12, <1>14, <3>1 DEF Measured
        <3>3. /\ faults' \in Nat /\ Races(v)' \in Nat /\ Gone(v)' \in BOOLEAN
              /\ Patience(v)' \in Nat /\ r.rejoinCycles \in Nat
              /\ r.joinAttempts \in Nat /\ r.misses \in Nat
              /\ r.joinAttempts <= faults' /\ r.misses <= faults' /\ r.misses <= Patience(v)'
            BY <1>2, <1>6, <3>1 DEF Measured
        <3>. QED BY <2>3, <3>1, <3>2, <3>3, SettledForgives
    <2>. QED BY <1>0, <2>2, <2>3, FollowsForgives
<1>. QED BY <1>10, <1>11, <1>13, <1>14

LEMMA AskedForgives ==
    ASSUME RoomInv, RoomInv', ForgivingInv, Lenient, faults' <= 1,
           NEW v \in Scripted, NEW k \in Chains, Asked(v, k)
    PROVE  StillForgives(v)
<1>. DEFINE x == chain[v][k]
            p == [page[v] EXCEPT !.misses = 0]
<1>0. /\ TypeOK /\ TypeOK' /\ PageInv /\ Published /\ CacheInv /\ x.pc = "asking"
      /\ UNCHANGED <<roomVars, mail>> /\ v \in Visitors
      /\ NoFault \/ \E kind : Fault(kind)
    BY Limits DEF RoomInv, Asked
<1>1. x \in Chain /\ page[v] \in Page /\ chain[v] = OnlyChain(k, x) /\ InStep(page[v], x)
    BY <1>0, TheChain
<1>2. Measured(v) /\ Measured(v)' /\ faults <= 1
    BY <1>0, MeasuresType DEF Measured, Fault, NoFault
<1>3. Forgives(page[v], x, faults, Races(v), Gone(v), Patience(v))
    BY <1>0, <1>2, TheForgiven
<1>4. /\ Riding(page[v]) /\ Riding(p) /\ x.s \in Status \cup {Empty}
      /\ p.misses = 0
    BY <1>0, <1>1 DEF InStep, Riding, Page, Chain
<1>5. /\ p.stopped = page[v].stopped /\ p.joined = page[v].joined
      /\ p.joinAttempts = page[v].joinAttempts /\ p.joinBlocked = page[v].joinBlocked
      /\ p.rejoinCycles = page[v].rejoinCycles
    BY <1>1 DEF Page
<1>6. /\ p.joinAttempts \in Nat /\ p.rejoinCycles \in Nat /\ ~p.stopped /\ p.joinBlocked = 0
      /\ p.joinAttempts <= faults /\ p.rejoinCycles <= faults + Races(v)
      /\ p.joined /\ Gone(v) => p.rejoinCycles < faults + Races(v)
    <2>. HIDE DEF x, p
    <2>1. x.pc = "asking"
        BY <1>0
    <2>. QED BY <1>1, <1>2, <1>3, <1>5, <2>1, AskingForgives DEF Measured
<1>. HIDE DEF p
    (* The row was read: the misses in a row are over. *)
<1>7. ASSUME NoFault, UNCHANGED waited, NEW r, Riding(r), SameMemory(p, r),
             Follows(v, k, r, {"idle", "redeem"})
      PROVE  StillForgives(v)
    <2>1. /\ faults' = faults /\ Races(v)' = Races(v) /\ (Gone(v)' <=> Gone(v))
        BY <1>0, <1>7 DEF NoFault, Races, Gone, Raced, Opened, ResolveIndex, roomVars, tables
    <2>2. ASSUME NEW q \in Page, NEW y \in Chain, SameMemory(r, q),
                 y.pc \in {"idle", "redeem"}
          PROVE  Forgives(q, y, faults', Races(v)', Gone(v)', Patience(v)')
        <3>1. /\ q.misses = 0 /\ q.stopped = p.stopped /\ q.joined = p.joined
              /\ q.joinAttempts = p.joinAttempts /\ q.joinBlocked = p.joinBlocked
              /\ q.rejoinCycles = p.rejoinCycles /\ y.pc \in {"idle", "redeem"}
            BY <1>4, <1>7, <2>2 DEF SameMemory
        <3>2. /\ faults' \in Nat /\ Races(v)' \in Nat /\ Gone(v)' \in BOOLEAN
              /\ Patience(v)' \in Nat /\ q.misses \in Nat
              /\ q.misses <= faults' /\ q.misses <= Patience(v)'
            BY <1>2, <3>1 DEF Measured
        <3>. QED BY <1>6, <2>1, <3>1, <3>2, SettledForgives
    <2>. QED BY <1>0, <1>7, <2>2, FollowsForgives
<1>8. CASE Fault("error") /\ Caught(v, k, page[v]) /\ UNCHANGED waited
    <2>1. Follows(v, k, page[v], {"idle"})
        BY <1>4, <1>8, CaughtFollows DEF Riding
    <2>2. Undisturbed(v)
        BY <1>0, <1>8, ChainUndisturbed
    <2>3. ~Heard(x) /\ x.pc # "join"
        BY <1>0 DEF Heard
    <2>. HIDE DEF x
    <2>4. ASSUME NEW q \in Page, NEW y \in Chain, SameMemory(page[v], q), y.pc \in {"idle"}
          PROVE  Forgives(q, y, faults', Races(v)', Gone(v)', Patience(v)')
        BY <1>0, <1>1, <1>2, <1>3, <2>2, <2>3, <2>4, RestForgives
    <2>. QED BY <1>0, <2>1, <2>4, FollowsForgives DEF x
<1>9. CASE Fault("stale") /\ Missed(v, k)
    BY <1>0, <1>9, MissedForgives
<1>10. ASSUME NoFault, NEW c \in Containers, queue_num(v, CacheGet(c)).status = 404, Missed(v, k)
       PROVE  StillForgives(v)
    <2>1. CacheGet(c).opened => Opened
        BY <1>0, CacheGetType
    <2>2. mail[v] = 0 => Gone(v)
        BY <1>10, <2>1, MissMeansGone
    <2>. QED BY <1>0, <1>10, <2>2, MissedForgives
<1>11. CASE NoFault /\ Caught(v, k, p) /\ UNCHANGED waited
    <2>1. Follows(v, k, p, {"idle", "redeem"}) /\ SameMemory(p, p)
        BY <1>4, <1>11, CaughtFollows DEF Riding, SameMemory, Follows
    <2>. QED BY <1>4, <1>7, <1>11, <2>1
<1>12. CASE NoFault /\ \E c \in Containers :
              LET q == queue_num(v, CacheGet(c))
                  s == [page[v] EXCEPT !.misses = 0]
              IN  /\ load_counters(c)
                  /\ \/ q.status = 404 /\ Missed(v, k)
                     \/ q.status = 409 /\ Caught(v, k, s) /\ UNCHANGED waited
                     \/ /\ q.status = 200 /\ UNCHANGED waited
                        /\ Placed(v, k, chain[v][k].s, [s EXCEPT !.knownPosition = q.position])
    <2>0. PICK c \in Containers :
            LET q == queue_num(v, CacheGet(c))
                s == [page[v] EXCEPT !.misses = 0]
            IN  /\ load_counters(c)
                /\ \/ q.status = 404 /\ Missed(v, k)
                   \/ q.status = 409 /\ Caught(v, k, s) /\ UNCHANGED waited
                   \/ /\ q.status = 200 /\ UNCHANGED waited
                      /\ Placed(v, k, chain[v][k].s, [s EXCEPT !.knownPosition = q.position])
        BY <1>12, Zenon
    <2>. DEFINE n == queue_num(v, CacheGet(c)).position
                r == [p EXCEPT !.knownPosition = n]
    <2>1. \/ queue_num(v, CacheGet(c)).status = 404 /\ Missed(v, k)
          \/ Caught(v, k, p) /\ UNCHANGED waited
          \/ /\ queue_num(v, CacheGet(c)).status = 200 /\ UNCHANGED waited
             /\ Placed(v, k, x.s, r)
        BY <2>0 DEF p
    <2>. HIDE DEF x, n, r
    <2>2. CASE queue_num(v, CacheGet(c)).status = 404 /\ Missed(v, k)
        BY <1>10, <1>12, <2>2
    <2>3. CASE Caught(v, k, p) /\ UNCHANGED waited
        BY <1>11, <1>12, <2>3
    <2>4. CASE /\ queue_num(v, CacheGet(c)).status = 200 /\ UNCHANGED waited
               /\ Placed(v, k, x.s, r)
        <3>1. n \in Nat
            BY <1>0, <2>4, CacheGetType, QueueNumType DEF n
        <3>2. Riding(r) /\ SameMemory(p, r)
            BY <1>4, <3>1 DEF Riding, Page, SameMemory, r
        <3>3. Follows(v, k, r, {"idle", "redeem"})
            BY <1>4, <2>4, <3>2, PlacedFollows DEF x
        <3>. QED BY <1>7, <1>12, <2>4, <3>2, <3>3
    <2>. QED BY <2>1, <2>2, <2>3, <2>4
<1>13. CASE Fault("error") /\ Caught(v, k, page[v]) /\ UNCHANGED <<cache, waited>>
    BY <1>8, <1>13
<1>14. CASE Fault("stale") /\ Missed(v, k) /\ UNCHANGED cache
    BY <1>9, <1>14
<1>. QED BY <1>12, <1>13, <1>14, Zenon DEF Asked

LEMMA RedeemForgives ==
    ASSUME RoomInv, RoomInv', ForgivingInv, faults <= 1,
           NEW v \in Scripted, NEW k \in Chains, RedeemAnswered(v, k)
    PROVE  StillForgives(v)
<1>. DEFINE x == chain[v][k]
            p == page[v]
            r == [p EXCEPT !.left = "admitted", !.timer = FALSE]
            d == [p EXCEPT !.left = "not_holder", !.timer = FALSE, !.admitting = FALSE]
            f == [p EXCEPT !.admitting = FALSE]
<1>0. /\ TypeOK /\ TypeOK' /\ PageInv /\ x.pc = "redeem"
      /\ UNCHANGED <<roomVars, mail, waited>>
      /\ NoFault \/ \E kind : Fault(kind)
    BY DEF RoomInv, RedeemAnswered, NotHolder
<1>1. x \in Chain /\ p \in Page /\ InStep(p, x)
    BY <1>0, TheChain
<1>2. Forgives(p, x, faults, Races(v), Gone(v), Patience(v))
    BY <1>0, TheForgiven
<1>3. v \in Visitors /\ Measured(v) /\ Measured(v)' /\ Undisturbed(v)
    BY <1>0, ChainUndisturbed
<1>4. /\ r \in Page /\ r.left # "no" /\ SameMemory(p, r)
      /\ d \in Page /\ d.left # "no" /\ SameMemory(p, d)
      /\ f \in Page /\ f.left = "no" /\ ~f.admitting /\ SameMemory(p, f)
    BY <1>0, <1>1 DEF Page, InStep, SameMemory
<1>5. Settle(v, k, r) \/ Settle(v, k, d) \/ Caught(v, k, f)
    BY DEF RedeemAnswered, RedeemFailed, Caught
<1>6. x.pc # "join" /\ ~Heard(x)
    BY <1>0 DEF Heard
<1>. HIDE DEF r, d, f
<1>7. Follows(v, k, r, {"idle"}) \/ Follows(v, k, d, {"idle"}) \/ Follows(v, k, f, {"idle"})
    BY <1>4, <1>5, LeavesFollows, CaughtFollows
<1>8. ASSUME NEW q \in Page, NEW y \in Chain, SameMemory(r, q) \/ SameMemory(d, q) \/ SameMemory(f, q),
             y.pc \in {"idle"}
      PROVE  Forgives(q, y, faults', Races(v)', Gone(v)', Patience(v)')
    <2>1. SameMemory(p, q)
        BY <1>4, <1>8 DEF SameMemory
    <2>. HIDE DEF p, x
    <2>. QED BY <1>1, <1>2, <1>3, <1>6, <1>8, <2>1, RestForgives
<1>. QED BY <1>0, <1>7, <1>8, FollowsForgives

(* The page changes while its chain stays as it was. *)
LEMMA PageForgives ==
    ASSUME TypeOK, TypeOK', ForgivingInv, faults <= 1, NEW v \in Scripted, Undisturbed(v),
           UNCHANGED chain, NEW q \in Page, SameMemory(page[v], q),
           page' = [page EXCEPT ![v] = q]
    PROVE  StillForgives(v)
<1>1. v \in Visitors /\ page[v] \in Page /\ page'[v] = q
    BY Limits DEF TypeOK
<1>2. Measured(v) /\ Measured(v)'
    BY <1>1, MeasuresType
<1>3. PICK k \in Chains, x \in Chain :
        /\ chain[v] = OnlyChain(k, x)
        /\ Forgives(page[v], x, faults, Races(v), Gone(v), Patience(v))
    BY DEF ForgivingInv
<1>4. Forgives(q, x, faults', Races(v)', Gone(v)', Patience(v)')
    BY <1>1, <1>2, <1>3, RestForgives
<1>. QED BY <1>1, <1>3, <1>4 DEF StillForgives

(* tick starts a poll of a page that blocks no join. *)
LEMMA TickForgives ==
    ASSUME RoomInv, TypeOK', ForgivingInv, faults <= 1, NEW v \in Scripted, Undisturbed(v),
           NEW r \in Page, tick(v, r), r.inFlight = page[v].inFlight, SameMemory(page[v], r)
    PROVE  StillForgives(v)
<1>0. TypeOK /\ PageInv /\ v \in Visitors /\ page[v] \in Page
    BY Limits DEF RoomInv, TypeOK
<1>1. Measured(v) /\ Measured(v)'
    BY <1>0, MeasuresType
<1>2. PICK k \in Chains, x \in Chain :
        /\ chain[v] = OnlyChain(k, x)
        /\ Forgives(page[v], x, faults, Races(v), Gone(v), Patience(v))
    BY DEF ForgivingInv
<1>3. CASE page' = [page EXCEPT ![v] = [r EXCEPT !.catchUpWanted = TRUE]] /\ UNCHANGED chain
    <2>. DEFINE q == [r EXCEPT !.catchUpWanted = TRUE]
    <2>1. q \in Page /\ SameMemory(page[v], q)
        BY DEF Page, SameMemory
    <2>. HIDE DEF q
    <2>2. page' = [page EXCEPT ![v] = q]
        BY <1>3 DEF q
    <2>. QED BY <1>0, <1>3, <2>1, <2>2, PageForgives
<1>4. ASSUME ~r.inFlight, NEW j \in Chains, chain' = [chain EXCEPT ![v][j].pc = "status"],
             NEW b \in 0 .. (IF r.joinBlocked = 0 THEN 0 ELSE r.joinBlocked - 1),
             page' = [page EXCEPT ![v] = [r EXCEPT !.inFlight = TRUE, !.joinBlocked = b]]
      PROVE  StillForgives(v)
    <2>. DEFINE q == [r EXCEPT !.inFlight = TRUE, !.joinBlocked = b]
                y == [Idle EXCEPT !.pc = "status"]
    <2>1. \A i \in Chains : chain[v][i] = Idle
        <3>1. PICK i \in Chains, z \in Chain : chain[v] = OnlyChain(i, z) /\ InStep(page[v], z)
            BY <1>0 DEF PageInv
        <3>2. z = Idle
            BY <1>4, <3>1 DEF InStep
        <3>. QED BY <3>1, <3>2 DEF OnlyChain
    <2>2. x = Idle /\ x.pc = "idle" /\ x.pc # "join" /\ ~Heard(x)
        BY <1>2, <2>1 DEF OnlyChain, Idle, Heard
    <2>3. chain[v] = OnlyChain(j, Idle)
        BY <1>2, <2>1 DEF OnlyChain
    <2>4. y \in Chain /\ y.pc = "status"
        BY DEF Idle, Chain
    <2>5. chain' = [chain EXCEPT ![v][j] = y]
        BY <1>0, <1>4, <2>1 DEF TypeOK
    <2>6. r.joinBlocked = 0 /\ b = 0
        BY <1>2 DEF Forgives, SameMemory
    <2>7. q \in Page /\ SameMemory(page[v], q)
        BY <2>6 DEF Page, SameMemory
    <2>. HIDE DEF q, y
    <2>8. Moves(v, j, q, y)
        BY <1>4, <2>5 DEF Moves, q
    <2>9. page'[v] = q /\ chain'[v] = OnlyChain(j, y)
        BY <1>0, <2>3, <2>4, <2>7, <2>8, IdleType, ChainMoves
    <2>10. Forgives(q, y, faults', Races(v)', Gone(v)', Patience(v)')
        BY <1>0, <1>1, <1>2, <2>2, <2>4, <2>7, RestForgives
    <2>. QED BY <2>4, <2>9, <2>10 DEF StillForgives
<1>. QED BY <1>3, <1>4 DEF tick, Busy

LEMMA BrowserForgives ==
    ASSUME RoomInv, RoomInv', ForgivingInv, faults <= 1, NEW v \in Scripted,
           TimerFires(v) \/ Hide(v) \/ Show(v)
    PROVE  StillForgives(v)
<1>0. /\ TypeOK /\ TypeOK' /\ page[v] \in Page /\ v \in Visitors
      /\ UNCHANGED <<roomVars, mail, waited>> /\ NoFault
    BY Limits DEF RoomInv, TypeOK, TimerFires, Hide, Show, NoFault
<1>1. Undisturbed(v)
    BY <1>0, ChainUndisturbed
<1>2. CASE TimerFires(v)
    <2>. DEFINE r == [page[v] EXCEPT !.timer = FALSE]
    <2>1. r \in Page /\ r.inFlight = page[v].inFlight /\ SameMemory(page[v], r)
        BY <1>0 DEF Page, SameMemory
    <2>2. tick(v, r)
        BY <1>2 DEF TimerFires
    <2>. HIDE DEF r
    <2>. QED BY <1>0, <1>1, <2>1, <2>2, TickForgives
<1>3. CASE Hide(v)
    <2>. DEFINE q == [page[v] EXCEPT !.hidden = TRUE, !.timer = FALSE]
    <2>1. q \in Page /\ SameMemory(page[v], q)
        BY <1>0 DEF Page, SameMemory
    <2>2. page' = [page EXCEPT ![v] = q] /\ UNCHANGED chain
        BY <1>0, <1>3 DEF Hide, TypeOK
    <2>. HIDE DEF q
    <2>. QED BY <1>0, <1>1, <2>1, <2>2, PageForgives
<1>4. CASE Show(v)
    <2>. DEFINE p == [page[v] EXCEPT !.hidden = FALSE, !.timer = FALSE]
                u == [p EXCEPT !.timer = TRUE]
    <2>1. /\ p \in Page /\ p.inFlight = page[v].inFlight /\ SameMemory(page[v], p)
          /\ u \in Page /\ SameMemory(page[v], u)
        BY <1>0 DEF Page, SameMemory
    <2>2. \/ page' = [page EXCEPT ![v] = p] /\ UNCHANGED chain
          \/ tick(v, p)
          \/ page' = [page EXCEPT ![v] = u] /\ UNCHANGED chain
        BY <1>4 DEF Show
    <2>. HIDE DEF p, u
    <2>. QED BY <1>0, <1>1, <2>1, <2>2, TickForgives, PageForgives
<1>. QED BY <1>2, <1>3, <1>4

(* A page loaded again starts over, and the reload was the one fault. *)
LEMMA ReloadForgives ==
    ASSUME RoomInv, RoomInv', ForgivingInv, NEW v \in Scripted, Reload(v)
    PROVE  StillForgives(v)
<1>. DEFINE q == Loaded(page[v].joined)
<1>0. /\ TypeOK /\ TypeOK' /\ v \in Visitors /\ page[v] \in Page
    BY Limits DEF RoomInv, TypeOK
<1>1. /\ Measured(v)' /\ faults' > 0
    BY <1>0, MeasuresType, CountsType DEF Reload, Fault
<1>2. /\ ~q.stopped /\ q.joinBlocked = 0 /\ q.joinAttempts = 0 /\ q.misses = 0
      /\ q.rejoinCycles = 0
    BY DEF Loaded
<1>3. page'[v] = q /\ chain'[v] = [k \in Chains |-> Idle]
    BY <1>0 DEF Reload, TypeOK
<1>. HIDE DEF q
<1>4. /\ faults' \in Nat /\ Races(v)' \in Nat /\ Gone(v)' \in BOOLEAN /\ Patience(v)' \in Nat
      /\ q.joinAttempts \in Nat /\ q.misses \in Nat /\ q.rejoinCycles \in Nat
      /\ q.joinAttempts <= faults' /\ q.misses <= faults' /\ q.misses <= Patience(v)'
      /\ q.rejoinCycles < faults' + Races(v)'
    BY <1>1, <1>2 DEF Measured
<1>5. q.rejoinCycles <= faults' + Races(v)' /\ Idle.pc \in {"idle", "redeem"}
    BY <1>4 DEF Idle
<1>6. Forgives(q, Idle, faults', Races(v)', Gone(v)', Patience(v)')
    BY <1>2, <1>4, <1>5, SettledForgives
<1>7. PICK k \in Chains : TRUE
    BY PageAssumption
<1>8. chain'[v] = OnlyChain(k, Idle)
    BY <1>3 DEF OnlyChain
<1>. QED BY <1>3, <1>6, <1>8, IdleType DEF StillForgives

(* A step of v's page is nobody else's. *)
OthersRest(v) ==
    \A w \in Visitors \ {v} :
        /\ w \in Scripted => page'[w] = page[w] /\ chain'[w] = chain[w]
        /\ mail'[w] = mail[w] /\ waited'[w] = waited[w]

LEMMA PagesRest ==
    ASSUME TypeOK, NEW v \in Scripted, NEW w \in Scripted \ {v}, NEW k
    PROVE  /\ \A p : Caught(v, k, p) \/ Settle(v, k, p) =>
                     page'[w] = page[w] /\ chain'[w] = chain[w]
           /\ \A s, p : join(v, k, s, p) \/ AfterJoin(v, k, s, p) \/ Placed(v, k, s, p) =>
                     page'[w] = page[w] /\ chain'[w] = chain[w]
           /\ Missed(v, k) => page'[w] = page[w] /\ chain'[w] = chain[w]
<1>1. ASSUME NEW p, Settle(v, k, p)
      PROVE  page'[w] = page[w] /\ chain'[w] = chain[w]
    BY <1>1 DEF Settle, TypeOK
<1>2. ASSUME NEW pc, NEW s, NEW p, GoOn(v, k, pc, s, p)
      PROVE  page'[w] = page[w] /\ chain'[w] = chain[w]
    BY <1>2 DEF GoOn, TypeOK
<1>3. ASSUME NEW s, NEW p, Placed(v, k, s, p)
      PROVE  page'[w] = page[w] /\ chain'[w] = chain[w]
    BY <1>1, <1>2, <1>3 DEF Placed
<1>4. ASSUME NEW s, NEW p, AfterJoin(v, k, s, p)
      PROVE  page'[w] = page[w] /\ chain'[w] = chain[w]
    BY <1>1, <1>2, <1>3, <1>4 DEF AfterJoin
<1>5. ASSUME NEW s, NEW p, join(v, k, s, p)
      PROVE  page'[w] = page[w] /\ chain'[w] = chain[w]
    BY <1>2, <1>4, <1>5 DEF join
<1>. QED BY <1>1, <1>3, <1>4, <1>5 DEF Caught, Missed

LEMMA PageStepRest ==
    ASSUME TypeOK, NEW v \in Scripted,
           TimerFires(v) \/ Hide(v) \/ Show(v) \/ ChainStep(v) \/ Reload(v)
    PROVE  OthersRest(v) /\ UNCHANGED roomVars /\ (NoFault \/ \E kind : Fault(kind))
<1>1. UNCHANGED roomVars /\ (NoFault \/ \E kind : Fault(kind))
    BY DEF TimerFires, Hide, Show, ChainStep, Reload, NoFault,
           StatusAnswered, JoinPosted, JoinAnswered, Asked, RedeemAnswered, NotHolder
<1>2. ASSUME NEW w \in Visitors \ {v}
      PROVE  mail'[w] = mail[w] /\ waited'[w] = waited[w]
    <2>1. Enqueue(v) \/ UNCHANGED <<mail, waited>>
             \/ (UNCHANGED mail /\ \E k \in Chains : Missed(v, k))
        BY DEF TimerFires, Hide, Show, ChainStep, Reload,
               StatusAnswered, JoinPosted, JoinAnswered, Asked, RedeemAnswered
    <2>. QED BY <2>1 DEF TypeOK, Enqueue, Missed
<1>3. ASSUME NEW w \in Scripted \ {v}
      PROVE  page'[w] = page[w] /\ chain'[w] = chain[w]
    <2>1. CASE TimerFires(v) \/ Hide(v) \/ Show(v)
        BY <2>1 DEF TypeOK, TimerFires, Hide, Show, tick
    <2>2. CASE Reload(v)
        BY <2>2 DEF TypeOK, Reload
    <2>3. ASSUME NEW k \in Chains, StatusAnswered(v, k)
          PROVE  page'[w] = page[w] /\ chain'[w] = chain[w]
        BY <2>3, PagesRest DEF StatusAnswered
    <2>4. ASSUME NEW k \in Chains, JoinPosted(v, k)
          PROVE  page'[w] = page[w] /\ chain'[w] = chain[w]
        BY <2>4 DEF TypeOK, JoinPosted
    <2>5. ASSUME NEW k \in Chains, JoinAnswered(v, k)
          PROVE  page'[w] = page[w] /\ chain'[w] = chain[w]
        BY <2>5, PagesRest DEF JoinAnswered
    <2>6. ASSUME NEW k \in Chains, Asked(v, k)
          PROVE  page'[w] = page[w] /\ chain'[w] = chain[w]
        <3>1. \/ \E p : Caught(v, k, p)
              \/ Missed(v, k)
              \/ \E s, p : Placed(v, k, s, p)
            BY <2>6, Zenon DEF Asked
        <3>. QED BY <3>1, PagesRest
    <2>7. ASSUME NEW k \in Chains, RedeemAnswered(v, k)
          PROVE  page'[w] = page[w] /\ chain'[w] = chain[w]
        BY <2>7, PagesRest DEF RedeemAnswered
    <2>. QED BY <2>1, <2>2, <2>3, <2>4, <2>5, <2>6, <2>7 DEF ChainStep
<1>. QED BY <1>1, <1>2, <1>3 DEF OthersRest

LEMMA WaitingBounded ==
    ASSUME TypeOK, NEW v \in Scripted, waited[v] <= MaxDelay,
           TimerFires(v) \/ Hide(v) \/ Show(v) \/ ChainStep(v) \/ Reload(v)
    PROVE  waited'[v] <= MaxDelay
<1>1. v \in Visitors /\ waited[v] \in Nat
    BY Limits DEF TypeOK
<1>2. Enqueue(v) \/ UNCHANGED <<mail, waited>> \/ \E k \in Chains : Missed(v, k)
    BY DEF TimerFires, Hide, Show, ChainStep, Reload,
           StatusAnswered, JoinPosted, JoinAnswered, Asked, RedeemAnswered
<1>. QED BY <1>1, <1>2, Limits DEF TypeOK, Enqueue, Missed

LEMMA PageForgiving ==
    ASSUME RoomInv, RoomInv', ForgivingInv, Lenient, PageStep
    PROVE  ForgivingInv'
<1>0. TypeOK /\ TypeOK'
    BY DEF RoomInv
<1>1. PICK v \in Scripted : TimerFires(v) \/ Hide(v) \/ Show(v) \/ ChainStep(v) \/ Reload(v)
    BY DEF PageStep, PageNext
<1>2. OthersRest(v) /\ UNCHANGED roomVars /\ (NoFault \/ \E kind : Fault(kind))
    BY <1>0, <1>1, PageStepRest
<1>3. v \in Visitors /\ faults' >= faults
    BY <1>0, <1>2, Limits, CountsType DEF NoFault, Fault
<1>4. \A u \in Visitors : waited'[u] <= MaxDelay
    BY <1>0, <1>1, <1>2, <1>3, WaitingBounded DEF ForgivingInv, OthersRest
<1>5. ASSUME NEW w \in Scripted \ {v}
      PROVE  page'[w] = page[w] /\ chain'[w] = chain[w] /\ Undisturbed(w)
    <2>1. w \in Visitors \ {v}
        BY Limits
    <2>. QED BY <1>0, <1>2, <1>3, <2>1, Untouched DEF OthersRest, roomVars, tables
<1>6. ASSUME faults' <= 1
      PROVE  StillForgives(v)
    <2>1. faults <= 1
        BY <1>0, <1>3, <1>6, CountsType
    <2>. QED BY <1>1, <1>6, <2>1, BrowserForgives, ReloadForgives, StatusForgives,
                PostedForgives, AnsweredForgives, AskedForgives, RedeemForgives DEF ChainStep
<1>. QED BY <1>0, <1>3, <1>4, <1>5, <1>6, ForgivingMoves DEF StillForgives

LEMMA FormForgiving ==
    ASSUME RoomInv, RoomInv', ForgivingInv, FormNext
    PROVE  ForgivingInv'
<1>0. TypeOK /\ TypeOK'
    BY DEF RoomInv
<1>1. PICK b \in Forms :
        \/ \E i \in Posts : handle_enter(b, i) \/ set_cookie(b, i)
        \/ handle_wait(b) \/ clear_identity_cookie(b)
    BY DEF FormNext
<1>2. UNCHANGED <<roomVars, page, chain>> /\ (NoFault \/ \E kind : Fault(kind))
    BY <1>1 DEF handle_enter, set_cookie, handle_wait, clear_identity_cookie, NotHolder, pageVars, SendFails
<1>3. (\E u \in Visitors \ Scripted : Enqueue(u)) \/ UNCHANGED <<mail, waited>>
    BY <1>1 DEF handle_enter, set_cookie, handle_wait, clear_identity_cookie, NotHolder, pageVars, Mint
<1>4. \A v \in Scripted : mail'[v] = mail[v] /\ waited'[v] = waited[v]
    BY <1>0, <1>3, Limits DEF Enqueue, TypeOK
<1>5. \A u \in Visitors : waited'[u] <= MaxDelay
    BY <1>0, <1>3, Limits DEF Enqueue, TypeOK, ForgivingInv
<1>6. ASSUME NEW v \in Scripted
      PROVE  v \in Visitors /\ faults' >= faults /\ Undisturbed(v)
    <2>1. v \in Visitors
        BY Limits
    <2>2. faults' >= faults
        BY <1>0, <1>2, <2>1, CountsType DEF NoFault, Fault
    <2>. QED BY <1>0, <1>2, <1>4, <2>1, <2>2, Untouched DEF roomVars, tables
<1>7. faults' >= faults
    BY <1>0, <1>2, FaultAssumption DEF NoFault, Fault, TypeOK, TablesTypeOK
<1>. QED BY <1>0, <1>2, <1>5, <1>6, <1>7, ForgivingQuiet

LEMMA RoomForgiving ==
    ASSUME RoomInv, RoomInv', ForgivingInv, RoomStep
    PROVE  ForgivingInv'
<1>0. TypeOK /\ TypeOK' /\ \A u \in Visitors : waited[u] <= MaxDelay
    BY DEF RoomInv, ForgivingInv
<1>1. UNCHANGED <<page, chain, waited>>
    BY DEF RoomStep, Ingest, Release, Opens, Operator, TtlStep, roomOnly, pageVars
<1>2. faults' >= faults
    BY <1>0, FaultAssumption
       DEF RoomStep, Ingest, Registers, Joins, DeadLetter, Release, Opens, Operator, TtlStep,
           NoFault, Fault, TypeOK, TablesTypeOK
<1>3. ASSUME NEW v \in Scripted
      PROVE  Undisturbed(v)
    <2>0. v \in Visitors
        BY Limits
    <2>1. CASE Opens
        BY <1>0, <2>0, <2>1, OpenUndisturbed
    <2>2. CASE Ingest(v)
        BY <1>0, <2>0, <2>2, IngestUndisturbed
    <2>3. ASSUME NEW u \in Visitors \ {v}, Ingest(u)
          PROVE  Undisturbed(v)
        <3>1. /\ mail'[v] = mail[v] /\ positions'[v] = positions[v] /\ prequeue'[v] = prequeue[v]
              /\ UNCHANGED <<shuffle_seed, cohort, waited>>
            BY <1>0, <2>0, <2>3
               DEF Ingest, Registers, Joins, DeadLetter, Taken, TypeOK, TablesTypeOK
        <3>. QED BY <1>0, <1>2, <2>0, <3>1, Untouched
    <2>4. CASE Release \/ Operator \/ TtlStep
        <3>1. UNCHANGED <<mail, waited, positions, prequeue, shuffle_seed, cohort>>
            BY <2>4 DEF Release, Operator, TtlStep, SetPhase, tables, roomVars, pageVars
        <3>. QED BY <1>0, <1>2, <2>0, <3>1, Untouched
    <2>. QED BY <2>1, <2>2, <2>3, <2>4 DEF RoomStep
<1>. QED BY <1>0, <1>1, <1>2, <1>3, ForgivingQuiet

LEMMA ForgivingInit == Init => ForgivingInv
<1>. SUFFICES ASSUME Init PROVE ForgivingInv
    OBVIOUS
<1>0. TypeOK /\ faults = 0
    BY RoomInit DEF RoomInv, Init, TablesInit
<1>1. \A u \in Visitors : waited[u] = 0
    BY DEF Init, PageInit
<1>2. ASSUME NEW v \in Scripted
      PROVE  \E k \in Chains, x \in Chain :
                /\ chain[v] = OnlyChain(k, x)
                /\ Forgives(page[v], x, faults, Races(v), Gone(v), Patience(v))
    <2>1. v \in Visitors /\ page[v] = Loaded(FALSE) /\ chain[v] = [k \in Chains |-> Idle]
        BY Limits DEF Init, PageInit
    <2>2. PICK k \in Chains : TRUE
        BY PageAssumption
    <2>3. chain[v] = OnlyChain(k, Idle)
        BY <2>1 DEF OnlyChain
    <2>4. Patience(v) \in Nat /\ Races(v) \in 0 .. 1 /\ Gone(v) \in BOOLEAN
        BY <1>0, <1>1, <2>1, Limits DEF Patience, Races, Gone
    <2>. DEFINE q == Loaded(FALSE)
    <2>5. /\ ~q.stopped /\ q.joinBlocked = 0 /\ q.joinAttempts = 0 /\ q.misses = 0
          /\ q.rejoinCycles = 0 /\ ~q.joined
        BY DEF Loaded
    <2>6. Idle.pc \in {"idle", "redeem"}
        BY DEF Idle
    <2>. HIDE DEF q
    <2>7. /\ q.joinAttempts <= faults /\ q.misses <= faults /\ q.misses <= Patience(v)
          /\ q.rejoinCycles <= faults + Races(v)
          /\ q.joinAttempts \in Nat /\ q.misses \in Nat /\ q.rejoinCycles \in Nat
          /\ faults \in Nat /\ Races(v) \in Nat
        BY <1>0, <2>4, <2>5
    <2>8. Forgives(q, Idle, faults, Races(v), Gone(v), Patience(v))
        BY <2>4, <2>5, <2>6, <2>7, SettledForgives
    <2>. QED BY <2>1, <2>3, <2>8, IdleType DEF q
<1>. QED BY <1>1, <1>2, Limits DEF ForgivingInv

LEMMA ForgivingNext ==
    ASSUME RoomInv, RoomInv', ForgivingInv, Lenient, [Next]_vars
    PROVE  ForgivingInv'
<1>1. CASE UNCHANGED vars
    BY <1>1 DEF vars, roomVars, tables, pageVars, ForgivingInv, Races, Raced, Gone, Patience,
          Opened, ResolveIndex
<1>. QED BY <1>1, PageForgiving, FormForgiving, RoomForgiving DEF Next

(* giveUp: one fault, of any kind and at any time, never makes a page stop, *)
(* whatever its limits are as long as they leave it two joins, two rejoins  *)
(* and more misses than the ingest's worst delay and one.                   *)
THEOREM OneFaultForgivenCorrect ==
    ASSUME Lenient
    PROVE  Spec => []OneFaultForgiven
<1>1. RoomInv /\ ForgivingInv => OneFaultForgiven
    <2>. SUFFICES ASSUME RoomInv, ForgivingInv, NEW v \in Scripted, page[v].stopped
                  PROVE  faults > 1
        BY DEF OneFaultForgiven
    <2>1. faults \in Nat
        BY FaultAssumption DEF RoomInv, TypeOK, TablesTypeOK
    <2>. QED BY <2>1 DEF ForgivingInv, Forgives
<1>2. RoomInv /\ RoomInv' /\ ForgivingInv /\ [Next]_vars => ForgivingInv'
    BY ForgivingNext
<1>. QED BY <1>1, <1>2, ForgivingInit, RoomInductive, PTL DEF Spec
=============================================================================
