------------------------------ MODULE Harness -------------------------------
(***************************************************************************)
(* The load harness: simulated visitors (visitor.rs) polling through a     *)
(* model of the CDN (edge.rs) that caches answers and collapses identical  *)
(* fetches.  Every lock the edge takes is an action; a fetch takes any     *)
(* time and answers anything.  Time is counted in lifetimes of a polled    *)
(* answer, and jitter is left out.                                         *)
(***************************************************************************)
EXTENDS Integers, FiniteSets

CONSTANTS
    Loaders,           \* the visitor tasks
    Deadline           \* the length of a run

VARIABLES
    elapsed, polling,  \* the clock, and the run's polling mode
    entries, inflight, \* the edge's cache and the fetches under way
    tally,             \* requests per cache key, by what became of them
    visitor, request   \* each task's own state, and its request's

harnessVars == <<elapsed, polling, entries, inflight, tally, visitor, request>>

POLLED_TTL == 1
ERROR_TTL == 2
POLL_FLOOR == 1
POLL_CEILING == 2
Modes == {"HoldPosition", "EveryTick", "DerivePosition", "Backoff"}

(* Cache keys: /status is shared, /queue_num is each visitor's own. *)
CacheKeys == {"status"} \cup Loaders
Nobody == "nobody"
ASSUME LoadersAssumption == IsFiniteSet(Loaders) /\ Nobody \notin Loaders
None == [code |-> 0, body |-> 0]
PositionHeld == 2

(* A status body is the cursor, or Closed; a position body is a position.  *)
Closed == -1
OriginAnswers(k) ==
    IF k = "status" THEN [code : {200}, body : {Closed, 0}]
    ELSE [code : {200}, body : {PositionHeld}] \cup [code : {404}, body : {0}]

Fresh(k) == entries[k].expires_at > elapsed
Count(k, what) == tally' = [tally EXCEPT ![k][what] = @ + 1]
At(v, pc) == request[v].pc = pc

Unread == [code |-> 0, body |-> 0, expires_at |-> 0]

HarnessInit(modes, asks) ==
    /\ elapsed = 0 /\ polling \in modes
    /\ entries = [k \in CacheKeys |-> Unread]
    /\ inflight = [k \in CacheKeys |-> Nobody]
    /\ tally = [k \in CacheKeys |->
                  [client |-> 0, hits |-> 0, collapsed |-> 0, origin |-> 0]]
    /\ visitor = [v \in Loaders |-> [held |-> 0, serving |-> 0, wake |-> 0,
                                    first_ask |-> asks[v]]]
    /\ request = [v \in Loaders |-> [pc |-> "away", of |-> "status", leader |-> Nobody,
                                     answer |-> None]]

-----------------------------------------------------------------------------
(* Edge::serve.                                                            *)

Answer(v, pc, answer) ==
    request' = [request EXCEPT ![v].pc = pc, ![v].answer = answer, ![v].leader = Nobody]
Cached(k) == [code |-> entries[k].code, body |-> entries[k].body]

Goto(v, pc) == request' = [request EXCEPT ![v].pc = pc]
WaitFor(v, leader) ==
    request' = [request EXCEPT ![v].pc = "waiting", ![v].leader = leader]

CheckCache(v) ==
    LET k == request[v].of
    IN  /\ At(v, "check")
        /\ \/ Fresh(k) /\ Answer(v, "served", Cached(k))
              /\ tally' = [tally EXCEPT ![k].client = @ + 1, ![k].hits = @ + 1]
           \/ ~Fresh(k) /\ Goto(v, "join") /\ Count(k, "client")
    /\ UNCHANGED <<elapsed, polling, entries, inflight, visitor>>

JoinFetch(v) ==
    LET k == request[v].of
    IN  /\ At(v, "join")
        /\ \/ inflight[k] # Nobody /\ WaitFor(v, inflight[k]) /\ Count(k, "collapsed")
           \/ inflight[k] = Nobody /\ Goto(v, "lead") /\ UNCHANGED tally
    /\ UNCHANGED <<elapsed, polling, entries, inflight, visitor>>

(* The cache is looked at again under the lock of inflight; the mutant     *)
(* trusts the first look.                                                  *)
StillFreshUnchecked(k) == FALSE
StillFresh(k) == Fresh(k)

Lead(v) ==
    LET k == request[v].of
    IN  /\ At(v, "lead")
        /\ \/ /\ inflight[k] # Nobody
              /\ WaitFor(v, inflight[k]) /\ Count(k, "collapsed") /\ UNCHANGED inflight
           \/ /\ inflight[k] = Nobody /\ StillFresh(k)
              /\ Answer(v, "served", Cached(k)) /\ Count(k, "hits") /\ UNCHANGED inflight
           \/ /\ inflight[k] = Nobody /\ ~StillFresh(k)
              /\ inflight' = [inflight EXCEPT ![k] = v]
              /\ Goto(v, "fetch") /\ Count(k, "origin")
    /\ UNCHANGED <<elapsed, polling, entries, visitor>>

Lifetime(answer) == IF answer.code >= 400 THEN ERROR_TTL ELSE POLLED_TTL

Fetch(v) ==
    /\ At(v, "fetch")
    /\ \E answer \in OriginAnswers(request[v].of) :
          /\ request' = [request EXCEPT ![v].pc = "forget", ![v].answer = answer]
          /\ entries' = [entries EXCEPT ![request[v].of] =
                           [code |-> answer.code, body |-> answer.body,
                            expires_at |-> elapsed + Lifetime(answer)]]
    /\ UNCHANGED <<elapsed, polling, inflight, tally, visitor>>

ForgetFetch(v) ==
    /\ At(v, "forget")
    /\ inflight' = [inflight EXCEPT ![request[v].of] = Nobody]
    /\ Goto(v, "publish")
    /\ UNCHANGED <<elapsed, polling, entries, tally, visitor>>

Publish(v) ==
    /\ At(v, "publish")
    /\ request' = [w \in Loaders |->
                     IF w = v THEN [request[v] EXCEPT !.pc = "served"]
                     ELSE IF At(w, "waiting") /\ request[w].leader = v
                     THEN [request[w] EXCEPT !.pc = "served", !.leader = Nobody,
                                             !.answer = request[v].answer]
                     ELSE request[w]]
    /\ UNCHANGED <<elapsed, polling, entries, inflight, tally, visitor>>

serve(v) ==
    \/ CheckCache(v) \/ JoinFetch(v) \/ Lead(v)
    \/ Fetch(v) \/ ForgetFetch(v) \/ Publish(v)

-----------------------------------------------------------------------------
(* visitor::run.                                                           *)

(* Polls are spaced out with distance from the front, within the floor and *)
(* the ceiling, at a rate of one visitor a unit of time.                   *)
interval_for(wait) ==
    IF wait < POLL_FLOOR THEN POLL_FLOOR
    ELSE IF wait > POLL_CEILING THEN POLL_CEILING ELSE wait

Sleep(state, closed) ==
    IF polling # "Backoff" THEN POLL_FLOOR
    ELSE IF closed THEN POLL_CEILING
    ELSE IF state.held = 0 THEN POLL_FLOOR ELSE interval_for(state.held - state.serving)

Ask(v, of) == request' = [request EXCEPT ![v].pc = "check", ![v].of = of]
Doze(v, state, closed) ==
    /\ request' = [request EXCEPT ![v].pc = "away", ![v].of = "status", ![v].answer = None]
    /\ visitor' = [visitor EXCEPT ![v] = [state EXCEPT !.wake = elapsed + Sleep(state, closed)]]

Poll(v) ==
    /\ At(v, "away") /\ visitor[v].wake <= elapsed /\ elapsed < Deadline
    /\ Ask(v, "status")
    /\ UNCHANGED <<elapsed, polling, entries, inflight, tally, visitor>>

(* A closed event has forgotten every position, but a registration row     *)
(* outlives it.                                                            *)
Forgets(closed) == closed /\ polling # "DerivePosition"

MayAsk(state, closed) ==
    /\ elapsed >= state.first_ask
    /\ polling = "DerivePosition" \/ ~closed
    /\ polling = "EveryTick" \/ state.held = 0

GotStatus(v) ==
    LET body == request[v].answer.body
        closed == body = Closed
        state == [visitor[v] EXCEPT
                    !.serving = IF closed THEN @ ELSE body,
                    !.held = IF Forgets(closed) THEN 0 ELSE @]
    IN  /\ At(v, "served") /\ request[v].of = "status"
        /\ \/ MayAsk(state, closed) /\ Ask(v, v) /\ visitor' = [visitor EXCEPT ![v] = state]
           \/ ~MayAsk(state, closed) /\ Doze(v, state, closed)
        /\ UNCHANGED <<elapsed, polling, entries, inflight, tally>>

GotPosition(v) ==
    LET answer == request[v].answer
        state == [visitor[v] EXCEPT
                    !.held = IF answer.code = 200 THEN answer.body ELSE @]
    IN  /\ At(v, "served") /\ request[v].of = v
        /\ Doze(v, state, FALSE)      \* only Backoff looks, and it asks when open
        /\ UNCHANGED <<elapsed, polling, entries, inflight, tally>>

TimePasses ==
    /\ elapsed < Deadline
    /\ elapsed' = elapsed + 1
    /\ UNCHANGED <<polling, entries, inflight, tally, visitor, request>>

run(v) == Poll(v) \/ GotStatus(v) \/ GotPosition(v)
HarnessNext == TimePasses \/ \E v \in Loaders : serve(v) \/ run(v)

-----------------------------------------------------------------------------
(* What the harness measures is what it says it measures: however many     *)
(* visitors poll, and in whatever order their locks interleave, a key is   *)
(* fetched at most once a lifetime, and every request is counted once, as  *)
(* a hit, a collapse, a fetch or one still undecided (edge.rs, "Request    *)
(* collapsing").                                                           *)
OriginFlat ==
    \A k \in CacheKeys :
        LET undecided == {v \in Loaders : request[v].of = k /\ request[v].pc \in {"join", "lead"}}
        IN  /\ tally[k].origin <= 1 + elapsed \div POLLED_TTL
            /\ tally[k].client = tally[k].hits + tally[k].collapsed + tally[k].origin
                                   + Cardinality(undecided)
=============================================================================
