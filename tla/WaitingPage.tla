----------------------------- MODULE WaitingPage ----------------------------
(***************************************************************************)
(* The scripted waiting page: one poll after another, each a chain of      *)
(* requests (status, join, queue_num, generate_token) whose answers come   *)
(* back later, while the tab is hidden, shown and reloaded and the room    *)
(* moves on.  Time is counted in polls.                                    *)
(***************************************************************************)
EXTENDS ReadApi

CONSTANTS
    Scripted,              \* the visitors whose browser runs the page
    Chains,                \* chains one page could have in flight
    MAX_JOIN_ATTEMPTS, MAX_MISSES, MAX_REJOIN_CYCLES,
    MaxDelay               \* the ingest's worst delay, in polls that miss

ASSUME PageAssumption ==
    /\ Scripted \subseteq Visitors /\ Chains # {}
    /\ {MAX_JOIN_ATTEMPTS, MAX_MISSES, MAX_REJOIN_CYCLES, MaxDelay} \subseteq Nat

VARIABLES
    page,              \* each page's script state
    chain,             \* its chains in flight
    mail,              \* joins in the queue, of each visitor
    waited,            \* misses since the visitor's last join was accepted
    sent, unanswered   \* history: joins accepted, and answers lost, this load

pageVars == <<page, chain, mail, waited, sent, unanswered>>

(* A page that was told its place is another's has ended too. *)
Page == [left : {"no", "admitted", "fail_open", "not_holder"}, stopped : BOOLEAN,
         hidden : BOOLEAN, timer : BOOLEAN, inFlight : BOOLEAN,
         catchUpWanted : BOOLEAN, admitting : BOOLEAN, joined : BOOLEAN,
         joinAttempts : 0 .. MAX_JOIN_ATTEMPTS, joinBlocked : Nat,
         misses : Nat, rejoinCycles : Nat, knownPosition : Nat \cup {NoPosition}]

(* The script has just been loaded: nothing remembered but JOINED_KEY. *)
Loaded(joined) ==
    [left |-> "no", stopped |-> FALSE, hidden |-> FALSE, timer |-> TRUE,
     inFlight |-> FALSE, catchUpWanted |-> FALSE, admitting |-> FALSE,
     joined |-> joined, joinAttempts |-> 0, joinBlocked |-> 0, misses |-> 0,
     rejoinCycles |-> 0, knownPosition |-> NoPosition]

Chain == [pc : {"idle", "status", "join", "joining", "asking", "redeem"},
          s : Status \cup {Empty}, answer : {"none", "accepted", "refused", "lost"}]
Idle == [pc |-> "idle", s |-> Empty, answer |-> "none"]

PageInit ==
    /\ page = [v \in Scripted |-> Loaded(FALSE)]
    /\ chain = [v \in Scripted |-> [k \in Chains |-> Idle]]
    /\ mail = [v \in Visitors |-> 0]
    /\ waited = [v \in Visitors |-> 0]
    /\ sent = [v \in Scripted |-> 0]
    /\ unanswered = [v \in Scripted |-> 0]

roomVars == <<tables, serving_counter, controlVars, arrivals>>

-----------------------------------------------------------------------------
(* schedule: nothing once stopped, no timer in a hidden tab, and a poll    *)
(* that was wanted meanwhile is made good.                                 *)
Scheduled(p) ==
    IF p.stopped THEN p
    ELSE [p EXCEPT !.timer = ~p.hidden, !.catchUpWanted = FALSE]

Stop(p) == [p EXCEPT !.stopped = TRUE, !.timer = FALSE]

(* The end of a chain: whatever it did to the page, then the settled flag. *)
Settle(v, k, p) ==
    /\ page' = [page EXCEPT ![v] = [p EXCEPT !.inFlight = FALSE]]
    /\ chain' = [chain EXCEPT ![v][k] = Idle]

GoOn(v, k, pc, s, p) ==
    /\ page' = [page EXCEPT ![v] = p]
    /\ chain' = [chain EXCEPT ![v][k] = [pc |-> pc, s |-> s, answer |-> "none"]]

(* tick's guard: one chain at a time.  The mutant has none. *)
NeverBusy(p) == p.inFlight /\ p.stopped

Busy(p) == p.inFlight

(* A poll is due.  At least the poll floor has passed since the last one,  *)
(* which is the unit the join backoff is counted in.                       *)
tick(v, p) ==
    \E k \in Chains :
        /\ chain[v][k].pc = "idle" /\ \A j \in Chains : j < k => chain[v][j].pc # "idle"
        /\ IF Busy(p)
           THEN page' = [page EXCEPT ![v] = [p EXCEPT !.catchUpWanted = TRUE]]
                /\ UNCHANGED chain
           ELSE /\ \E b \in 0 .. (IF p.joinBlocked = 0 THEN 0 ELSE p.joinBlocked - 1) :
                      page' = [page EXCEPT ![v] = [p EXCEPT !.inFlight = TRUE,
                                                            !.joinBlocked = b]]
                /\ chain' = [chain EXCEPT ![v][k].pc = "status"]

TimerFires(v) ==
    /\ page[v].timer /\ page[v].left = "no"
    /\ tick(v, [page[v] EXCEPT !.timer = FALSE])
    /\ UNCHANGED <<roomVars, cache, mail, waited, sent, unanswered, faults>>

(* The visibilitychange handler. *)
Hide(v) ==
    /\ page[v].left = "no" /\ ~page[v].hidden
    /\ page' = [page EXCEPT ![v].hidden = TRUE, ![v].timer = FALSE]
    /\ UNCHANGED <<roomVars, cache, chain, mail, waited, sent, unanswered, faults>>

(* A poll at once if the floor has passed since the last, else a timer. *)
Show(v) ==
    LET p == [page[v] EXCEPT !.hidden = FALSE, !.timer = FALSE]
    IN  /\ page[v].left = "no" /\ page[v].hidden
        /\ \/ page[v].stopped /\ page' = [page EXCEPT ![v] = p] /\ UNCHANGED chain
           \/ ~page[v].stopped /\ tick(v, p)
           \/ ~page[v].stopped /\ page' = [page EXCEPT ![v] = [p EXCEPT !.timer = TRUE]]
              /\ UNCHANGED chain
        /\ UNCHANGED <<roomVars, cache, mail, waited, sent, unanswered, faults>>

forgetPosition(p) == [p EXCEPT !.knownPosition = NoPosition]

(* The claim is dropped and the next poll takes a new one.  The mutant     *)
(* keeps counting where it was.                                            *)
forgetJoinOnly(p) ==
    [forgetPosition(p) EXCEPT !.joined = FALSE, !.joinAttempts = 0, !.joinBlocked = 0]

forgetJoin(p) ==
    [forgetPosition(p) EXCEPT !.misses = 0, !.joined = FALSE, !.joinAttempts = 0,
                              !.joinBlocked = 0]

-----------------------------------------------------------------------------
(* A chain's steps: each takes the answer to one request and makes the     *)
(* next, and what lies between two requests is not interrupted.            *)

(* A request that fails in flight, or answers what the step does not       *)
(* expect: tick's catch polls again.                                       *)
Caught(v, k, p) == Settle(v, k, Scheduled(p))

(* The position is kept, and one the cursor had passed when the status was *)
(* read is redeemed; redeem does nothing while one is under way.           *)
Placed(v, k, s, p) ==
    IF p.knownPosition >= s.serving_position THEN Settle(v, k, Scheduled(p))
    ELSE IF p.admitting THEN Settle(v, k, p)
    ELSE GoOn(v, k, "redeem", s, [p EXCEPT !.admitting = TRUE])

(* What follows join(): a countdown schedules, a running room asks, unless *)
(* the position is known, which is then not asked for again.               *)
AfterJoin(v, k, s, p) ==
    IF s.serving_state = "closed" THEN Settle(v, k, Scheduled(p))
    ELSE IF p.knownPosition # NoPosition THEN Placed(v, k, s, p)
    ELSE GoOn(v, k, "asking", s, p)

(* The mutant tries once more. *)
OneMoreTry(p) == p.joinAttempts > MAX_JOIN_ATTEMPTS

OutOfAttempts(p) == p.joinAttempts >= MAX_JOIN_ATTEMPTS

(* join: nothing to send, nothing more to try, or one more attempt. *)
join(v, k, s, p) ==
    IF p.joined \/ p.joinBlocked > 0 THEN AfterJoin(v, k, s, p)
    ELSE IF OutOfAttempts(p) THEN AfterJoin(v, k, s, Stop(p))
    ELSE GoOn(v, k, "join", s, [p EXCEPT !.joinAttempts = @ + 1])

StatusAnswered(v, k) ==
    /\ chain[v][k].pc = "status"
    /\ \/ /\ Fault("error") /\ Caught(v, k, page[v]) /\ UNCHANGED cache
       \/ /\ NoFault
          /\ \E c \in Containers :
              LET s == CacheGet(c)
                  p == page[v]
              IN  /\ load_counters(c)
                  /\ \/ s.serving_state = "closed" /\ s.phase = "pre_queue"
                        /\ join(v, k, s, forgetPosition(p))
                     \/ s.serving_state = "closed" /\ s.phase # "pre_queue"
                        /\ Settle(v, k, Scheduled(forgetPosition(p)))
                     \/ s.serving_state = "paused" /\ Settle(v, k, Scheduled(p))
                     \/ s.serving_state = "fail_open"
                        /\ Settle(v, k, [p EXCEPT !.left = "fail_open", !.timer = FALSE])
                     \/ s.serving_state = "running" /\ join(v, k, s, p)
    /\ UNCHANGED <<roomVars, mail, waited, sent, unanswered>>

Enqueue(v) ==
    /\ mail' = [mail EXCEPT ![v] = @ + 1]
    /\ waited' = [waited EXCEPT ![v] = 0]

(* The queue takes the message, refuses it, or takes it without the page   *)
(* hearing of it.                                                          *)
JoinPosted(v, k) ==
    LET Answer(a) == chain' = [chain EXCEPT ![v][k].pc = "joining", ![v][k].answer = a]
    IN  /\ chain[v][k].pc = "join"
        /\ \/ /\ NoFault /\ Enqueue(v) /\ Answer("accepted")
              /\ sent' = [sent EXCEPT ![v] = @ + 1] /\ UNCHANGED unanswered
           \/ /\ Fault("error") /\ Answer("refused")
              /\ UNCHANGED <<mail, waited, sent, unanswered>>
           \/ /\ Fault("ambiguous") /\ Enqueue(v) /\ Answer("lost")
              /\ sent' = [sent EXCEPT ![v] = @ + 1]
              /\ unanswered' = [unanswered EXCEPT ![v] = @ + 1]
        /\ UNCHANGED <<roomVars, cache, page>>

(* The backoff doubles with every attempt; the next poll is one floor away. *)
Doublings ==
    LET pow[n \in 0 .. MAX_JOIN_ATTEMPTS] == IF n = 0 THEN 1 ELSE 2 * pow[n - 1] IN pow

Backoff(n) == Doublings[n - 1] - 1

(* An acceptance resets the attempts, a refusal backs off, and a request   *)
(* that failed in flight does neither.                                     *)
JoinAnswered(v, k) ==
    /\ chain[v][k].pc = "joining" /\ NoFault
    /\ LET p == page[v]
           s == chain[v][k].s
           answer == chain[v][k].answer
       IN  \/ /\ answer = "accepted"
              /\ AfterJoin(v, k, s, [p EXCEPT !.joined = TRUE, !.joinAttempts = 0])
           \/ /\ answer = "refused"
              /\ AfterJoin(v, k, s, [p EXCEPT !.joinBlocked = Backoff(p.joinAttempts)])
           \/ answer = "lost" /\ Caught(v, k, p)
    /\ UNCHANGED <<roomVars, cache, mail, waited, sent, unanswered>>

(* No position: late, or, after MAX_MISSES in a row, gone.  The ingest is  *)
(* never later than MaxDelay misses.                                       *)
Missed(v, k) ==
    LET p == [page[v] EXCEPT !.misses = @ + 1]
        q == [p EXCEPT !.rejoinCycles = @ + 1]
    IN  /\ mail[v] > 0 => waited[v] < MaxDelay
        /\ waited' = [waited EXCEPT ![v] = IF mail[v] > 0 THEN @ + 1 ELSE 0]
        /\ \/ p.misses < MAX_MISSES /\ Settle(v, k, Scheduled(p))
           \/ /\ p.misses >= MAX_MISSES /\ q.rejoinCycles > MAX_REJOIN_CYCLES
              /\ Settle(v, k, Stop(q))
           \/ /\ p.misses >= MAX_MISSES /\ q.rejoinCycles <= MAX_REJOIN_CYCLES
              /\ Settle(v, k, Scheduled(forgetJoin(q)))

(* queue_num's answer; a lagging replica shows no row. *)
Asked(v, k) ==
    /\ chain[v][k].pc = "asking"
    /\ \/ /\ Fault("error") /\ Caught(v, k, page[v]) /\ UNCHANGED <<cache, waited>>
       \/ Fault("stale") /\ Missed(v, k) /\ UNCHANGED cache
       \/ /\ NoFault
          /\ \E c \in Containers :
              LET q == queue_num(v, CacheGet(c))
                  p == [page[v] EXCEPT !.misses = 0]
              IN  /\ load_counters(c)
                  /\ \/ q.status = 404 /\ Missed(v, k)
                     \/ q.status = 409 /\ Caught(v, k, p) /\ UNCHANGED waited
                     \/ /\ q.status = 200 /\ UNCHANGED waited
                        /\ Placed(v, k, chain[v][k].s, [p EXCEPT !.knownPosition = q.position])
    /\ UNCHANGED <<roomVars, mail, sent, unanswered>>

(* A redemption that fails in flight clears its flag before the poll is    *)
(* retried; the mutant lets tick's catch do everything.                    *)
RedeemFailedFlagged(p) == p

RedeemFailed(p) == [p EXCEPT !.admitting = FALSE]

RedeemAnswered(v, k) ==
    /\ chain[v][k].pc = "redeem"
    /\ \/ NoFault /\ Admits(v)
          /\ Settle(v, k, [page[v] EXCEPT !.left = "admitted", !.timer = FALSE])
       \/ NotHolder(v)
          /\ Settle(v, k, [page[v] EXCEPT !.left = "not_holder", !.timer = FALSE,
                                          !.admitting = FALSE])
       \/ NoFault /\ ~Admits(v)
          /\ Settle(v, k, Scheduled([page[v] EXCEPT !.admitting = FALSE]))
       \/ Fault("error") /\ Caught(v, k, RedeemFailed(page[v]))
    /\ UNCHANGED <<roomVars, cache, mail, waited, sent, unanswered>>

(* The page is loaded again: the script's state goes, what it stored stays. *)
Reload(v) ==
    /\ page[v].left = "no" /\ Fault("crash")
    /\ page' = [page EXCEPT ![v] = Loaded(page[v].joined)]
    /\ chain' = [chain EXCEPT ![v] = [k \in Chains |-> Idle]]
    /\ sent' = [sent EXCEPT ![v] = IF page[v].joined THEN 1 ELSE 0]
    /\ unanswered' = [unanswered EXCEPT ![v] = 0]
    /\ UNCHANGED <<roomVars, cache, mail, waited>>

ChainStep(v) ==
    \E k \in Chains :
        \/ StatusAnswered(v, k) \/ JoinPosted(v, k) \/ JoinAnswered(v, k)
        \/ Asked(v, k) \/ RedeemAnswered(v, k)

PageNext ==
    \E v \in Scripted :
        TimerFires(v) \/ Hide(v) \/ Show(v) \/ ChainStep(v) \/ Reload(v)
=============================================================================
