# TLA+ models of the virtual waiting room

This directory specifies the waiting room where it has to be right under concurrency
and failure: how a visitor gets a place in line, how the event opens, how the line is
let through, how a place is exchanged for a session, how the pages a visitor waits on
keep asking, and how operators change the room while all of this runs. The code is a
set of Lambdas over DynamoDB, SQS and CloudFront's key-value store, a script in the
visitor's browser, and an edge function. No two of them share memory; what can go
wrong goes wrong between two calls.

Paths below are relative to the repository root (`src/` here).

## 1. The system

| Component | State it keeps | Operations | Why it is hard | What makes it correct |
|---|---|---|---|---|
| Pre-queue index space, `wr-common/permutation/assembly.rs` | none (pure) | `from_counts`, `shard_count`, `assign` | prefix sums of ten counters; a row past its shard's count is still in bounds globally | counted rows map one to one onto `0..N-1`; the rest are live joins |
| Permutation, `wr-common/permutation/mod.rs` | none (pure) | `prp` | an unbounded cycle-walk | a bijection of the cohort; the walk ends |
| Tables, `wr-common/items.rs`, `infra/modules/core/main.tf` | Counters item, ten shard items, PreQueue, Positions | conditional puts, atomic adds, guarded updates | conditions are per item; BatchGet is not a snapshot | rows are never moved, counters never go back |
| `assign_position` + join queue | SQS messages and receive counts | a batch of joins: pre-queue path, live path, straggler fix-up | redelivery, ambiguous writes, crashes, racing the open | one owner per slot; a visitor's place is unique and permanent |
| `open_event` | none | read shards, write once, explain a refusal | double fire, registrations landing between reads and write | opens once, rewinds nothing |
| `controller` | cursor, baselines, no-show rate (in the item) | one pass per 10 s, six passes per execution | overlapping executions, holds that land mid-pass, feedback on its own measurements | cursor monotone, inside the line, stopped by a hold; the line drains |
| `generate_token` | admitted rows, arrivals shards | `admit`: read item, read rows, decide, claim, count, sign | several tabs; a count that must not refuse a visitor | nobody early, nobody moved, arrivals counted once |
| `admin` console | the Counters item, the edge's document, the one-shot schedule | phase, rate, message, pause, resume, fail-open, recover, start time, Open now, IP binding, rules | decisions on an eventually consistent load; two stores and no transaction; a debounce stamped after the effect | no write undoes another's; the stores do not contradict each other; active means opened |
| `admin` sign-in | pending logins, sessions, two cookies | login, callback, authed requests, logout | callbacks repeated, late or in another browser; rows that outlive their ttl | one login, one session, of its own browser and in time |
| `admin` readiness panel | none | eight bounded futures, nine verdicts | calls that fail or hang | no row reassures without having seen what it stands for |
| `read` | a one-slot cache per container | `/status`, `/queue_num` | a visitor's polls are answered by containers with different copies | never a place that is not theirs; the room's state reaches everybody |
| `waiting.js` | flags, a timer, session storage | poll, join, back off, re-join, redeem, stop | a hidden tab, overlapping chains, lost answers, a slow ingest | a visible page keeps polling, and ends |
| `nojs` | an identity cookie | enter (join), wait (admit) | a form posted twice, a send that fails | a cookie only for an accepted join; it is let in |
| Edge gate, `gate.js.tftpl`, `rules.rs` | the document (read only) | allow, bounce or bypass a request; normalize a path | page and gate disagreeing; stale sessions; a path's other spellings | no endless bouncing, no admitted visitor turned away, one spelling per path |
| Load harness | a modelled CDN | simulated visitors polling through it | many tasks under two locks | the load it reports is the load it made |
| OIDC client, templates, headers, assets, expression builders, infrastructure | — | — | — | not modelled; section 7 |

How they interact: the gateway puts a join on the queue; the event source mapping
hands batches to `assign_position`, which writes PreQueue rows before the open and
Positions rows after it. `open_event`, fired by a schedule (with up to ten retries)
and by the operator, folds the shard counts into offsets and flips the phase in one
update. The controller moves `serving_counter`; `generate_token` compares a visitor's
position with it, marks the row admitted and bumps an arrivals shard; the controller
measures no-shows from those shards. The console writes the same Counters item as all
of them, mirrors fail-open into the document the edge gate reads, and arms the
schedule. The pages learn the room's state from `read` (or, without the script, from
`nojs` itself), and go through the gate with the session `generate_token` gave them.

## 2. The modules

```
Cohort ── Tables ──┬── AssignPosition ─┐
                   ├── OpenEvent ──────┴─ Intake ── MCIntake ── MCIntakeScenes
                   ├── Line ── Serving ─┬─ Controller (+ Release) ─┐
                   │                    ├─ Admission ──────────────┴─ Outflow ── MCOutflow ── MCOutflowScenes
                   │                    └─ ReadApi ── WaitingPage ── NoScript ── WaitingRoom ── MCWaitingRoom
                   └── CohortProofs ─┬─ (+ Intake) IntakeProofs
                                     ├─ (+ Outflow) OutflowProofs
                                     └─ (+ WaitingRoom) WaitingRoomProofs
Arrival ─┬─ ControlItem, EdgeConfig ── Console ─┬─ Admin ── MCAdmin
         └─ SignIn ─────────────────────────────┘
Console ── (+ Admin) AdminProofs
Permutation, ReleaseLoop (over Release), Readiness, Paths, Gate, Harness ── MCParts
ReleaseLoop, Readiness, Gate, Harness ── PartsProofs
Permutation ── PermutationProofs ── (+ Paths) PathsProofs
```

`Intake` implements `Line` (`L == INSTANCE Line`, checked as `ImplementsLine`
and proved in `IntakeProofs`).
`Outflow` and `WaitingRoom` are built on `Line`: they are checked against everything
the intake side could do to the tables, without its queue and its invocations.

| Module | Code | Correspondence |
|---|---|---|
| `Cohort` | `assembly.rs` | `FromCounts`, `ShardCount`, `Assign`; `LiveJoin` is the verdict of the same name |
| `Tables` | `items.rs`, seed item in `main.tf` | one variable per attribute of the Counters item that matters here; a table is a function from request ids to rows |
| `AssignPosition` | `assign_position` | `pc[i]` is the next store call of invocation `i`; every action is one call of `process_batch` |
| `OpenEvent` | `open_event` | `ReadShardCount` once per shard, in any order; `WriteOpen` is the guarded update; `IsAlreadyOpen` the read that follows a refusal |
| `Intake` | all of the above with the operator's phases | properties and the inductive invariant `SlotsOwned` |
| `Line` | the writes of the two, as their readers see them | the abstract specification |
| `Serving` | the admission half of the item; `resolve`; rate, control, fail-open | an epoch is the number of intervals left to it |
| `Release`, `ReleaseLoop` | `compute_release`, `bounded_release` | arithmetic only; the rate is in tenths. The loop feeds it its own output |
| `Controller` | `run_pass`, `read_state`, `write_release`, the execution loop | `ReadItem`, `ReadArrivals`, `WriteRelease`; `gap` and `age` count intervals |
| `Admission` | `admit` | one action per store call, `apc[c]` the next one |
| `Outflow` | controller, admission, operator, clock over `Line` | `holdMoves` and `given` are history variables: cursor moves since the hold began, and the live position each visitor was given. In `Line` the live sequence repeats no position because rows stay; here a claim may replace a row, and `GivesOnce` says that this frees nothing |
| `Arrival` | `arrival.rs` | `ArrivalTime`, stamped once and before anything is awaited; the admin Lambda's faults |
| `ControlItem` | `dynamo.rs` | the guards and updates of every write of the item; `before` is the version an eventually consistent load may still see |
| `EdgeConfig` | `edge.rs`, `lib.rs` | the document with its ETag and its two size ceilings |
| `Console` | `lib.rs` (`apply_*`), `scheduler.rs`, `opener.rs` | `req[q].pc` is the next store call of request `q`; an `apply_` operator is one handler, its disjuncts the calls in order. `accepted`, `rewinds` and `crossed` are history: the debounced actions that landed, the lifecycle moves that set the stamp back, and the pairs of stores whose changes have met |
| `SignIn` | `sessions.rs`, the routes in `main.rs` | the callback call by call; `Reclaim` is DynamoDB's late deletion |
| `ReadApi` | `read` | `cache[c]` is the slot of one warm container; `queue_num` keeps the precedence of the two rows |
| `WaitingPage` | `waiting.js` | `page[v]` holds the script's variables under their names; `chain[v]` its requests in flight. One action per answer, with everything the script does before it next waits; a place that is another's stops it |
| `NoScript` | `nojs` | a form's post and its answer are two steps; `handle_wait` is one reload of the wait page, and `clear_identity_cookie` the one that finds the place another's and forgets the identity |
| `WaitingRoom` | the composition | a join that was accepted is `mail`; the ingest, the controller and the open are one step each, as their own modules justify |
| `Readiness` | `readiness.rs`, `probe.rs` | a call returns, fails or its future times out; `evaluate_*` are the verdicts |
| `Paths` | `rules.rs`, `normalize_path` | a path is a sequence of characters; each rewriting is a recursive function of what is still to be read. `Canonical` is the reference: the path read once, from the right |
| `Gate` | `gate.js.tftpl`, `credential.rs`, the page's `admit` | one visitor, their networks and their cookie, which may be another event's or fail to verify. A gate that throws lets the request by. The page's `redeem` mints before it looks at `r=ip`, with or without a known address; `refusals` is history, `skew` the edge's clock against the Lambda's |
| `Harness` | `edge.rs`, `visitor.rs` | every lock `Edge::serve` takes is an action |
| `Permutation` | `prp`, `enc` | one Feistel round per step |

Faults are the environment's: an error (the call did nothing), an ambiguous error
(the write landed, the caller saw a failure), a crash between two calls, a second
delivery, a stale read. `FaultKinds` says which a run allows, `MaxFaults` how many.

Definitions whose names end in a variant (`LoadCountersByPhase`,
`OpenGuardPhaseOnly`, `ClaimUnguarded`, `FailOpenItemFirst`, …) are plausible mistakes
kept next to the definition they would replace. No specification uses them; each
exists to show that a property notices the mistake.

## 3. What each run shows

| Run | Question | Bounds, and why they are enough |
|---|---|---|
| `intake`, scene "faults" | Has every slot one owner, is every position one visitor's, do the tables follow `Line`, through any two faults? | two shards (an inner and the last), two visitors, two invocations, two deliveries each, one opener: the smallest system in which two batches, an open and a redelivery overlap. One seed, whose permutation reverses the order, so that it is not the identity |
| `intake`, scene "phases" | Does the event open once, do live joiners stay behind, and is a visitor who joins once in the line once (`JoinedOnceCountedOnce`), when the operator walks the phase back? | two openers, two visitors with one join each, one invocation at a time; a clean error where only one opener is fired; idle, pre_queue, active and maintenance (post_event is treated like maintenance by every Lambda here) |
| `intake_liveness` | Does every visitor who can still join get a place? | one visitor with two joins and a malformed message, two invocations, one fault of any kind; one shard, since a single visitor's place does not depend on the others |
| `outflow_cursor` | Does a hold stop the line, is the cursor inside it and monotone, and does the line drain once admission stays open? | two executions of two passes, fail-open of one interval, maintenance, staleness after one, one fault; a line one position long behind the cohort, or a cohort of one: the cursor still takes two moves to its end, so that a release can be overtaken, repeated or overrun |
| `outflow_admission`, scene "tabs" | Is nobody admitted early, moved after admission, or counted twice? | one visitor with two tabs on one shard, two faults of any kind or a pause, a release of two in a line of two |
| `outflow_admission`, scene "visitors" | Is no position ever two visitors' admission, whichever rows a call read? | two visitors on two shards of one slot each, a line of two, one call at a time and one that fails or ends ambiguously, no pause; the proof lifts these. A cohort of none, one or two, rows the open raced, and joins on top of any of them |
| `admin` | Do overlapping console requests leave the item, the edge and the schedule consistent, and is whoever is served rightly signed in? | three requests of any of fifteen kinds, one fail-open window and one start time (a shorter window and a second time are runs of their own), a clock of three instants (one less than the debounce allows, and one it does), one fault of any kind, loads up to one version old; after the fault, a third request begins when the others are through. Two browsers, two logins and two callbacks. The two halves share only the clock and the fault, so each is explored by itself. Three properties hold under a condition on what has happened so far, which the text below explains |
| `visitors` | Does a page keep polling, join no more than it must, survive a fault, and end; is the form's visitor let in? | one page and one form in rooms of their own, two chains and two posts, two faults (a call that fails or ends ambiguously, a crash, a stale copy, a place that is another's), one warm container whose copy expires at any time, an ingest at most one missed poll late; three misses, two cycles and two attempts stand for the script's eight, three and eight: each is enough to pass its reset and to run out |
| `parts` | Six parts that share nothing with the line, each from all its inputs | cohorts to 6 (domains of 4 and 16) with every affine round table, which on one-bit halves are all tables; targets 1 and 3, lines to 5, arrivals to 4; a panel that passes and every deployment that differs in what one future reads; paths of five characters after the first slash; two networks, an address that may be missing, no cookie or one of another event or with a bad signature, reloads, a clock of five instants and a skew of one; two harness tasks over two lifetimes |

Five runs show a disagreement between the code and what the repository says of it:

* `intake_repeat_join`: a join repeated across the open takes a live position beside
  the cohort position. `generate_token` prefers the Positions row, so the visitor is
  moved back. REQUIREMENTS F2.5 rules this out; ARCHITECTURE section 4 concedes it
  only for a timed-out write.
* `outflow_overlap`: the guard on the cursor refuses interleaved passes, not a second
  whole pass in the same interval; ARCHITECTURE 6.1 says overlapping executions
  cannot double-advance.
* `admin_announcement`: setting a start time arms the schedule first and announces
  second, on the ground that a lone schedule is harmless. When a start is already
  announced, the failure in between leaves the old countdown over a schedule armed
  for the new time.

* `admin_debounce`: `set_phase` and `force_maintenance` stamp the item without looking
  at the stamp they replace (`admin/src/dynamo.rs:226`, `:470`). One that lands late sets
  it back, and two debounced actions land closer together than the window, which
  `admin/src/lib.rs:415` says cannot be. The comment at `dynamo.rs:732` calls the same
  regression by another write a debounce bypass.
* `admin_fail_open`: an operator who waits for every answer engages fail-open for a
  shorter time than the one in force; the request dies between the stores. The edge then
  enforces while the item is still stopped, which the note at `admin/src/lib.rs:964`
  takes writing the edge first to rule out.

The `admin` run checks what does hold of these:

* `DebounceUnlessRewound`: two debounced actions that landed with no rewind between them
  are a window apart. Every lifecycle move that sets the stamp back counts, and nothing
  is forgotten at one that does not. So the debounce is broken by a late lifecycle move
  and by nothing else.
* `StoppedOnlyWhileOpenUncrossed` and `AnnouncementHasSchedule`: an item that is stopped
  has an open edge, and an announced start has a schedule armed for some time, up to
  the first request that crosses another of the same fact. It crosses when it arrives while
  the other is under way, or is a fail-open that would end before the one in force. The
  code keeps no two requests from crossing: operators who engage and recover at the
  same moment may leave one half of each, and nothing is claimed from then on. Until
  then, a death, a lost answer or a retry between the two stores breaks neither.

Observed while modelling, not runs: `is_already_open` reads without consistency, so a
double fire can be reported as a wrong phase; the controller's comment, and its
measurement, take position 0 as never issued, though the cohort's positions start
there; and a session minted while the viewer's address header is missing has no network
tag, so the gate refuses it while IP binding is on.

Deadlock is checked in the outflow runs. The others stop where the system does: every
message is spent, every console request has been answered, every visitor has left, or
a part has answered its one question. Invocations, openers, executions, tabs and console
requests are interchangeable and are declared symmetric in the safety runs. A run with
two scenes chooses one at the start and keeps it; its properties hold in both.

## 4. Fairness

`MCIntake!WalkSpec`, where the operator does not call maintenance: a started invocation
makes its next call (Lambda runs it, or kills it, which is a fault); a visible message is delivered (the event source mapping keeps
polling); a visitor whose `/queue_num` answers 404 joins again (`waiting.js`, after
eight misses). Operators and openers are not fair: `EveryJoinPlaced` starts from an
event that is open. It covers visitors who can still join, with a message unsent or
with more deliveries left than faults to come.

`MCOutflow!CursorSpec`, where no visitor calls: a started pass ends, the schedule starts
executions again (every minute, and an execution that waits is due when its interval has passed), and time
goes by. `LineDrains` assumes only that the hold ends for good.

`WaitingRoom!LiveSpec`: a due timer fires and a request in flight is answered or fails
(the browser's event loop); a join in the queue is processed (event source mapping);
the controller releases somebody while there is somebody to release (`LineDrains`);
a cached copy expires (its ttl is a second); the wait page reloads itself (its refresh
header). Hiding and showing a tab, reloading, posting the form and everything an
operator does are not fair. `MCPageSettles` and `FormLetIn` assume a room that stays
running from some moment on, and a page that stays in sight.

`MCParts!Spec`: the loop of `prp` runs on. Nothing else there is claimed to end.

## 5. What is proved

TLAPS checks every proof with no assumption beyond the `ASSUME`s of the modules: finite
sets of visitors, messages, tabs and harness tasks, at least one chain per page,
positive sizes and limits, natural targets, `PrpAssumption` (the permutation is a
bijection of the cohort), which `PermutationProofs` proves of the cipher itself, and
that the characters of a path include the slash, the dot and a letter
(`CharactersAssumption`). For the admin Lambda they assume that a ruleset at its ceiling
leaves room for the document's other fields (`BytesAssumption`) and that an allowlist
names known addresses. The names of nothing (`NoLogin`, `NoCallback`, `NoEmail`,
`Nobody`) name nothing. Three theorems
(`CountedOnceCorrect`, `OneFaultForgivenCorrect`, `NeverTurnedAwayCorrect`) assume more; what, and why, is said with each.

The strengthened invariants of the line, the pages and the console were TLC invariants of
the runs they belong to, with their hypotheses as constants, before they were proved.

**Getting a place**

* `PermutationProofs!BijectiveCorrect` — the cycle-walk is injective on the cohort and
  stays in it, for cohorts of any size and any tables of naturals as round functions: a
  round may be as bad a function as it likes. The numbers of a Feistel half are
  the numbers below a power of two, on which the exclusive or is an involution that
  stays below it; so each round can be undone, `enc` is injective on the domain, and
  two walks that had ended in one place would have started in one place. What is
  recursive there is proved by induction with the property given as a set
  (`InductionOverSet`), since the provers cannot be given it as an operator.
* `CohortProofs!AssignInjective` — for any number of shards and any counts, counted
  rows resolve into `0..N-1` and no two rows to the same index. The lemmas before it
  establish, by an argument on the least index that fails, that the prefix sums are
  natural and increasing.
* `IntakeProofs` — `TypeCorrect`; then `SlotsOwnedCorrect`. `NoSharedPosition` is not
  inductive: it says nothing of slots claimed and not yet written, nor of an opener
  that holds counts the shards have since outgrown. `SlotsOwned` adds that every
  pending slot was issued by its counter, has no row and belongs to one record of one
  invocation, that the live sequence is used only after the open, that it starts
  behind the cohort, and that an opener writes only complete counts. The step lemmas
  take one action each; `NoSharedPositionCorrect`, `LiveBehindCohortCorrect`,
  `NeverRewindsCorrect` and `OpensOnceCorrect` follow, the first with
  `AssignInjective`.
* `IntakeProofs!IntakeImplementsLine` — every step of the intake side is a step of `Line`
  or leaves its variables alone. `Line` allows one claim of at most `BatchSize`
  positions at a time and one open with counts the shards have reached, so the mapping
  needs more than `SlotsOwned`: every group a claim is made for is drawn from the
  invocation's batch, which is no larger than `BatchSize` (`ClaimsInBatch`), and no
  opener holds a count its shard has not reached (`SeenIssued`). With it, what the
  `outflow` and `visitors` runs assume of the line is what the intake side does.
* `IntakeProofs!CountedOnceCorrect` — a visitor who joins once is in the line once. A
  cohort row and a live row of one visitor are written by different calls, so `OnceInv`
  follows the message: whose message may still be placed has no row in either table
  (`Unplaced`), two invocations never hold the same one (`BatchesApart`), an invocation
  fails nothing and writes nothing before its first put (`NothingYet`) and then writes
  each record once, to where it remembers it (`WritesOnce`, `RowsWritten`), and the
  fix-up places only whom the open did not count (`StragglersOnly`). It assumes that no two messages are one
  visitor's (`JoinsOnce`) and that calls fail cleanly (`CleanFaults`): with a repeated
  join, an ambiguous write, a crash or a second delivery the code does count a visitor
  twice, which `intake_repeat_join` shows for the first. The `intake` run checks it in the
  scene that satisfies both.

**Being let in**

* `OutflowProofs` — `OutflowTypeCorrect`, then `PassesBehindCorrect`. A cursor inside
  the line says nothing of the write a pass is about to make; `PassesBehind` adds
  that what a pass read, and what it will write, lie behind the item as it is now,
  and that once the cursor has moved during a hold every pass still in flight
  expects an older one. The invariant is proved together with `NoBankedCredit` and
  `HoldStopsTheLine`; `CursorMonotoneCorrect` follows.
* `SessionsReachedCorrect`, `AdmittedForGoodCorrect`, `ArrivalsAccountedCorrect`, in the
  same module: a call of `generate_token` decides on an item and a row it read some
  calls ago. `GrantsReached` says that a cursor it read, and a place it granted, are
  behind the cursor for good; `AdmittedPlaced` that an admitted visitor has a row, which
  no join replaces. The third counts the tabs between their claim and their arrival: a
  finite set that each step changes by at most one, together with the counters or with
  a fault. The second is an action property.
* `OnePlaceOneVisitorCorrect`, there too — a visitor has at most two places, the live
  position they were given and the one their pre-queue row stands for. Which of the two a
  call redeems depends on when it read, and a claim may write the second over the first, so
  the rows of a moment do not settle it: `PlacesOwned` says that whatever a row, a grant in
  flight or a session names is one of its visitor's two places, `GivenApart` that live
  positions are behind the cohort and one visitor's each, and `SlotsApart` that no two rows
  share a slot, which `AssignInjective` and the permutation turn into positions
  (`CohortPlaces`). Then the places of two visitors are disjoint (`PlacesDisjoint`), and no
  step takes one away: a registration, the open and a join only add (`PlacesLine`).

**The pages**

* `WaitingRoomProofs` — `RoomInv`: the types of pages, chains and caches; the published
  tables; that no cached copy says opened before the room is; and `PageInv`, one clause
  for each place a page can be in: who is asking, which flags are set then, and that
  otherwise its timer is. `PollingNeverDiesCorrect`, `JoinsAccountedCorrect` and
  `CookieMeansJoinedCorrect` follow. The inductive part of the first is that two chains
  of one page never have a request in flight.
* `OneFaultForgivenCorrect` adds `ForgivingInv`, which measures how close a page is to
  giving up against what has happened to it: a miss for every poll since its join was
  accepted, a cycle for every place lost to a fault or to the open, a failed attempt for
  every fault. It assumes `Lenient`: two attempts, two cycles, and more misses than the
  ingest's worst delay and one. The script's limits are 8, 3 and 8
  (`waiting.js:459-460`, `527`).

**The console**

* `AdminProofs` — the console's invariant `ConsoleInv`. `ActiveMeansOpened` and
  `DebounceUnlessRewound` are about the item; what a request carries from a load it made earlier is
  what could break them. `OpenedForGood` says that whoever is about to write a move to
  active saw an item that had been opened, and that the open is never undone;
  `StampCovers` that the item's stamp is no older than any action that landed since it was
  last set back;
  `ReadsCurrent` that a request whose ETag is still the document's holds the document
  as it is; `RulesBelowCeiling` that a ruleset on its way in was sized. A request's
  fifteen handlers are first shown to be of eight shapes (`RequestSound`); the
  invariant is then preserved by each shape.
* The item and the edge, and the item and the schedule, are written by two calls with
  no transaction. `EdgeOutlasts` says where the edge's deadline stands against the
  item's at every call of an engagement and of a recovery, and `ScheduleOutlasts` the
  same of the announced start and the schedule; neither is inductive unless one such
  request is under way at a time (`OneAtATime`). Nothing asks that of the operators:
  `crossed` records the first request that breaks it, and `DeadlinesOrdered` and
  `StartsOrdered` are the two invariants up to there. So
  `StoppedOnlyWhileOpenCorrect` and `AnnouncementHasScheduleCorrect` are about every
  behaviour, and claim nothing after a crossing: `admin_fail_open` and section 3 show
  what may happen then. The second says that something is armed, not that it is armed for
  the time announced, which `admin_announcement` refutes.
* In the same module, the sign-in invariant `SignInInv`: a browser's state cookie names a
  login begun there (`CookiesBind`); a callback past `take_pending` is of that browser,
  in time, and its row is gone (`CallsBound`), which is why a login is completed once; a
  session row, a cookie and a page served are each tied to the callback behind them
  (`SessionsOwned`, `CookiesOwned`, `ServedOwned`).
  Then the two halves together, with the clock and the faults they share:
  `ActiveMeansOpenedCorrect`, `PhaseWalkCorrect`, `DebounceUnlessRewoundCorrect`,
  `EdgeFieldsKeptCorrect`, `FailOpenFitsCorrect`, `CompletedOnceCorrect`,
  `ServedRightlyCorrect` and `AdminTypeCorrect`.

**The parts**

`PartsProofs` takes each from any inputs of its types, without `MCParts`' bounds.

* `OriginFlatCorrect` — the harness's counts. Fetches of a key are told apart by the
  answers they cached: when nobody is fetching it, there have been no more fetches than
  the cached answer's expiry, since each answer covers a lifetime at least and the next
  leader found it expired (`LifetimesCovered`). That is kept only because a leader holds
  its key until it has cached the answer (`LeadersHold`).
* `CorrectionSoundCorrect` — `compute_release`, as arithmetic over all naturals: the
  quotients that round are bounded and monotone (`DivBounds`, `DivMonotone`), and what
  is asked for grows with the rate (`ReleaseMonotone`).
* `BounceBoundedCorrect` — of any three refusals of one visitor for her network, the last is
  a window after the first. The page bounds its own going back, not the refusals, and mints
  even on the visit it stops; so `BounceInv` relates the two: a refusal is owed an answer
  (`Owed`) until the page goes back or stops, when it last went back is no
  earlier than the refusal it answered, and a window after the refusal before that. It holds for any settings,
  clocks, networks and cookies to begin with.
* `NeverTurnedAwayCorrect` — a session that verifies is refused only when it has expired by
  the edge's clock, or for a network that is not the one known to have redeemed it: every
  session carries that network, bound or not, whenever it was known (`SessionInv`). The
  cookie the visitor comes with is assumed to be none, or one with a date and with the tag
  of the network it was minted on. It is an action property.
* `PanelHonestCorrect` — at any quantities, a row that passes or fails had the answers of
  every call it is judged from, in time, and the verdict is what the row means. The first
  half is `RowsSeen`.

`PathsProofs!PathsCanonicalCorrect` — a path normalizes to its one spelling, for texts of
any length over any characters. Passes are repeated until none changes the text, so
the argument has two halves. What a pass may not change: `Reading`, the segments
the text has when it is read from the right, stays what it was when a doubled slash or a
dot segment goes (`CollapseReadsSame`, `DropReadsSame`). What the end must look like: a
pass shortens the text unless it leaves it alone (`CollapseShrinks`, `DropShrinks`), so
the repetition ends, and a text no pass changes has neither of the two (`StablePlain`)
and is its own reading but for a last slash (`PlainCanonical`). `RecursionSolved` gives
the existence of functions recursive in a text, `InductionOverTexts` the induction over
them.

Unless a theorem says otherwise, these hold for any number of visitors, messages,
invocations, openers, shards, executions, passes, tabs, pages, chains, posts, warm
containers, console requests, browsers, logins, callbacks, harness tasks and faults,
and for any debounce window, deadlines and limits of the script.

Type correctness of the first two sides and the console, and the strengthenings of the
outflow side (`PassesBehind`, `PlacesApart`), are proved and so are not runs as well.

Every safety invariant and action property the passing runs check is stated by one of
these theorems (`JoinedOnceCountedOnce` by `CountedOnceCorrect`, whose assumptions are its
scene). Only model-checked is liveness (`EveryJoinPlaced`, `LineDrains`,
`MCPageSettles`, `FormLetIn`, `WalkEnds`), which is out of the prover's reach.

## 6. Abstractions

* Time is counted in controller intervals, in polls (`WaitingPage`), in lifetimes of a
  cached answer (`Harness`), and in instants the debounce tells apart (`Arrival`).
* The no-show rate is in tenths and the weights 3/10 and 7/10 round down; the code's
  floor on very small rates has no counterpart at that grain.
* A batch is a set; records take their slots in an arbitrary order.
* In `Intake`, `Serving` and `WaitingRoom` an operator's write takes effect as one step
  from the current value; what leads up to it, and the debounce, are `Console`'s. That a
  fail-open window ends is an operator's step in `WaitingRoom`.
* A possession secret that does not match is, in `Admission`, a refusal that may happen to
  any call. In `WaitingRoom` it is the fault `not_holder`: the page with the script stops,
  and the form's visitor loses the identity and may post again. That a reader reloads a page
  that stopped this way is left out.
* The sums of the shards' counts are over the naturals in `Cohort`; that they may not fit
  in 64 bits (`CohortError::Overflow`) is `OpenEvent`'s `CohortOverflows`, which refuses the
  open, with `U64_MAX` a constant. The sums grow, so one of them fails to fit exactly when
  the last does.
* Positions rows do not expire: their `ttl` reclaims storage long after the event.
* An eventually consistent load returns the item or the version before it.
* The identity provider names any address; a code exchange never repeats a code.
* The waiting page leaves out its countdown, its estimates, the spreading of the first
  question over the audience, an identity imposed by the link, and how a page that met
  a WAF challenge renews its token: it starts again, which is a reload.
* The harness's status polls do not fail, its jitter and arrival curve are left out.
* Wording, formats, encodings and rendered pages are left out, except where a part is
  about them: path normalization and what a session credential carries.

## 7. Not modelled, and why

* OIDC discovery and token verification (`admin/src/oidc.rs`) are calls to a provider
  whose answers are its library's; `SignIn` takes the outcome.
* Templates, security headers, static assets, request and response shells, tracing and
  configuration parsing keep no state and have no order to get wrong.
* `expr.rs`, the builders of DynamoDB expressions, formats strings; what the expressions
  say is in the guards of the modules above. The HMAC and AES code is taken as ideal.
* Terraform is declarations; the settings that matter (retries, redrive, batch size,
  schedules, seed items) are constants or actions of the modules that depend on them.
* The form's time-zone arithmetic in `parse_start_time` is an accepted number.

Of the Rust under `crates/`, more than half is tests and documentation comments, and
most of the rest of what is not mapped is wiring of the kinds above.
