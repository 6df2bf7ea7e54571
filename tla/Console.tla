------------------------------ MODULE Console -------------------------------
(***************************************************************************)
(* The operator's console: the admin Lambda's actions, each a request that *)
(* is stamped on arrival, loads the item, decides, and then calls one      *)
(* store after another, with other requests, the schedule and the clock    *)
(* in between.  Three stores describe the event: its item, the edge's      *)
(* document and the one-time open schedule.                                *)
(***************************************************************************)
EXTENDS ControlItem, EdgeConfig

CONSTANTS
    Requests,          \* the requests that may be made
    Actions            \* what an operator may ask for

VARIABLES
    armed,             \* when the schedule fires; NoStart: disabled
    req,               \* each request's progress
    accepted,          \* history: the debounced requests that landed, with
                       \* their arrivals and the rewinds before them
    rewinds,           \* history: lifecycle moves that set the stamp back
    crossed            \* history: the facts of two stores whose changes met

stores == <<item, before, edge, tag, armed>>
history == <<accepted, rewinds, crossed>>
consoleVars == <<stores, req, history>>

Spent == -1            \* the one-time schedule has fired

LifecycleKinds == {"set_phase", "force_maintenance"}
DebouncedKinds == {"set_rate", "set_message", "pause", "resume",
                   "set_start_time", "clear_start_time"}
EdgeKinds == {"fail_open", "recover", "set_ip_binding", "set_rules"}
Kinds == LifecycleKinds \cup DebouncedKinds \cup EdgeKinds \cup {"open_now"}

(* What is asked: a kind, the phase asked for, and a number: a rate, a     *)
(* fail-open window, a binding (1 for on), a ruleset or a start time.      *)
Action == [kind : Kinds, to : Phases, n : Nat]

ASSUME ActionsAssumption == Actions \subseteq Action

Steps == {"idle", "load", "item", "fallback", "probe", "describe", "get", "put",
          "schedule", "open", "done"}

NoAction == [kind |-> "set_message", to |-> "idle", n |-> 0]
NoState == [phase |-> "idle", opened |-> FALSE, stored_control |-> "open",
            target_rate |-> 0, fail_open_until |-> 0, starts_at |-> NoStart,
            last_action_ms |-> NoStamp]
NoConfig == [fail_open_until |-> 0, rules |-> SeedBytes, bind_ip |-> FALSE]

(* The loaded values a write is guarded on. *)
Expected == [phase : Phases, target_rate : Nat]
NothingSeen == [phase |-> "idle", target_rate |-> 0]

Request == [pc : Steps, action : Action, at : Nat, saw : Expected,
            etag : Nat, cfg : GateConfig, tries : 0 .. 1]

Idle == [pc |-> "idle", action |-> NoAction, at |-> 0, saw |-> NothingSeen,
         etag |-> 0, cfg |-> NoConfig, tries |-> 0]

ConsoleInit ==
    /\ item = NoState /\ before = NoState
    /\ EdgeInit
    /\ armed = NoStart
    /\ req = [q \in Requests |-> Idle]
    /\ accepted = {} /\ rewinds = 0 /\ crossed = {}

Is(q, kind) == req[q].action.kind = kind
InFlight(q) == req[q].pc \notin {"idle", "done"}
arrival(q) == req[q].at
asked(q) == req[q].action.n

(* The request's next step; when it has answered, what it held is gone. *)
Goto(q, step) ==
    req' = [req EXCEPT ![q] = IF step = "done" THEN [Idle EXCEPT !.pc = "done"]
                              ELSE [@ EXCEPT !.pc = step]]

-----------------------------------------------------------------------------
(* The calls a request makes, one step each. *)

(* The two facts that two stores describe, and the actions that change     *)
(* them.                                                                   *)
DeadlineKinds == {"fail_open", "recover"}
StartKinds == {"set_start_time", "clear_start_time"}
TwoStores == [deadline |-> DeadlineKinds, start |-> StartKinds]

(* A request crosses another when it changes the same fact and arrives     *)
(* before that one is through, or is a fail-open that would end before the *)
(* one in force.  Nothing in the code keeps requests from crossing.        *)
Crosses(a, fact) ==
    /\ a.kind \in TwoStores[fact]
    /\ \/ \E o \in Requests : InFlight(o) /\ req[o].action.kind \in TwoStores[fact]
       \/ a.kind = "fail_open" /\ ArrivalTime + a.n < item.fail_open_until

(* arrival_layer stamps the request before anything can be awaited. *)
Arrive(q) ==
    /\ req[q].pc = "idle"
    /\ \E a \in Actions :
        /\ req' = [req EXCEPT ![q] = [Idle EXCEPT !.pc = "load", !.action = a,
                                                  !.at = ArrivalTime]]
        /\ crossed' = crossed \cup {fact \in DOMAIN TwoStores : Crosses(a, fact)}
    /\ UNCHANGED <<stores, faults, accepted, rewinds>>

(* What a lifecycle move and a rate change are guarded on later. *)
Expectation(q, state) ==
    [phase |-> IF req[q].action.kind \in LifecycleKinds THEN state.phase ELSE "idle",
     target_rate |-> IF Is(q, "set_rate") THEN state.target_rate ELSE 0]

(* What an eventually consistent load may find, and what of it comes late  *)
(* enough after the last action's stamp.                                   *)
Loadable == {item, before}
Unhurried(q) == {state \in Loadable : ~TooFast(state, arrival(q))}

(* The load every action begins with; it goes on if what it saw allows. *)
Load(q, allowing, next) ==
    /\ req[q].pc = "load"
    /\ \E state \in Loadable :
        /\ LoadReturns(state)
        /\ IF state \in allowing
           THEN req' = [req EXCEPT ![q].pc = next,
                               ![q].saw = Expectation(q, state)]
           ELSE Goto(q, "done")
    /\ UNCHANGED <<stores, history>>

(* A guarded write of the item; a Conflict usually ends the request.  The  *)
(* history counts a lifecycle move that stamps the item with an arrival    *)
(* older than the stamp it finds.                                          *)
Rewinds(q, update) ==
    /\ req[q].action.kind \in LifecycleKinds
    /\ update.item.last_action_ms < item.last_action_ms

Accepts(q, update) == update.landed /\ req[q].action.kind \in DebouncedKinds

WriteItem(q, at, update, landed, conflict) ==
    /\ req[q].pc = at
    /\ item' = update.item
    /\ before' = IF update.landed THEN item ELSE before
    /\ Goto(q, IF update.landed THEN landed ELSE conflict)
    /\ accepted' = accepted \cup (IF Accepts(q, update)
                                   THEN {<<q, arrival(q), rewinds>>} ELSE {})
    /\ rewinds' = rewinds + (IF Rewinds(q, update) THEN 1 ELSE 0)
    /\ UNCHANGED <<edge, tag, armed, faults, crossed>>

(* read_config asks for the ETag first and for the value second; the       *)
(* mutant asks in the other order.                                         *)
ReadConfigSwapped(q) ==
    \/ /\ req[q].pc = "describe"
       /\ req' = [req EXCEPT ![q].pc = "get", ![q].cfg = edge]
    \/ /\ req[q].pc = "get"
       /\ req' = [req EXCEPT ![q].pc = "put", ![q].etag = tag]

ReadConfig(q) ==
    \/ /\ req[q].pc = "describe"
       /\ req' = [req EXCEPT ![q].pc = "get", ![q].etag = tag]
    \/ /\ req[q].pc = "get"
       /\ req' = [req EXCEPT ![q].pc = "put", ![q].cfg = edge]

(* One retry. *)
LastTry(q) == req[q].tries = 1

(* write_config: refused for size, refused by IfMatch, failed, landed, or  *)
(* landed and reported failed.  A first failure is retried on a new read.  *)
WriteConfig(q, cfg, next) ==
    LET fits == Encodes(cfg) /\ IfMatch(req[q].etag)
        failed == IF LastTry(q) THEN Goto(q, "done")
                  ELSE req' = [req EXCEPT ![q].pc = "describe", ![q].tries = @ + 1,
                                          ![q].etag = 0, ![q].cfg = NoConfig]
    IN  /\ req[q].pc = "put"
        /\ \/ fits /\ NoFault /\ Put(cfg) /\ Goto(q, next)
           \/ fits /\ Fault("put_lost") /\ Put(cfg) /\ failed
           \/ ~fits /\ NoFault /\ failed /\ UNCHANGED <<edge, tag>>
           \/ fits /\ Fault("put_error") /\ failed /\ UNCHANGED <<edge, tag>>

edge_read_modify_write(q, mutated, next) ==
    /\ \/ ReadConfig(q) /\ UNCHANGED <<edge, tag, faults>>
       \/ WriteConfig(q, mutated, next)
    /\ UNCHANGED <<item, before, armed, history>>

(* The schedule is read and rewritten whole; only its state and time vary. *)
set_start_time(q, at, next) ==
    /\ req[q].pc = "schedule"
    /\ armed' = at
    /\ Goto(q, next)
    /\ UNCHANGED <<item, before, edge, tag, faults, history>>

(* Any call fails, or the invocation dies: nothing further happens. *)
Dies(q) ==
    /\ InFlight(q) /\ req[q].pc # "load"
    /\ Fault("dies")
    /\ Goto(q, "done")
    /\ UNCHANGED <<stores, history>>

-----------------------------------------------------------------------------
(* The actions, one operator per apply_ function: what it requires of the  *)
(* item it loaded, and which stores it calls in which order.               *)

(* Active means opened, and only the open makes that true; the mutant      *)
(* leaves that check out.                                                  *)
PhaseMoveUnopened(state, to) ==
    to # "maintenance" /\ transition_allowed(state.phase, to)

PhaseMove(state, to) ==
    /\ to # "maintenance" /\ transition_allowed(state.phase, to)
    /\ to = "active" => state.opened

apply_phase(q) ==
    LET to == req[q].action.to
    IN  /\ Is(q, "set_phase")
        /\ \/ Load(q, {state \in Loadable : PhaseMove(state, to)}, "item")
           \/ NoFault /\ WriteItem(q, "item", set_phase(req[q].saw.phase, to, arrival(q)),
                                   "done", "done")

apply_force_maintenance(q) ==
    /\ Is(q, "force_maintenance")
    /\ \/ Load(q, Loadable, "item")
       \/ NoFault /\ WriteItem(q, "item", force_maintenance(req[q].saw.phase, arrival(q)),
                               "done", "done")

(* The shape of a debounced action with one store call. *)
Debounced(q, allowing, update) ==
    \/ Load(q, allowing \cap Unhurried(q), "item")
    \/ NoFault /\ WriteItem(q, "item", update, "done", "done")

apply_rate(q) ==
    /\ Is(q, "set_rate")
    /\ Debounced(q, {state \in Loadable : asked(q) > 0},
                 set_rate(req[q].saw.target_rate, asked(q), arrival(q)))

apply_message(q) ==
    Is(q, "set_message") /\ Debounced(q, Loadable, set_message(arrival(q)))

apply_control(q, from, to) ==
    Debounced(q, {state \in Loadable : state.stored_control = from},
              set_stored_control(from, to, arrival(q)))

apply_pause(q) == Is(q, "pause") /\ apply_control(q, "open", "paused")

apply_resume(q) == Is(q, "resume") /\ apply_control(q, "paused", "open")

(* The item's deadline, with the stamp or, after a Conflict, without. *)
WriteFailOpen(q, until, next) ==
    /\ NoFault
    /\ \/ WriteItem(q, "item", set_fail_open_until(until, arrival(q)), next, "fallback")
       \/ WriteItem(q, "fallback", set_fail_open_until_fallback(until), next, "done")

(* The edge first, then the item; the mutant has the recovery's order. *)
FailOpenItemFirst(q) ==
    LET until == arrival(q) + asked(q)
    IN  \/ Load(q, Loadable, "item")
        \/ WriteFailOpen(q, until, "describe")
        \/ edge_read_modify_write(q, [req[q].cfg EXCEPT !.fail_open_until = until], "done")

FailOpen(q) ==
    LET until == arrival(q) + asked(q)
    IN  \/ Load(q, Loadable, "describe")
        \/ edge_read_modify_write(q, [req[q].cfg EXCEPT !.fail_open_until = until], "item")
        \/ WriteFailOpen(q, until, "done")

apply_fail_open(q) == Is(q, "fail_open") /\ FailOpen(q)

(* The item first, then the edge. *)
apply_recover(q) ==
    /\ Is(q, "recover")
    /\ \/ Load(q, Loadable, "item")
       \/ WriteFailOpen(q, 0, "describe")
       \/ edge_read_modify_write(q, [req[q].cfg EXCEPT !.fail_open_until = 0], "done")

(* Setting arms the schedule before it announces; clearing takes the       *)
(* announcement down before it disarms.  The mutant disarms first.         *)
ClearDisarmFirst(q) ==
    \/ Load(q, Unhurried(q), "schedule")
    \/ set_start_time(q, NoStart, "item")
    \/ NoFault /\ WriteItem(q, "item", set_starts_at(NoStart, arrival(q)), "done", "done")

ClearStartTime(q) ==
    \/ Load(q, Unhurried(q), "item")
    \/ NoFault /\ WriteItem(q, "item", set_starts_at(NoStart, arrival(q)),
                            "schedule", "done")
    \/ set_start_time(q, NoStart, "done")

SetStartTime(q) ==
    \/ Load(q, {state \in Unhurried(q) : asked(q) > arrival(q)}, "schedule")
    \/ set_start_time(q, asked(q), "item")
    \/ NoFault /\ WriteItem(q, "item", set_starts_at(asked(q), arrival(q)), "done", "done")

apply_start_time(q) ==
    \/ Is(q, "set_start_time") /\ SetStartTime(q)
    \/ Is(q, "clear_start_time") /\ ClearStartTime(q)

(* Invoking the open; only the request that opened the event stamps it. *)
open_now(q) ==
    /\ req[q].pc = "open" /\ NoFault
    /\ item' = open_event.item
    /\ before' = IF open_event.landed THEN item ELSE before
    /\ Goto(q, IF open_event.landed THEN "item" ELSE "done")
    /\ UNCHANGED <<edge, tag, armed, history>>

apply_open_now(q) ==
    /\ Is(q, "open_now")
    /\ \/ Load(q, {state \in Unhurried(q) : state.phase = "pre_queue"}, "open")
       \/ open_now(q)
       \/ NoFault /\ WriteItem(q, "item", stamp_action(arrival(q)), "done", "done")

apply_ip_binding(q) ==
    LET bound == [req[q].cfg EXCEPT !.bind_ip = (asked(q) = 1)]
    IN  /\ Is(q, "set_ip_binding")
        /\ \/ Load(q, Loadable, "describe")
           \/ edge_read_modify_write(q, bound, "item")
           \/ NoFault /\ WriteItem(q, "item", stamp_action(arrival(q)), "done", "done")

(* The ruleset is sized against a read of its own before it is written. *)
ProbeRules(q) ==
    /\ req[q].pc = "probe" /\ NoFault
    /\ Goto(q, IF RulesFit([edge EXCEPT !.rules = asked(q)]) THEN "describe" ELSE "done")
    /\ UNCHANGED <<stores, history>>

apply_set_rules(q) ==
    /\ Is(q, "set_rules")
    /\ \/ Load(q, Loadable, "probe")
       \/ ProbeRules(q)
       \/ edge_read_modify_write(q, [req[q].cfg EXCEPT !.rules = asked(q)], "item")
       \/ NoFault /\ WriteItem(q, "item", set_rules_audit(arrival(q)), "done", "done")

(* The routes of the console's controls, and of its overrides. *)
ControlHandlers(q) ==
    \/ apply_phase(q) \/ apply_rate(q) \/ apply_message(q)
    \/ apply_open_now(q) \/ apply_start_time(q)

OverrideHandlers(q) ==
    \/ apply_force_maintenance(q) \/ apply_pause(q) \/ apply_resume(q)
    \/ apply_fail_open(q) \/ apply_recover(q)
    \/ apply_ip_binding(q) \/ apply_set_rules(q)

RequestStep(q) == Arrive(q) \/ Dies(q) \/ ControlHandlers(q) \/ OverrideHandlers(q)

(* The schedule goes off and invokes the same open. *)
ScheduleFires ==
    /\ armed > 0 /\ armed <= clock
    /\ armed' = Spent
    /\ item' = open_event.item
    /\ before' = IF open_event.landed THEN item ELSE before
    /\ UNCHANGED <<edge, tag, faults, req, history>>

ConsoleNext ==
    \/ \E q \in Requests : RequestStep(q)
    \/ ScheduleFires

-----------------------------------------------------------------------------
(* Type correctness of the three stores and of the requests. *)
ConsoleTypeOK ==
    /\ item \in ControlState /\ before \in ControlState
    /\ edge \in GateConfig /\ tag \in Nat
    /\ armed \in Nat \cup {Spent}
    /\ req \in [Requests -> Request]
    /\ accepted \subseteq Requests \X Nat \X Nat
    /\ rewinds \in Nat /\ crossed \subseteq DOMAIN TwoStores

(* apply_phase: Active means opened, whatever a stale load, a crossed move *)
(* or a recovery out of maintenance saw.                                   *)
ActiveMeansOpened == item.phase = "active" => item.opened

(* transition_allowed is judged on the item as it was loaded; the phase    *)
(* still never moves along a step the lifecycle does not have.             *)
PhaseWalk ==
    [][transition_allowed(item.phase, item'.phase)]_consoleVars

Apart(x, y) == x[2] - y[2] \notin 1 - DEBOUNCE .. DEBOUNCE - 1

(* DEBOUNCE, as its doc has it: of two debounced actions that arrived      *)
(* closer together than the window, one is refused.                        *)
Debounce == \A x, y \in accepted : x # y => Apart(x, y)

(* STAMP_PREDICATE: what the guards do keep, however the loads, the writes *)
(* and the stamps taken after an effect cross.  Two debounced actions that *)
(* landed closer together than the window had a lifecycle move between     *)
(* them that set the stamp back, set_phase and force_maintenance being     *)
(* written without the predicate.                                          *)
DebounceUnlessRewound ==
    \A x, y \in accepted : x # y /\ x[3] = y[3] => Apart(x, y)

(* edge_read_modify_write: no write of the document undoes another's.      *)
(* Each field changes only by a request that was asked to change it.       *)
Writes(q, kinds) == req[q].pc = "put" /\ req[q].action.kind \in kinds

EdgeFieldsKept ==
    [][ /\ edge'.fail_open_until # edge.fail_open_until =>
              \E q \in Requests : Writes(q, {"fail_open", "recover"}) /\ ~Writes(q, {"fail_open", "recover"})'
        /\ edge'.rules # edge.rules =>
              \E q \in Requests : Writes(q, {"set_rules"}) /\ ~Writes(q, {"set_rules"})'
        /\ edge'.bind_ip # edge.bind_ip =>
              \E q \in Requests : Writes(q, {"set_ip_binding"}) /\ ~Writes(q, {"set_ip_binding"})'
      ]_consoleVars

(* RULES_WRITE_CEILING: once a ruleset is in, engaging or clearing         *)
(* fail-open is never refused for the document's size.                     *)
FailOpenFits == Encodes([edge EXCEPT !.fail_open_until = 1])

(* apply_fail_open's doc: while the item says fail-open, which stops       *)
(* generate_token, the edge lets everybody pass, whatever dies between the *)
(* two writes.                                                             *)
StoppedOnlyWhileOpen ==
    item.fail_open_until > clock => edge.fail_open_until > clock

(* The same doc, of what a crash between the two writes leaves: once no    *)
(* request is under way, nobody is stopped at an edge that enforces.       *)
Quiet == \A q \in Requests : ~InFlight(q)

LeftOpen == Quiet => StoppedOnlyWhileOpen

(* What the order of the two writes does keep: the same, as long as no     *)
(* engagement or recovery has crossed another.                             *)
StoppedOnlyWhileOpenUncrossed == "deadline" \notin crossed => StoppedOnlyWhileOpen

(* apply_start_time: a countdown is shown only over a schedule that is     *)
(* armed for some time or has fired, whatever dies between the two writes, *)
(* as long as no change of the start has crossed another.                  *)
ScheduleStands == item.starts_at # NoStart => armed # NoStart

AnnouncementHasSchedule == "start" \notin crossed => ScheduleStands

(* The same doc: the announcement never outlives the schedule it was made  *)
(* for.                                                                    *)
AnnouncedAsArmed == item.starts_at # NoStart => armed \in {item.starts_at, Spent}
=============================================================================
