----------------------------- MODULE AdminProofs ----------------------------
(***************************************************************************)
(* What is proved of the admin Lambda, for any number of requests,         *)
(* browsers, logins, callbacks and faults, and any clock: the invariants   *)
(* of its two halves, which share the clock and the faults, together.      *)
(***************************************************************************)
EXTENDS Admin, TLAPS

-----------------------------------------------------------------------------
(* The console: its inductive invariant, in named parts.                   *)

(* The open is never undone, and who was allowed to move to active saw it. *)
OpenedForGood ==
    /\ before.opened => item.opened
    /\ \A q \in Requests : req[q].pc = "item" /\ Is(q, "set_phase") =>
          /\ transition_allowed(req[q].saw.phase, req[q].action.to)
          /\ req[q].action.to # "maintenance"
          /\ req[q].action.to = "active" => item.opened

(* The item's stamp is no older than any debounced action that landed      *)
(* since a lifecycle move last set it back.                                *)
StampCovers ==
    \A x \in accepted :
        x[3] <= rewinds /\ (x[3] = rewinds => x[2] <= item.last_action_ms)

(* A request about to write the document holds it as it is, unless its tag *)
(* has fallen behind.                                                      *)
ReadsCurrent ==
    \A q \in Requests :
        /\ req[q].etag <= tag
        /\ req[q].pc = "put" /\ req[q].etag = tag => req[q].cfg = edge

(* Rulesets are let in only up to the ceiling, whatever else the document  *)
(* held when they were sized.                                              *)
RulesBelowCeiling ==
    /\ edge.rules <= RULES_WRITE_CEILING
    /\ \A q \in Requests :
          req[q].pc \in {"describe", "get", "put"} /\ Is(q, "set_rules") =>
              asked(q) <= RULES_WRITE_CEILING

ConsoleInv ==
    /\ ConsoleTypeOK /\ ActiveMeansOpened /\ DebounceUnlessRewound
    /\ OpenedForGood /\ StampCovers /\ ReadsCurrent /\ RulesBelowCeiling

-----------------------------------------------------------------------------
(* What a request does, in four forms: it loads, it writes the item, it    *)
(* works on the document, or it makes one of three calls of its own.       *)

(* A load that leads on to a phase move saw a state that allows it. *)
SoundLoad(q) ==
    \E allowing \in SUBSET Loadable :
    \E next \in {"item", "probe", "describe", "schedule", "open"} :
        /\ Load(q, allowing, next)
        /\ Is(q, "set_phase") =>
              \A state \in allowing : PhaseMove(state, req[q].action.to)
        /\ Is(q, "set_rules") => next = "probe"

(* A write of the item that was refused changes nothing; one that landed   *)
(* keeps the seed, follows the lifecycle, and moves the stamp on, unless   *)
(* it is a lifecycle move.                                                 *)
SoundUpdate(q, update) ==
    /\ update.landed \in BOOLEAN /\ update.item \in ControlState
    /\ ~update.landed => update.item = item
    /\ update.landed =>
        /\ update.item.opened = item.opened
        /\ transition_allowed(item.phase, update.item.phase)
        /\ update.item.phase = "active" => item.opened
        /\ req[q].action.kind \in DebouncedKinds =>
              DebounceGuard(arrival(q)) /\ update.item.last_action_ms = arrival(q)
        /\ req[q].action.kind \notin LifecycleKinds =>
              item.last_action_ms <= update.item.last_action_ms

SoundWrite(q) ==
    \E update : \E at \in Steps, landed \in {"done", "describe", "schedule"},
                   conflict \in {"done", "fallback"} :
        /\ WriteItem(q, at, update, landed, conflict)
        /\ SoundUpdate(q, update)
        /\ Is(q, "set_rules") => landed = "done"

(* The fields of the document that a kind of request may change. *)
Fields(kind) ==
    CASE kind \in {"fail_open", "recover"} -> {"fail_open_until"}
      [] kind = "set_rules" -> {"rules"}
      [] kind = "set_ip_binding" -> {"bind_ip"}
      [] OTHER -> {}

SoundDocument(q) ==
    \E cfg \in GateConfig, next \in {"done", "item"} :
        /\ edge_read_modify_write(q, cfg, next)
        /\ ~Is(q, "set_phase")
        /\ cfg.fail_open_until # req[q].cfg.fail_open_until =>
              "fail_open_until" \in Fields(req[q].action.kind)
        /\ cfg.rules # req[q].cfg.rules =>
              "rules" \in Fields(req[q].action.kind) /\ cfg.rules = asked(q)
        /\ cfg.bind_ip # req[q].cfg.bind_ip =>
              "bind_ip" \in Fields(req[q].action.kind)

SoundSchedule(q) ==
    \E at \in Nat, next \in {"item", "done"} :
        set_start_time(q, at, next) /\ ~Is(q, "set_phase")

SoundStep(q) ==
    \/ Arrive(q) \/ Dies(q)
    \/ SoundLoad(q) \/ SoundWrite(q) \/ SoundDocument(q) \/ SoundSchedule(q)
    \/ ProbeRules(q) /\ Is(q, "set_rules")
    \/ open_now(q) /\ Is(q, "open_now")

-----------------------------------------------------------------------------
(* The item's writes are sound. *)

LEMMA RequestType ==
    ASSUME ConsoleTypeOK, NEW q \in Requests
    PROVE  /\ req[q] \in Request /\ arrival(q) \in Nat /\ asked(q) \in Nat
           /\ req[q].action.kind \in Kinds /\ req[q].action.to \in Phases
           /\ req[q].cfg \in GateConfig
           /\ item \in ControlState
BY DEF ConsoleTypeOK, Request, Action, arrival, asked

(* A stamped write of a request moves the stamp to its arrival. *)
LEMMA StampedItem ==
    ASSUME item \in ControlState, NEW now \in Nat,
           NEW new \in {i \in ControlState : i.opened = item.opened}
    PROVE  /\ Stamped(new, now) \in ControlState
           /\ Stamped(new, now).opened = new.opened
           /\ Stamped(new, now).phase = new.phase
           /\ Stamped(new, now).last_action_ms = now
BY DEF Stamped, ControlState

(* A write that moves the stamp on, and changes neither phase nor seed. *)
LEMMA StampedSound ==
    ASSUME ConsoleInv, NEW q \in Requests,
           NEW new \in {i \in ControlState : i.opened = item.opened /\ i.phase = item.phase},
           NEW guard \in BOOLEAN, req[q].action.kind \notin LifecycleKinds,
           guard => IF req[q].action.kind \in DebouncedKinds THEN DebounceGuard(arrival(q))
                                                             ELSE StampGuard(arrival(q))
    PROVE  SoundUpdate(q, Update(guard, Stamped(new, arrival(q))))
<1>1. arrival(q) \in Nat /\ item \in ControlState /\ ActiveMeansOpened
    BY RequestType DEF ConsoleInv
<1>2. /\ Stamped(new, arrival(q)) \in ControlState
      /\ Stamped(new, arrival(q)).opened = item.opened
      /\ Stamped(new, arrival(q)).phase = item.phase
      /\ Stamped(new, arrival(q)).last_action_ms = arrival(q)
    BY <1>1, StampedItem
<1>3. guard => item.last_action_ms <= arrival(q)
    BY <1>1, DebounceAssumption DEF DebounceGuard, StampGuard, ControlState, NoStamp
<1>. QED BY <1>1, <1>2, <1>3 DEF SoundUpdate, Update, transition_allowed, ActiveMeansOpened

(* The handlers of one debounced write. *)
LEMMA DebouncedSteps ==
    ASSUME ConsoleInv, NEW q \in Requests, NEW allowing, NEW update,
           Debounced(q, allowing, update), SoundUpdate(q, update),
           ~Is(q, "set_phase"), ~Is(q, "set_rules")
    PROVE  SoundStep(q)
<1>1. CASE Load(q, allowing \cap Unhurried(q), "item")
    <2>1. allowing \cap Unhurried(q) \in SUBSET Loadable
        BY DEF Unhurried
    <2>. QED BY <1>1, <2>1 DEF SoundStep, SoundLoad
<1>2. CASE WriteItem(q, "item", update, "done", "done")
    BY <1>2 DEF SoundStep, SoundWrite, Steps
<1>. QED BY <1>1, <1>2 DEF Debounced

LEMMA DebouncedHandlers ==
    ASSUME ConsoleInv, NEW q \in Requests,
           apply_rate(q) \/ apply_message(q) \/ apply_pause(q) \/ apply_resume(q)
    PROVE  SoundStep(q)
<1>1. item \in ControlState /\ asked(q) \in Nat
    BY RequestType DEF ConsoleInv
<1>2. CASE apply_rate(q)
    <2>1. Is(q, "set_rate")
        BY <1>2 DEF apply_rate
    <2>2. SoundUpdate(q, set_rate(req[q].saw.target_rate, asked(q), arrival(q)))
        BY <1>1, <2>1, StampedSound DEF Is, set_rate, DebouncedKinds, LifecycleKinds, ControlState
    <2>. QED BY <1>2, <2>1, <2>2, DebouncedSteps DEF apply_rate, Is
<1>3. CASE apply_message(q)
    <2>1. Is(q, "set_message")
        BY <1>3 DEF apply_message
    <2>2. SoundUpdate(q, set_message(arrival(q)))
        BY <1>1, <2>1, StampedSound DEF Is, set_message, DebouncedKinds, LifecycleKinds,
           DebounceGuard
    <2>. QED BY <1>3, <2>1, <2>2, DebouncedSteps DEF apply_message, Is
<1>4. ASSUME NEW from \in Controls, NEW to \in Controls, apply_control(q, from, to),
             Is(q, "pause") \/ Is(q, "resume")
      PROVE  SoundStep(q)
    <2>1. SoundUpdate(q, set_stored_control(from, to, arrival(q)))
        BY <1>1, <1>4, StampedSound DEF Is, set_stored_control, DebouncedKinds, LifecycleKinds,
           ControlState
    <2>. QED BY <1>4, <2>1, DebouncedSteps DEF apply_control, Is
<1>. QED BY <1>2, <1>3, <1>4 DEF apply_pause, apply_resume, Controls

(* The handlers that move the phase. *)
LEMMA PhaseHandlers ==
    ASSUME ConsoleInv, NEW q \in Requests, apply_phase(q) \/ apply_force_maintenance(q)
    PROVE  SoundStep(q)
<1>1. item \in ControlState /\ arrival(q) \in Nat /\ req[q].action.to \in Phases
    BY RequestType DEF ConsoleInv
<1>. DEFINE to == req[q].action.to
            from == req[q].saw.phase
<1>2. CASE apply_phase(q)
    <2>1. Is(q, "set_phase")
        BY <1>2 DEF apply_phase
    <2>2. CASE Load(q, {state \in Loadable : PhaseMove(state, to)}, "item")
        BY <2>1, <2>2 DEF SoundStep, SoundLoad, Is
    <2>3. CASE WriteItem(q, "item", set_phase(from, to, arrival(q)), "done", "done")
        <3>1. transition_allowed(from, to) /\ (to = "active" => item.opened)
            BY <2>1, <2>3 DEF WriteItem, ConsoleInv, OpenedForGood
        <3>2. SoundUpdate(q, set_phase(from, to, arrival(q)))
            <4>. DEFINE new == [item EXCEPT !.phase = to]
            <4>1. /\ new \in ControlState /\ new.opened = item.opened /\ new.phase = to
                BY <1>1 DEF ControlState
            <4>2. /\ Stamped(new, arrival(q)) \in ControlState
                  /\ Stamped(new, arrival(q)).opened = item.opened
                  /\ Stamped(new, arrival(q)).phase = to
                BY <1>1, <4>1, StampedItem
            <4>. HIDE DEF new, to
            <4>. QED BY <1>1, <2>1, <3>1, <4>2
                     DEF new, SoundUpdate, set_phase, Update, PhaseGuard, Is, DebouncedKinds,
                         LifecycleKinds
        <3>. QED BY <2>1, <2>3, <3>2 DEF SoundStep, SoundWrite, Steps, Is
    <2>. QED BY <1>2, <2>2, <2>3 DEF apply_phase
<1>3. CASE apply_force_maintenance(q)
    <2>1. Is(q, "force_maintenance")
        BY <1>3 DEF apply_force_maintenance
    <2>2. CASE Load(q, Loadable, "item")
        BY <2>1, <2>2 DEF SoundStep, SoundLoad, Is
    <2>3. CASE WriteItem(q, "item", force_maintenance(from, arrival(q)), "done", "done")
        <3>1. SoundUpdate(q, force_maintenance(from, arrival(q)))
            <4>. DEFINE new == [item EXCEPT !.phase = "maintenance"]
            <4>1. /\ new \in ControlState /\ new.opened = item.opened
                  /\ new.phase = "maintenance"
                BY <1>1 DEF ControlState, Phases
            <4>2. /\ Stamped(new, arrival(q)) \in ControlState
                  /\ Stamped(new, arrival(q)).opened = item.opened
                  /\ Stamped(new, arrival(q)).phase = "maintenance"
                BY <1>1, <4>1, StampedItem
            <4>. HIDE DEF new
            <4>. QED BY <1>1, <2>1, <4>2
                     DEF new, SoundUpdate, force_maintenance, Update, PhaseGuard, Is,
                         DebouncedKinds, LifecycleKinds, transition_allowed
        <3>. QED BY <2>1, <2>3, <3>1 DEF SoundStep, SoundWrite, Steps, Is
    <2>. QED BY <1>3, <2>2, <2>3 DEF apply_force_maintenance
<1>. QED BY <1>2, <1>3

(* The handlers of the schedule and of the open. *)
LEMMA ScheduleHandlers ==
    ASSUME ConsoleInv, NEW q \in Requests, apply_start_time(q) \/ apply_open_now(q)
    PROVE  SoundStep(q)
<1>1. item \in ControlState /\ asked(q) \in Nat /\ arrival(q) \in Nat
    BY RequestType DEF ConsoleInv
<1>2. ASSUME NEW at \in Nat, req[q].action.kind \in {"set_start_time", "clear_start_time"}
      PROVE  SoundUpdate(q, set_starts_at(at, arrival(q)))
    BY <1>1, <1>2, StampedSound DEF set_starts_at, DebouncedKinds, LifecycleKinds, ControlState,
       DebounceGuard
<1>3. CASE Is(q, "set_start_time") /\ SetStartTime(q)
    <2>1. {state \in Unhurried(q) : asked(q) > arrival(q)} \in SUBSET Loadable
        BY DEF Unhurried
    <2>2. SoundUpdate(q, set_starts_at(asked(q), arrival(q)))
        BY <1>1, <1>2, <1>3 DEF Is
    <2>. QED BY <1>1, <1>3, <2>1, <2>2
             DEF SetStartTime, SoundStep, SoundLoad, SoundWrite, SoundSchedule, Steps, Is
<1>4. CASE Is(q, "clear_start_time") /\ ClearStartTime(q)
    <2>1. Unhurried(q) \in SUBSET Loadable /\ NoStart \in Nat
        BY DEF Unhurried, NoStart
    <2>2. SoundUpdate(q, set_starts_at(NoStart, arrival(q)))
        BY <1>2, <1>4, <2>1 DEF Is
    <2>. QED BY <1>1, <1>4, <2>1, <2>2
             DEF ClearStartTime, SoundStep, SoundLoad, SoundWrite, SoundSchedule, Steps, Is
<1>5. CASE apply_open_now(q)
    <2>1. Is(q, "open_now")
        BY <1>5 DEF apply_open_now
    <2>2. SoundUpdate(q, stamp_action(arrival(q)))
        BY <1>1, <2>1, StampedSound DEF stamp_action, DebouncedKinds, LifecycleKinds, Is, StampGuard
    <2>3. {state \in Unhurried(q) : state.phase = "pre_queue"} \in SUBSET Loadable
        BY DEF Unhurried
    <2>. QED BY <1>5, <2>1, <2>2, <2>3
             DEF apply_open_now, SoundStep, SoundLoad, SoundWrite, Steps, Is
<1>. QED BY <1>3, <1>4, <1>5 DEF apply_start_time

(* The handlers of the document. *)
LEMMA DocumentHandlers ==
    ASSUME ConsoleInv, NEW q \in Requests,
           apply_fail_open(q) \/ apply_recover(q) \/ apply_ip_binding(q) \/ apply_set_rules(q)
    PROVE  SoundStep(q)
<1>1. /\ item \in ControlState /\ asked(q) \in Nat /\ arrival(q) \in Nat
      /\ req[q].cfg \in GateConfig
    BY RequestType DEF ConsoleInv
<1>2. ASSUME NEW until \in Nat, NEW next \in {"done", "describe"}, WriteFailOpen(q, until, next),
             Is(q, "fail_open") \/ Is(q, "recover")
      PROVE  SoundStep(q)
    <2>1. SoundUpdate(q, set_fail_open_until(until, arrival(q)))
        BY <1>1, <1>2, StampedSound DEF set_fail_open_until, DebouncedKinds, LifecycleKinds, Is,
           ControlState, StampGuard
    <2>2. SoundUpdate(q, set_fail_open_until_fallback(until))
        BY <1>1, <1>2 DEF set_fail_open_until_fallback, SoundUpdate, Update, DebouncedKinds,
           LifecycleKinds, Is, ControlState, NoStamp, transition_allowed, ConsoleInv,
           ActiveMeansOpened
    <2>. QED BY <1>2, <2>1, <2>2 DEF WriteFailOpen, SoundStep, SoundWrite, Steps, Is
<1>3. ASSUME NEW until \in Nat, NEW next \in {"done", "item"},
             edge_read_modify_write(q, [req[q].cfg EXCEPT !.fail_open_until = until], next),
             Is(q, "fail_open") \/ Is(q, "recover")
      PROVE  SoundStep(q)
    BY <1>1, <1>3 DEF SoundStep, SoundDocument, Fields, GateConfig, Is
<1>4. CASE apply_fail_open(q)
    BY <1>1, <1>2, <1>3, <1>4 DEF apply_fail_open, FailOpen, SoundStep, SoundLoad, Is
<1>5. CASE apply_recover(q)
    BY <1>1, <1>2, <1>3, <1>5 DEF apply_recover, SoundStep, SoundLoad, Is
<1>6. ASSUME Is(q, "set_ip_binding") \/ Is(q, "set_rules")
      PROVE  /\ SoundUpdate(q, stamp_action(arrival(q)))
             /\ SoundUpdate(q, set_rules_audit(arrival(q)))
    BY <1>1, <1>6, StampedSound
       DEF stamp_action, set_rules_audit, DebouncedKinds, LifecycleKinds, Is, StampGuard
<1>7. CASE apply_ip_binding(q)
    <2>1. Is(q, "set_ip_binding")
        BY <1>7 DEF apply_ip_binding
    <2>2. CASE edge_read_modify_write(q, [req[q].cfg EXCEPT !.bind_ip = (asked(q) = 1)], "item")
        BY <1>1, <2>1, <2>2 DEF SoundStep, SoundDocument, Fields, GateConfig, Is
    <2>. QED BY <1>6, <1>7, <2>1, <2>2
             DEF apply_ip_binding, SoundStep, SoundLoad, SoundWrite, Steps, Is
<1>8. CASE apply_set_rules(q)
    <2>1. Is(q, "set_rules")
        BY <1>8 DEF apply_set_rules
    <2>2. CASE edge_read_modify_write(q, [req[q].cfg EXCEPT !.rules = asked(q)], "item")
        BY <1>1, <2>1, <2>2 DEF SoundStep, SoundDocument, Fields, GateConfig, Is
    <2>. QED BY <1>6, <1>8, <2>1, <2>2
             DEF apply_set_rules, SoundStep, SoundLoad, SoundWrite, Steps, Is
<1>. QED BY <1>4, <1>5, <1>7, <1>8

LEMMA RequestSound ==
    ASSUME ConsoleInv, NEW q \in Requests, RequestStep(q)
    PROVE  SoundStep(q)
BY DebouncedHandlers, PhaseHandlers, ScheduleHandlers, DocumentHandlers
   DEF RequestStep, ControlHandlers, OverrideHandlers, SoundStep

-----------------------------------------------------------------------------
(* Each form preserves the invariant. *)

LEMMA IdleType == Idle \in Request
BY BytesAssumption
   DEF Idle, Request, NoAction, Action, Kinds, DebouncedKinds, Phases, NothingSeen, Expected,
       NoConfig, GateConfig, Steps

(* What a request becomes, and that no other changes. *)
Becomes(q, new) ==
    /\ req' = [req EXCEPT ![q] = new]
    /\ new \in Request

(* The request goes to a step, keeping what it holds, or is done. *)
LEMMA GotoStep ==
    ASSUME ConsoleTypeOK, NEW q \in Requests, NEW step \in Steps, Goto(q, step)
    PROVE  \E new \in Request :
             /\ Becomes(q, new)
             /\ new.pc = step
             /\ \/ /\ new.action = req[q].action /\ new.at = req[q].at
                   /\ new.saw = req[q].saw /\ new.etag = req[q].etag
                   /\ new.cfg = req[q].cfg
                \/ step = "done" /\ new.etag = 0
<1>1. req[q] \in Request /\ req \in [Requests -> Request]
    BY DEF ConsoleTypeOK
<1>2. CASE step = "done"
    <2>1. [Idle EXCEPT !.pc = "done"] \in Request
        BY IdleType DEF Request, Steps
    <2>2. [Idle EXCEPT !.pc = "done"].pc = "done" /\ [Idle EXCEPT !.pc = "done"].etag = 0
        BY DEF Idle
    <2>. QED BY <1>2, <2>1, <2>2 DEF Goto, Becomes
<1>3. CASE step # "done"
    <2>. DEFINE new == [req[q] EXCEPT !.pc = step]
    <2>1. new \in Request
        BY <1>1 DEF Request
    <2>2. /\ new.pc = step /\ new.action = req[q].action /\ new.at = req[q].at
          /\ new.saw = req[q].saw /\ new.etag = req[q].etag /\ new.cfg = req[q].cfg
        BY <1>1 DEF Request
    <2>3. req' = [req EXCEPT ![q] = new]
        BY <1>1, <1>3 DEF Goto
    <2>. HIDE DEF new
    <2>. QED BY <2>1, <2>2, <2>3 DEF Becomes
<1>. QED BY <1>2, <1>3

(* A step that leaves the three stores alone, and lets no request on to a  *)
(* write it may not make.                                                  *)
LEMMA RequestOnly ==
    ASSUME ConsoleInv, NEW q \in Requests, NEW new, Becomes(q, new),
           UNCHANGED <<stores, accepted, rewinds>>,
           crossed' \subseteq DOMAIN TwoStores,
           new.etag <= tag,
           new.pc = "put" /\ new.etag = tag => new.cfg = edge,
           new.pc = "item" /\ new.action.kind = "set_phase" =>
              /\ transition_allowed(new.saw.phase, new.action.to)
              /\ new.action.to # "maintenance"
              /\ new.action.to = "active" => item.opened,
           new.pc \in {"describe", "get", "put"} /\ new.action.kind = "set_rules" =>
              new.action.n <= RULES_WRITE_CEILING
    PROVE  ConsoleInv'
<1>1. /\ req'[q] = new /\ \A p \in Requests : p # q => req'[p] = req[p]
      /\ req' \in [Requests -> Request]
    BY DEF ConsoleInv, ConsoleTypeOK, Becomes
<1>2. UNCHANGED <<item, before, edge, tag, armed, accepted, rewinds>>
    BY DEF stores
<1>3. ConsoleTypeOK' /\ ActiveMeansOpened' /\ DebounceUnlessRewound' /\ StampCovers'
    BY <1>1, <1>2
       DEF ConsoleInv, ConsoleTypeOK, ActiveMeansOpened, DebounceUnlessRewound, Apart, StampCovers
<1>4. OpenedForGood'
    BY <1>1, <1>2 DEF ConsoleInv, OpenedForGood, Is
<1>5. ReadsCurrent'
    BY <1>1, <1>2 DEF ConsoleInv, ReadsCurrent
<1>6. RulesBelowCeiling'
    BY <1>1, <1>2 DEF ConsoleInv, RulesBelowCeiling, Is, asked
<1>. QED BY <1>3, <1>4, <1>5, <1>6 DEF ConsoleInv

LEMMA TagType == ConsoleInv => tag \in Nat
BY DEF ConsoleInv, ConsoleTypeOK

(* A request goes on to a step at which nothing is promised, or ends. *)
LEMMA GotoOnly ==
    ASSUME ConsoleInv, NEW q \in Requests, NEW step \in Steps, Goto(q, step),
           UNCHANGED <<stores, history>>,
           step # "put", step = "item" => ~Is(q, "set_phase"),
           step \in {"describe", "get"} /\ Is(q, "set_rules") => asked(q) <= RULES_WRITE_CEILING
    PROVE  ConsoleInv'
<1>1. tag \in Nat /\ req[q].etag <= tag /\ ConsoleTypeOK
    BY TagType DEF ConsoleInv, ReadsCurrent
<1>2. PICK new \in Request :
        /\ Becomes(q, new) /\ new.pc = step
        /\ \/ new.action = req[q].action /\ new.etag = req[q].etag
           \/ step = "done" /\ new.etag = 0
    BY <1>1, GotoStep
<1>3. UNCHANGED <<accepted, rewinds>> /\ crossed' \subseteq DOMAIN TwoStores
    BY <1>1 DEF history, ConsoleTypeOK
<1>. QED BY <1>1, <1>2, <1>3, RequestOnly DEF Is, asked

LEMMA ArriveInv ==
    ASSUME ConsoleInv, NEW q \in Requests, Arrive(q), clock \in Nat
    PROVE  ConsoleInv'
<1>1. PICK a \in Actions :
        req' = [req EXCEPT ![q] = [Idle EXCEPT !.pc = "load", !.action = a, !.at = ArrivalTime]]
    BY DEF Arrive
<1>. DEFINE new == [Idle EXCEPT !.pc = "load", !.action = a, !.at = ArrivalTime]
<1>2. new \in Request
    BY IdleType, ActionsAssumption DEF Request, Steps, ArrivalTime
<1>3. new.pc = "load" /\ new.etag = 0
    BY DEF Idle
<1>4. Becomes(q, new) /\ UNCHANGED <<stores, accepted, rewinds>>
    BY <1>1, <1>2 DEF Becomes, Arrive
<1>5. crossed' \subseteq DOMAIN TwoStores
    BY DEF Arrive, ConsoleInv, ConsoleTypeOK
<1>. HIDE DEF new
<1>. QED BY <1>3, <1>4, <1>5, RequestOnly, TagType

LEMMA QuietCallsInv ==
    ASSUME ConsoleInv, NEW q \in Requests,
           Dies(q) \/ (ProbeRules(q) /\ Is(q, "set_rules"))
    PROVE  ConsoleInv'
<1>1. CASE Dies(q)
    BY <1>1, GotoOnly DEF Dies, Steps
<1>2. CASE ProbeRules(q)
    <2>1. PICK step \in {"describe", "done"} :
            /\ Goto(q, step)
            /\ step = "describe" => RulesFit([edge EXCEPT !.rules = asked(q)])
        BY <1>2 DEF ProbeRules
    <2>2. edge \in GateConfig /\ asked(q) \in Nat
        BY RequestType DEF ConsoleInv, ConsoleTypeOK
    <2>3. RulesFit([edge EXCEPT !.rules = asked(q)]) => asked(q) <= RULES_WRITE_CEILING
        BY <2>2, BytesAssumption DEF RulesFit, EncodedBytes, GateConfig
    <2>. QED BY <1>2, <2>1, <2>3, GotoOnly DEF ProbeRules, Steps
<1>. QED BY <1>1, <1>2

LEMMA LoadInv ==
    ASSUME ConsoleInv, NEW q \in Requests, SoundLoad(q)
    PROVE  ConsoleInv'
<1>1. PICK allowing \in SUBSET Loadable,
           next \in {"item", "probe", "describe", "schedule", "open"} :
        /\ Load(q, allowing, next)
        /\ Is(q, "set_phase") => \A state \in allowing : PhaseMove(state, req[q].action.to)
        /\ Is(q, "set_rules") => next = "probe"
    BY DEF SoundLoad
<1>2. PICK state \in Loadable :
        IF state \in allowing
        THEN req' = [req EXCEPT ![q].pc = next, ![q].saw = Expectation(q, state)]
        ELSE Goto(q, "done")
    BY <1>1 DEF Load
<1>3. UNCHANGED <<stores, history>>
    BY <1>1 DEF Load
<1>4. UNCHANGED <<accepted, rewinds>> /\ crossed' \subseteq DOMAIN TwoStores
    BY <1>3 DEF history, ConsoleInv, ConsoleTypeOK
<1>5. /\ req[q] \in Request /\ req \in [Requests -> Request] /\ tag \in Nat
      /\ req[q].etag <= tag
    BY DEF ConsoleInv, ConsoleTypeOK, ReadsCurrent
<1>6. CASE state \notin allowing
    BY <1>2, <1>3, <1>6, GotoOnly DEF Steps
<1>7. CASE state \in allowing
    <2>. DEFINE new == [req[q] EXCEPT !.pc = next, !.saw = Expectation(q, state)]
    <2>1. state \in ControlState /\ (state.opened => item.opened)
        BY DEF Loadable, ConsoleInv, ConsoleTypeOK, OpenedForGood
    <2>2. Expectation(q, state) \in Expected
        BY <2>1 DEF Expectation, Expected, ControlState, Phases
    <2>3. new \in Request
        BY <1>5, <2>2 DEF Request, Steps
    <2>4. /\ new.pc = next /\ new.action = req[q].action /\ new.etag = req[q].etag
          /\ new.saw = Expectation(q, state)
        BY <1>5 DEF Request
    <2>5. Becomes(q, new)
        BY <1>2, <1>5, <1>7, <2>3 DEF Becomes
    <2>6. Is(q, "set_phase") =>
            /\ transition_allowed(new.saw.phase, new.action.to)
            /\ new.action.to # "maintenance"
            /\ new.action.to = "active" => item.opened
        BY <1>1, <1>7, <2>1, <2>4 DEF PhaseMove, Expectation, Is, LifecycleKinds
    <2>. HIDE DEF new
    <2>. QED BY <1>1, <1>3, <1>5, <1>4, <2>4, <2>5, <2>6, RequestOnly DEF Is
<1>. QED BY <1>6, <1>7

(* A write of the item, which loads in flight may yet miss. *)
LEMMA WriteInv ==
    ASSUME ConsoleInv, NEW q \in Requests, SoundWrite(q)
    PROVE  ConsoleInv'
<1>1. PICK update : \E at \in Steps, landed \in {"done", "describe", "schedule"},
                       conflict \in {"done", "fallback"} :
        /\ WriteItem(q, at, update, landed, conflict)
        /\ SoundUpdate(q, update)
        /\ Is(q, "set_rules") => landed = "done"
    BY DEF SoundWrite
<1>2. PICK next \in {"done", "describe", "schedule", "fallback"} :
        /\ Goto(q, next)
        /\ Is(q, "set_rules") => next # "describe"
    BY <1>1 DEF WriteItem
<1>3. /\ item' = update.item /\ before' = IF update.landed THEN item ELSE before
      /\ UNCHANGED <<edge, tag, armed>>
    BY <1>1 DEF WriteItem
<1>4. /\ accepted' = accepted \cup (IF Accepts(q, update)
                                     THEN {<<q, arrival(q), rewinds>>} ELSE {})
      /\ rewinds' = rewinds + (IF Rewinds(q, update) THEN 1 ELSE 0)
      /\ crossed' = crossed
    BY <1>1 DEF WriteItem
<1>5. SoundUpdate(q, update)
    BY <1>1
<1>6. ConsoleTypeOK /\ arrival(q) \in Nat /\ item \in ControlState /\ tag \in Nat
      /\ req[q].etag <= tag
    BY RequestType DEF ConsoleInv, ConsoleTypeOK, ReadsCurrent
<1>7. PICK new \in Request :
        /\ Becomes(q, new) /\ new.pc = next
        /\ \/ new.action = req[q].action /\ new.etag = req[q].etag
           \/ next = "done" /\ new.etag = 0
    BY <1>2, <1>6, GotoStep DEF Steps
<1>8. /\ req'[q] = new /\ \A p \in Requests : p # q => req'[p] = req[p]
      /\ req' \in [Requests -> Request]
    BY <1>6, <1>7 DEF ConsoleTypeOK, Becomes
<1>9. /\ accepted' \in SUBSET (accepted \cup {<<q, arrival(q), rewinds>>})
      /\ rewinds \in Nat /\ rewinds' \in {rewinds, rewinds + 1}
    BY <1>4, <1>6 DEF ConsoleTypeOK
<1>10. ConsoleTypeOK'
    BY <1>3, <1>4, <1>5, <1>6, <1>8, <1>9 DEF ConsoleTypeOK, SoundUpdate
<1>11. ActiveMeansOpened'
    BY <1>3, <1>5 DEF ConsoleInv, SoundUpdate, ActiveMeansOpened
<1>12. item.opened => item'.opened
    BY <1>3, <1>5 DEF SoundUpdate
<1>13. OpenedForGood'
    BY <1>3, <1>5, <1>7, <1>8, <1>12 DEF ConsoleInv, OpenedForGood, Is
<1>14. ReadsCurrent' /\ RulesBelowCeiling'
    BY <1>2, <1>3, <1>6, <1>7, <1>8 DEF ConsoleInv, ReadsCurrent, RulesBelowCeiling, Is, asked
<1>15. /\ item.last_action_ms \in Nat \cup {-1} /\ item'.last_action_ms \in Nat \cup {-1}
       /\ \A x \in accepted : x[2] \in Nat /\ x[3] \in Nat /\ x[3] <= rewinds
    BY <1>3, <1>5, <1>6 DEF SoundUpdate, ControlState, NoStamp, ConsoleInv, ConsoleTypeOK,
       StampCovers
<1>16. CASE ~Accepts(q, update)
    <2>1. accepted' = accepted
        BY <1>4, <1>16
    <2>2. rewinds' = rewinds => item.last_action_ms <= item'.last_action_ms
        BY <1>3, <1>4, <1>5, <1>9, <1>15 DEF SoundUpdate, Rewinds
    <2>3. StampCovers'
        BY <1>9, <1>15, <2>1, <2>2 DEF ConsoleInv, StampCovers
    <2>4. DebounceUnlessRewound'
        BY <2>1 DEF ConsoleInv, DebounceUnlessRewound, Apart
    <2>. QED BY <1>10, <1>11, <1>13, <1>14, <2>3, <2>4 DEF ConsoleInv
<1>17. CASE Accepts(q, update)
    <2>1. /\ accepted' = accepted \cup {<<q, arrival(q), rewinds>>}
          /\ DebounceGuard(arrival(q)) /\ item'.last_action_ms = arrival(q)
        BY <1>3, <1>4, <1>5, <1>17 DEF SoundUpdate, Accepts
    <2>2. rewinds' = rewinds
        BY <1>4, <1>9, <1>17 DEF Accepts, Rewinds, LifecycleKinds, DebouncedKinds
    <2>3. \A x \in accepted : x[3] = rewinds => x[2] <= arrival(q) - DEBOUNCE
        BY <1>6, <1>15, <2>1, DebounceAssumption
           DEF ConsoleInv, StampCovers, DebounceGuard, NoStamp
    <2>4. StampCovers'
        BY <1>6, <1>9, <1>15, <2>1, <2>2, <2>3, DebounceAssumption DEF StampCovers
    <2>5. \A x \in accepted : x[3] = rewinds =>
            /\ Apart(x, <<q, arrival(q), rewinds>>) /\ Apart(<<q, arrival(q), rewinds>>, x)
        BY <1>6, <1>15, <2>3, DebounceAssumption DEF Apart
    <2>6. DebounceUnlessRewound'
        BY <2>1, <2>5 DEF ConsoleInv, DebounceUnlessRewound, Apart
    <2>. QED BY <1>10, <1>11, <1>13, <1>14, <2>4, <2>6 DEF ConsoleInv
<1>. QED BY <1>16, <1>17

(* A write of the document gives it a new tag, so that whoever still holds *)
(* an older one will be refused.                                           *)
LEMMA DocumentInv ==
    ASSUME ConsoleInv, NEW q \in Requests, SoundDocument(q)
    PROVE  ConsoleInv'
<1>1. PICK cfg \in GateConfig, next \in {"done", "item"} :
        /\ edge_read_modify_write(q, cfg, next)
        /\ ~Is(q, "set_phase")
        /\ cfg.rules # req[q].cfg.rules =>
              "rules" \in Fields(req[q].action.kind) /\ cfg.rules = asked(q)
    BY DEF SoundDocument
<1>2. /\ ConsoleTypeOK /\ req[q] \in Request /\ req \in [Requests -> Request]
      /\ tag \in Nat /\ edge \in GateConfig /\ req[q].etag <= tag
    BY DEF ConsoleInv, ConsoleTypeOK, ReadsCurrent
<1>3. /\ UNCHANGED <<item, before, armed, accepted, rewinds, crossed>>
      /\ crossed' \subseteq DOMAIN TwoStores
    BY <1>1, <1>2 DEF edge_read_modify_write, history, ConsoleTypeOK
<1>4. CASE ReadConfig(q) /\ UNCHANGED <<edge, tag>>
    <2>1. CASE req[q].pc = "describe"
        <3>. DEFINE new == [req[q] EXCEPT !.pc = "get", !.etag = tag]
        <3>1. new \in Request /\ new.pc = "get" /\ new.etag = tag /\ new.action = req[q].action
            BY <1>2 DEF Request, Steps
        <3>2. Becomes(q, new)
            BY <1>2, <1>4, <2>1, <3>1 DEF ReadConfig, Becomes
        <3>3. Is(q, "set_rules") => asked(q) <= RULES_WRITE_CEILING
            BY <2>1 DEF ConsoleInv, RulesBelowCeiling
        <3>. HIDE DEF new
        <3>. QED BY <1>2, <1>3, <1>4, <3>1, <3>2, <3>3, RequestOnly DEF stores, Is, asked
    <2>2. CASE req[q].pc = "get"
        <3>. DEFINE new == [req[q] EXCEPT !.pc = "put", !.cfg = edge]
        <3>1. /\ new \in Request /\ new.pc = "put" /\ new.cfg = edge
              /\ new.etag = req[q].etag /\ new.action = req[q].action
            BY <1>2 DEF Request, Steps
        <3>2. Becomes(q, new)
            BY <1>2, <1>4, <2>2, <3>1 DEF ReadConfig, Becomes
        <3>3. Is(q, "set_rules") => asked(q) <= RULES_WRITE_CEILING
            BY <2>2 DEF ConsoleInv, RulesBelowCeiling
        <3>. HIDE DEF new
        <3>. QED BY <1>2, <1>3, <1>4, <3>1, <3>2, <3>3, RequestOnly DEF stores, Is, asked
    <2>. QED BY <1>4, <2>1, <2>2 DEF ReadConfig
<1>5. CASE WriteConfig(q, cfg, next)
    <2>1. req[q].pc = "put"
        BY <1>5 DEF WriteConfig
    <2>2. Is(q, "set_rules") => asked(q) <= RULES_WRITE_CEILING
        BY <2>1 DEF ConsoleInv, RulesBelowCeiling
    <2>3. \E new \in Request :
            /\ Becomes(q, new) /\ new.pc \in {next, "done", "describe"}
            /\ new.action = req[q].action \/ new.pc = "done"
            /\ new.etag <= tag
        <3>1. Goto(q, next) \/ Goto(q, "done")
              \/ /\ req' = [req EXCEPT ![q].pc = "describe", ![q].tries = @ + 1,
                                       ![q].etag = 0, ![q].cfg = NoConfig]
                 /\ ~LastTry(q)
            BY <1>5 DEF WriteConfig
        <3>2. CASE Goto(q, next) \/ Goto(q, "done")
            BY <1>2, <3>2, GotoStep DEF Steps
        <3>3. CASE req' = [req EXCEPT ![q].pc = "describe", ![q].tries = @ + 1,
                                      ![q].etag = 0, ![q].cfg = NoConfig] /\ ~LastTry(q)
            <4>. DEFINE new == [req[q] EXCEPT !.pc = "describe", !.tries = @ + 1,
                                              !.etag = 0, !.cfg = NoConfig]
            <4>1. NoConfig \in GateConfig
                BY BytesAssumption DEF NoConfig, GateConfig
            <4>2. /\ new \in Request /\ new.pc = "describe" /\ new.action = req[q].action
                  /\ new.etag = 0
                BY <1>2, <3>3, <4>1 DEF Request, Steps, LastTry
            <4>3. Becomes(q, new)
                BY <1>2, <3>3, <4>2 DEF Becomes
            <4>. HIDE DEF new
            <4>. QED BY <1>2, <4>2, <4>3
        <3>. QED BY <3>1, <3>2, <3>3
    <2>4. PICK new \in Request :
            /\ Becomes(q, new) /\ new.pc \in {next, "done", "describe"}
            /\ new.action = req[q].action \/ new.pc = "done"
            /\ new.etag <= tag
        BY <2>3
    <2>5. CASE UNCHANGED <<edge, tag>>
        BY <1>1, <1>3, <2>2, <2>4, <2>5, RequestOnly DEF stores, Is, asked
    <2>6. CASE Put(cfg) /\ IfMatch(req[q].etag)
        <3>1. req[q].cfg = edge /\ edge' = cfg /\ tag' = tag + 1
            BY <2>1, <2>6 DEF Put, IfMatch, ConsoleInv, ReadsCurrent
        <3>2. /\ req'[q] = new /\ \A p \in Requests : p # q => req'[p] = req[p]
              /\ req' \in [Requests -> Request]
            BY <1>2, <2>4 DEF Becomes
        <3>3. ConsoleTypeOK' /\ ActiveMeansOpened' /\ DebounceUnlessRewound' /\ StampCovers'
            BY <1>2, <1>3, <3>1, <3>2
               DEF ConsoleInv, ConsoleTypeOK, ActiveMeansOpened, DebounceUnlessRewound, Apart,
                   StampCovers, history
        <3>4. OpenedForGood'
            BY <1>1, <1>3, <2>4, <3>2 DEF ConsoleInv, OpenedForGood, Is
        <3>5. ReadsCurrent'
            BY <1>2, <2>4, <3>1, <3>2 DEF ConsoleInv, ReadsCurrent, ConsoleTypeOK, Request
        <3>6. edge'.rules <= RULES_WRITE_CEILING
            BY <1>1, <2>2, <3>1 DEF ConsoleInv, RulesBelowCeiling, Fields, Is
        <3>7. RulesBelowCeiling'
            BY <2>2, <2>4, <3>2, <3>6 DEF ConsoleInv, RulesBelowCeiling, Is, asked
        <3>. QED BY <3>3, <3>4, <3>5, <3>7 DEF ConsoleInv
    <2>. QED BY <1>5, <2>5, <2>6 DEF WriteConfig
<1>. QED BY <1>1, <1>4, <1>5 DEF edge_read_modify_write

LEMMA ScheduleInv ==
    ASSUME ConsoleInv, NEW q \in Requests, SoundSchedule(q)
    PROVE  ConsoleInv'
<1>1. PICK at \in Nat, next \in {"item", "done"} :
        set_start_time(q, at, next) /\ ~Is(q, "set_phase")
    BY DEF SoundSchedule
<1>2. /\ armed' = at /\ Goto(q, next)
      /\ UNCHANGED <<item, before, edge, tag, history>>
    BY <1>1 DEF set_start_time
<1>3. ConsoleTypeOK /\ tag \in Nat /\ req[q].etag <= tag /\ next # "put"
    BY DEF ConsoleInv, ConsoleTypeOK, ReadsCurrent
<1>4. PICK new \in Request :
        /\ Becomes(q, new) /\ new.pc = next
        /\ \/ new.action = req[q].action /\ new.etag = req[q].etag
           \/ next = "done" /\ new.etag = 0
    BY <1>2, <1>3, GotoStep DEF Steps
<1>5. /\ req'[q] = new /\ \A p \in Requests : p # q => req'[p] = req[p]
      /\ req' \in [Requests -> Request]
    BY <1>3, <1>4 DEF ConsoleTypeOK, Becomes
<1>6. ConsoleTypeOK' /\ ActiveMeansOpened' /\ DebounceUnlessRewound' /\ StampCovers'
    BY <1>2, <1>5 DEF ConsoleInv, ConsoleTypeOK, ActiveMeansOpened, DebounceUnlessRewound, Apart,
                      StampCovers, history
<1>7. OpenedForGood'
    BY <1>1, <1>2, <1>4, <1>5 DEF ConsoleInv, OpenedForGood, Is
<1>8. ReadsCurrent' /\ RulesBelowCeiling'
    BY <1>2, <1>3, <1>4, <1>5 DEF ConsoleInv, ReadsCurrent, RulesBelowCeiling, Is, asked
<1>. QED BY <1>6, <1>7, <1>8 DEF ConsoleInv

(* The open keeps the stamp, and makes every move to active sound. *)
Opens ==
    /\ item' = open_event.item
    /\ before' = IF open_event.landed THEN item ELSE before

LEMMA OpenInvoked ==
    ASSUME ConsoleInv, Opens
    PROVE  /\ item' \in ControlState /\ before' \in ControlState
           /\ item.opened => item'.opened
           /\ before'.opened => item'.opened
           /\ ActiveMeansOpened'
           /\ item'.last_action_ms = item.last_action_ms
           /\ transition_allowed(item.phase, item'.phase)
<1>1. item \in ControlState /\ before \in ControlState
    BY DEF ConsoleInv, ConsoleTypeOK
<1>2. CASE ~item.opened /\ item.phase = "pre_queue"
    BY <1>1, <1>2 DEF Opens, open_event, Update, ControlState, Phases, ActiveMeansOpened,
       transition_allowed
<1>3. CASE ~(~item.opened /\ item.phase = "pre_queue")
    BY <1>1, <1>3 DEF Opens, open_event, Update, ConsoleInv, OpenedForGood, ActiveMeansOpened,
       transition_allowed
<1>. QED BY <1>2, <1>3

LEMMA OpenNowInv ==
    ASSUME ConsoleInv, NEW q \in Requests, open_now(q), Is(q, "open_now")
    PROVE  ConsoleInv'
<1>1. Opens /\ UNCHANGED <<edge, tag, armed, history>>
    BY DEF open_now, Opens
<1>2. PICK next \in {"item", "done"} : Goto(q, next)
    BY DEF open_now
<1>3. ConsoleTypeOK /\ tag \in Nat /\ req[q].etag <= tag
    BY DEF ConsoleInv, ConsoleTypeOK, ReadsCurrent
<1>4. PICK new \in Request :
        /\ Becomes(q, new) /\ new.pc = next
        /\ \/ new.action = req[q].action /\ new.etag = req[q].etag
           \/ next = "done" /\ new.etag = 0
    BY <1>2, <1>3, GotoStep DEF Steps
<1>5. /\ req'[q] = new /\ \A p \in Requests : p # q => req'[p] = req[p]
      /\ req' \in [Requests -> Request]
    BY <1>3, <1>4 DEF ConsoleTypeOK, Becomes
<1>6. ConsoleTypeOK' /\ ActiveMeansOpened' /\ DebounceUnlessRewound' /\ StampCovers'
    BY <1>1, <1>5, OpenInvoked
       DEF ConsoleInv, ConsoleTypeOK, DebounceUnlessRewound, Apart, StampCovers, history
<1>7. OpenedForGood'
    BY <1>1, <1>4, <1>5, OpenInvoked DEF ConsoleInv, OpenedForGood, Is
<1>8. ReadsCurrent' /\ RulesBelowCeiling'
    BY <1>1, <1>3, <1>4, <1>5 DEF ConsoleInv, ReadsCurrent, RulesBelowCeiling, Is, asked
<1>. QED BY <1>6, <1>7, <1>8 DEF ConsoleInv

LEMMA ScheduleFiresInv ==
    ASSUME ConsoleInv, ScheduleFires
    PROVE  ConsoleInv'
<1>1. Opens /\ armed' = Spent /\ UNCHANGED <<edge, tag, req, history>>
    BY DEF ScheduleFires, Opens
<1>2. ConsoleTypeOK' /\ ActiveMeansOpened' /\ DebounceUnlessRewound' /\ StampCovers'
    BY <1>1, OpenInvoked
       DEF ConsoleInv, ConsoleTypeOK, DebounceUnlessRewound, Apart, StampCovers, history
<1>3. OpenedForGood'
    BY <1>1, OpenInvoked DEF ConsoleInv, OpenedForGood, Is
<1>4. ReadsCurrent' /\ RulesBelowCeiling'
    BY <1>1 DEF ConsoleInv, ReadsCurrent, RulesBelowCeiling, Is, asked
<1>. QED BY <1>2, <1>3, <1>4 DEF ConsoleInv

-----------------------------------------------------------------------------
(* The invariant is inductive. *)

LEMMA ConsoleInitially == ConsoleInit => ConsoleInv
<1>. SUFFICES ASSUME ConsoleInit PROVE ConsoleInv
    OBVIOUS
<1>1. NoState \in ControlState
    BY DEF NoState, ControlState, Phases, Controls, NoStart, NoStamp
<1>2. ConsoleTypeOK
    BY <1>1, IdleType, BytesAssumption
       DEF ConsoleInit, EdgeInit, ConsoleTypeOK, GateConfig, NoStart
<1>3. ActiveMeansOpened /\ DebounceUnlessRewound /\ StampCovers
    BY DEF ConsoleInit, NoState, ActiveMeansOpened, DebounceUnlessRewound, StampCovers
<1>4. OpenedForGood /\ ReadsCurrent /\ RulesBelowCeiling
    BY BytesAssumption
       DEF ConsoleInit, EdgeInit, NoState, Idle, OpenedForGood, ReadsCurrent, RulesBelowCeiling
<1>. QED BY <1>2, <1>3, <1>4 DEF ConsoleInv

LEMMA ConsoleQuiet ==
    ASSUME ConsoleInv, UNCHANGED consoleVars
    PROVE  ConsoleInv'
<1>1. UNCHANGED <<item, before, edge, tag, armed, req, history>>
    BY DEF consoleVars, stores
<1>. QED BY <1>1 DEF ConsoleInv, ConsoleTypeOK, ActiveMeansOpened, DebounceUnlessRewound, Apart,
                     OpenedForGood, StampCovers, ReadsCurrent, RulesBelowCeiling, Is, asked,
                     history

LEMMA ConsoleInductive ==
    ASSUME ConsoleInv, clock \in Nat, ConsoleNext
    PROVE  ConsoleInv'
<1>1. ASSUME NEW q \in Requests, RequestStep(q)
      PROVE  ConsoleInv'
    <2>1. SoundStep(q)
        BY <1>1, RequestSound
    <2>. QED BY <2>1, ArriveInv, QuietCallsInv, LoadInv, WriteInv, DocumentInv, ScheduleInv,
                OpenNowInv DEF SoundStep
<1>. QED BY <1>1, ScheduleFiresInv DEF ConsoleNext

-----------------------------------------------------------------------------
(* What the invariant, and the forms of the steps, are for. *)

(* Every write of the item keeps to the lifecycle. *)
LEMMA WalkStep ==
    ASSUME ConsoleInv, ConsoleNext
    PROVE  transition_allowed(item.phase, item'.phase)
<1>1. ASSUME UNCHANGED item
      PROVE  transition_allowed(item.phase, item'.phase)
    BY <1>1 DEF transition_allowed
<1>2. CASE Opens
    BY <1>2, OpenInvoked
<1>3. ASSUME NEW q \in Requests, SoundWrite(q)
      PROVE  transition_allowed(item.phase, item'.phase)
    BY <1>1, <1>3 DEF SoundWrite, WriteItem, SoundUpdate
<1>4. ASSUME NEW q \in Requests, RequestStep(q)
      PROVE  UNCHANGED item \/ Opens \/ SoundWrite(q)
    BY <1>4, RequestSound
       DEF SoundStep, Arrive, Dies, SoundLoad, Load, SoundDocument, edge_read_modify_write,
           SoundSchedule, set_start_time, ProbeRules, open_now, Opens, stores
<1>. QED BY <1>1, <1>2, <1>3, <1>4 DEF ConsoleNext, ScheduleFires, Opens

(* The document changes only under a request that is about to write it and *)
(* then no longer is, and only in that request's own field.                *)
LEMMA DocumentStep ==
    ASSUME ConsoleInv, NEW q \in Requests, SoundDocument(q), edge' # edge
    PROVE  /\ req[q].pc = "put" /\ req'[q].pc # "put"
           /\ edge'.fail_open_until # edge.fail_open_until =>
                 "fail_open_until" \in Fields(req[q].action.kind)
           /\ edge'.rules # edge.rules => "rules" \in Fields(req[q].action.kind)
           /\ edge'.bind_ip # edge.bind_ip => "bind_ip" \in Fields(req[q].action.kind)
<1>1. PICK cfg \in GateConfig, next \in {"done", "item"} :
        /\ edge_read_modify_write(q, cfg, next)
        /\ cfg.fail_open_until # req[q].cfg.fail_open_until =>
              "fail_open_until" \in Fields(req[q].action.kind)
        /\ cfg.rules # req[q].cfg.rules => "rules" \in Fields(req[q].action.kind)
        /\ cfg.bind_ip # req[q].cfg.bind_ip => "bind_ip" \in Fields(req[q].action.kind)
    BY DEF SoundDocument
<1>2. WriteConfig(q, cfg, next) /\ Put(cfg) /\ IfMatch(req[q].etag)
    BY <1>1 DEF edge_read_modify_write, WriteConfig
<1>3. req[q].pc = "put" /\ req[q].cfg = edge /\ edge' = cfg
    BY <1>2 DEF WriteConfig, Put, IfMatch, ConsoleInv, ReadsCurrent
<1>4. req'[q].pc # "put"
    <2>1. req[q] \in Request /\ req \in [Requests -> Request] /\ ConsoleTypeOK
        BY DEF ConsoleInv, ConsoleTypeOK
    <2>2. Goto(q, next) \/ Goto(q, "done")
          \/ req' = [req EXCEPT ![q].pc = "describe", ![q].tries = @ + 1,
                                ![q].etag = 0, ![q].cfg = NoConfig]
        BY <1>2 DEF WriteConfig
    <2>3. CASE Goto(q, next) \/ Goto(q, "done")
        <3>1. PICK new \in Request : Becomes(q, new) /\ new.pc \in {next, "done"}
            BY <2>1, <2>3, GotoStep DEF Steps
        <3>. QED BY <2>1, <3>1 DEF Becomes
    <2>4. CASE req' = [req EXCEPT ![q].pc = "describe", ![q].tries = @ + 1,
                                  ![q].etag = 0, ![q].cfg = NoConfig]
        BY <2>1, <2>4 DEF Request
    <2>. QED BY <2>2, <2>3, <2>4
<1>. QED BY <1>1, <1>3, <1>4

LEMMA FieldsStep ==
    ASSUME ConsoleInv, ConsoleNext
    PROVE  /\ edge'.fail_open_until # edge.fail_open_until =>
                 \E q \in Requests : /\ Writes(q, {"fail_open", "recover"})
                                      /\ ~Writes(q, {"fail_open", "recover"})'
           /\ edge'.rules # edge.rules =>
                 \E q \in Requests : Writes(q, {"set_rules"}) /\ ~Writes(q, {"set_rules"})'
           /\ edge'.bind_ip # edge.bind_ip =>
                 \E q \in Requests : Writes(q, {"set_ip_binding"}) /\ ~Writes(q, {"set_ip_binding"})'
<1>1. CASE UNCHANGED edge
    BY <1>1
<1>2. ASSUME NEW q \in Requests, RequestStep(q)
      PROVE  UNCHANGED edge \/ SoundDocument(q)
    BY <1>2, RequestSound
       DEF SoundStep, Arrive, Dies, SoundLoad, Load, SoundWrite, WriteItem, SoundSchedule,
           set_start_time, ProbeRules, open_now, stores
<1>3. ASSUME NEW q \in Requests, SoundDocument(q), edge' # edge
      PROVE  /\ req[q].pc = "put" /\ req'[q].pc # "put"
             /\ edge'.fail_open_until # edge.fail_open_until =>
                   req[q].action.kind \in {"fail_open", "recover"}
             /\ edge'.rules # edge.rules => req[q].action.kind \in {"set_rules"}
             /\ edge'.bind_ip # edge.bind_ip => req[q].action.kind \in {"set_ip_binding"}
    BY <1>3, DocumentStep DEF Fields
<1>. QED BY <1>1, <1>2, <1>3 DEF ConsoleNext, ScheduleFires, Writes

(* Below the ceiling, a deadline and the binding always fit. *)
LEMMA DeadlineFits == ConsoleInv => FailOpenFits
BY BytesAssumption
   DEF ConsoleInv, ConsoleTypeOK, RulesBelowCeiling, FailOpenFits, Encodes, EncodedBytes,
       GateConfig

-----------------------------------------------------------------------------
(* The two orders of writes that keep the stores from contradicting each   *)
(* other: the edge's deadline before the item's, and the schedule under    *)
(* the announcement.  They do as long as no change has crossed another.    *)

(* Requests of these kinds follow each other. *)
OneAtATime(kinds) ==
    \A p, q \in Requests :
        InFlight(p) /\ InFlight(q) /\ p # q =>
            req[p].action.kind \notin kinds \/ req[q].action.kind \notin kinds

(* What a request on its way relies on about the deadlines: an engagement  *)
(* ends no earlier than the item's last one, and finds its own deadline at *)
(* the edge when it reaches the item; a recovery reaches the edge after    *)
(* the item.                                                               *)
DeadlineHeld(r) ==
    /\ r.pc \notin {"idle", "done"} /\ r.action.kind = "fail_open" =>
          item.fail_open_until <= r.at + r.action.n
    /\ r.pc \in {"item", "fallback"} /\ r.action.kind = "fail_open" =>
          edge.fail_open_until = r.at + r.action.n
    /\ r.pc \in {"describe", "get", "put"} /\ r.action.kind = "recover" =>
          item.fail_open_until = 0

(* The item's deadline never passes the edge's. *)
EdgeOutlasts ==
    /\ item.fail_open_until <= edge.fail_open_until
    /\ \A q \in Requests : DeadlineHeld(req[q])

(* The same for the schedule: whoever is about to announce has armed it,   *)
(* and whoever is about to disarm it has taken the announcement down.      *)
StartHeld(r) ==
    /\ r.pc = "schedule" /\ r.action.kind = "set_start_time" => r.action.n > 0
    /\ r.pc = "item" /\ r.action.kind = "set_start_time" => armed # NoStart
    /\ r.pc = "schedule" /\ r.action.kind = "clear_start_time" => item.starts_at = NoStart

ScheduleOutlasts ==
    /\ ScheduleStands
    /\ \A q \in Requests : StartHeld(req[q])

(* A request's step: it was in flight, and its action and its arrival      *)
(* stay until it is done.                                                  *)
Moves(q) ==
    \E new \in Request :
        /\ Becomes(q, new)
        /\ new.pc = "done" \/ (new.action = req[q].action /\ new.at = req[q].at)

LEMMA StepInFlight ==
    ASSUME NEW q \in Requests, RequestStep(q), ~Arrive(q)
    PROVE  InFlight(q)
<1>1. ASSUME NEW update, NEW at \in {"item", "fallback"}, NEW landed, NEW conflict,
             WriteItem(q, at, update, landed, conflict)
      PROVE  InFlight(q)
    BY <1>1 DEF WriteItem, InFlight
<1>2. ASSUME NEW allowing, NEW next, Load(q, allowing, next)
      PROVE  InFlight(q)
    BY <1>2 DEF Load, InFlight
<1>3. ASSUME NEW cfg, NEW next, edge_read_modify_write(q, cfg, next)
      PROVE  InFlight(q)
    BY <1>3 DEF edge_read_modify_write, ReadConfig, WriteConfig, InFlight
<1>4. ASSUME NEW at, NEW next, set_start_time(q, at, next)
      PROVE  InFlight(q)
    BY <1>4 DEF set_start_time, InFlight
<1>5. CASE ControlHandlers(q)
    BY <1>1, <1>2, <1>4, <1>5
       DEF ControlHandlers, apply_phase, apply_rate, apply_message, apply_open_now,
           apply_start_time, SetStartTime, ClearStartTime, Debounced, open_now, InFlight
<1>6. CASE OverrideHandlers(q)
    BY <1>1, <1>2, <1>3, <1>6
       DEF OverrideHandlers, apply_force_maintenance, apply_pause, apply_resume, apply_control,
           Debounced, apply_fail_open, FailOpen, apply_recover, WriteFailOpen, apply_ip_binding,
           apply_set_rules, ProbeRules, InFlight
<1>. QED BY <1>5, <1>6 DEF RequestStep, Dies

LEMMA StepMoves ==
    ASSUME ConsoleInv, NEW q \in Requests, RequestStep(q), ~Arrive(q)
    PROVE  Moves(q)
<1>1. /\ req[q] \in Request /\ req \in [Requests -> Request] /\ ConsoleTypeOK
      /\ tag \in Nat /\ edge \in GateConfig
    BY DEF ConsoleInv, ConsoleTypeOK
<1>2. ASSUME NEW step \in Steps, Goto(q, step)
      PROVE  Moves(q)
    BY <1>1, <1>2, GotoStep DEF Moves
<1>3. CASE Dies(q)
    BY <1>2, <1>3 DEF Dies, Steps
<1>4. CASE SoundLoad(q)
    <2>1. PICK allowing \in SUBSET Loadable,
               next \in {"item", "probe", "describe", "schedule", "open"} :
                    Load(q, allowing, next)
        BY <1>4 DEF SoundLoad
    <2>2. PICK state \in Loadable :
            IF state \in allowing
            THEN req' = [req EXCEPT ![q].pc = next, ![q].saw = Expectation(q, state)]
            ELSE Goto(q, "done")
        BY <2>1 DEF Load
    <2>3. CASE state \in allowing
        <3>. DEFINE new == [req[q] EXCEPT !.pc = next, !.saw = Expectation(q, state)]
        <3>1. Expectation(q, state) \in Expected
            BY <1>1 DEF Expectation, Expected, ControlState, Phases, Loadable, ConsoleTypeOK
        <3>2. new \in Request /\ new.action = req[q].action /\ new.at = req[q].at
            BY <1>1, <3>1 DEF Request, Steps
        <3>3. Becomes(q, new)
            BY <1>1, <2>2, <2>3, <3>2 DEF Becomes
        <3>. HIDE DEF new
        <3>. QED BY <3>2, <3>3 DEF Moves
    <2>. QED BY <1>2, <2>2, <2>3 DEF Steps
<1>5. CASE SoundWrite(q)
    <2>1. PICK next \in {"done", "describe", "schedule", "fallback"} : Goto(q, next)
        BY <1>5 DEF SoundWrite, WriteItem, SoundUpdate
    <2>. QED BY <1>2, <2>1 DEF Steps
<1>6. CASE SoundDocument(q)
    <2>1. PICK cfg \in GateConfig, next \in {"done", "item"} :
            edge_read_modify_write(q, cfg, next)
        BY <1>6 DEF SoundDocument
    <2>2. CASE ReadConfig(q)
        <3>1. CASE req' = [req EXCEPT ![q].pc = "get", ![q].etag = tag]
            <4>. DEFINE new == [req[q] EXCEPT !.pc = "get", !.etag = tag]
            <4>1. new \in Request /\ new.action = req[q].action /\ new.at = req[q].at
                BY <1>1 DEF Request, Steps
            <4>2. Becomes(q, new)
                BY <1>1, <3>1, <4>1 DEF Becomes
            <4>. HIDE DEF new
            <4>. QED BY <4>1, <4>2 DEF Moves
        <3>2. CASE req' = [req EXCEPT ![q].pc = "put", ![q].cfg = edge]
            <4>. DEFINE new == [req[q] EXCEPT !.pc = "put", !.cfg = edge]
            <4>1. new \in Request /\ new.action = req[q].action /\ new.at = req[q].at
                BY <1>1 DEF Request, Steps
            <4>2. Becomes(q, new)
                BY <1>1, <3>2, <4>1 DEF Becomes
            <4>. HIDE DEF new
            <4>. QED BY <4>1, <4>2 DEF Moves
        <3>. QED BY <2>2, <3>1, <3>2 DEF ReadConfig
    <2>3. CASE WriteConfig(q, cfg, next)
        <3>1. Goto(q, next) \/ Goto(q, "done")
              \/ /\ req' = [req EXCEPT ![q].pc = "describe", ![q].tries = @ + 1,
                                       ![q].etag = 0, ![q].cfg = NoConfig]
                 /\ ~LastTry(q)
            BY <2>3 DEF WriteConfig
        <3>2. CASE req' = [req EXCEPT ![q].pc = "describe", ![q].tries = @ + 1,
                                      ![q].etag = 0, ![q].cfg = NoConfig] /\ ~LastTry(q)
            <4>. DEFINE new == [req[q] EXCEPT !.pc = "describe", !.tries = @ + 1,
                                              !.etag = 0, !.cfg = NoConfig]
            <4>1. NoConfig \in GateConfig
                BY BytesAssumption DEF NoConfig, GateConfig
            <4>2. new \in Request /\ new.action = req[q].action /\ new.at = req[q].at
                BY <1>1, <3>2, <4>1 DEF Request, Steps, LastTry
            <4>3. Becomes(q, new)
                BY <1>1, <3>2, <4>2 DEF Becomes
            <4>. HIDE DEF new
            <4>. QED BY <4>2, <4>3 DEF Moves
        <3>. QED BY <1>2, <3>1, <3>2 DEF Steps
    <2>. QED BY <2>1, <2>2, <2>3 DEF edge_read_modify_write
<1>7. CASE SoundSchedule(q)
    BY <1>2, <1>7 DEF SoundSchedule, set_start_time, Steps
<1>8. CASE ProbeRules(q) \/ open_now(q)
    BY <1>2, <1>8 DEF ProbeRules, open_now, Steps
<1>. QED BY <1>3, <1>4, <1>5, <1>6, <1>7, <1>8, RequestSound DEF SoundStep

LEMMA CrossedKept ==
    ASSUME ConsoleInv, ConsoleNext
    PROVE  crossed \subseteq crossed'
<1>1. ASSUME NEW q \in Requests, SoundStep(q)
      PROVE  crossed \subseteq crossed'
    BY <1>1 DEF SoundStep, Arrive, Dies, SoundLoad, Load, SoundWrite, WriteItem, SoundDocument,
       edge_read_modify_write, SoundSchedule, set_start_time, ProbeRules, open_now, history
<1>. QED BY <1>1, RequestSound DEF ConsoleNext, ScheduleFires, history

LEMMA QueueStep ==
    ASSUME ConsoleInv, NEW fact \in DOMAIN TwoStores, fact \notin crossed',
           OneAtATime(TwoStores[fact]), NEW q \in Requests, RequestStep(q)
    PROVE  OneAtATime(TwoStores[fact])'
<1>. DEFINE kinds == TwoStores[fact]
<1>1. req \in [Requests -> Request]
    BY DEF ConsoleInv, ConsoleTypeOK
<1>2. CASE Arrive(q)
    <2>1. PICK a \in Actions :
            /\ req' = [req EXCEPT ![q] = [Idle EXCEPT !.pc = "load", !.action = a,
                                                      !.at = ArrivalTime]]
            /\ ~Crosses(a, fact)
        BY <1>2 DEF Arrive
    <2>2. req'[q].action = a /\ \A p \in Requests : p # q => req'[p] = req[p]
        BY <1>1, <2>1 DEF Idle
    <2>3. a.kind \in kinds => \A o \in Requests : InFlight(o) => req[o].action.kind \notin kinds
        BY <2>1 DEF Crosses
    <2>. HIDE DEF kinds
    <2>4. OneAtATime(kinds)'
        BY <2>2, <2>3 DEF OneAtATime, InFlight, kinds
    <2>. QED BY <2>4 DEF kinds
<1>3. CASE ~Arrive(q)
    <2>1. InFlight(q) /\ Moves(q)
        BY <1>3, StepInFlight, StepMoves
    <2>2. PICK new \in Request :
            /\ Becomes(q, new)
            /\ new.pc = "done" \/ (new.action = req[q].action /\ new.at = req[q].at)
        BY <2>1 DEF Moves
    <2>3. req'[q] = new /\ \A p \in Requests : p # q => req'[p] = req[p]
        BY <1>1, <2>2 DEF Becomes
    <2>. QED BY <2>1, <2>2, <2>3 DEF OneAtATime, InFlight
<1>. QED BY <1>2, <1>3

(* Only an engagement or a recovery touches a deadline, and only setting   *)
(* or clearing the start touches it or the schedule.                       *)
LEMMA WritesAside ==
    ASSUME ConsoleInv, NEW q \in Requests, NEW update, NEW at, NEW landed, NEW conflict,
           WriteItem(q, at, update, landed, conflict),
           update.item.fail_open_until = item.fail_open_until,
           update.item.starts_at = item.starts_at
    PROVE  /\ item'.fail_open_until = item.fail_open_until
           /\ item'.starts_at = item.starts_at
           /\ UNCHANGED <<edge, armed>>
BY DEF WriteItem

LEMMA StepAside ==
    ASSUME ConsoleInv, NEW q \in Requests, RequestStep(q), ~Arrive(q)
    PROVE  /\ req[q].action.kind \notin DeadlineKinds =>
                 /\ item'.fail_open_until = item.fail_open_until
                 /\ edge'.fail_open_until = edge.fail_open_until
           /\ req[q].action.kind \notin StartKinds =>
                 item'.starts_at = item.starts_at /\ armed' = armed
<1>1. item \in ControlState
    BY DEF ConsoleInv, ConsoleTypeOK
<1>. DEFINE Aside == /\ item'.fail_open_until = item.fail_open_until
                     /\ item'.starts_at = item.starts_at
                     /\ UNCHANGED <<edge, armed>>
<1>2. ASSUME NEW now, NEW new \in ControlState
      PROVE  /\ Stamped(new, now).fail_open_until = new.fail_open_until
             /\ Stamped(new, now).starts_at = new.starts_at
    BY <1>2 DEF Stamped, ControlState
<1>3. ASSUME NEW allowing, NEW next, Load(q, allowing, next)
      PROVE  Aside
    BY <1>3 DEF Load, stores
<1>4. ASSUME NEW cfg, NEW next, edge_read_modify_write(q, cfg, next)
      PROVE  UNCHANGED <<item, armed>>
    BY <1>4 DEF edge_read_modify_write
<1>5. CASE Dies(q)
    BY <1>5 DEF Dies, stores
<1>6. CASE apply_phase(q) \/ apply_force_maintenance(q)
    <2>1. ASSUME NEW from, NEW to \in Phases, NEW now
          PROVE  /\ set_phase(from, to, now).item.fail_open_until = item.fail_open_until
                 /\ set_phase(from, to, now).item.starts_at = item.starts_at
                 /\ force_maintenance(from, now).item.fail_open_until = item.fail_open_until
                 /\ force_maintenance(from, now).item.starts_at = item.starts_at
        BY <1>1 DEF set_phase, force_maintenance, Update, Stamped, ControlState
    <2>2. req[q].action.to \in Phases
        BY RequestType DEF ConsoleInv
    <2>. QED BY <1>3, <1>6, <2>1, <2>2, WritesAside DEF apply_phase, apply_force_maintenance
<1>7. CASE apply_rate(q) \/ apply_message(q) \/ apply_pause(q) \/ apply_resume(q)
    <2>1. ASSUME NEW a, NEW b, NEW now
          PROVE  /\ set_rate(a, b, now).item.fail_open_until = item.fail_open_until
                 /\ set_rate(a, b, now).item.starts_at = item.starts_at
                 /\ set_message(now).item.fail_open_until = item.fail_open_until
                 /\ set_message(now).item.starts_at = item.starts_at
                 /\ set_stored_control(a, b, now).item.fail_open_until = item.fail_open_until
                 /\ set_stored_control(a, b, now).item.starts_at = item.starts_at
        BY <1>1 DEF set_rate, set_message, set_stored_control, Update, Stamped, ControlState
    <2>. QED BY <1>3, <1>7, <2>1, WritesAside
             DEF apply_rate, apply_message, apply_pause, apply_resume, apply_control, Debounced
<1>8. ASSUME NEW now
      PROVE  /\ stamp_action(now).item.fail_open_until = item.fail_open_until
             /\ stamp_action(now).item.starts_at = item.starts_at
             /\ set_rules_audit(now).item.fail_open_until = item.fail_open_until
             /\ set_rules_audit(now).item.starts_at = item.starts_at
    BY <1>1 DEF stamp_action, set_rules_audit, Update, Stamped, ControlState
<1>9. CASE apply_open_now(q)
    <2>1. open_event.item.fail_open_until = item.fail_open_until
          /\ open_event.item.starts_at = item.starts_at
        BY <1>1 DEF open_event, Update, ControlState
    <2>2. open_now(q) => Aside
        BY <2>1 DEF open_now
    <2>. QED BY <1>3, <1>8, <1>9, <2>2, WritesAside DEF apply_open_now
<1>10. CASE apply_start_time(q)
    <2>1. req[q].action.kind \in StartKinds
        BY <1>10 DEF apply_start_time, Is, StartKinds
    <2>2. ASSUME NEW at, NEW now
          PROVE  set_starts_at(at, now).item.fail_open_until = item.fail_open_until
        BY <1>1 DEF set_starts_at, Update, Stamped, ControlState
    <2>3. ASSUME NEW at, NEW now, NEW landed, NEW conflict,
                 WriteItem(q, "item", set_starts_at(at, now), landed, conflict)
          PROVE  item'.fail_open_until = item.fail_open_until /\ edge' = edge
        BY <2>2, <2>3 DEF WriteItem
    <2>4. ASSUME NEW at, NEW next, set_start_time(q, at, next)
          PROVE  UNCHANGED <<item, edge>>
        BY <2>4 DEF set_start_time
    <2>. QED BY <1>3, <1>10, <2>1, <2>3, <2>4 DEF apply_start_time, SetStartTime, ClearStartTime
<1>11. CASE apply_fail_open(q) \/ apply_recover(q)
    <2>1. req[q].action.kind \in DeadlineKinds
        BY <1>11 DEF apply_fail_open, apply_recover, Is, DeadlineKinds
    <2>2. ASSUME NEW until, NEW now
          PROVE  /\ set_fail_open_until(until, now).item.starts_at = item.starts_at
                 /\ set_fail_open_until_fallback(until).item.starts_at = item.starts_at
        BY <1>1 DEF set_fail_open_until, set_fail_open_until_fallback, Update, Stamped,
           ControlState
    <2>3. ASSUME NEW until, NEW next, WriteFailOpen(q, until, next)
          PROVE  item'.starts_at = item.starts_at /\ armed' = armed
        BY <2>2, <2>3 DEF WriteFailOpen, WriteItem
    <2>. QED BY <1>3, <1>4, <1>11, <2>1, <2>3 DEF apply_fail_open, FailOpen, apply_recover
<1>12. CASE apply_ip_binding(q) \/ apply_set_rules(q)
    <2>1. /\ item'.fail_open_until = item.fail_open_until
          /\ item'.starts_at = item.starts_at
          /\ armed' = armed
        BY <1>3, <1>4, <1>8, <1>12, WritesAside
           DEF apply_ip_binding, apply_set_rules, ProbeRules, stores
    <2>2. req[q].action.kind \in {"set_ip_binding", "set_rules"}
        BY <1>12 DEF apply_ip_binding, apply_set_rules, Is
    <2>3. SoundDocument(q) \/ UNCHANGED edge
        BY <1>12, RequestSound
           DEF RequestStep, OverrideHandlers, SoundStep, Arrive, Dies, SoundLoad, Load, SoundWrite,
               WriteItem, SoundSchedule, set_start_time, ProbeRules, open_now, stores
    <2>. QED BY <2>1, <2>2, <2>3, DocumentStep DEF Fields
<1>. QED BY <1>5, <1>6, <1>7, <1>9, <1>10, <1>11, <1>12
         DEF RequestStep, ControlHandlers, OverrideHandlers

(* Where a call leaves the request. *)
LEMMA NextSteps ==
    ASSUME ConsoleInv, NEW q \in Requests
    PROVE  /\ \A step \in Steps : Goto(q, step) => req'[q].pc = step
           /\ \A allowing, next : Load(q, allowing, next) => req'[q].pc \in {next, "done"}
           /\ ReadConfig(q) => req'[q].pc \in {"get", "put"}
           /\ \A cfg : \A next \in {"item", "done"} :
                 WriteConfig(q, cfg, next) => req'[q].pc \in {next, "describe", "done"}
<1>1. req \in [Requests -> Request] /\ req[q] \in Request
    BY DEF ConsoleInv, ConsoleTypeOK
<1>2. ASSUME NEW step \in Steps, Goto(q, step)
      PROVE  req'[q].pc = step
    <2>1. PICK new \in Request : Becomes(q, new) /\ new.pc = step
        BY <1>2, GotoStep DEF ConsoleInv
    <2>. QED BY <1>1, <2>1 DEF Becomes
<1>3. ASSUME NEW allowing, NEW next, Load(q, allowing, next)
      PROVE  req'[q].pc \in {next, "done"}
    <2>1. \/ \E state \in Loadable :
                req' = [req EXCEPT ![q].pc = next, ![q].saw = Expectation(q, state)]
          \/ Goto(q, "done")
        BY <1>3 DEF Load
    <2>2. ASSUME NEW state,
                 req' = [req EXCEPT ![q].pc = next, ![q].saw = Expectation(q, state)]
          PROVE  req'[q].pc = next
        BY <1>1, <2>2 DEF Request
    <2>. QED BY <1>2, <2>1, <2>2 DEF Steps
<1>4. ASSUME ReadConfig(q)
      PROVE  req'[q].pc \in {"get", "put"}
    BY <1>1, <1>4 DEF ReadConfig, Request
<1>5. ASSUME NEW cfg, NEW next \in {"item", "done"}, WriteConfig(q, cfg, next)
      PROVE  req'[q].pc \in {next, "describe", "done"}
    <2>1. Goto(q, next) \/ Goto(q, "done")
          \/ req' = [req EXCEPT ![q].pc = "describe", ![q].tries = @ + 1,
                                ![q].etag = 0, ![q].cfg = NoConfig]
        BY <1>5 DEF WriteConfig
    <2>2. CASE req' = [req EXCEPT ![q].pc = "describe", ![q].tries = @ + 1,
                                  ![q].etag = 0, ![q].cfg = NoConfig]
        BY <1>1, <2>2 DEF Request
    <2>. QED BY <1>2, <2>1, <2>2 DEF Steps
<1>. QED BY <1>2, <1>3, <1>4, <1>5

(* The document's deadline after a write of it is the one the writer had   *)
(* asked for.                                                              *)
LEMMA DeadlineWritten ==
    ASSUME ConsoleInv, NEW q \in Requests, NEW until \in Nat, NEW next \in {"item", "done"},
           edge_read_modify_write(q, [req[q].cfg EXCEPT !.fail_open_until = until], next)
    PROVE  /\ item' = item
           /\ \/ edge' = edge /\ req'[q].pc \in {"get", "put", "describe", "done"}
              \/ /\ req[q].pc = "put" /\ edge'.fail_open_until = until
                 /\ req'[q].pc \in {next, "describe", "done"}
<1>. DEFINE cfg == [req[q].cfg EXCEPT !.fail_open_until = until]
<1>1. req[q].cfg \in GateConfig
    BY RequestType DEF ConsoleInv
<1>2. cfg.fail_open_until = until
    BY <1>1 DEF GateConfig
<1>3. item' = item
    BY DEF edge_read_modify_write
<1>. HIDE DEF cfg
<1>4. edge_read_modify_write(q, cfg, next)
    BY DEF cfg
<1>5. CASE ReadConfig(q) /\ edge' = edge
    BY <1>3, <1>5, NextSteps
<1>6. CASE WriteConfig(q, cfg, next)
    <2>1. req[q].pc = "put" /\ req'[q].pc \in {next, "describe", "done"}
        BY <1>6, NextSteps DEF WriteConfig
    <2>2. Put(cfg) \/ (edge' = edge /\ req'[q].pc \in {"describe", "done"})
        <3>1. \/ Put(cfg)
              \/ edge' = edge /\ Goto(q, "done")
              \/ /\ edge' = edge
                 /\ req' = [req EXCEPT ![q].pc = "describe", ![q].tries = @ + 1,
                                       ![q].etag = 0, ![q].cfg = NoConfig]
            BY <1>6 DEF WriteConfig
        <3>2. req \in [Requests -> Request]
            BY DEF ConsoleInv, ConsoleTypeOK
        <3>3. req' = [req EXCEPT ![q].pc = "describe", ![q].tries = @ + 1,
                                 ![q].etag = 0, ![q].cfg = NoConfig]
              => req'[q].pc = "describe"
            BY <3>2 DEF Request
        <3>. QED BY <3>1, <3>3, NextSteps DEF Steps
    <2>. QED BY <1>2, <1>3, <2>1, <2>2 DEF Put
<1>. QED BY <1>4, <1>5, <1>6 DEF edge_read_modify_write

(* So is the item's. *)
LEMMA DeadlineStamped ==
    ASSUME ConsoleInv, NEW q \in Requests, NEW until \in Nat, NEW next \in {"describe", "done"},
           WriteFailOpen(q, until, next)
    PROVE  /\ edge' = edge /\ req[q].pc \in {"item", "fallback"}
           /\ \/ item'.fail_open_until = until /\ req'[q].pc = next
              \/ item' = item /\ req'[q].pc \in {"fallback", "done"}
<1>1. item \in ControlState
    BY DEF ConsoleInv, ConsoleTypeOK
<1>2. ASSUME NEW now
      PROVE  /\ set_fail_open_until(until, now).landed =>
                   set_fail_open_until(until, now).item.fail_open_until = until
             /\ ~set_fail_open_until(until, now).landed =>
                   set_fail_open_until(until, now).item = item
             /\ set_fail_open_until_fallback(until).landed
             /\ set_fail_open_until_fallback(until).item.fail_open_until = until
    BY <1>1 DEF set_fail_open_until, set_fail_open_until_fallback, Update, Stamped, ControlState
<1>3. ASSUME NEW update, NEW at, NEW conflict \in {"fallback", "done"},
             WriteItem(q, at, update, next, conflict),
             update.landed => update.item.fail_open_until = until,
             ~update.landed => update.item = item
      PROVE  /\ edge' = edge /\ req[q].pc = at
             /\ \/ item'.fail_open_until = until /\ req'[q].pc = next
                \/ item' = item /\ req'[q].pc \in {"fallback", "done"}
    BY <1>3, NextSteps DEF WriteItem, Steps
<1>. QED BY <1>2, <1>3 DEF WriteFailOpen

-----------------------------------------------------------------------------
(* Fail-open: the edge's deadline outlasts the item's. *)

LEMMA EdgeOutlastsStep ==
    ASSUME ConsoleInv, OneAtATime(DeadlineKinds), EdgeOutlasts, clock \in Nat,
           "deadline" \notin crossed',
           NEW q \in Requests, RequestStep(q)
    PROVE  EdgeOutlasts'
<1>1. /\ req \in [Requests -> Request] /\ req[q] \in Request
      /\ item \in ControlState /\ edge \in GateConfig
    BY DEF ConsoleInv, ConsoleTypeOK
<1>2. /\ item.fail_open_until \in Nat /\ edge.fail_open_until \in Nat
      /\ arrival(q) \in Nat /\ asked(q) \in Nat
    BY <1>1, RequestType DEF ControlState, GateConfig, ConsoleInv
<1>3. \A a \in Actions : a.n \in Nat
    BY ActionsAssumption DEF Action
<1>4. CASE Arrive(q)
    <2>1. PICK a \in Actions :
            /\ req' = [req EXCEPT ![q] = [Idle EXCEPT !.pc = "load", !.action = a,
                                                      !.at = ArrivalTime]]
            /\ ~Crosses(a, "deadline")
        BY <1>4 DEF Arrive, TwoStores
    <2>2. a.kind = "fail_open" => item.fail_open_until <= clock + a.n
        BY <1>2, <1>3, <2>1 DEF Crosses, TwoStores, DeadlineKinds, ArrivalTime
    <2>3. /\ req'[q].action = a /\ req'[q].at = clock /\ req'[q].pc = "load"
          /\ \A p \in Requests : p # q => req'[p] = req[p]
        BY <1>1, <2>1 DEF Idle, ArrivalTime
    <2>4. UNCHANGED <<item, edge>>
        BY <1>4 DEF Arrive, stores
    <2>. QED BY <2>2, <2>3, <2>4 DEF EdgeOutlasts, DeadlineHeld
<1>5. CASE ~Arrive(q)
    <2>1. PICK new \in Request :
            /\ Becomes(q, new)
            /\ new.pc = "done" \/ (new.action = req[q].action /\ new.at = req[q].at)
        BY <1>5, StepMoves DEF Moves
    <2>2. /\ req'[q] = new /\ InFlight(q) /\ new.pc \in Steps
          /\ \A p \in Requests : p # q => req'[p] = req[p]
        BY <1>1, <1>5, <2>1, StepInFlight DEF Becomes, Request
    <2>3. CASE /\ item'.fail_open_until = item.fail_open_until
               /\ edge'.fail_open_until = edge.fail_open_until
               /\ DeadlineHeld(new)
        BY <2>2, <2>3 DEF EdgeOutlasts, DeadlineHeld
    <2>4. CASE req[q].action.kind \notin DeadlineKinds
        <3>1. DeadlineHeld(new)
            BY <2>1, <2>4 DEF DeadlineHeld, DeadlineKinds
        <3>. QED BY <1>5, <2>3, <2>4, <3>1, StepAside
    <2>5. CASE req[q].action.kind \in DeadlineKinds
        <3>1. \A p \in Requests : p # q /\ InFlight(p) => req[p].action.kind \notin DeadlineKinds
            BY <2>2, <2>5 DEF OneAtATime
        <3>2. ASSUME item'.fail_open_until <= edge'.fail_open_until, DeadlineHeld(new)'
              PROVE  EdgeOutlasts'
            BY <2>2, <3>1, <3>2 DEF EdgeOutlasts, DeadlineHeld, DeadlineKinds, InFlight
        <3>3. CASE Dies(q)
            <4>1. new.pc = "done" /\ UNCHANGED <<item, edge>>
                BY <2>2, <3>3, NextSteps DEF Dies, stores, Steps
            <4>. QED BY <2>3, <4>1 DEF DeadlineHeld
        <3>4. CASE apply_fail_open(q)
            <4>. DEFINE until == arrival(q) + asked(q)
            <4>1. /\ Is(q, "fail_open") /\ until \in Nat
                  /\ item.fail_open_until <= until
                  /\ req[q].pc \in {"item", "fallback"} => edge.fail_open_until = until
                BY <1>2, <2>2, <3>4
                   DEF apply_fail_open, EdgeOutlasts, DeadlineHeld, Is, InFlight, arrival, asked
            <4>2. new.pc # "done" =>
                    new.action.kind = "fail_open" /\ new.at + new.action.n = until
                BY <2>1, <4>1 DEF Is, arrival, asked
            <4>. HIDE DEF until
            <4>3. CASE Load(q, Loadable, "describe")
                <5>1. new.pc \in {"describe", "done"} /\ UNCHANGED <<item, edge>>
                    BY <2>2, <4>3, NextSteps DEF Load, stores
                <5>. QED BY <2>3, <4>1, <4>2, <5>1 DEF DeadlineHeld
            <4>4. CASE edge_read_modify_write(
                          q, [req[q].cfg EXCEPT !.fail_open_until = until], "item")
                <5>1. /\ item' = item
                      /\ \/ edge' = edge /\ new.pc \in {"get", "put", "describe", "done"}
                         \/ /\ edge'.fail_open_until = until
                            /\ new.pc \in {"item", "describe", "done"}
                    BY <2>2, <4>1, <4>4, DeadlineWritten
                <5>2. CASE edge' = edge
                    BY <2>3, <4>1, <4>2, <5>1, <5>2 DEF DeadlineHeld
                <5>3. CASE edge'.fail_open_until = until
                    <6>1. DeadlineHeld(new)'
                        BY <4>1, <4>2, <5>1, <5>3 DEF DeadlineHeld
                    <6>. QED BY <3>2, <4>1, <5>1, <5>3, <6>1 DEF EdgeOutlasts
                <5>. QED BY <5>1, <5>2, <5>3
            <4>5. CASE WriteFailOpen(q, until, "done")
                <5>1. /\ edge' = edge /\ edge.fail_open_until = until
                      /\ \/ item'.fail_open_until = until
                         \/ item' = item
                      /\ new.pc \in {"fallback", "done"}
                    BY <2>2, <4>1, <4>5, DeadlineStamped
                <5>2. DeadlineHeld(new)'
                    BY <4>1, <4>2, <5>1 DEF DeadlineHeld
                <5>. QED BY <3>2, <4>1, <5>1, <5>2 DEF EdgeOutlasts
            <4>. QED BY <3>4, <4>3, <4>4, <4>5 DEF apply_fail_open, FailOpen, until
        <3>5. CASE apply_recover(q)
            <4>1. /\ Is(q, "recover")
                  /\ req[q].pc \in {"describe", "get", "put"} => item.fail_open_until = 0
                BY <3>5 DEF apply_recover, EdgeOutlasts, DeadlineHeld, Is
            <4>2. new.pc # "done" => new.action.kind = "recover"
                BY <2>1, <4>1 DEF Is
            <4>3. CASE Load(q, Loadable, "item")
                <5>1. new.pc \in {"item", "done"} /\ UNCHANGED <<item, edge>>
                    BY <2>2, <4>3, NextSteps DEF Load, stores
                <5>. QED BY <2>3, <4>2, <5>1 DEF DeadlineHeld
            <4>4. CASE WriteFailOpen(q, 0, "describe")
                <5>1. /\ edge' = edge
                      /\ \/ item'.fail_open_until = 0 /\ new.pc = "describe"
                         \/ item' = item /\ new.pc \in {"fallback", "done"}
                    BY <2>2, <4>4, DeadlineStamped
                <5>2. DeadlineHeld(new)'
                    BY <4>2, <5>1 DEF DeadlineHeld
                <5>. QED BY <1>2, <1>3, <3>2, <5>1, <5>2 DEF EdgeOutlasts
            <4>5. CASE edge_read_modify_write(
                          q, [req[q].cfg EXCEPT !.fail_open_until = 0], "done")
                <5>1. /\ item' = item
                      /\ \/ edge' = edge
                         \/ edge'.fail_open_until = 0
                      /\ req[q].pc \in {"describe", "get", "put"}
                    BY <4>5, DeadlineWritten
                       DEF edge_read_modify_write, ReadConfig, WriteConfig
                <5>2. item.fail_open_until = 0
                    BY <4>1, <5>1
                <5>3. DeadlineHeld(new)'
                    BY <4>2, <5>1, <5>2 DEF DeadlineHeld
                <5>. QED BY <1>2, <1>3, <3>2, <5>1, <5>2, <5>3
            <4>. QED BY <3>5, <4>3, <4>4, <4>5 DEF apply_recover
        <3>. QED BY <1>5, <2>5, <3>3, <3>4, <3>5
                 DEF RequestStep, ControlHandlers, OverrideHandlers, DeadlineKinds, Is,
                     apply_phase, apply_rate, apply_message, apply_open_now, apply_start_time,
                     apply_force_maintenance, apply_pause, apply_resume, apply_ip_binding,
                     apply_set_rules
    <2>. QED BY <2>4, <2>5
<1>. QED BY <1>4, <1>5

-----------------------------------------------------------------------------
(* The start time: the schedule outlasts its announcement. *)

LEMMA ScheduleOutlastsStep ==
    ASSUME ConsoleInv, OneAtATime(StartKinds), ScheduleOutlasts, clock \in Nat,
           NEW q \in Requests, RequestStep(q)
    PROVE  ScheduleOutlasts'
<1>1. /\ req \in [Requests -> Request] /\ req[q] \in Request
      /\ item \in ControlState /\ arrival(q) \in Nat /\ asked(q) \in Nat
    BY RequestType DEF ConsoleInv, ConsoleTypeOK
<1>2. CASE Arrive(q)
    <2>1. /\ req'[q].pc = "load" /\ \A p \in Requests : p # q => req'[p] = req[p]
          /\ UNCHANGED <<item, armed>>
        BY <1>1, <1>2 DEF Arrive, Idle, stores
    <2>. QED BY <2>1 DEF ScheduleOutlasts, StartHeld, ScheduleStands
<1>3. CASE ~Arrive(q)
    <2>1. PICK new \in Request :
            /\ Becomes(q, new)
            /\ new.pc = "done" \/ (new.action = req[q].action /\ new.at = req[q].at)
        BY <1>3, StepMoves DEF Moves
    <2>2. /\ req'[q] = new /\ InFlight(q) /\ new.pc \in Steps
          /\ \A p \in Requests : p # q => req'[p] = req[p]
        BY <1>1, <1>3, <2>1, StepInFlight DEF Becomes, Request
    <2>3. CASE item'.starts_at = item.starts_at /\ armed' = armed /\ StartHeld(new)
        BY <2>2, <2>3 DEF ScheduleOutlasts, StartHeld, ScheduleStands
    <2>4. CASE req[q].action.kind \notin StartKinds
        <3>1. StartHeld(new)
            BY <2>1, <2>4 DEF StartHeld, StartKinds
        <3>. QED BY <1>3, <2>3, <2>4, <3>1, StepAside
    <2>5. CASE req[q].action.kind \in StartKinds
        <3>1. \A p \in Requests : p # q /\ InFlight(p) => req[p].action.kind \notin StartKinds
            BY <2>2, <2>5 DEF OneAtATime
        <3>2. ASSUME ScheduleStands', StartHeld(new)'
              PROVE  ScheduleOutlasts'
            BY <2>2, <3>1, <3>2 DEF ScheduleOutlasts, StartHeld, StartKinds, InFlight
        <3>3. ASSUME NEW at \in Nat
              PROVE  /\ set_starts_at(at, arrival(q)).landed =>
                           set_starts_at(at, arrival(q)).item.starts_at = at
                     /\ ~set_starts_at(at, arrival(q)).landed =>
                           set_starts_at(at, arrival(q)).item = item
            BY <1>1, <3>3 DEF set_starts_at, Update, Stamped, ControlState
        <3>4. ASSUME NEW at \in Nat, NEW landed \in {"schedule", "done"},
                     WriteItem(q, "item", set_starts_at(at, arrival(q)), landed, "done")
              PROVE  /\ armed' = armed /\ req[q].pc = "item"
                     /\ \/ item'.starts_at = at /\ new.pc = landed
                        \/ item' = item /\ new.pc = "done"
            BY <2>2, <3>3, <3>4, NextSteps DEF WriteItem, Steps
        <3>5. CASE Dies(q)
            <4>1. new.pc = "done" /\ UNCHANGED <<item, armed>>
                BY <2>2, <3>5, NextSteps DEF Dies, stores, Steps
            <4>. QED BY <2>3, <4>1 DEF StartHeld
        <3>6. CASE Is(q, "set_start_time") /\ SetStartTime(q)
            <4>1. new.pc # "done" =>
                    new.action.kind = "set_start_time" /\ new.action.n = asked(q)
                BY <2>1, <3>6 DEF Is, asked
            <4>2. CASE Load(q, {state \in Unhurried(q) : asked(q) > arrival(q)}, "schedule")
                <5>1. new.pc \in {"schedule", "done"} /\ UNCHANGED <<item, armed>>
                    BY <2>2, <4>2, NextSteps DEF Load, stores
                <5>2. new.pc = "schedule" => asked(q) > arrival(q)
                    <6>1. CASE asked(q) > arrival(q)
                        BY <6>1
                    <6>2. CASE ~(asked(q) > arrival(q))
                        <7>1. Goto(q, "done")
                            BY <4>2, <6>2 DEF Load
                        <7>. QED BY <2>2, <7>1, NextSteps DEF Steps
                    <6>. QED BY <6>1, <6>2
                <5>3. StartHeld(new)
                    BY <1>1, <4>1, <5>1, <5>2 DEF StartHeld
                <5>. QED BY <2>3, <5>1, <5>3
            <4>3. CASE set_start_time(q, asked(q), "item")
                <5>1. armed' = asked(q) /\ item' = item /\ asked(q) > 0
                    BY <1>1, <3>6, <4>3 DEF set_start_time, ScheduleOutlasts, StartHeld, Is, asked
                <5>2. new.pc = "item"
                    BY <2>2, <4>3, NextSteps DEF set_start_time, Steps
                <5>3. armed' # NoStart
                    BY <1>1, <5>1 DEF NoStart
                <5>. QED BY <3>2, <4>1, <5>2, <5>3 DEF StartHeld, ScheduleStands
            <4>4. CASE WriteItem(q, "item", set_starts_at(asked(q), arrival(q)), "done", "done")
                <5>1. armed' = armed /\ armed # NoStart /\ new.pc = "done"
                    BY <1>1, <3>4, <3>6, <4>4 DEF ScheduleOutlasts, StartHeld, Is
                <5>. QED BY <3>2, <5>1 DEF StartHeld, ScheduleStands
            <4>. QED BY <3>6, <4>2, <4>3, <4>4 DEF SetStartTime
        <3>7. CASE Is(q, "clear_start_time") /\ ClearStartTime(q)
            <4>1. new.pc # "done" => new.action.kind = "clear_start_time"
                BY <2>1, <3>7 DEF Is
            <4>2. CASE Load(q, Unhurried(q), "item")
                <5>1. new.pc \in {"item", "done"} /\ UNCHANGED <<item, armed>>
                    BY <2>2, <4>2, NextSteps DEF Load, stores
                <5>2. StartHeld(new)
                    BY <4>1, <5>1 DEF StartHeld
                <5>. QED BY <2>3, <5>1, <5>2
            <4>3. CASE WriteItem(q, "item", set_starts_at(NoStart, arrival(q)),
                                 "schedule", "done")
                <5>1. /\ armed' = armed
                      /\ \/ item'.starts_at = NoStart /\ new.pc = "schedule"
                         \/ item' = item /\ new.pc = "done"
                    BY <3>4, <4>3 DEF NoStart
                <5>. QED BY <3>2, <4>1, <5>1
                         DEF ScheduleOutlasts, StartHeld, ScheduleStands
            <4>4. CASE set_start_time(q, NoStart, "done")
                <5>1. item' = item /\ item.starts_at = NoStart
                    BY <3>7, <4>4 DEF set_start_time, ScheduleOutlasts, StartHeld, Is
                <5>2. new.pc = "done"
                    BY <2>2, <4>4, NextSteps DEF set_start_time, Steps
                <5>. QED BY <3>2, <5>1, <5>2 DEF StartHeld, ScheduleStands
            <4>. QED BY <3>7, <4>2, <4>3, <4>4 DEF ClearStartTime
        <3>. QED BY <1>3, <2>5, <3>5, <3>6, <3>7
                 DEF RequestStep, ControlHandlers, OverrideHandlers, StartKinds, Is,
                     apply_phase, apply_rate, apply_message, apply_open_now, apply_start_time,
                     apply_force_maintenance, apply_pause, apply_resume, apply_fail_open,
                     apply_recover, apply_ip_binding, apply_set_rules
    <2>. QED BY <2>4, <2>5
<1>. QED BY <1>2, <1>3

-----------------------------------------------------------------------------
(* The schedule going off touches no deadline, and is not a disarming. *)
LEMMA FiringKeeps ==
    ASSUME ConsoleInv, ScheduleFires
    PROVE  /\ item'.fail_open_until = item.fail_open_until
           /\ item'.starts_at = item.starts_at
           /\ armed' # NoStart /\ UNCHANGED <<edge, req>>
<1>1. item \in ControlState
    BY DEF ConsoleInv, ConsoleTypeOK
<1>. QED BY <1>1 DEF ScheduleFires, open_event, Update, ControlState, Spent, NoStart

DeadlinesOrdered == "deadline" \notin crossed => OneAtATime(DeadlineKinds) /\ EdgeOutlasts

StartsOrdered == "start" \notin crossed => OneAtATime(StartKinds) /\ ScheduleOutlasts

OrderedInv == ConsoleInv /\ DeadlinesOrdered /\ StartsOrdered

LEMMA OrderedInitially == ConsoleInit => DeadlinesOrdered /\ StartsOrdered
BY DEF ConsoleInit, EdgeInit, NoState, Idle, InFlight, OneAtATime, DeadlinesOrdered,
       StartsOrdered, EdgeOutlasts, DeadlineHeld, ScheduleOutlasts, StartHeld, ScheduleStands

LEMMA OrderedNext ==
    ASSUME OrderedInv, clock \in Nat, ConsoleNext
    PROVE  OrderedInv'
<1>1. ConsoleInv' /\ crossed \subseteq crossed'
    BY ConsoleInductive, CrossedKept DEF OrderedInv
<1>2. ASSUME NEW q \in Requests, RequestStep(q)
      PROVE  DeadlinesOrdered' /\ StartsOrdered'
    <2>1. ASSUME "deadline" \notin crossed'
          PROVE  OneAtATime(DeadlineKinds)' /\ EdgeOutlasts'
        <3>1. OneAtATime(DeadlineKinds) /\ EdgeOutlasts
            BY <1>1, <2>1 DEF OrderedInv, DeadlinesOrdered
        <3>2. "deadline" \in DOMAIN TwoStores /\ TwoStores["deadline"] = DeadlineKinds
            BY DEF TwoStores
        <3>3. OneAtATime(TwoStores["deadline"])'
            BY <1>2, <2>1, <3>1, <3>2, QueueStep DEF OrderedInv
        <3>. QED BY <1>2, <2>1, <3>1, <3>2, <3>3, EdgeOutlastsStep DEF OrderedInv, OneAtATime
    <2>2. ASSUME "start" \notin crossed'
          PROVE  OneAtATime(StartKinds)' /\ ScheduleOutlasts'
        <3>1. OneAtATime(StartKinds) /\ ScheduleOutlasts
            BY <1>1, <2>2 DEF OrderedInv, StartsOrdered
        <3>2. "start" \in DOMAIN TwoStores /\ TwoStores["start"] = StartKinds
            BY DEF TwoStores
        <3>3. OneAtATime(TwoStores["start"])'
            BY <1>2, <2>2, <3>1, <3>2, QueueStep DEF OrderedInv
        <3>. QED BY <1>2, <3>1, <3>2, <3>3, ScheduleOutlastsStep DEF OrderedInv, OneAtATime
    <2>. QED BY <2>1, <2>2 DEF DeadlinesOrdered, StartsOrdered
<1>3. CASE ScheduleFires
    BY <1>1, <1>3, FiringKeeps
       DEF OrderedInv, DeadlinesOrdered, StartsOrdered, OneAtATime, InFlight, EdgeOutlasts,
           DeadlineHeld, ScheduleOutlasts, StartHeld, ScheduleStands
<1>. QED BY <1>1, <1>2, <1>3 DEF ConsoleNext, OrderedInv

(* The clock moving on, or a step of somebody else's. *)
LEMMA OrderedQuiet ==
    ASSUME OrderedInv, UNCHANGED consoleVars
    PROVE  OrderedInv'
<1>1. UNCHANGED <<item, edge, armed, req, crossed>>
    BY DEF consoleVars, stores, history
<1>2. ConsoleInv'
    BY ConsoleQuiet DEF OrderedInv
<1>. QED BY <1>1, <1>2
         DEF OrderedInv, DeadlinesOrdered, StartsOrdered, OneAtATime, InFlight, EdgeOutlasts,
             DeadlineHeld, ScheduleOutlasts, StartHeld, ScheduleStands

-----------------------------------------------------------------------------
(* Signing in: the inductive invariant, in named parts.                    *)

(* A login that reached the provider has a browser, and a pending row that *)
(* ends PKCE_TTL after it began, until the row is taken or reclaimed.      *)
LoginsBegun ==
    \A l \in Logins : lpc[l] # "unused" =>
        /\ began[l] \in Browsers
        /\ pending[l] \in {Gone, started[l] + PKCE_TTL}

(* The cookie that binds a browser names a login begun in it. *)
CookiesBind ==
    \A b \in Browsers, l \in Logins : state_cookie[b] = l =>
        lpc[l] = "at_provider" /\ began[l] = b

(* A callback under way belongs to the browser its login was begun in. *)
OfItsLogin(c) ==
    /\ call[c].login \in Logins /\ call[c].browser \in Browsers
    /\ lpc[call[c].login] = "at_provider"
    /\ began[call[c].login] = call[c].browser

InTime(c) == call[c].at < started[call[c].login] + PKCE_TTL

CallsBound ==
    \A c \in Callbacks :
        /\ call[c].pc \in {"take"} \cup PastTake => OfItsLogin(c)
        /\ Authenticated(c) => OfItsLogin(c) /\ InTime(c)
        /\ Authenticated(c) => pending[call[c].login] = Gone
        /\ call[c].pc = "take" => call[c].email = NoEmail
        /\ call[c].pc \in {"create", "respond"} => call[c].email \in AllowedEmails

(* A session row is its callback's, and expires with it. *)
SignedIn(c) == Authenticated(c) /\ call[c].email \in AllowedEmails

SessionsOwned ==
    \A c \in Callbacks : sessions[c].exp # Gone =>
        /\ call[c].pc \in {"respond", "done"} /\ SignedIn(c)
        /\ sessions[c].exp = call[c].at + SESSION_TTL

(* The session a browser presents was signed in there, and what was served *)
(* was served under such a session, in its time.                           *)
CookiesOwned ==
    \A b \in Browsers : session_cookie[b] # NoCallback =>
        LET c == session_cookie[b]
        IN  call[c].pc = "done" /\ SignedIn(c) /\ call[c].browser = b

ServedOwned ==
    \A x \in served :
        /\ call[x[1]].pc = "done" /\ SignedIn(x[1]) /\ call[x[1]].browser = x[2]
        /\ x[3] < call[x[1]].at + SESSION_TTL

SignInInv ==
    /\ SignInTypeOK /\ CompletedOnce
    /\ LoginsBegun /\ CookiesBind /\ CallsBound
    /\ SessionsOwned /\ CookiesOwned /\ ServedOwned

-----------------------------------------------------------------------------
(* One lemma per step: what it disturbs is preserved. *)

LEMMA PutPendingInv ==
    ASSUME SignInInv, clock \in Nat, NEW l \in Logins, NEW b \in Browsers, put_pending(l, b)
    PROVE  SignInInv'
<1>1. SignInTypeOK'
    BY SignInAssumption DEF put_pending, SignInInv, SignInTypeOK
<1>2. LoginsBegun' /\ CookiesBind'
    BY DEF put_pending, SignInInv, SignInTypeOK, LoginsBegun, CookiesBind
<1>3. CompletedOnce' /\ CallsBound'
    BY DEF put_pending, SignInInv, CallsBound, CompletedOnce, Authenticated, OfItsLogin,
           InTime
<1>4. SessionsOwned' /\ CookiesOwned' /\ ServedOwned'
    BY DEF put_pending, SignInInv, SessionsOwned, CookiesOwned, ServedOwned,
           Authenticated, SignedIn
<1>. QED BY <1>1, <1>2, <1>3, <1>4 DEF SignInInv

LEMMA LoginRedirectInv ==
    ASSUME SignInInv, clock \in Nat, NEW l \in Logins, login_redirect(l)
    PROVE  SignInInv'
<1>1. SignInTypeOK'
    BY DEF login_redirect, SignInInv, SignInTypeOK
<1>2. LoginsBegun' /\ CookiesBind'
    BY DEF login_redirect, SignInInv, SignInTypeOK, LoginsBegun, CookiesBind
<1>3. CompletedOnce' /\ CallsBound'
    BY DEF login_redirect, SignInInv, CallsBound, CompletedOnce, Authenticated,
           OfItsLogin, InTime
<1>4. SessionsOwned' /\ CookiesOwned' /\ ServedOwned'
    BY DEF login_redirect, SignInInv, SessionsOwned, CookiesOwned, ServedOwned,
           Authenticated, SignedIn
<1>. QED BY <1>1, <1>2, <1>3, <1>4 DEF SignInInv

LEMMA CallbackArrivesInv ==
    ASSUME SignInInv, clock \in Nat, NEW c \in Callbacks, NEW b \in Browsers, NEW l \in Logins,
           CallbackArrives(c, b, l)
    PROVE  SignInInv'
<1>1. SignInTypeOK'
    BY DEF CallbackArrives, SignInInv, SignInTypeOK, Call, IdleCall, ArrivalTime
<1>2. LoginsBegun' /\ CookiesBind'
    BY DEF CallbackArrives, SignInInv, LoginsBegun, CookiesBind
<1>3. CompletedOnce' /\ CallsBound'
    BY DEF CallbackArrives, SignInInv, CookiesBind, CallsBound, CompletedOnce,
           Authenticated, PastTake, OfItsLogin, InTime, IdleCall, BoundState
<1>4. SessionsOwned' /\ CookiesOwned' /\ ServedOwned'
    BY DEF CallbackArrives, SignInInv, SessionsOwned, CookiesOwned, ServedOwned,
           Authenticated, SignedIn
<1>. QED BY <1>1, <1>2, <1>3, <1>4 DEF SignInInv

LEMMA TakePendingInv ==
    ASSUME SignInInv, clock \in Nat, NEW c \in Callbacks, take_pending(c)
    PROVE  SignInInv'
<1>. DEFINE l == call[c].login
<1>1. call[c] \in Call /\ call[c].pc = "take" /\ call[c].email = NoEmail /\ OfItsLogin(c)
    BY DEF SignInInv, SignInTypeOK, CallsBound, take_pending
<1>2. /\ \/ /\ LiveRow(pending[l], call[c].at)
            /\ call'[c] = [call[c] EXCEPT !.pc = "exchange"]
         \/ call'[c] = [IdleCall EXCEPT !.pc = "done"]
      /\ \A d \in Callbacks : d # c => call'[d] = call[d]
      /\ call' = [call EXCEPT ![c] = call'[c]]
      /\ pending' = [pending EXCEPT ![l] = Gone]
      /\ UNCHANGED <<sessions, state_cookie, session_cookie, lpc, began, started, served>>
    BY DEF take_pending, Ends, SignInInv, SignInTypeOK
<1>3. /\ call'[c] \in Call /\ call'[c].email = NoEmail
      /\ \/ /\ LiveRow(pending[l], call[c].at) /\ call'[c].pc = "exchange"
            /\ call'[c].login = l /\ call'[c].browser = call[c].browser
            /\ call'[c].at = call[c].at
         \/ call'[c].pc = "done"
    BY <1>1, <1>2 DEF Call, IdleCall
<1>4. SignInTypeOK'
    BY <1>2, <1>3 DEF SignInInv, SignInTypeOK
<1>5. LoginsBegun' /\ CookiesBind'
    BY <1>2 DEF SignInInv, LoginsBegun, CookiesBind
<1>6. CompletedOnce'
    BY <1>2, <1>3
       DEF SignInInv, CallsBound, CompletedOnce, Authenticated, PastTake, LiveRow
<1>7. CallsBound'
    BY <1>1, <1>2, <1>3
       DEF SignInInv, SignInTypeOK, LoginsBegun, CallsBound, Authenticated, PastTake,
           OfItsLogin, InTime, LiveRow
<1>8. SessionsOwned' /\ CookiesOwned' /\ ServedOwned'
    BY <1>1, <1>2
       DEF SignInInv, SignInTypeOK, SessionsOwned, CookiesOwned, ServedOwned,
           Authenticated, SignedIn
<1>. QED BY <1>4, <1>5, <1>6, <1>7, <1>8 DEF SignInInv

LEMMA ExchangeCodeInv ==
    ASSUME SignInInv, clock \in Nat, NEW c \in Callbacks, exchange_code(c)
    PROVE  SignInInv'
<1>1. call[c] \in Call /\ call[c].pc = "exchange" /\ OfItsLogin(c) /\ InTime(c)
    BY DEF SignInInv, SignInTypeOK, CallsBound, Authenticated, PastTake, exchange_code
<1>2. PICK e \in Emails :
         \/ /\ e \in AllowedEmails
            /\ call' = [call EXCEPT ![c].pc = "create", ![c].email = e]
         \/ call' = [call EXCEPT ![c] = [IdleCall EXCEPT !.pc = "done"]]
    BY DEF exchange_code, Ends
<1>3. /\ \/ e \in AllowedEmails /\ call'[c] = [call[c] EXCEPT !.pc = "create", !.email = e]
         \/ call'[c] = [IdleCall EXCEPT !.pc = "done"]
      /\ \A d \in Callbacks : d # c => call'[d] = call[d]
      /\ call' = [call EXCEPT ![c] = call'[c]]
      /\ UNCHANGED <<pending, sessions, state_cookie, session_cookie, lpc, began, started,
                     served>>
    BY <1>2 DEF exchange_code, SignInInv, SignInTypeOK
<1>4. /\ call'[c] \in Call
      /\ \/ /\ call'[c].pc = "create" /\ call'[c].email \in AllowedEmails
            /\ call'[c].login = call[c].login /\ call'[c].browser = call[c].browser
            /\ call'[c].at = call[c].at
         \/ call'[c].pc = "done" /\ call'[c].email = NoEmail
    <2>1. CASE call'[c] = [IdleCall EXCEPT !.pc = "done"]
        BY <2>1 DEF Call, IdleCall
    <2>2. CASE /\ e \in AllowedEmails
               /\ call'[c] = [call[c] EXCEPT !.pc = "create", !.email = e]
        <3>1. call'[c] \in Call
            BY <1>1, <2>2, SignInAssumption DEF Call
        <3>2. call'[c].pc = "create" /\ call'[c].email = e
            BY <1>1, <2>2 DEF Call
        <3>3. /\ call'[c].login = call[c].login /\ call'[c].browser = call[c].browser
              /\ call'[c].at = call[c].at
            BY <1>1, <2>2 DEF Call
        <3>. QED BY <2>2, <3>1, <3>2, <3>3
    <2>. QED BY <1>3, <2>1, <2>2
<1>5. SignInTypeOK'
    BY <1>3, <1>4 DEF SignInInv, SignInTypeOK
<1>6. LoginsBegun' /\ CookiesBind'
    BY <1>3 DEF SignInInv, LoginsBegun, CookiesBind
<1>7. CompletedOnce'
    BY <1>1, <1>3, <1>4 DEF SignInInv, CompletedOnce, Authenticated, PastTake
<1>8. CallsBound'
    BY <1>1, <1>3, <1>4
       DEF SignInInv, CallsBound, Authenticated, PastTake, OfItsLogin, InTime
<1>9. SessionsOwned' /\ CookiesOwned' /\ ServedOwned'
    BY <1>1, <1>3
       DEF SignInInv, SignInTypeOK, SessionsOwned, CookiesOwned, ServedOwned,
           Authenticated, SignedIn
<1>. QED BY <1>5, <1>6, <1>7, <1>8, <1>9 DEF SignInInv

LEMMA CreateSessionInv ==
    ASSUME SignInInv, clock \in Nat, NEW c \in Callbacks, create_session(c)
    PROVE  SignInInv'
<1>1. SignInTypeOK'
    BY SignInAssumption
       DEF create_session, SignInInv, SignInTypeOK, CallsBound, OfItsLogin, InTime,
           Call, Session
<1>2. LoginsBegun' /\ CookiesBind'
    BY DEF create_session, SignInInv, LoginsBegun, CookiesBind
<1>3. CompletedOnce' /\ CallsBound'
    BY DEF create_session, SignInInv, CallsBound, CompletedOnce, Authenticated,
           PastTake, OfItsLogin, InTime
<1>4. SessionsOwned' /\ CookiesOwned' /\ ServedOwned'
    BY DEF create_session, SignInInv, SignInTypeOK, CallsBound, SessionsOwned,
           CookiesOwned, ServedOwned, Authenticated, PastTake, SignedIn
<1>. QED BY <1>1, <1>2, <1>3, <1>4 DEF SignInInv

LEMMA CallbackRespondsInv ==
    ASSUME SignInInv, clock \in Nat, NEW c \in Callbacks, callback_responds(c)
    PROVE  SignInInv'
<1>1. SignInTypeOK'
    BY DEF callback_responds, SignInInv, SignInTypeOK, CallsBound, PastTake, OfItsLogin,
           Call
<1>2. LoginsBegun' /\ CookiesBind'
    BY NamesAssumption DEF callback_responds, SignInInv, LoginsBegun, CookiesBind
<1>3. CompletedOnce' /\ CallsBound'
    BY DEF callback_responds, SignInInv, CallsBound, CompletedOnce, Authenticated,
           PastTake, OfItsLogin, InTime
<1>4. SessionsOwned' /\ CookiesOwned' /\ ServedOwned'
    BY SignInAssumption, NamesAssumption
       DEF callback_responds, SignInInv, SignInTypeOK, CallsBound, SessionsOwned,
           CookiesOwned, ServedOwned, Authenticated, SignedIn
<1>. QED BY <1>1, <1>2, <1>3, <1>4 DEF SignInInv

LEMMA CallbackFailsInv ==
    ASSUME SignInInv, clock \in Nat, NEW c \in Callbacks, CallbackFails(c)
    PROVE  SignInInv'
<1>1. SignInTypeOK'
    BY SignInAssumption, NamesAssumption
       DEF CallbackFails, SignInInv, SignInTypeOK, LoginsBegun, CallsBound, Call,
           Session, NoSession, Gone
<1>2. LoginsBegun' /\ CookiesBind'
    BY DEF CallbackFails, SignInInv, LoginsBegun, CookiesBind
<1>3. CompletedOnce' /\ CallsBound'
    BY DEF CallbackFails, SignInInv, CallsBound, CompletedOnce, Authenticated, PastTake,
           OfItsLogin, InTime
<1>4. SessionsOwned' /\ CookiesOwned' /\ ServedOwned'
    BY SignInAssumption, NamesAssumption
       DEF CallbackFails, SignInInv, SessionsOwned, CookiesOwned, ServedOwned,
           Authenticated, SignedIn
<1>. QED BY <1>1, <1>2, <1>3, <1>4 DEF SignInInv

LEMMA AuthedInv ==
    ASSUME SignInInv, clock \in Nat, NEW b \in Browsers, authed(b)
    PROVE  SignInInv'
<1>1. SignInTypeOK'
    BY DEF authed, SignInInv, SignInTypeOK
<1>2. LoginsBegun' /\ CookiesBind'
    BY DEF authed, SignInInv, LoginsBegun, CookiesBind
<1>3. CompletedOnce' /\ CallsBound'
    BY DEF authed, SignInInv, CallsBound, CompletedOnce, Authenticated, OfItsLogin,
           InTime
<1>4. SessionsOwned' /\ CookiesOwned' /\ ServedOwned'
    BY DEF authed, SignInInv, SignInTypeOK, SessionsOwned, CookiesOwned, ServedOwned,
           Authenticated, SignedIn, LiveRow
<1>. QED BY <1>1, <1>2, <1>3, <1>4 DEF SignInInv

LEMMA LogoutInv ==
    ASSUME SignInInv, clock \in Nat, NEW b \in Browsers, logout(b)
    PROVE  SignInInv'
<1>1. /\ sessions' \in {sessions, [sessions EXCEPT ![session_cookie[b]] = NoSession]}
      /\ session_cookie' = [session_cookie EXCEPT ![b] = NoCallback]
      /\ UNCHANGED <<pending, state_cookie, lpc, began, started, call, served>>
    BY DEF logout
<1>2. SignInTypeOK'
    BY <1>1 DEF SignInInv, SignInTypeOK, Session, NoSession, Gone
<1>3. LoginsBegun' /\ CookiesBind' /\ CompletedOnce' /\ CallsBound' /\ ServedOwned'
    BY <1>1
       DEF SignInInv, LoginsBegun, CookiesBind, CallsBound, ServedOwned, CompletedOnce,
           Authenticated, OfItsLogin, InTime, SignedIn
<1>4. SessionsOwned'
    BY <1>1
       DEF SignInInv, SignInTypeOK, SessionsOwned, Authenticated, SignedIn, NoSession
<1>5. CookiesOwned'
    BY <1>1 DEF SignInInv, CookiesOwned, Authenticated, SignedIn
<1>. QED BY <1>2, <1>3, <1>4, <1>5 DEF SignInInv

LEMMA ReclaimInv ==
    ASSUME SignInInv, clock \in Nat, Reclaim
    PROVE  SignInInv'
<1>1. SignInTypeOK'
    BY SignInAssumption, NamesAssumption
       DEF Reclaim, SignInInv, SignInTypeOK, Session, NoSession, Gone, Call
<1>2. LoginsBegun' /\ CookiesBind'
    BY DEF Reclaim, SignInInv, SignInTypeOK, LoginsBegun, CookiesBind
<1>3. CompletedOnce' /\ CallsBound'
    BY DEF Reclaim, SignInInv, SignInTypeOK, CallsBound, CompletedOnce, Authenticated,
           OfItsLogin, InTime
<1>4. SessionsOwned' /\ CookiesOwned' /\ ServedOwned'
    BY DEF Reclaim, SignInInv, SignInTypeOK, SessionsOwned, CookiesOwned, ServedOwned,
           Authenticated, SignedIn, NoSession
<1>. QED BY <1>1, <1>2, <1>3, <1>4 DEF SignInInv

-----------------------------------------------------------------------------
(* The invariant is inductive, and what it is for.                         *)

LEMMA SignInInitially == SignInInit => SignInInv
<1>. SUFFICES ASSUME SignInInit PROVE SignInInv
    OBVIOUS
<1>1. SignInTypeOK
    BY DEF SignInInit, SignInTypeOK, Call, IdleCall
<1>2. LoginsBegun /\ CookiesBind /\ CookiesOwned /\ ServedOwned /\ SessionsOwned
    BY NamesAssumption
       DEF SignInInit, LoginsBegun, CookiesBind, CookiesOwned, ServedOwned,
           SessionsOwned, NoSession
<1>3. CallsBound /\ CompletedOnce
    BY DEF SignInInit, CallsBound, CompletedOnce, Authenticated, PastTake, IdleCall
<1>. QED BY <1>1, <1>2, <1>3 DEF SignInInv

LEMMA SignInQuiet ==
    ASSUME SignInInv, UNCHANGED signInVars
    PROVE  SignInInv'
BY DEF signInVars, SignInInv, SignInTypeOK, CompletedOnce, LoginsBegun, CookiesBind,
       CallsBound, SessionsOwned, CookiesOwned, ServedOwned, Authenticated, OfItsLogin,
       InTime, SignedIn

LEMMA SignInInductive ==
    ASSUME SignInInv, clock \in Nat, SignInNext
    PROVE  SignInInv'
<1>1. CASE \E l \in Logins : (\E b \in Browsers : put_pending(l, b)) \/ login_redirect(l)
    BY <1>1, PutPendingInv, LoginRedirectInv
<1>2. CASE \E c \in Callbacks : callback(c)
    BY <1>2, CallbackArrivesInv, TakePendingInv, ExchangeCodeInv, CreateSessionInv,
       CallbackRespondsInv, CallbackFailsInv DEF callback
<1>3. CASE \E b \in Browsers : authed(b) \/ logout(b)
    BY <1>3, AuthedInv, LogoutInv
<1>4. CASE Reclaim
    BY <1>4, ReclaimInv
<1>. QED BY <1>1, <1>2, <1>3, <1>4 DEF SignInNext

LEMMA ServedUnderSession == SignInInv => ServedRightly
BY DEF SignInInv, ServedOwned, SignedIn, CallsBound, OfItsLogin, InTime, ServedRightly,
       SignInTypeOK

-----------------------------------------------------------------------------
(* The two halves together.                                                *)

AdminInv == ArrivalTypeOK /\ ConsoleInv /\ SignInInv

(* A fault is injected only within the budget. *)
LEMMA FaultsKept ==
    ASSUME ArrivalTypeOK, UNCHANGED clock, NoFault \/ \E kind \in Faults : Fault(kind)
    PROVE  ArrivalTypeOK'
BY FaultAssumption DEF ArrivalTypeOK, NoFault, Fault

LEMMA ConsoleFaults ==
    ASSUME ConsoleInv, ConsoleNext
    PROVE  NoFault \/ \E kind \in Faults : Fault(kind)
<1>1. ASSUME NEW q \in Requests, SoundStep(q)
      PROVE  NoFault \/ \E kind \in Faults : Fault(kind)
    BY <1>1 DEF SoundStep, Arrive, Dies, SoundLoad, Load, LoadReturns, SoundWrite, WriteItem,
       SoundDocument, edge_read_modify_write, WriteConfig, SoundSchedule, set_start_time,
       ProbeRules, open_now, NoFault, Faults
<1>. QED BY <1>1, RequestSound DEF ConsoleNext, ScheduleFires, NoFault

LEMMA SignInFaults ==
    ASSUME SignInNext
    PROVE  NoFault \/ \E kind \in Faults : Fault(kind)
BY DEF SignInNext, put_pending, login_redirect, callback, CallbackArrives, take_pending,
       exchange_code, create_session, callback_responds, CallbackFails, authed, logout,
       Reclaim, NoFault, Faults

LEMMA AdminInit == Init => AdminInv
BY ConsoleInitially, SignInInitially, ClockAssumption, FaultAssumption
   DEF Init, ArrivalInit, ArrivalTypeOK, AdminInv

LEMMA AdminNext == AdminInv /\ [Next]_vars => AdminInv'
<1>. SUFFICES ASSUME AdminInv, [Next]_vars PROVE AdminInv'
    OBVIOUS
<1>1. ArrivalTypeOK /\ ConsoleInv /\ SignInInv /\ clock \in Nat
    BY ClockAssumption DEF AdminInv, ArrivalTypeOK
<1>2. CASE ConsoleStep
    <2>1. ConsoleInv'
        BY <1>1, <1>2, ConsoleInductive DEF ConsoleStep
    <2>2. SignInInv' /\ ArrivalTypeOK'
        BY <1>1, <1>2, SignInQuiet, ConsoleFaults, FaultsKept DEF ConsoleStep
    <2>. QED BY <2>1, <2>2 DEF AdminInv
<1>3. CASE SignInStep
    <2>1. SignInInv'
        BY <1>1, <1>3, SignInInductive DEF SignInStep
    <2>2. ConsoleInv' /\ ArrivalTypeOK'
        BY <1>1, <1>3, ConsoleQuiet, SignInFaults, FaultsKept DEF SignInStep
    <2>. QED BY <2>1, <2>2 DEF AdminInv
<1>4. CASE ClockStep \/ UNCHANGED vars
    <2>1. UNCHANGED consoleVars /\ UNCHANGED signInVars
        BY <1>4 DEF ClockStep, vars
    <2>2. ConsoleInv' /\ SignInInv'
        BY <1>1, <2>1, ConsoleQuiet, SignInQuiet
    <2>3. ArrivalTypeOK'
        BY <1>1, <1>4, ClockAssumption DEF ClockStep, Tick, vars, ArrivalTypeOK
    <2>. QED BY <2>2, <2>3 DEF AdminInv
<1>. QED BY <1>2, <1>3, <1>4 DEF Next

-----------------------------------------------------------------------------
(* Type correctness of the item, the edge's document, the schedule, the    *)
(* sessions and everything in flight.                                      *)
THEOREM AdminTypeCorrect == Spec => []TypeOK
<1>1. AdminInv => TypeOK
    BY DEF AdminInv, TypeOK, ConsoleInv, SignInInv
<1>. QED BY <1>1, AdminInit, AdminNext, PTL DEF Spec

(* apply_phase: Active means opened, whatever a stale load, a crossed move *)
(* or a recovery out of maintenance saw.                                   *)
THEOREM ActiveMeansOpenedCorrect == Spec => []ActiveMeansOpened
<1>1. AdminInv => ActiveMeansOpened
    BY DEF AdminInv, ConsoleInv
<1>. QED BY <1>1, AdminInit, AdminNext, PTL DEF Spec

(* transition_allowed is judged on a load that may be stale; the phase     *)
(* still never moves along a step the lifecycle does not have.             *)
THEOREM PhaseWalkCorrect == Spec => PhaseWalk
<1>1. AdminInv /\ [Next]_vars => [transition_allowed(item.phase, item'.phase)]_consoleVars
    BY WalkStep DEF AdminInv, Next, ConsoleStep, SignInStep, ClockStep, vars
<1>. QED BY <1>1, AdminInit, AdminNext, PTL DEF Spec, PhaseWalk

(* STAMP_PREDICATE: two debounced actions that landed closer together than *)
(* the window had a lifecycle move between them that set the stamp back,   *)
(* which set_phase and force_maintenance alone can do.                     *)
THEOREM DebounceUnlessRewoundCorrect == Spec => []DebounceUnlessRewound
<1>1. AdminInv => DebounceUnlessRewound
    BY DEF AdminInv, ConsoleInv
<1>. QED BY <1>1, AdminInit, AdminNext, PTL DEF Spec

(* edge_read_modify_write: each field of the document changes only by a    *)
(* request that was asked to change it, retries and lost answers included. *)
THEOREM EdgeFieldsKeptCorrect == Spec => EdgeFieldsKept
<1>1. AdminInv /\ [Next]_vars =>
        [ /\ edge'.fail_open_until # edge.fail_open_until =>
                \E q \in Requests : Writes(q, {"fail_open", "recover"}) /\ ~Writes(q, {"fail_open", "recover"})'
          /\ edge'.rules # edge.rules =>
                \E q \in Requests : Writes(q, {"set_rules"}) /\ ~Writes(q, {"set_rules"})'
          /\ edge'.bind_ip # edge.bind_ip =>
                \E q \in Requests : Writes(q, {"set_ip_binding"}) /\ ~Writes(q, {"set_ip_binding"})'
        ]_consoleVars
    <2>1. ASSUME AdminInv, ConsoleStep
          PROVE  /\ edge'.fail_open_until # edge.fail_open_until =>
                       \E q \in Requests : /\ Writes(q, {"fail_open", "recover"})
                                           /\ ~Writes(q, {"fail_open", "recover"})'
                 /\ edge'.rules # edge.rules =>
                       \E q \in Requests : Writes(q, {"set_rules"}) /\ ~Writes(q, {"set_rules"})'
                 /\ edge'.bind_ip # edge.bind_ip =>
                       \E q \in Requests :
                          Writes(q, {"set_ip_binding"}) /\ ~Writes(q, {"set_ip_binding"})'
        BY <2>1, FieldsStep DEF AdminInv, ConsoleStep
    <2>2. AdminInv /\ [Next]_vars => ConsoleStep \/ UNCHANGED consoleVars
        BY DEF Next, SignInStep, ClockStep, vars
    <2>. QED BY <2>1, <2>2
<1>. QED BY <1>1, AdminInit, AdminNext, PTL DEF Spec, EdgeFieldsKept

(* RULES_WRITE_CEILING: fail-open is never refused for the document's      *)
(* size, whatever was added to it after a ruleset was sized.               *)
THEOREM FailOpenFitsCorrect == Spec => []FailOpenFits
<1>1. AdminInv => FailOpenFits
    BY DeadlineFits DEF AdminInv
<1>. QED BY <1>1, AdminInit, AdminNext, PTL DEF Spec

(* take_pending: a login is completed at most once. *)
THEOREM CompletedOnceCorrect == Spec => []CompletedOnce
<1>1. AdminInv => CompletedOnce
    BY DEF AdminInv, SignInInv
<1>. QED BY <1>1, AdminInit, AdminNext, PTL DEF Spec

(* authed: whoever is served signed in, in the browser they began in, in   *)
(* time and as somebody on the allowlist.                                  *)
THEOREM ServedRightlyCorrect == Spec => []ServedRightly
<1>1. AdminInv => ServedRightly
    BY ServedUnderSession DEF AdminInv
<1>. QED BY <1>1, AdminInit, AdminNext, PTL DEF Spec

-----------------------------------------------------------------------------
(* What holds of the two stores until two requests cross.                  *)

AdminOrdered == AdminInv /\ DeadlinesOrdered /\ StartsOrdered

LEMMA AdminOrderedInit == Init => AdminOrdered
BY AdminInit, OrderedInitially DEF Init, AdminOrdered

LEMMA AdminOrderedNext == AdminOrdered /\ [Next]_vars => AdminOrdered'
<1>. SUFFICES ASSUME AdminOrdered, [Next]_vars PROVE AdminOrdered'
    OBVIOUS
<1>1. AdminInv' /\ OrderedInv /\ clock \in Nat
    BY AdminNext, ClockAssumption DEF AdminOrdered, AdminInv, ArrivalTypeOK, OrderedInv
<1>2. CASE ConsoleStep
    BY <1>1, <1>2, OrderedNext DEF ConsoleStep, OrderedInv, AdminOrdered
<1>3. CASE SignInStep \/ ClockStep \/ UNCHANGED vars
    BY <1>1, <1>3, OrderedQuiet DEF SignInStep, ClockStep, vars, OrderedInv, AdminOrdered
<1>. QED BY <1>2, <1>3 DEF Next

(* apply_fail_open and apply_recover: while the item says fail-open, the   *)
(* edge lets everybody pass, whatever fails or dies between the two        *)
(* writes, in every behaviour and up to the first request that crosses     *)
(* another: that changes a deadline before the last such request is        *)
(* through, or asks for one before the deadline in force.                  *)
THEOREM StoppedOnlyWhileOpenCorrect == Spec => []StoppedOnlyWhileOpenUncrossed
<1>1. AdminOrdered => StoppedOnlyWhileOpenUncrossed
    BY ClockAssumption
       DEF AdminOrdered, AdminInv, ArrivalTypeOK, ConsoleInv, ConsoleTypeOK, ControlState,
           GateConfig, DeadlinesOrdered, EdgeOutlasts, StoppedOnlyWhileOpenUncrossed,
           StoppedOnlyWhileOpen
<1>. QED BY <1>1, AdminOrderedInit, AdminOrderedNext, PTL DEF Spec

(* apply_start_time: a countdown is shown only over a schedule that is     *)
(* armed for some time, its own or another, or has fired, whatever fails   *)
(* or dies between the two writes, in every behaviour and up to the first  *)
(* change of the start that begins before the last one is through.         *)
THEOREM AnnouncementHasScheduleCorrect == Spec => []AnnouncementHasSchedule
<1>1. AdminOrdered => AnnouncementHasSchedule
    BY DEF AdminOrdered, StartsOrdered, ScheduleOutlasts, AnnouncementHasSchedule
<1>. QED BY <1>1, AdminOrderedInit, AdminOrderedNext, PTL DEF Spec
=============================================================================
