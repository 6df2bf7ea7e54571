---------------------------- MODULE ControlItem -----------------------------
(***************************************************************************)
(* The event's Counters item as the console reads and writes it, and the   *)
(* guards its writes carry.  Times are ticks of a clock; a request's       *)
(* arrival instant both judges the debounce and stamps the write.          *)
(***************************************************************************)
EXTENDS Arrival

CONSTANT DEBOUNCE      \* the debounce window, in ticks (2 s)

ASSUME DebounceAssumption == DEBOUNCE \in Nat

VARIABLES
    item,              \* the Counters item
    before             \* the item before its last write

Phases == {"idle", "pre_queue", "active", "post_event", "maintenance"}
Controls == {"open", "paused"}

NoStamp == -1          \* last_action_epoch_ms is absent
NoStart == 0           \* starts_at is absent

(* ControlState: what the console's decisions read. *)
ControlState ==
    [phase : Phases, opened : BOOLEAN, stored_control : Controls,
     target_rate : Nat, fail_open_until : Nat, starts_at : Nat,
     last_action_ms : Nat \cup {NoStamp}]

(* DynamoStore::load is an eventually consistent read, which may return    *)
(* the item as it was before its last write.                               *)
LoadReturns(state) ==
    \/ state = item /\ NoFault
    \/ state = before /\ state # item /\ Fault("stale")

(* The phases the dropdown and the recovery path may move between. *)
transition_allowed(from, to) ==
    \/ from = to \/ to = "maintenance" \/ from = "maintenance"
    \/ <<from, to>> \in {<<"idle", "pre_queue">>, <<"pre_queue", "active">>,
                         <<"active", "post_event">>}

(* debounce_check, in the process: a stamp in the future is no prior       *)
(* action and does not count.                                              *)
TooFast(state, now) ==
    state.last_action_ms # NoStamp /\ now - state.last_action_ms \in 0 .. DEBOUNCE - 1

-----------------------------------------------------------------------------
(* The conditions the writes carry. *)

(* DEBOUNCE_PREDICATE, inclusive at the cutoff. *)
DebounceGuard(now) ==
    item.last_action_ms = NoStamp \/ item.last_action_ms <= now - DEBOUNCE

(* STAMP_PREDICATE; the mutant stamps over a newer action. *)
StampUnguarded(now) == now >= 0

StampGuard(now) == item.last_action_ms = NoStamp \/ item.last_action_ms <= now

(* phase = :from; the mutant trusts the phase the request loaded. *)
PhaseUnguarded(from) == from \in Phases

PhaseGuard(from) == item.phase = from

-----------------------------------------------------------------------------
(* The writes, each one UpdateItem; now is the request's arrival. *)

Stamped(i, now) == [i EXCEPT !.last_action_ms = now]

(* What one guarded UpdateItem does: it lands, or is refused as a Conflict. *)
Update(guard, new) == [landed |-> guard, item |-> IF guard THEN new ELSE item]

set_phase(from, to, now) ==
    Update(PhaseGuard(from), Stamped([item EXCEPT !.phase = to], now))

force_maintenance(from, now) ==
    Update(PhaseGuard(from), Stamped([item EXCEPT !.phase = "maintenance"], now))

set_rate(expected, rate, now) ==
    Update(item.target_rate = expected /\ DebounceGuard(now),
           Stamped([item EXCEPT !.target_rate = rate], now))

(* The text itself is read back by nothing but the waiting page. *)
set_message(now) == Update(DebounceGuard(now), Stamped(item, now))

set_stored_control(from, to, now) ==
    Update(item.stored_control = from /\ DebounceGuard(now),
           Stamped([item EXCEPT !.stored_control = to], now))

set_starts_at(at, now) ==
    Update(DebounceGuard(now), Stamped([item EXCEPT !.starts_at = at], now))

(* The happy path of set_fail_open_until, and its fallback on a Conflict,  *)
(* which writes the deadline without the stamp.                            *)
set_fail_open_until(until, now) ==
    Update(StampGuard(now), Stamped([item EXCEPT !.fail_open_until = until], now))

set_fail_open_until_fallback(until) ==
    Update(TRUE, [item EXCEPT !.fail_open_until = until])

(* The audit stamps of an effect that landed elsewhere. *)
stamp_action(now) == Update(StampGuard(now), Stamped(item, now))

set_rules_audit(now) == Update(StampGuard(now), Stamped(item, now))

(* The open, which the schedule and the console both invoke: one update    *)
(* guarded on the seed being absent and the phase being pre_queue.         *)
open_event ==
    Update(~item.opened /\ item.phase = "pre_queue",
           [item EXCEPT !.opened = TRUE, !.phase = "active"])
=============================================================================
