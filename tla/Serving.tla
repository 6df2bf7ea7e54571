------------------------------- MODULE Serving ------------------------------
(***************************************************************************)
(* The half of the Counters item that governs admission, shared by the     *)
(* controller, generate_token and the operator.  Time is counted in        *)
(* controller intervals (INTERVAL_SECS); an epoch is kept as the number of *)
(* intervals still to go, so that natural expiry is a step of the clock.   *)
(***************************************************************************)
EXTENDS Line

CONSTANTS
    Rates,             \* target releases per interval the operator may set
    FailOpenTicks      \* the longest fail-open window, in intervals

ASSUME RatesAssumption == Rates \subseteq Nat \ {0} /\ Rates # {}
ASSUME FailOpenAssumption == FailOpenTicks \in Nat

VARIABLES
    serving_counter,   \* the cursor: a position below it may be admitted
    stored_control,    \* the operator's stored override
    fail_open_left,    \* intervals until fail_open_until; 0: not in force
    target_rate,       \* the operator's target
    arrivals           \* the sum of the arrivals shards

controlVars == <<stored_control, fail_open_left, target_rate>>

ServingTypeOK ==
    /\ serving_counter \in Nat
    /\ stored_control \in {"open", "paused"}
    /\ fail_open_left \in 0 .. FailOpenTicks
    /\ target_rate \in Rates
    /\ arrivals \in Nat

ServingInit ==
    /\ serving_counter = 0
    /\ stored_control = "open"
    /\ fail_open_left = 0
    /\ target_rate \in Rates
    /\ arrivals = 0

(* wr_common::resolve: fail-open overrides whatever is stored.  The mutant *)
(* forgets it.                                                             *)
ResolveStored == stored_control

Resolve == IF fail_open_left > 0 THEN "fail_open" ELSE stored_control

(* Both gates of run_pass and of decide. *)
Admitting == phase = "active" /\ Resolve = "open"

-----------------------------------------------------------------------------
(* The operator's writes, each guarded on the value it replaces; the       *)
(* debounce only makes them rarer.                                         *)

SetStoredControl ==
    /\ stored_control' = IF stored_control = "open" THEN "paused" ELSE "open"
    /\ UNCHANGED <<fail_open_left, target_rate>>

SetFailOpenUntil ==
    /\ fail_open_left' \in 0 .. FailOpenTicks      \* 0: recover
    /\ UNCHANGED <<stored_control, target_rate>>

SetRate ==
    /\ target_rate' \in Rates
    /\ UNCHANGED <<stored_control, fail_open_left>>

OperatorNext == SetStoredControl \/ SetFailOpenUntil \/ SetRate
=============================================================================
