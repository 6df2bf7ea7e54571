------------------------------- MODULE Arrival -------------------------------
(***************************************************************************)
(* What every request to the admin Lambda shares: the clock its arrival is *)
(* stamped from, once, before anything is awaited, and the calls that fail *)
(* on it afterwards.                                                       *)
(***************************************************************************)
EXTENDS Integers

CONSTANTS
    MaxClock,          \* bound: the last tick
    FaultKinds,        \* which faults the environment may inject
    MaxFaults          \* how many of them

Faults == {"dies", "stale", "put_lost", "put_error"}

ASSUME ClockAssumption == MaxClock \in Nat
ASSUME FaultAssumption == FaultKinds \subseteq Faults /\ MaxFaults \in Nat

VARIABLES
    clock,
    faults             \* faults injected so far

ArrivalTypeOK == clock \in 0 .. MaxClock /\ faults \in 0 .. MaxFaults

ArrivalInit == clock = 0 /\ faults = 0

(* ArrivalTime: the instant a request starting now carries to its end. *)
ArrivalTime == clock

(* A fault of one kind is injected; NoFault: the call simply succeeds. *)
Fault(kind) == kind \in FaultKinds /\ faults < MaxFaults /\ faults' = faults + 1
NoFault == UNCHANGED faults

Tick == clock < MaxClock /\ clock' = clock + 1 /\ UNCHANGED faults
=============================================================================
