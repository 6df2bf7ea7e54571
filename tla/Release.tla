------------------------------- MODULE Release ------------------------------
(***************************************************************************)
(* compute_release: how far one controller pass moves the cursor.  The     *)
(* no-show rate, an f64 in [0, 1], is kept in tenths; NoRate is the state  *)
(* before the first measurement.                                           *)
(***************************************************************************)
EXTENDS Integers

CONSTANT STALE         \* intervals after which the prior pass is stale (2)

ASSUME StaleAssumption == STALE \in Nat

NoRate == -1
Tenths == 0 .. 10

Least(a, b) == IF a <= b THEN a ELSE b
Most(a, b) == IF a >= b THEN a ELSE b
SaturatingSub(a, b) == Most(a - b, 0)

(* target / (1 - smoothed), at most twice the target, to the nearest. *)
BoundedRelease(target, smoothed) ==
    IF smoothed >= 10 THEN 2 * target
    ELSE Least((20 * target + (10 - smoothed)) \div (2 * (10 - smoothed)), 2 * target)

(* The people the cursor passed last interval; position 0 is not counted. *)
ReleasedLast(in) == SaturatingSub(in.serving, Most(in.last_serving, 1))

(* Nothing was released, or the baselines froze: nothing to measure. *)
Unmeasurable(in) == ReleasedLast(in) = 0 \/ in.elapsed >= STALE

(* One minus the arrival fraction, clamped; the mutant does not clamp it,  *)
(* so that stragglers of earlier intervals make it negative.               *)
ObservedNoShowUnclamped(in, total) ==
    10 - (10 * SaturatingSub(total, in.last_arrivals)) \div ReleasedLast(in)

ObservedNoShow(in, total) ==
    10 - (10 * Least(SaturatingSub(total, in.last_arrivals), ReleasedLast(in)))
             \div ReleasedLast(in)

Smoothed(in, total) ==
    IF Unmeasurable(in) THEN Most(in.rate, 0)
    ELSE IF in.rate = NoRate THEN ObservedNoShow(in, total)
    ELSE (3 * ObservedNoShow(in, total) + 7 * in.rate) \div 10

Asked(in, total) ==
    IF Unmeasurable(in) THEN in.target
                        ELSE BoundedRelease(in.target, Smoothed(in, total))

(* The new cursor: never past the end of the line, never backwards.  The   *)
(* mutants bank credit past the end, and stop one short of it.             *)
NextServingUncapped(in, total) == in.serving + Asked(in, total)

NextServingShort(in, total) ==
    Most(Least(in.serving + Asked(in, total), in.queue), in.serving)

NextServing(in, total) ==
    Most(Least(in.serving + Asked(in, total), in.queue + 1), in.serving)

ComputeRelease(in, total) ==
    [next     |-> NextServing(in, total),
     expected |-> in.serving,
     total    |-> total,
     rate     |-> Smoothed(in, total)]
=============================================================================
