---------------------------- MODULE ReleaseLoop -----------------------------
(* compute_release in its loop: each pass is fed the baselines the pass    *)
(* before it wrote, any number of arrivals and any interval since, while   *)
(* the line grows.                                                         *)
EXTENDS Release

CONSTANTS Targets, MaxLine, MaxArrivals

ASSUME TargetsAssumption == Targets \subseteq Nat

VARIABLES in, total

releaseVars == <<in, total>>

ReleaseInit(lines, targets) ==
    /\ in \in [serving : {0}, last_serving : {0}, last_arrivals : {0},
               queue : lines, target : targets, rate : {NoRate},
               elapsed : {STALE}]
    /\ total = 0

Pass ==
    LET d == ComputeRelease(in, total)
    IN  /\ total' \in 0 .. MaxArrivals
        /\ in' \in [serving : {d.next}, last_serving : {d.expected},
                    last_arrivals : {d.total}, queue : in.queue .. MaxLine,
                    target : Targets, rate : {d.rate}, elapsed : 0 .. STALE]

(* The correction of compute_release is bounded and points the right way:  *)
(* between the target and twice the target is asked for, whatever was      *)
(* measured; the smoothed rate stays between the old one and the observed  *)
(* one; and had more people arrived, no more would be released.            *)
CorrectionSound ==
    LET s == Smoothed(in, total)
    IN  /\ s \in Tenths
        /\ in.target <= Asked(in, total) /\ Asked(in, total) <= 2 * in.target
        /\ ~Unmeasurable(in) /\ in.rate # NoRate =>
              LET o == ObservedNoShow(in, total)
              IN  Least(o, in.rate) <= s /\ s <= Most(o, in.rate)
        /\ \A more \in total .. MaxArrivals :
              NextServing(in, more) <= NextServing(in, total)
=============================================================================
