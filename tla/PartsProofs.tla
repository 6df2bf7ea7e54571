----------------------------- MODULE PartsProofs ----------------------------
(***************************************************************************)
(* Proofs about the parts that stand alone: the edge gate, compute_release *)
(* in its loop, the readiness panel and the load harness, each from any    *)
(* inputs of its types and for as long as it runs.                         *)
(***************************************************************************)
EXTENDS Gate, ReleaseLoop, Readiness, Harness, FiniteSetTheorems, TLAPS

-----------------------------------------------------------------------------
(* The gate.                                                               *)

GateConfigs == [dormant : BOOLEAN, enforce_from : Nat, fail_open_until : Nat, bind : BOOLEAN]

(* A refusal for her network is owed an answer of the page: it goes back   *)
(* only a window after it last did, and until then the visitor is with it. *)
Owed == at \in {"page", "stopped"} /\ reason = "ip"

BounceInv ==
    /\ time \in Nat /\ ip_rebind \in Int
    /\ refusals \in Seq(Nat)
    /\ \A k \in 1 .. Len(refusals) : refusals[k] <= time
    /\ Owed =>
         /\ refusals # <<>>
         /\ Len(refusals) > 1 => ip_rebind >= refusals[Len(refusals) - 1]
    /\ ~Owed =>
         /\ refusals # <<>> => ip_rebind >= refusals[Len(refusals)]
         /\ Len(refusals) > 1 => ip_rebind >= refusals[Len(refusals) - 1] + IP_REBIND_WINDOW
    /\ ip_rebind <= time
    /\ at = "stopped" => reason = "ip"
    /\ BounceBounded

(* The third refusal waits for the page to have gone back, a window after  *)
(* it went back from the first.                                            *)
LEMMA RefusedAgain ==
    ASSUME BounceInv, ~Owed, refusals' = Append(refusals, time), time' = time,
           UNCHANGED ip_rebind, at' = "page", reason' = "ip"
    PROVE  BounceInv'
<1>. DEFINE n == Len(refusals)
<1>1. /\ n \in Nat /\ refusals' \in Seq(Nat) /\ Len(refusals') = n + 1
      /\ refusals'[n + 1] = time
      /\ \A k \in 1 .. n : refusals'[k] = refusals[k]
    BY DEF BounceInv
<1>2. \A k \in 1 .. Len(refusals') : refusals'[k] <= time'
    BY <1>1 DEF BounceInv
<1>3. Owed' /\ refusals' # <<>>
    BY <1>1 DEF Owed
<1>4. n + 1 > 1 => ip_rebind' >= refusals'[n]
    BY <1>1 DEF BounceInv
<1>5. ASSUME NEW k \in 1 .. (n + 1) - 2
      PROVE  refusals'[k + 2] - refusals'[k] >= IP_REBIND_WINDOW
    <2>0. k \in 1 .. n
        BY <1>1, <1>5
    <2>1. refusals'[k] = refusals[k] /\ refusals[k] \in Nat
        <3>1. refusals \in Seq(Nat)
            BY DEF BounceInv
        <3>. QED BY <1>1, <2>0, <3>1
    <2>2. CASE k = n - 1
        <3>1. ip_rebind >= refusals[k] + IP_REBIND_WINDOW
            BY <1>5, <2>2 DEF BounceInv
        <3>2. refusals'[k + 2] = time
            BY <1>1, <2>2
        <3>3. time \in Nat /\ ip_rebind \in Int /\ ip_rebind <= time
            BY DEF BounceInv
        <3>. QED BY <2>1, <3>1, <3>2, <3>3 DEF IP_REBIND_WINDOW
    <2>3. CASE k # n - 1
        <3>1. k \in 1 .. n - 2 /\ k + 2 \in 1 .. n
            BY <1>1, <1>5, <2>3
        <3>. QED BY <1>1, <2>1, <3>1 DEF BounceInv, BounceBounded
    <2>. QED BY <2>2, <2>3
<1>6. BounceBounded'
    BY <1>1, <1>5 DEF BounceBounded
<1>7. ip_rebind' \in Int /\ time' \in Nat /\ ip_rebind' <= time'
    BY DEF BounceInv
<1>. QED BY <1>1, <1>2, <1>3, <1>4, <1>6, <1>7 DEF BounceInv

LEMMA BounceNext ==
    ASSUME BounceInv, [GateNext]_gateVars
    PROVE  BounceInv'
<1>1. CASE Request
    <2>1. CASE reason' = "ip" /\ refusals' # refusals
        BY <1>1, <2>1, RefusedAgain DEF Request, Owed
    <2>2. CASE UNCHANGED refusals /\ ~Owed /\ ~Owed' /\ at' # "stopped"
        BY <1>1, <2>2 DEF Request, BounceInv, BounceBounded
    <2>3. refusals' # refusals => reason' = "ip"
        BY <1>1 DEF Request
    <2>4. handler = "ip" /\ at' = "page" => refusals' # refusals
        <3>1. Append(refusals, time) # refusals
            <4>1. Len(Append(refusals, time)) # Len(refusals)
                BY DEF BounceInv
            <4>. QED BY <4>1
        <3>. QED BY <1>1, <3>1 DEF Request
    <2>5. ~Owed /\ at' # "stopped" /\ (refusals' = refusals => ~Owed')
        BY <1>1, <2>4 DEF Request, Owed
    <2>. QED BY <2>1, <2>2, <2>3, <2>5
<1>2. CASE redeem /\ reason # "ip"
    BY <1>2 DEF redeem, BounceInv, BounceBounded, Owed
<1>3. CASE redeem /\ reason = "ip"
    <2>1. Owed /\ UNCHANGED <<time, refusals, reason>>
        BY <1>3 DEF redeem, Owed
    <2>2. CASE UNCHANGED ip_rebind /\ at' = "stopped"
        BY <1>3, <2>1, <2>2 DEF BounceInv, BounceBounded, Owed
    <2>3. CASE at' = "leaving" /\ time - ip_rebind >= IP_REBIND_WINDOW /\ ip_rebind' = time
        <3>1. ~Owed'
            BY <2>3 DEF Owed
        <3>2. refusals # <<>> => Len(refusals) \in 1 .. Len(refusals)
            BY DEF BounceInv
        <3>3. refusals # <<>> => ip_rebind' >= refusals[Len(refusals)]
            BY <2>3, <3>2 DEF BounceInv
        <3>4. Len(refusals) > 1 => refusals[Len(refusals) - 1] \in Nat
            BY DEF BounceInv
        <3>5. Len(refusals) > 1 =>
                ip_rebind' >= refusals[Len(refusals) - 1] + IP_REBIND_WINDOW
            BY <2>1, <2>3, <3>4 DEF BounceInv, IP_REBIND_WINDOW
        <3>. QED BY <2>1, <2>3, <3>1, <3>3, <3>5 DEF BounceInv, BounceBounded
    <2>. QED BY <1>3, <2>2, <2>3 DEF redeem, Remembered
<1>4. CASE Reload
    BY <1>4 DEF Reload, BounceInv, BounceBounded, Owed
<1>5. CASE Roam \/ Reconfigure \/ UNCHANGED gateVars
    BY <1>5 DEF Roam, Reconfigure, gateVars, BounceInv, BounceBounded, Owed
<1>6. CASE ClockTicks
    <2>1. /\ UNCHANGED <<ip_rebind, refusals, at, reason>> /\ time' = time + 1
        BY <1>6 DEF ClockTicks
    <2>2. \A k \in 1 .. Len(refusals) : refusals[k] \in Nat
        BY DEF BounceInv
    <2>3. time' \in Nat /\ ip_rebind <= time' /\ \A k \in 1 .. Len(refusals) : refusals[k] <= time'
        <3>1. /\ time \in Nat /\ ip_rebind \in Int /\ ip_rebind <= time
              /\ \A k \in 1 .. Len(refusals) : refusals[k] <= time
            BY DEF BounceInv
        <3>2. \A k \in 1 .. Len(refusals) : refusals[k] <= time + 1
            BY <2>2, <3>1
        <3>. QED BY <2>1, <3>1, <3>2
    <2>4. Owed' <=> Owed
        BY <2>1 DEF Owed
    <2>. QED BY <2>1, <2>3, <2>4 DEF BounceInv, BounceBounded
<1>. QED BY <1>1, <1>2, <1>3, <1>4, <1>5, <1>6 DEF GateNext

(* redeem, "stop, rather than bounce between the gate and this page":      *)
(* however the visitor's network, the operator's settings and her reloads  *)
(* go, and whatever cookie she came with, any three refusals for her       *)
(* network span a window.                                                  *)
THEOREM BounceBoundedCorrect ==
    ASSUME NEW Configs, NEW Skews, NEW Networks, NEW Cookies
    PROVE  GateInit(Configs, Skews, Networks, Cookies) /\ [][GateNext]_gateVars
             => []BounceBounded
<1>1. GateInit(Configs, Skews, Networks, Cookies) => BounceInv
    BY DEF GateInit, BounceInv, BounceBounded, Owed, Never
<1>2. BounceInv => BounceBounded
    BY DEF BounceInv
<1>. QED BY <1>1, <1>2, BounceNext, PTL

(* A session carries the network it was minted on, bound or not, whenever  *)
(* that is known.                                                          *)
Tagged(c) == c.network # Unknown => c.tag = c.network

SessionInv ==
    /\ cfg \in GateConfigs /\ time \in Nat /\ skew \in Int /\ viewer # Unknown
    /\ cookie = NoCookie \/ (cookie.expires \in Nat /\ Tagged(cookie))

LEMMA SessionNext ==
    ASSUME SessionInv, [GateNext]_gateVars
    PROVE  SessionInv'
<1>1. CASE Request \/ Roam \/ UNCHANGED gateVars
    BY <1>1, ViewersAssumption DEF SessionInv, Request, Roam, gateVars
<1>2. CASE redeem
    <2>1. PICK address \in {viewer, Unknown} : cookie' = Minted(address)
        BY <1>2 DEF redeem
    <2>2. cookie'.expires \in Nat /\ Tagged(cookie')
        BY <2>1 DEF SessionInv, Minted, MintedTag, SESSION_TTL, Tagged
    <2>. QED BY <1>2, <2>2 DEF SessionInv, redeem, Tagged
<1>3. CASE Reconfigure
    <2>1. cfg' \in GateConfigs
        <3>1. /\ cfg.dormant \in BOOLEAN /\ cfg.enforce_from \in Nat
              /\ cfg.fail_open_until \in Nat /\ cfg.bind \in BOOLEAN
              /\ cfg = [dormant |-> cfg.dormant, enforce_from |-> cfg.enforce_from,
                        fail_open_until |-> cfg.fail_open_until, bind |-> cfg.bind]
            BY DEF SessionInv, GateConfigs
        <3>2. \E d, b \in BOOLEAN, f \in Nat :
                cfg' = [dormant |-> d, enforce_from |-> cfg.enforce_from,
                        fail_open_until |-> f, bind |-> b]
            <4>1. (~cfg.dormant) \in BOOLEAN /\ (~cfg.bind) \in BOOLEAN
                BY Zenon
            <4>2. time + 1 \in Nat /\ 0 \in Nat
                BY DEF SessionInv
            <4>. QED BY <1>3, <3>1, <4>1, <4>2, Zenon DEF Reconfigure
        <3>. QED BY <3>1, <3>2 DEF GateConfigs
    <2>. QED BY <1>3, <2>1 DEF SessionInv, Reconfigure
<1>4. CASE ClockTicks
    BY <1>4 DEF SessionInv, ClockTicks, Tagged
<1>5. CASE Reload
    BY <1>5 DEF SessionInv, Reload, Tagged
<1>. QED BY <1>1, <1>2, <1>3, <1>4, <1>5 DEF GateNext

(* lib.rs, "turning IP binding on also covers sessions minted before it    *)
(* was switched on": the gate sends a visitor with a session of this event *)
(* back to the page only when it has expired by its clock, or is used,     *)
(* while bound, from another network than the one known to have redeemed   *)
(* it.                                                                     *)
THEOREM NeverTurnedAwayCorrect ==
    ASSUME NEW Configs, Configs \subseteq GateConfigs, NEW Skews, Skews \subseteq Int,
           NEW Networks, Unknown \notin Networks,
           NEW Cookies,
           \A c \in Cookies : c = NoCookie \/ (c.expires \in Nat /\ Tagged(c))
    PROVE  GateInit(Configs, Skews, Networks, Cookies) /\ [][GateNext]_gateVars
             => NeverTurnedAway
<1>. DEFINE Justified ==
        \/ cookie = NoCookie \/ cookie.flaw # "none"
        \/ cookie.expires <= EdgeTime
        \/ cfg.bind /\ cookie.network # viewer
<1>1. GateInit(Configs, Skews, Networks, Cookies) => SessionInv
    BY DEF GateInit, SessionInv
<1>2. ASSUME SessionInv, GateNext, at \in {"leaving", "origin"}, at' = "page"
      PROVE  Justified
    <2>1. Request /\ handler # "pass"
        BY <1>2 DEF GateNext, Request, redeem, Reload, Roam, Reconfigure, ClockTicks
    <2>2. ~Waived
        BY <2>1 DEF handler
    <2>3. CASE cookie = NoCookie \/ cookie.flaw # "none" \/ EdgeTime >= cookie.expires
        <3>1. cookie = NoCookie \/ (cookie.expires \in Nat /\ EdgeTime \in Int)
            BY <1>2 DEF SessionInv, EdgeTime
        <3>. QED BY <2>3, <3>1
    <2>4. CASE ~(cookie = NoCookie \/ cookie.flaw # "none" \/ EdgeTime >= cookie.expires)
        <3>1. cfg.bind /\ cookie.tag # viewer
            BY <2>1, <2>2, <2>4 DEF handler
        <3>. QED BY <1>2, <2>4, <3>1 DEF SessionInv, Tagged
    <2>. QED BY <2>3, <2>4
<1>3. SessionInv /\ [GateNext]_gateVars =>
        [at' = "page" /\ at \in {"leaving", "origin"} => Justified]_gateVars
    BY <1>2
<1>. QED BY <1>1, <1>3, SessionNext, PTL DEF NeverTurnedAway

-----------------------------------------------------------------------------
(* compute_release in its loop.                                            *)

Baselines ==
    [serving : Nat, last_serving : Nat, last_arrivals : Nat, queue : Nat,
     target : Nat, rate : Tenths \cup {NoRate}, elapsed : Nat]

LoopInv == in \in Baselines /\ total \in Nat

LEMMA DivBounds ==
    ASSUME NEW r \in Nat \ {0}, NEW a \in 0 .. r
    PROVE  (10 * a) \div r \in 0 .. 10
<1>. DEFINE q == (10 * a) \div r
<1>1. q \in Int /\ r * q <= 10 * a /\ 10 * a < r * q + r
    OBVIOUS
<1>2. q >= 0
    BY <1>1
<1>3. q <= 10
    BY <1>1
<1>. QED BY <1>1, <1>2, <1>3

LEMMA DivMonotone ==
    ASSUME NEW r \in Nat \ {0}, NEW a \in Nat, NEW b \in Nat, a <= b
    PROVE  (10 * a) \div r <= (10 * b) \div r
<1>. DEFINE q == (10 * a) \div r
            p == (10 * b) \div r
<1>1. q \in Int /\ p \in Int /\ r * q <= 10 * a /\ 10 * b < r * p + r
    OBVIOUS
<1>2. r * q < r * p + r
    BY <1>1
<1>3. q < p + 1
    BY <1>1, <1>2
<1>. QED BY <1>1, <1>3

(* What is asked for grows with the rate, from the target to twice that.   *)
LEMMA ReleaseBounded ==
    ASSUME NEW t \in Nat, NEW s \in Tenths
    PROVE  /\ BoundedRelease(t, s) \in Nat
           /\ t <= BoundedRelease(t, s) /\ BoundedRelease(t, s) <= 2 * t
<1>1. s \in {0, 1, 2, 3, 4, 5, 6, 7, 8, 9, 10}
    BY DEF Tenths
<1>. QED BY <1>1 DEF BoundedRelease, Least

LEMMA ReleaseMonotone ==
    ASSUME NEW t \in Nat, NEW s \in Tenths, NEW u \in Tenths, s <= u
    PROVE  BoundedRelease(t, s) <= BoundedRelease(t, u)
<1>. DEFINE B(n) == BoundedRelease(t, n)
<1>1. /\ B(0) <= B(1) /\ B(1) <= B(2) /\ B(2) <= B(3) /\ B(3) <= B(4) /\ B(4) <= B(5)
      /\ B(5) <= B(6) /\ B(6) <= B(7) /\ B(7) <= B(8) /\ B(8) <= B(9) /\ B(9) <= B(10)
    BY DEF BoundedRelease, Least
<1>2. \A n \in Tenths : B(n) \in Nat
    BY ReleaseBounded
<1>3. \A n, m \in Tenths : n <= m => B(n) <= B(m)
    <2>. HIDE DEF B
    <2>1. Tenths = {0, 1, 2, 3, 4, 5, 6, 7, 8, 9, 10}
        BY DEF Tenths
    <2>. QED BY <1>1, <1>2, <2>1
<1>. QED BY <1>3

LEMMA Measured ==
    ASSUME NEW b \in Baselines, NEW m \in Nat
    PROVE  /\ ReleasedLast(b) \in Nat /\ SaturatingSub(m, b.last_arrivals) \in Nat
           /\ ~Unmeasurable(b) =>
                /\ ReleasedLast(b) \in Nat \ {0}
                /\ Least(SaturatingSub(m, b.last_arrivals), ReleasedLast(b)) \in 0 .. ReleasedLast(b)
                /\ ObservedNoShow(b, m) \in Tenths
<1>1. ReleasedLast(b) \in Nat /\ SaturatingSub(m, b.last_arrivals) \in Nat
    BY DEF Baselines, ReleasedLast, SaturatingSub, Most
<1>2. ASSUME ~Unmeasurable(b)
      PROVE  /\ ReleasedLast(b) \in Nat \ {0}
             /\ Least(SaturatingSub(m, b.last_arrivals), ReleasedLast(b)) \in 0 .. ReleasedLast(b)
             /\ ObservedNoShow(b, m) \in Tenths
    <2>1. ReleasedLast(b) \in Nat \ {0}
        BY <1>1, <1>2 DEF Unmeasurable
    <2>2. Least(SaturatingSub(m, b.last_arrivals), ReleasedLast(b)) \in 0 .. ReleasedLast(b)
        BY <1>1 DEF Least
    <2>3. (10 * Least(SaturatingSub(m, b.last_arrivals), ReleasedLast(b)))
            \div ReleasedLast(b) \in 0 .. 10
        BY <2>1, <2>2, DivBounds
    <2>. QED BY <2>1, <2>2, <2>3 DEF ObservedNoShow, Tenths
<1>. QED BY <1>1, <1>2

LEMMA SmoothedSound ==
    ASSUME NEW b \in Baselines, NEW m \in Nat
    PROVE  /\ Smoothed(b, m) \in Tenths
           /\ ~Unmeasurable(b) /\ b.rate # NoRate =>
                 /\ Least(ObservedNoShow(b, m), b.rate) <= Smoothed(b, m)
                 /\ Smoothed(b, m) <= Most(ObservedNoShow(b, m), b.rate)
<1>1. b.rate \in Tenths \cup {NoRate}
    BY DEF Baselines
<1>2. CASE Unmeasurable(b)
    BY <1>1, <1>2 DEF Smoothed, Tenths, NoRate, Most
<1>3. CASE ~Unmeasurable(b)
    <2>1. ObservedNoShow(b, m) \in Tenths
        BY <1>3, Measured
    <2>. QED BY <1>1, <1>3, <2>1 DEF Smoothed, Tenths, NoRate, Least, Most
<1>. QED BY <1>2, <1>3

LEMMA NextServingFalls ==
    ASSUME NEW b \in Baselines, NEW m \in Nat, NEW n \in Nat, m <= n
    PROVE  /\ NextServing(b, m) \in Nat
           /\ NextServing(b, n) <= NextServing(b, m)
<1>1. /\ b.serving \in Nat /\ b.queue \in Nat /\ b.target \in Nat
      /\ b.rate \in Tenths \cup {NoRate}
    BY DEF Baselines
<1>2. Smoothed(b, n) <= Smoothed(b, m)
    <2>1. CASE Unmeasurable(b)
        <3>1. Smoothed(b, n) = Smoothed(b, m) /\ Smoothed(b, m) \in Tenths
            BY <2>1, SmoothedSound DEF Smoothed
        <3>. QED BY <3>1 DEF Tenths
    <2>2. CASE ~Unmeasurable(b)
        <3>. DEFINE early(k) == Least(SaturatingSub(k, b.last_arrivals), ReleasedLast(b))
        <3>1. ReleasedLast(b) \in Nat \ {0} /\ early(m) \in Nat /\ early(n) \in Nat
            BY <2>2, Measured
        <3>2. early(m) <= early(n)
            BY <3>1 DEF Baselines, SaturatingSub, Least, Most
        <3>3. (10 * early(m)) \div ReleasedLast(b) <= (10 * early(n)) \div ReleasedLast(b)
            BY <3>1, <3>2, DivMonotone
        <3>4. ObservedNoShow(b, n) <= ObservedNoShow(b, m)
            BY <3>1, <3>3 DEF ObservedNoShow
        <3>5. ObservedNoShow(b, n) \in Tenths /\ ObservedNoShow(b, m) \in Tenths
            BY <2>2, Measured
        <3>. QED BY <1>1, <2>2, <3>4, <3>5 DEF Smoothed, Tenths, NoRate
    <2>. QED BY <2>1, <2>2
<1>3. Smoothed(b, n) \in Tenths /\ Smoothed(b, m) \in Tenths
    BY SmoothedSound
<1>4. Asked(b, n) <= Asked(b, m) /\ Asked(b, n) \in Nat /\ Asked(b, m) \in Nat
    <2>1. CASE Unmeasurable(b)
        BY <1>1, <2>1 DEF Asked
    <2>2. CASE ~Unmeasurable(b)
        <3>1. BoundedRelease(b.target, Smoothed(b, n)) <= BoundedRelease(b.target, Smoothed(b, m))
            BY <1>1, <1>2, <1>3, ReleaseMonotone
        <3>. QED BY <1>1, <1>3, <2>2, <3>1, ReleaseBounded DEF Asked
    <2>. QED BY <2>1, <2>2
<1>. QED BY <1>1, <1>4 DEF NextServing, Least, Most

(* compute_release, bounded_release: fed its own baselines for as long as  *)
(* it likes, with any arrivals and any interval, a pass asks for between   *)
(* the target and twice the target, its rate stays between the old one and *)
(* the observed one, and more arrivals never release more.                 *)
THEOREM CorrectionSoundCorrect ==
    ASSUME NEW Lines, Lines \subseteq Nat
    PROVE  ReleaseInit(Lines, Targets) /\ [][Pass]_releaseVars => []CorrectionSound
<1>1. ReleaseInit(Lines, Targets) => LoopInv
    <2>. SUFFICES ASSUME ReleaseInit(Lines, Targets) PROVE LoopInv
        OBVIOUS
    <2>1. /\ total = 0
          /\ in \in [serving : {0}, last_serving : {0}, last_arrivals : {0}, queue : Lines,
                    target : Targets, rate : {NoRate}, elapsed : {STALE}]
        BY DEF ReleaseInit
    <2>2. /\ {0} \subseteq Nat /\ {STALE} \subseteq Nat
          /\ Lines \subseteq Nat /\ Targets \subseteq Nat
          /\ {NoRate} \subseteq Tenths \cup {NoRate}
        BY TargetsAssumption, StaleAssumption
    <2>. QED BY <2>1, <2>2 DEF LoopInv, Baselines
<1>2. LoopInv /\ [Pass]_releaseVars => LoopInv'
    <2>1. ASSUME LoopInv, Pass PROVE LoopInv'
        <3>. DEFINE d == ComputeRelease(in, total)
        <3>1. /\ d.next \in Nat /\ d.expected \in Nat /\ d.total \in Nat
              /\ d.rate \in Tenths \cup {NoRate}
            BY <2>1, NextServingFalls, SmoothedSound DEF LoopInv, ComputeRelease, Baselines
        <3>2. /\ total' \in Nat
              /\ in' \in [serving : {d.next}, last_serving : {d.expected},
                          last_arrivals : {d.total}, queue : in.queue .. MaxLine,
                          target : Targets, rate : {d.rate}, elapsed : 0 .. STALE]
            BY <2>1 DEF Pass
        <3>3. in.queue .. MaxLine \subseteq Nat /\ 0 .. STALE \subseteq Nat
            BY <2>1 DEF LoopInv, Baselines
        <3>. HIDE DEF d
        <3>. QED BY <3>1, <3>2, <3>3, TargetsAssumption DEF LoopInv, Baselines
    <2>. QED BY <2>1 DEF releaseVars, LoopInv
<1>3. LoopInv => CorrectionSound
    <2>. SUFFICES ASSUME LoopInv PROVE CorrectionSound
        OBVIOUS
    <2>1. in \in Baselines /\ total \in Nat /\ in.target \in Nat
        BY DEF LoopInv, Baselines
    <2>2. in.target <= Asked(in, total) /\ Asked(in, total) <= 2 * in.target
        BY <2>1, SmoothedSound, ReleaseBounded DEF Asked
    <2>3. \A more \in total .. MaxArrivals : NextServing(in, more) <= NextServing(in, total)
        BY <2>1, NextServingFalls
    <2>. QED BY <2>1, <2>2, <2>3, SmoothedSound DEF CorrectionSound
<1>. QED BY <1>1, <1>2, <1>3, PTL

-----------------------------------------------------------------------------
(* The readiness panel.                                                    *)

Units == {"write", "read"}
Quantity == Nat \cup {NotReported}

(* What the calls can find. *)
DeploymentOK(d) ==
    /\ \A unit \in Units : d.targets[unit] \in Nat
    /\ \A t \in WarmedTables, unit \in Units : d[t][unit] \in Quantity
    /\ d.limits \in Quantity /\ d.api \in Quantity /\ d.concurrency \in Quantity
    /\ d.open.at \in Quantity
    /\ d.gate.rules \in Nat /\ d.gate.fail_open_until \in Nat
    /\ d.policy.min_ttl \in Nat
    /\ d.pointer \in {"absent", "malformed", "published"}

(* What the panel holds of a call that answered is what the call found.    *)
PanelInv ==
    /\ DeploymentOK(deployment)
    /\ answered \subseteq Calls
    /\ \A call \in answered : answers[call] = deployment[call]

Checks ==
    {"WarmThroughput", "DynamoDbLimits", "ApiGatewayThrottle", "AssignPositionConcurrency",
     "OpenSchedule", "ControllerSchedule", "GateRuleset", "StatusCaching", "GateAssociation"}

LEMMA PanelRows == DOMAIN run_checks = Checks
BY DEF run_checks, Checks

(* A row that is judged was read: its future settled within its time, and  *)
(* none of its calls failed.                                               *)
LEMMA BoundedRead ==
    ASSUME NEW f \in DOMAIN Futures, Settled(f), ~Broken(f)
    PROVE  \A call \in Futures[f] : Made(call) => call \in answered
BY DEF Settled, Broken

LEMMA EdgeRead ==
    ASSUME PanelInv, Settled("edge"), ~Broken("edge"), answers.pointer # "absent"
    PROVE  EdgeCalls \subseteq answered
<1>1. "edge" \in DOMAIN Futures /\ Futures["edge"] = {"pointer", "distribution", "policy"}
    BY DEF Futures
<1>2. \A call \in {"pointer", "distribution", "policy"} : Made(call) => call \in answered
    BY <1>1, BoundedRead
<1>3. "pointer" \in answered
    BY <1>2 DEF Made
<1>4. answers.pointer = "published"
    BY <1>3 DEF PanelInv, DeploymentOK, Broken, EdgeError
<1>5. "distribution" \in answered
    BY <1>2, <1>3, <1>4 DEF Made
<1>6. StatusBehaviour # {} => "policy" \in answered
    BY <1>2, <1>5 DEF Made, Broken, EdgeError
<1>. QED BY <1>3, <1>5, <1>6 DEF EdgeCalls

LEMMA PlainRead ==
    ASSUME PanelDone, NEW f \in DOMAIN Futures \ {"edge"}, ~Broken(f)
    PROVE  Futures[f] \subseteq answered
<1>1. \A call \in Futures[f] : call \notin {"distribution", "policy"}
    BY DEF Futures, WarmedTables
<1>. QED BY <1>1, BoundedRead DEF PanelDone, Made

LEMMA RowsSeen ==
    ASSUME PanelInv, PanelDone, NEW check \in Checks, run_checks[check] # "NotEvaluable"
    PROVE  JudgedFrom(check) \subseteq answered
<1>1. CASE check \in {"StatusCaching", "GateAssociation"}
    <2>1. answers.pointer # "absent" /\ ~Broken("edge")
        BY <1>1 DEF run_checks, EdgeRow
    <2>2. Settled("edge")
        BY DEF PanelDone, Futures
    <2>. QED BY <1>1, <2>1, <2>2, EdgeRead DEF JudgedFrom
<1>2. CASE check \notin {"StatusCaching", "GateAssociation"}
    <2>. DEFINE ReadBy(f) == f \in DOMAIN Futures \ {"edge"} /\ ~Broken(f) /\ Futures[f] = JudgedFrom(check)
    <2>1. check = "WarmThroughput" => ReadBy("warm")
        BY DEF run_checks, Row, Futures, JudgedFrom
    <2>2. check = "DynamoDbLimits" => ReadBy("limits")
        BY DEF run_checks, Row, Futures, JudgedFrom
    <2>3. check = "ApiGatewayThrottle" => ReadBy("api")
        BY DEF run_checks, Row, Futures, JudgedFrom
    <2>4. check = "AssignPositionConcurrency" => ReadBy("concurrency")
        BY DEF run_checks, Row, Futures, JudgedFrom
    <2>5. check = "OpenSchedule" => ReadBy("open")
        BY DEF run_checks, Row, Futures, JudgedFrom
    <2>6. check = "ControllerSchedule" => ReadBy("controller")
        BY DEF run_checks, Row, Futures, JudgedFrom
    <2>7. check = "GateRuleset" => ReadBy("gate")
        BY DEF run_checks, Row, Futures, JudgedFrom
    <2>8. \E f \in DOMAIN Futures \ {"edge"} : ~Broken(f) /\ Futures[f] = JudgedFrom(check)
        BY <1>2, <2>1, <2>2, <2>3, <2>4, <2>5, <2>6, <2>7 DEF Checks
    <2>. QED BY <2>8, PlainRead
<1>. QED BY <1>1, <1>2

(* The warm throughput verdict means what its row says, at any quantities. *)
LEMMA WarmMeans ==
    ASSUME PanelInv, WarmedTables \subseteq answered
    PROVE  LET v == evaluate_warm_throughput(deployment.targets, WarmedTables \cap answered)
           IN  (v = "Pass" => Means.WarmThroughput) /\ (v = "Fail" => ~Means.WarmThroughput)
<1>. DEFINE low(t, unit) == warm_throughput(t)[unit] < deployment.targets[unit]
<1>0. WarmedTables \cap answered = WarmedTables
    OBVIOUS
<1>1. \A t \in WarmedTables, unit \in Units :
        /\ deployment.targets[unit] \in Nat /\ deployment[t][unit] \in Quantity
        /\ warm_throughput(t)[unit] = IF deployment[t][unit] = NotReported
                                      THEN 0 ELSE deployment[t][unit]
    BY DEF PanelInv, DeploymentOK, warm_throughput, Units
<1>2. \A t \in WarmedTables, unit \in Units :
        low(t, unit) <=> deployment.targets[unit] > 0 /\ ~(deployment[t][unit] >= deployment.targets[unit])
    BY <1>1 DEF Quantity, NotReported
<1>3. "PreQueue" \in WarmedTables /\ "write" \in Units /\ "read" \in Units
    BY DEF WarmedTables, Units
<1>4. warm_throughput("PreQueue").write >= REGISTRATION_TARGET
        => deployment.PreQueue.write >= REGISTRATION_TARGET
    BY <1>1, <1>3 DEF Quantity, NotReported, REGISTRATION_TARGET
<1>5. /\ warm_throughput("PreQueue").write \in Int /\ REGISTRATION_TARGET \in Int
    BY <1>1, <1>3 DEF Quantity, NotReported, REGISTRATION_TARGET
<1>6. Means.WarmThroughput <=>
        /\ \A t \in WarmedTables, unit \in Units : ~low(t, unit)
        /\ deployment.PreQueue.write >= REGISTRATION_TARGET
    BY <1>2 DEF Means, Units
<1>7. CASE \E t \in WarmedTables, unit \in Units : low(t, unit)
    <2>1. \E t \in WarmedTables : low(t, "write") \/ low(t, "read")
        BY <1>7 DEF Units
    <2>2. evaluate_warm_throughput(deployment.targets, WarmedTables) = "Fail"
        BY <2>1 DEF evaluate_warm_throughput
    <2>. QED BY <1>0, <1>6, <1>7, <2>2, Zenon
<1>8. CASE ~ \E t \in WarmedTables, unit \in Units : low(t, unit)
    <2>1. ~ \E t \in WarmedTables : low(t, "write") \/ low(t, "read")
        BY <1>3, <1>8
    <2>2. evaluate_warm_throughput(deployment.targets, WarmedTables) \in {"Warn", "Pass"}
        BY <2>1 DEF evaluate_warm_throughput
    <2>3. evaluate_warm_throughput(deployment.targets, WarmedTables) = "Pass"
            => ~(warm_throughput("PreQueue").write < REGISTRATION_TARGET)
        BY <1>3, <2>1 DEF evaluate_warm_throughput
    <2>4. evaluate_warm_throughput(deployment.targets, WarmedTables) = "Pass"
            => Means.WarmThroughput
        BY <1>4, <1>5, <1>6, <1>8, <2>3
    <2>. QED BY <1>0, <2>2, <2>4, Zenon
<1>. QED BY <1>7, <1>8

LEMMA VerdictsMean ==
    ASSUME PanelInv
    PROVE  PanelHonest
<1>. SUFFICES ASSUME PanelDone, NEW check \in Checks, run_checks[check] # "NotEvaluable"
              PROVE  /\ JudgedFrom(check) \subseteq answered
                     /\ run_checks[check] = "Pass" => Means[check]
                     /\ run_checks[check] = "Fail" => ~Means[check]
    BY PanelRows DEF PanelHonest
<1>0. /\ JudgedFrom(check) \subseteq answered /\ DeploymentOK(deployment)
      /\ \A call \in JudgedFrom(check) : answers[call] = deployment[call]
    BY RowsSeen DEF PanelInv
<1>. USE DEF Row, EdgeRow
<1>1. CASE check = "WarmThroughput"
    <2>1. run_checks[check] =
            evaluate_warm_throughput(deployment.targets, WarmedTables \cap answered)
        BY <1>1 DEF run_checks
    <2>2. WarmedTables \subseteq answered
        BY <1>0, <1>1 DEF JudgedFrom
    <2>. QED BY <1>0, <1>1, <2>1, <2>2, WarmMeans
<1>2. CASE check = "DynamoDbLimits"
    <2>1. Means[check] <=>
            /\ deployment.limits > DEFAULT_QUOTA
            /\ deployment.limits >= deployment.targets.write
        BY <1>2 DEF Means
    <2>2. run_checks[check] = evaluate_dynamodb_limits(deployment.limits, deployment.targets)
        BY <1>0, <1>2 DEF run_checks, JudgedFrom
    <2>. QED BY <1>0, <2>1, <2>2 DEF evaluate_dynamodb_limits, DeploymentOK, Units, Quantity, NotReported, DEFAULT_QUOTA
<1>3. CASE check = "ApiGatewayThrottle"
    <2>1. Means[check] <=> deployment.api > DEFAULT_QUOTA
        BY <1>3 DEF Means
    <2>2. run_checks[check] = evaluate_api_gateway_throttle(deployment.api)
        BY <1>0, <1>3 DEF run_checks, JudgedFrom
    <2>. QED BY <1>0, <2>1, <2>2 DEF evaluate_api_gateway_throttle, DeploymentOK, Quantity, NotReported, DEFAULT_QUOTA
<1>4. CASE check = "AssignPositionConcurrency"
    <2>1. Means[check] <=> deployment.concurrency > 0
        BY <1>4 DEF Means
    <2>2. run_checks[check] = evaluate_reserved_concurrency(deployment.concurrency)
        BY <1>0, <1>4 DEF run_checks, JudgedFrom
    <2>. QED BY <1>0, <2>1, <2>2 DEF evaluate_reserved_concurrency, DeploymentOK, Quantity, NotReported
<1>5. CASE check = "OpenSchedule"
    <2>1. Means[check] <=>
            /\ deployment.open.state = "enabled"
            /\ deployment.open.at > PanelNow
        BY <1>5 DEF Means
    <2>2. run_checks[check] = evaluate_open_schedule(deployment.open)
        BY <1>0, <1>5 DEF run_checks, JudgedFrom
    <2>. QED BY <1>0, <2>1, <2>2 DEF evaluate_open_schedule
<1>6. CASE check = "ControllerSchedule"
    <2>1. Means[check] <=> deployment.controller.state = "enabled"
        BY <1>6 DEF Means
    <2>2. run_checks[check] = evaluate_controller_schedule(deployment.controller)
        BY <1>0, <1>6 DEF run_checks, JudgedFrom
    <2>. QED BY <1>0, <2>1, <2>2 DEF evaluate_controller_schedule
<1>7. CASE check = "GateRuleset"
    <2>1. Means[check] <=>
            /\ deployment.gate.rules > 0
            /\ deployment.gate.fail_open_until <= PanelNow
        BY <1>7 DEF Means
    <2>2. run_checks[check] = evaluate_gate_ruleset(deployment.gate)
        BY <1>0, <1>7 DEF run_checks, JudgedFrom
    <2>. QED BY <1>0, <2>1, <2>2 DEF evaluate_gate_ruleset, DeploymentOK, PanelNow
<1>8. CASE check = "StatusCaching"
    <2>0. /\ answers.distribution = deployment.distribution
          /\ StatusBehaviour # {} => answers.policy = deployment.policy
        BY <1>0, <1>8 DEF JudgedFrom, EdgeCalls
    <2>1. Means[check] <=>
            /\ \E b \in deployment.distribution.behaviours : b.path = "status"
            /\ deployment.policy.min_ttl > 0
            /\ deployment.policy.cookies \in {"unset", "none"}
        BY <1>8 DEF Means
    <2>2. run_checks[check] = evaluate_status_caching
        BY <1>8 DEF run_checks
    <2>. QED BY <1>0, <1>8, <2>0, <2>1, <2>2 DEF evaluate_status_caching, cache_policy_facts, StatusBehaviour
<1>9. CASE check = "GateAssociation"
    <2>0. answers.distribution = deployment.distribution
        BY <1>0, <1>9 DEF JudgedFrom, EdgeCalls
    <2>1. Means[check] <=>
            /\ "viewer-request" \in deployment.distribution.default
            /\ \A b \in deployment.distribution.behaviours : ~b.gate
        BY <1>9 DEF Means
    <2>2. run_checks[check] = evaluate_gate_association
        BY <1>9 DEF run_checks
    <2>. QED BY <1>0, <1>9, <2>0, <2>1, <2>2 DEF evaluate_gate_association, gate_on_default, gate_elsewhere
<1>. QED BY <1>0, <1>1, <1>2, <1>3, <1>4, <1>5, <1>6, <1>7, <1>8, <1>9 DEF Checks

(* run_checks, "a row that could not see everything must not read as       *)
(* settled": a row passes only if what it means holds and fails only if it *)
(* does not, at any quota, target and schedule, and a row that is judged   *)
(* at all has the answers of every call it is judged from, whichever of    *)
(* the others failed, hung or were never made.                             *)
THEOREM PanelHonestCorrect ==
    ASSUME NEW Deployments, \A d \in Deployments : DeploymentOK(d), NEW Awaited
    PROVE  ReadinessInit(Deployments, Awaited) /\ [][ReadinessNext]_readinessVars
             => []PanelHonest
<1>1. ReadinessInit(Deployments, Awaited) => PanelInv
    BY DEF ReadinessInit, PanelInv, answered
<1>2. PanelInv /\ [ReadinessNext]_readinessVars => PanelInv'
    <2>. SUFFICES ASSUME PanelInv, [ReadinessNext]_readinessVars PROVE PanelInv'
        OBVIOUS
    <2>1. deployment' = deployment
        BY DEF ReadinessNext, CallReturns, TimesOut, readinessVars
    <2>2. CASE UNCHANGED answers
        BY <2>1, <2>2 DEF PanelInv, DeploymentOK, answered
    <2>3. ASSUME NEW call \in Calls,
                 answers' = [done \in answered \cup {call} |->
                               IF done = call THEN deployment[call] ELSE answers[done]]
          PROVE  PanelInv'
        BY <2>1, <2>3 DEF PanelInv, DeploymentOK, answered
    <2>. QED BY <2>2, <2>3 DEF ReadinessNext, CallReturns, TimesOut, readinessVars, Pending
<1>3. PanelInv => PanelHonest
    BY VerdictsMean
<1>. QED BY <1>1, <1>2, <1>3, PTL

-----------------------------------------------------------------------------
(* The load harness.                                                       *)

Tally == [client : Nat, hits : Nat, collapsed : Nat, origin : Nat]
Answers == [code : Nat, body : Int]
Busy == {"join", "lead", "fetch", "forget"}
Idling == {"away", "check", "publish", "waiting", "served"}
AllRequests ==
    [pc : Busy \cup Idling, of : CacheKeys, leader : Loaders \cup {Nobody}, answer : Answers]

HarnessTypeOK ==
    /\ elapsed \in Nat
    /\ entries \in [CacheKeys -> [code : Nat, body : Int, expires_at : Nat]]
    /\ inflight \in [CacheKeys -> Loaders \cup {Nobody}]
    /\ tally \in [CacheKeys -> Tally]
    /\ request \in [Loaders -> AllRequests]

Undecided(k) == {v \in Loaders : request[v].of = k /\ request[v].pc \in {"join", "lead"}}

(* The leader of a fetch holds its key until the answer is cached; when    *)
(* nobody does, the fetches so far are no more than the lifetimes the      *)
(* cached answers have covered.                                            *)
LeadersHold ==
    \A v \in Loaders : request[v].pc \in {"fetch", "forget"} => inflight[request[v].of] = v

LifetimesCovered ==
    \A k \in CacheKeys :
        /\ tally[k].origin <= 1 + elapsed
        /\ \/ tally[k].origin <= entries[k].expires_at
           \/ \E v \in Loaders : request[v].pc = "fetch" /\ request[v].of = k

RequestsCounted ==
    \A k \in CacheKeys :
        tally[k].client = tally[k].hits + tally[k].collapsed + tally[k].origin
                            + Cardinality(Undecided(k))

HarnessInv == HarnessTypeOK /\ LeadersHold /\ LifetimesCovered /\ RequestsCounted

LEMMA UndecidedFinite ==
    ASSUME NEW k
    PROVE  IsFiniteSet(Undecided(k)) /\ Cardinality(Undecided(k)) \in Nat
<1>1. IsFiniteSet(Undecided(k))
    BY LoadersAssumption, FS_Subset DEF Undecided
<1>. QED BY <1>1, FS_CardinalityType

(* What a step of one task does to the requests that are not its own, and  *)
(* how the counts of its key change with it.                               *)
LEMMA CountsMove ==
    ASSUME HarnessInv, NEW v \in Loaders, NEW what \in {"hits", "collapsed", "origin"},
           NEW CONSTANT key \in CacheKeys, key = request[v].of,
           request[v].pc \in {"join", "lead"},
           DOMAIN request' = Loaders, request'[v].pc \notin {"join", "lead"},
           \A w \in Loaders \ {v} : request'[w] = request[w],
           tally' = [tally EXCEPT ![key][what] = @ + 1]
    PROVE  tally' \in [CacheKeys -> Tally] /\ RequestsCounted'
<1>1. tally[key] \in Tally
    BY DEF HarnessInv, HarnessTypeOK
<1>2. tally'[key] = [tally[key] EXCEPT ![what] = @ + 1]
      /\ \A k \in CacheKeys \ {key} : tally'[k] = tally[k]
    BY <1>1 DEF HarnessInv, HarnessTypeOK
<1>3. tally'[key] \in Tally
    BY <1>1, <1>2 DEF Tally
<1>4. tally' \in [CacheKeys -> Tally]
    BY <1>1, <1>3 DEF HarnessInv, HarnessTypeOK
<1>5. \A k \in CacheKeys \ {key} : Undecided(k)' = Undecided(k)
    BY DEF Undecided
<1>6. Undecided(key)' = Undecided(key) \ {v} /\ v \in Undecided(key)
    BY DEF Undecided
<1>7. Cardinality(Undecided(key)') = Cardinality(Undecided(key)) - 1
    BY <1>6, UndecidedFinite, FS_RemoveElement
<1>8. /\ tally'[key].client = tally[key].client
      /\ tally'[key].hits + tally'[key].collapsed + tally'[key].origin
           = tally[key].hits + tally[key].collapsed + tally[key].origin + 1
    BY <1>1, <1>2 DEF Tally
<1>9. ASSUME NEW k \in CacheKeys
      PROVE  tally'[k].client = tally'[k].hits + tally'[k].collapsed + tally'[k].origin
                                  + Cardinality(Undecided(k)')
    <2>1. CASE k = key
        <3>1. /\ Cardinality(Undecided(key)) \in Nat
              /\ tally[key].hits + tally[key].collapsed + tally[key].origin \in Nat
            BY <1>1, UndecidedFinite DEF Tally
        <3>2. tally[key].client = tally[key].hits + tally[key].collapsed + tally[key].origin
                                    + Cardinality(Undecided(key))
            BY <1>1 DEF HarnessInv, RequestsCounted
        <3>3. tally'[key].hits + tally'[key].collapsed + tally'[key].origin \in Nat
            BY <1>3 DEF Tally
        <3>. QED BY <2>1, <1>7, <1>8, <3>1, <3>2, <3>3
    <2>2. CASE k # key
        <3>1. tally'[k] = tally[k] /\ Undecided(k)' = Undecided(k)
            BY <1>2, <1>5, <2>2
        <3>. QED BY <3>1 DEF HarnessInv, RequestsCounted
    <2>. QED BY <2>1, <2>2
<1>. QED BY <1>4, <1>9 DEF RequestsCounted

LEMMA CountsKept ==
    ASSUME RequestsCounted, tally' = tally, \A k \in CacheKeys : Undecided(k)' = Undecided(k)
    PROVE  RequestsCounted'
BY DEF RequestsCounted

(* The steps of tasks that neither lead a fetch nor decide about one, and  *)
(* the clock's.                                                            *)
LEMMA QuietStep ==
    ASSUME HarnessInv, UNCHANGED <<tally, entries, inflight>>,
           elapsed' \in Nat, elapsed <= elapsed',
           request' \in [Loaders -> AllRequests],
           \A w \in Loaders :
              \/ request'[w] = request[w]
              \/ request[w].pc \in Idling /\ request'[w].pc \in Idling
    PROVE  HarnessInv'
<1>. USE DEF Busy, Idling
<1>1. HarnessTypeOK'
    BY DEF HarnessInv, HarnessTypeOK
<1>2. LeadersHold'
    BY DEF HarnessInv, LeadersHold
<1>3. \A k \in CacheKeys : Undecided(k)' = Undecided(k)
    BY DEF Undecided
<1>4. RequestsCounted'
    BY <1>3, CountsKept DEF HarnessInv
<1>5. LifetimesCovered'
    <2>. SUFFICES ASSUME NEW k \in CacheKeys
                  PROVE  /\ tally[k].origin <= 1 + elapsed'
                         /\ \/ tally[k].origin <= entries[k].expires_at
                            \/ \E v \in Loaders : request'[v].pc = "fetch" /\ request'[v].of = k
        BY DEF LifetimesCovered
    <2>1. tally[k].origin \in Nat /\ elapsed \in Nat
        BY DEF HarnessInv, HarnessTypeOK, Tally
    <2>2. tally[k].origin <= 1 + elapsed'
        BY <2>1 DEF HarnessInv, LifetimesCovered
    <2>3. \/ tally[k].origin <= entries[k].expires_at
          \/ \E v \in Loaders : request'[v].pc = "fetch" /\ request'[v].of = k
        BY DEF HarnessInv, LifetimesCovered
    <2>. QED BY <2>2, <2>3
<1>. QED BY <1>1, <1>2, <1>4, <1>5 DEF HarnessInv

LEMMA PublishStep ==
    ASSUME HarnessInv, NEW v \in Loaders, Publish(v)
    PROVE  HarnessInv'
<1>. USE DEF HarnessInv, HarnessTypeOK, Busy, Idling
<1>1. /\ DOMAIN request' = Loaders
      /\ \A w \in Loaders : request'[w] =
            IF w = v THEN [request[v] EXCEPT !.pc = "served"]
            ELSE IF At(w, "waiting") /\ request[w].leader = v
            THEN [request[w] EXCEPT !.pc = "served", !.leader = Nobody,
                                    !.answer = request[v].answer]
            ELSE request[w]
    BY DEF Publish
<1>2. ASSUME NEW w \in Loaders
      PROVE  /\ request'[w] \in AllRequests
             /\ \/ request'[w] = request[w]
                \/ request[w].pc \in Idling /\ request'[w].pc \in Idling
    <2>1. request[w] \in AllRequests /\ request[v] \in AllRequests
        OBVIOUS
    <2>2. CASE w = v
        BY <1>1, <2>1, <2>2 DEF Publish, At, AllRequests
    <2>3. CASE w # v /\ At(w, "waiting") /\ request[w].leader = v
        BY <1>1, <2>1, <2>3 DEF At, AllRequests
    <2>4. CASE w # v /\ ~(At(w, "waiting") /\ request[w].leader = v)
        BY <1>1, <2>1, <2>4
    <2>. QED BY <2>2, <2>3, <2>4
<1>3. UNCHANGED <<elapsed, tally, entries, inflight>>
    BY DEF Publish
<1>4. request' \in [Loaders -> AllRequests]
    <2>1. request' = [w \in Loaders |-> request'[w]]
        BY DEF Publish
    <2>. QED BY <1>2, <2>1
<1>. QED BY <1>2, <1>3, <1>4, QuietStep

LEMMA TaskStep ==
    ASSUME HarnessInv, NEW v \in Loaders, Poll(v) \/ GotStatus(v) \/ GotPosition(v)
    PROVE  HarnessInv'
<1>1. request[v] \in AllRequests /\ request[v].pc \in Idling
    BY DEF HarnessInv, HarnessTypeOK, Idling, Poll, GotStatus, GotPosition, At
<1>2. \E r \in AllRequests : request' = [request EXCEPT ![v] = r] /\ r.pc \in Idling
    <2>1. ASSUME NEW of \in CacheKeys, Ask(v, of)
          PROVE  \E r \in AllRequests : request' = [request EXCEPT ![v] = r] /\ r.pc \in Idling
        <3>. DEFINE r == [request[v] EXCEPT !.pc = "check", !.of = of]
        <3>1. r \in AllRequests /\ r.pc \in Idling
            BY <1>1 DEF AllRequests, Idling
        <3>2. request' = [request EXCEPT ![v] = r]
            BY <1>1, <2>1 DEF HarnessInv, HarnessTypeOK, Ask
        <3>. QED BY <3>1, <3>2
    <2>2. ASSUME NEW state, NEW closed, Doze(v, state, closed)
          PROVE  \E r \in AllRequests : request' = [request EXCEPT ![v] = r] /\ r.pc \in Idling
        <3>. DEFINE r == [request[v] EXCEPT !.pc = "away", !.of = "status", !.answer = None]
        <3>1. None \in Answers /\ "status" \in CacheKeys /\ "away" \in Idling
            BY DEF Answers, None, Idling, CacheKeys
        <3>2. r \in AllRequests /\ r.pc \in Idling
            BY <1>1, <3>1 DEF AllRequests
        <3>3. request' = [request EXCEPT ![v] = r]
            BY <1>1, <2>2 DEF HarnessInv, HarnessTypeOK, Doze
        <3>. QED BY <3>2, <3>3
    <2>3. CASE Poll(v)
        BY <2>1, <2>3 DEF Poll, CacheKeys
    <2>4. CASE GotStatus(v)
        BY <2>1, <2>2, <2>4 DEF GotStatus, CacheKeys
    <2>5. CASE GotPosition(v)
        BY <2>2, <2>5 DEF GotPosition
    <2>. QED BY <2>3, <2>4, <2>5
<1>3. UNCHANGED <<elapsed, tally, entries, inflight>>
    BY DEF Poll, GotStatus, GotPosition
<1>4. elapsed \in Nat /\ request \in [Loaders -> AllRequests]
    BY DEF HarnessInv, HarnessTypeOK
<1>5. PICK r \in AllRequests : request' = [request EXCEPT ![v] = r] /\ r.pc \in Idling
    BY <1>2
<1>6. /\ request' \in [Loaders -> AllRequests]
      /\ \A w \in Loaders : \/ request'[w] = request[w]
                            \/ request[w].pc \in Idling /\ request'[w].pc \in Idling
    BY <1>1, <1>4, <1>5
<1>. QED BY <1>3, <1>4, <1>6, QuietStep

LEMMA ClockStep ==
    ASSUME HarnessInv, TimePasses
    PROVE  HarnessInv'
<1>1. elapsed \in Nat /\ request \in [Loaders -> AllRequests]
    BY DEF HarnessInv, HarnessTypeOK
<1>. QED BY <1>1, QuietStep DEF TimePasses

(* A task's steps before it leads a fetch. *)
LEMMA MoveStep ==
    ASSUME HarnessInv, NEW v \in Loaders, NEW r \in AllRequests,
           request' = [request EXCEPT ![v] = r],
           request[v].pc \notin {"fetch", "forget"}, r.pc \notin {"fetch", "forget"},
           UNCHANGED <<elapsed, entries, inflight>>,
           tally' \in [CacheKeys -> Tally],
           \A k \in CacheKeys : tally'[k].origin = tally[k].origin,
           RequestsCounted'
    PROVE  HarnessInv'
<1>1. HarnessTypeOK'
    BY DEF HarnessInv, HarnessTypeOK
<1>2. LeadersHold'
    BY DEF HarnessInv, HarnessTypeOK, LeadersHold
<1>3. LifetimesCovered'
    BY DEF HarnessInv, HarnessTypeOK, LifetimesCovered
<1>. QED BY <1>1, <1>2, <1>3 DEF HarnessInv

(* A request becomes an undecided one when the cache has no answer. *)
LEMMA CheckCacheStep ==
    ASSUME HarnessInv, NEW v \in Loaders, CheckCache(v)
    PROVE  HarnessInv'
<1>1. PICK key \in CacheKeys : key = request[v].of
    BY DEF HarnessInv, HarnessTypeOK, AllRequests
<1>2. /\ request[v] \in AllRequests /\ request[v].pc = "check" /\ tally[key] \in Tally
      /\ entries[key] \in [code : Nat, body : Int, expires_at : Nat]
      /\ UNCHANGED <<elapsed, entries, inflight>>
    BY <1>1 DEF CheckCache, At, HarnessInv, HarnessTypeOK
<1>3. \E what \in {"hits", "none"}, r \in AllRequests :
        /\ request' = [request EXCEPT ![v] = r]
        /\ r.of = key /\ r.pc \in {"served", "join"}
        /\ what = "hits" => r.pc = "served"
        /\ what = "none" => r.pc = "join"
        /\ tally' = [tally EXCEPT ![key] =
                       [client |-> tally[key].client + 1,
                        hits |-> tally[key].hits + (IF what = "hits" THEN 1 ELSE 0),
                        collapsed |-> tally[key].collapsed, origin |-> tally[key].origin]]
    <2>1. CASE Fresh(key)
        <3>. DEFINE r == [request[v] EXCEPT !.pc = "served", !.answer = Cached(key), !.leader = Nobody]
        <3>1. r \in AllRequests /\ r.of = key /\ r.pc = "served"
            BY <1>1, <1>2 DEF AllRequests, Idling, Cached, Answers
        <3>2. request' = [request EXCEPT ![v] = r]
            BY <1>1, <2>1 DEF CheckCache, Answer, HarnessInv, HarnessTypeOK
        <3>3. tally' = [tally EXCEPT ![key] =
                       [client |-> tally[key].client + 1, hits |-> tally[key].hits + 1,
                        collapsed |-> tally[key].collapsed, origin |-> tally[key].origin]]
            BY <1>1, <1>2, <2>1 DEF CheckCache, HarnessInv, HarnessTypeOK, Tally
        <3>. QED BY <3>1, <3>2, <3>3
    <2>2. CASE ~Fresh(key)
        <3>. DEFINE r == [request[v] EXCEPT !.pc = "join"]
        <3>1. r \in AllRequests /\ r.of = key /\ r.pc = "join"
            BY <1>1, <1>2 DEF AllRequests, Busy
        <3>2. request' = [request EXCEPT ![v] = r]
            BY <1>1, <2>2 DEF CheckCache, Goto, HarnessInv, HarnessTypeOK
        <3>3. tally' = [tally EXCEPT ![key] =
                       [client |-> tally[key].client + 1, hits |-> tally[key].hits + 0,
                        collapsed |-> tally[key].collapsed, origin |-> tally[key].origin]]
            BY <1>1, <1>2, <2>2 DEF CheckCache, Count, HarnessInv, HarnessTypeOK, Tally
        <3>. QED BY <3>1, <3>2, <3>3
    <2>. QED BY <2>1, <2>2
<1>4. PICK what \in {"hits", "none"}, r \in AllRequests :
        /\ request' = [request EXCEPT ![v] = r]
        /\ r.of = key /\ r.pc \in {"served", "join"}
        /\ what = "hits" => r.pc = "served"
        /\ what = "none" => r.pc = "join"
        /\ tally' = [tally EXCEPT ![key] =
                       [client |-> tally[key].client + 1,
                        hits |-> tally[key].hits + (IF what = "hits" THEN 1 ELSE 0),
                        collapsed |-> tally[key].collapsed, origin |-> tally[key].origin]]
    BY <1>3
<1>5. /\ request'[v] = r /\ \A w \in Loaders \ {v} : request'[w] = request[w]
      /\ tally'[key] = [client |-> tally[key].client + 1,
                        hits |-> tally[key].hits + (IF what = "hits" THEN 1 ELSE 0),
                        collapsed |-> tally[key].collapsed, origin |-> tally[key].origin]
      /\ \A k \in CacheKeys \ {key} : tally'[k] = tally[k]
    BY <1>4 DEF HarnessInv, HarnessTypeOK
<1>6. tally' \in [CacheKeys -> Tally] /\ \A k \in CacheKeys : tally'[k].origin = tally[k].origin
    <2>1. tally'[key] \in Tally /\ tally'[key].origin = tally[key].origin
        BY <1>2, <1>5 DEF Tally
    <2>. QED BY <1>4, <1>5, <2>1 DEF HarnessInv, HarnessTypeOK
<1>7. RequestsCounted'
    <2>. SUFFICES ASSUME NEW k \in CacheKeys
                  PROVE  tally'[k].client = tally'[k].hits + tally'[k].collapsed + tally'[k].origin
                                              + Cardinality(Undecided(k)')
        BY DEF RequestsCounted
    <2>1. tally[k].client = tally[k].hits + tally[k].collapsed + tally[k].origin
                              + Cardinality(Undecided(k))
        BY DEF HarnessInv, RequestsCounted
    <2>2. CASE k # key
        <3>1. Undecided(k)' = Undecided(k)
            BY <1>1, <1>4, <1>5, <2>2 DEF Undecided
        <3>. QED BY <1>5, <2>1, <2>2, <3>1
    <2>3. CASE k = key /\ what = "hits"
        <3>1. Undecided(k)' = Undecided(k)
            BY <1>2, <1>4, <1>5, <2>3 DEF Undecided
        <3>2. Cardinality(Undecided(k)) \in Nat
            BY UndecidedFinite
        <3>. QED BY <1>2, <1>5, <2>1, <2>3, <3>1, <3>2 DEF Tally
    <2>4. CASE k = key /\ what = "none"
        <3>1. Undecided(k)' = Undecided(k) \cup {v} /\ v \notin Undecided(k)
            BY <1>2, <1>4, <1>5, <2>4 DEF Undecided
        <3>2. Cardinality(Undecided(k)) \in Nat
              /\ Cardinality(Undecided(k)') = Cardinality(Undecided(k)) + 1
            BY <3>1, UndecidedFinite, FS_AddElement
        <3>. QED BY <1>2, <1>5, <2>1, <2>4, <3>2 DEF Tally
    <2>. QED BY <2>2, <2>3, <2>4
<1>8. r.pc \notin {"fetch", "forget"} /\ request[v].pc \notin {"fetch", "forget"}
    BY <1>2, <1>4
<1>. QED BY <1>2, <1>4, <1>6, <1>7, <1>8, MoveStep

(* An undecided request that waits or is served without a fetch. *)
LEMMA DecidedStep ==
    ASSUME HarnessInv, NEW v \in Loaders, NEW CONSTANT key \in CacheKeys, key = request[v].of,
           NEW r \in AllRequests, NEW what \in {"hits", "collapsed"},
           request[v].pc \in {"join", "lead"}, r.pc \in Idling,
           request' = [request EXCEPT ![v] = r],
           tally' = [tally EXCEPT ![key][what] = @ + 1],
           UNCHANGED <<elapsed, entries, inflight>>
    PROVE  HarnessInv'
<1>1. /\ request \in [Loaders -> AllRequests] /\ tally \in [CacheKeys -> Tally]
      /\ r.pc \notin {"join", "lead", "fetch", "forget"}
    BY DEF HarnessInv, HarnessTypeOK, Idling
<1>2. /\ DOMAIN request' = Loaders /\ request'[v] = r
      /\ \A w \in Loaders \ {v} : request'[w] = request[w]
    BY <1>1
<1>3. tally' \in [CacheKeys -> Tally] /\ RequestsCounted'
    BY <1>1, <1>2, CountsMove
<1>4. \A k \in CacheKeys : tally'[k].origin = tally[k].origin
    BY <1>1 DEF Tally
<1>. QED BY <1>1, <1>3, <1>4, MoveStep

(* An undecided request is decided once: it waits, is served or leads. *)
LEMMA JoinFetchStep ==
    ASSUME HarnessInv, NEW v \in Loaders, JoinFetch(v)
    PROVE  HarnessInv'
<1>1. PICK key \in CacheKeys : key = request[v].of
    BY DEF HarnessInv, HarnessTypeOK, AllRequests
<1>2. /\ request[v] \in AllRequests /\ request[v].pc = "join"
      /\ inflight[key] \in Loaders \cup {Nobody}
      /\ request \in [Loaders -> AllRequests] /\ tally \in [CacheKeys -> Tally]
      /\ UNCHANGED <<elapsed, entries, inflight>>
    BY <1>1 DEF JoinFetch, At, HarnessInv, HarnessTypeOK
<1>3. CASE inflight[key] # Nobody
    <2>. DEFINE r == [request[v] EXCEPT !.pc = "waiting", !.leader = inflight[key]]
    <2>1. r \in AllRequests /\ r.pc \in Idling
        BY <1>2 DEF AllRequests, Idling
    <2>2. request' = [request EXCEPT ![v] = r] /\ tally' = [tally EXCEPT ![key]["collapsed"] = @ + 1]
        BY <1>1, <1>2, <1>3 DEF JoinFetch, WaitFor, Count
    <2>3. request[v].pc \in {"join", "lead"} /\ "collapsed" \in {"hits", "collapsed"}
        BY <1>2
    <2>. HIDE DEF r
    <2>. QED BY <1>1, <1>2, <2>1, <2>2, <2>3, DecidedStep
<1>4. CASE inflight[key] = Nobody
    <2>. DEFINE r == [request[v] EXCEPT !.pc = "lead"]
    <2>1. r \in AllRequests /\ r.pc = "lead" /\ r.of = key
        BY <1>1, <1>2 DEF AllRequests, Busy
    <2>2. request' = [request EXCEPT ![v] = r] /\ tally' = tally
        BY <1>1, <1>2, <1>4 DEF JoinFetch, Goto
    <2>. HIDE DEF r
    <2>3. \A k \in CacheKeys : Undecided(k)' = Undecided(k)
        BY <1>1, <1>2, <2>1, <2>2 DEF Undecided
    <2>4. RequestsCounted'
        BY <2>2, <2>3, CountsKept DEF HarnessInv
    <2>. QED BY <1>2, <2>1, <2>2, <2>4, MoveStep
<1>. QED BY <1>3, <1>4

(* Whoever leads found nobody leading and the answer expired: the lifetimes *)
(* covered so far have passed.                                              *)
LEMMA LeadStep ==
    ASSUME HarnessInv, NEW v \in Loaders, Lead(v)
    PROVE  HarnessInv'
<1>1. PICK key \in CacheKeys : key = request[v].of
    BY DEF HarnessInv, HarnessTypeOK, AllRequests
<1>2. /\ request[v] \in AllRequests /\ request[v].pc = "lead"
      /\ inflight \in [CacheKeys -> Loaders \cup {Nobody}]
      /\ entries[key] \in [code : Nat, body : Int, expires_at : Nat]
      /\ request \in [Loaders -> AllRequests] /\ tally \in [CacheKeys -> Tally]
      /\ elapsed \in Nat /\ UNCHANGED <<elapsed, entries>>
    BY <1>1 DEF Lead, At, HarnessInv, HarnessTypeOK
<1>3. CASE inflight[key] # Nobody
    <2>. DEFINE r == [request[v] EXCEPT !.pc = "waiting", !.leader = inflight[key]]
    <2>1. r \in AllRequests /\ r.pc \in Idling
        BY <1>2 DEF AllRequests, Idling
    <2>2. /\ request' = [request EXCEPT ![v] = r]
          /\ tally' = [tally EXCEPT ![key]["collapsed"] = @ + 1]
          /\ UNCHANGED inflight
        BY <1>1, <1>2, <1>3 DEF Lead, WaitFor, Count
    <2>3. request[v].pc \in {"join", "lead"} /\ "collapsed" \in {"hits", "collapsed"}
        BY <1>2
    <2>. HIDE DEF r
    <2>. QED BY <1>1, <1>2, <2>1, <2>2, <2>3, DecidedStep
<1>4. CASE inflight[key] = Nobody /\ StillFresh(key)
    <2>. DEFINE r == [request[v] EXCEPT !.pc = "served", !.answer = Cached(key), !.leader = Nobody]
    <2>1. r \in AllRequests /\ r.pc \in Idling
        BY <1>2 DEF AllRequests, Idling, Cached, Answers
    <2>2. /\ request' = [request EXCEPT ![v] = r]
          /\ tally' = [tally EXCEPT ![key]["hits"] = @ + 1]
          /\ UNCHANGED inflight
        BY <1>1, <1>2, <1>4 DEF Lead, Answer, Count
    <2>3. request[v].pc \in {"join", "lead"} /\ "hits" \in {"hits", "collapsed"}
        BY <1>2
    <2>. HIDE DEF r
    <2>. QED BY <1>1, <1>2, <2>1, <2>2, <2>3, DecidedStep
<1>5. CASE inflight[key] = Nobody /\ ~StillFresh(key)
    <2>. DEFINE r == [request[v] EXCEPT !.pc = "fetch"]
    <2>1. r \in AllRequests /\ r.pc = "fetch" /\ r.of = key
        BY <1>1, <1>2 DEF AllRequests, Busy
    <2>2. /\ request' = [request EXCEPT ![v] = r]
          /\ tally' = [tally EXCEPT ![key]["origin"] = @ + 1]
          /\ inflight' = [inflight EXCEPT ![key] = v]
        BY <1>1, <1>2, <1>5 DEF Lead, Goto, Count
    <2>. HIDE DEF r
    <2>3. /\ request' \in [Loaders -> AllRequests] /\ request'[v] = r
          /\ \A w \in Loaders \ {v} : request'[w] = request[w]
        BY <1>2, <2>1, <2>2
    <2>4. tally' \in [CacheKeys -> Tally] /\ RequestsCounted'
        <3>1. /\ DOMAIN request' = Loaders /\ request'[v].pc \notin {"join", "lead"}
              /\ request[v].pc \in {"join", "lead"} /\ "origin" \in {"hits", "collapsed", "origin"}
            BY <1>2, <2>1, <2>3
        <3>. QED BY <1>1, <2>2, <2>3, <3>1, CountsMove
    <2>5. HarnessTypeOK'
        BY <1>2, <2>2, <2>3, <2>4 DEF HarnessInv, HarnessTypeOK
    <2>6. ASSUME NEW w \in Loaders \ {v}, request[w].pc \in {"fetch", "forget"}
          PROVE  request[w].of # key
        <3>1. w # Nobody
            BY LoadersAssumption
        <3>. QED BY <1>5, <2>6, <3>1 DEF HarnessInv, LeadersHold
    <2>7. LeadersHold'
        <3>. SUFFICES ASSUME NEW w \in Loaders, request'[w].pc \in {"fetch", "forget"}
                      PROVE  inflight'[request'[w].of] = w
            BY DEF LeadersHold
        <3>1. CASE w = v
            BY <1>2, <2>1, <2>2, <2>3, <3>1
        <3>2. CASE w # v
            <4>1. request'[w] = request[w] /\ request[w].of # key /\ request[w].of \in CacheKeys
                BY <1>2, <2>3, <2>6, <3>2 DEF AllRequests
            <4>2. inflight[request[w].of] = w
                BY <4>1 DEF HarnessInv, LeadersHold
            <4>. QED BY <1>2, <2>2, <4>1, <4>2
        <3>. QED BY <3>1, <3>2
    <2>8. LifetimesCovered'
        <3>. SUFFICES ASSUME NEW k \in CacheKeys
                      PROVE  /\ tally'[k].origin <= 1 + elapsed
                             /\ \/ tally'[k].origin <= entries[k].expires_at
                                \/ \E w \in Loaders : request'[w].pc = "fetch" /\ request'[w].of = k
            BY <1>2 DEF LifetimesCovered
        <3>1. CASE k = key
            <4>1. tally'[k].origin = tally[k].origin + 1 /\ tally[k].origin \in Nat
                BY <1>2, <2>2, <3>1 DEF Tally
            <4>2. tally[k].origin <= entries[k].expires_at
                BY <1>2, <2>6, <3>1 DEF HarnessInv, LifetimesCovered
            <4>3. entries[k].expires_at <= elapsed /\ entries[k].expires_at \in Nat
                BY <1>2, <1>5, <3>1 DEF StillFresh, Fresh
            <4>. QED BY <1>2, <2>1, <2>3, <3>1, <4>1, <4>2, <4>3
        <3>2. CASE k # key
            <4>1. tally'[k] = tally[k]
                BY <1>2, <2>2, <3>2
            <4>2. \A w \in Loaders : request[w].pc = "fetch" => request'[w] = request[w]
                BY <1>2, <2>3
            <4>. QED BY <4>1, <4>2 DEF HarnessInv, LifetimesCovered
        <3>. QED BY <3>1, <3>2
    <2>. QED BY <2>4, <2>5, <2>7, <2>8 DEF HarnessInv
<1>. QED BY <1>3, <1>4, <1>5

(* An answer covers a lifetime at least, an error more. *)
LEMMA FetchStep ==
    ASSUME HarnessInv, NEW v \in Loaders, Fetch(v)
    PROVE  HarnessInv'
<1>1. PICK key \in CacheKeys : key = request[v].of
    BY DEF HarnessInv, HarnessTypeOK, AllRequests
<1>2. /\ request[v] \in AllRequests /\ request[v].pc = "fetch"
      /\ request \in [Loaders -> AllRequests] /\ tally \in [CacheKeys -> Tally]
      /\ entries \in [CacheKeys -> [code : Nat, body : Int, expires_at : Nat]]
      /\ elapsed \in Nat /\ UNCHANGED <<elapsed, inflight, tally>>
    BY <1>1 DEF Fetch, At, HarnessInv, HarnessTypeOK
<1>3. PICK answer \in OriginAnswers(key) :
        /\ request' = [request EXCEPT ![v].pc = "forget", ![v].answer = answer]
        /\ entries' = [entries EXCEPT ![key] =
                         [code |-> answer.code, body |-> answer.body,
                          expires_at |-> elapsed + Lifetime(answer)]]
    BY <1>1 DEF Fetch
<1>4. answer \in Answers
    BY <1>3 DEF OriginAnswers, Answers, Closed, PositionHeld
<1>5. Lifetime(answer) \in Nat /\ Lifetime(answer) >= 1
    BY DEF Lifetime, ERROR_TTL, POLLED_TTL
<1>. DEFINE r == [request[v] EXCEPT !.pc = "forget", !.answer = answer]
<1>6. r \in AllRequests /\ r.pc = "forget" /\ r.of = key
    BY <1>1, <1>2, <1>4 DEF AllRequests, Busy
<1>7. request' = [request EXCEPT ![v] = r]
    BY <1>2, <1>3
<1>. HIDE DEF r
<1>8. /\ request' \in [Loaders -> AllRequests] /\ request'[v] = r
      /\ \A w \in Loaders \ {v} : request'[w] = request[w]
    BY <1>2, <1>6, <1>7
<1>9. /\ entries' \in [CacheKeys -> [code : Nat, body : Int, expires_at : Nat]]
      /\ entries'[key].expires_at = elapsed + Lifetime(answer)
      /\ \A k \in CacheKeys \ {key} : entries'[k] = entries[k]
    BY <1>2, <1>3, <1>4, <1>5 DEF Answers
<1>10. HarnessTypeOK'
    BY <1>2, <1>8, <1>9 DEF HarnessInv, HarnessTypeOK
<1>11. LeadersHold'
    BY <1>1, <1>2, <1>6, <1>8 DEF HarnessInv, LeadersHold
<1>12. LifetimesCovered'
    <2>. SUFFICES ASSUME NEW k \in CacheKeys
                  PROVE  /\ tally[k].origin <= 1 + elapsed
                         /\ \/ tally[k].origin <= entries'[k].expires_at
                            \/ \E w \in Loaders : request'[w].pc = "fetch" /\ request'[w].of = k
        BY <1>2 DEF LifetimesCovered
    <2>1. tally[k].origin <= 1 + elapsed /\ tally[k].origin \in Nat
        BY <1>2 DEF HarnessInv, LifetimesCovered, Tally
    <2>2. CASE k = key
        BY <1>2, <1>5, <1>9, <2>1, <2>2
    <2>3. CASE k # key
        <3>1. \A w \in Loaders : request[w].pc = "fetch" /\ request[w].of = k
                                    => request'[w] = request[w]
            BY <1>1, <1>8, <2>3
        <3>. QED BY <1>9, <2>1, <2>3, <3>1 DEF HarnessInv, LifetimesCovered
    <2>. QED BY <2>2, <2>3
<1>13. RequestsCounted'
    <2>1. \A k \in CacheKeys : Undecided(k)' = Undecided(k)
        BY <1>2, <1>6, <1>8 DEF Undecided
    <2>. QED BY <1>2, <2>1, CountsKept DEF HarnessInv
<1>. QED BY <1>10, <1>11, <1>12, <1>13 DEF HarnessInv

LEMMA ForgetStep ==
    ASSUME HarnessInv, NEW v \in Loaders, ForgetFetch(v)
    PROVE  HarnessInv'
<1>1. PICK key \in CacheKeys : key = request[v].of
    BY DEF HarnessInv, HarnessTypeOK, AllRequests
<1>2. /\ request[v] \in AllRequests /\ request[v].pc = "forget"
      /\ request \in [Loaders -> AllRequests]
      /\ inflight \in [CacheKeys -> Loaders \cup {Nobody}]
      /\ inflight' = [inflight EXCEPT ![key] = Nobody]
      /\ UNCHANGED <<elapsed, entries, tally>>
    BY <1>1 DEF ForgetFetch, At, HarnessInv, HarnessTypeOK
<1>. DEFINE r == [request[v] EXCEPT !.pc = "publish"]
<1>3. r \in AllRequests /\ r.pc = "publish"
    BY <1>2 DEF AllRequests, Idling
<1>4. request' = [request EXCEPT ![v] = r]
    BY <1>2 DEF ForgetFetch, Goto
<1>. HIDE DEF r
<1>5. /\ request' \in [Loaders -> AllRequests] /\ request'[v] = r
      /\ \A w \in Loaders \ {v} : request'[w] = request[w]
    BY <1>2, <1>3, <1>4
<1>6. HarnessTypeOK'
    BY <1>2, <1>5 DEF HarnessInv, HarnessTypeOK
<1>7. LeadersHold'
    <2>. SUFFICES ASSUME NEW w \in Loaders, request'[w].pc \in {"fetch", "forget"}
                  PROVE  inflight'[request'[w].of] = w
        BY DEF LeadersHold
    <2>1. w # v /\ request'[w] = request[w] /\ request[w].of \in CacheKeys
        BY <1>2, <1>3, <1>5 DEF AllRequests
    <2>2. inflight[request[w].of] = w /\ inflight[key] = v
        BY <1>1, <1>2, <2>1 DEF HarnessInv, LeadersHold
    <2>. QED BY <1>2, <2>1, <2>2
<1>8. LifetimesCovered'
    BY <1>2, <1>5 DEF HarnessInv, LifetimesCovered
<1>9. RequestsCounted'
    <2>1. \A k \in CacheKeys : Undecided(k)' = Undecided(k)
        BY <1>2, <1>3, <1>5 DEF Undecided
    <2>. QED BY <1>2, <2>1, CountsKept DEF HarnessInv
<1>. QED BY <1>6, <1>7, <1>8, <1>9 DEF HarnessInv

(* edge.rs, "Request collapsing": however many tasks poll, in whatever     *)
(* order their locks interleave, and however long the run, a key is        *)
(* fetched at most once a lifetime and every request is counted once.      *)
THEOREM OriginFlatCorrect ==
    ASSUME NEW Ways, NEW Asks
    PROVE  HarnessInit(Ways, Asks) /\ [][HarnessNext]_harnessVars => []OriginFlat
<1>1. HarnessInit(Ways, Asks) => HarnessInv
    <2>. SUFFICES ASSUME HarnessInit(Ways, Asks) PROVE HarnessInv
        OBVIOUS
    <2>1. HarnessTypeOK
        BY DEF HarnessInit, HarnessTypeOK, Unread, None, Tally, AllRequests, Answers, Idling,
               CacheKeys
    <2>2. LeadersHold /\ LifetimesCovered
        BY DEF HarnessInit, LeadersHold, LifetimesCovered, Unread
    <2>3. RequestsCounted
        <3>1. \A k \in CacheKeys : Undecided(k) = {}
            BY DEF HarnessInit, Undecided
        <3>2. \A k \in CacheKeys :
                tally[k] = [client |-> 0, hits |-> 0, collapsed |-> 0, origin |-> 0]
            BY DEF HarnessInit
        <3>3. \A k \in CacheKeys : Cardinality(Undecided(k)) = 0
            BY <3>1, FS_EmptySet
        <3>. QED BY <3>2, <3>3 DEF RequestsCounted
    <2>. QED BY <2>1, <2>2, <2>3 DEF HarnessInv
<1>2. HarnessInv /\ [HarnessNext]_harnessVars => HarnessInv'
    <2>. SUFFICES ASSUME HarnessInv, [HarnessNext]_harnessVars PROVE HarnessInv'
        OBVIOUS
    <2>1. CASE UNCHANGED harnessVars
        <3>1. elapsed \in Nat /\ request \in [Loaders -> AllRequests]
            BY DEF HarnessInv, HarnessTypeOK
        <3>. QED BY <2>1, <3>1, QuietStep DEF harnessVars
    <2>2. CASE TimePasses
        BY <2>2, ClockStep
    <2>3. CASE \E v \in Loaders : serve(v) \/ run(v)
        BY <2>3, CheckCacheStep, JoinFetchStep, LeadStep, FetchStep, ForgetStep, PublishStep,
           TaskStep DEF serve, run
    <2>. QED BY <2>1, <2>2, <2>3 DEF HarnessNext
<1>3. HarnessInv => OriginFlat
    <2>. SUFFICES ASSUME HarnessInv, NEW k \in CacheKeys
                  PROVE  /\ tally[k].origin <= 1 + elapsed \div POLLED_TTL
                         /\ tally[k].client = tally[k].hits + tally[k].collapsed + tally[k].origin
                              + Cardinality({v \in Loaders :
                                    request[v].of = k /\ request[v].pc \in {"join", "lead"}})
        BY DEF OriginFlat
    <2>1. elapsed \div POLLED_TTL = elapsed
        BY DEF HarnessInv, HarnessTypeOK, POLLED_TTL
    <2>. QED BY <2>1 DEF HarnessInv, LifetimesCovered, RequestsCounted, Undecided
<1>. QED BY <1>1, <1>2, <1>3, PTL
=============================================================================
