-------------------------------- MODULE Gate --------------------------------
(***************************************************************************)
(* One admitted visitor between the edge gate (gate.js) and the waiting    *)
(* page: the gate passes or refuses each request, the page mints a session *)
(* (generate_token) and goes back.  The visitor's network may change       *)
(* between any two requests, and the operator changes the gate's           *)
(* configuration.  HMACs are ideal: a session verifies, and a network's    *)
(* tag is the network.                                                     *)
(***************************************************************************)
EXTENDS Integers, Sequences

CONSTANTS
    Viewers,           \* the networks a request may come from
    MaxTime            \* the clock stops there

VARIABLES
    cfg,               \* the key-value store's "c"
    time, skew,        \* the Lambda's and the browser's clock, and how far the edge's is off
    viewer,            \* the network the next request comes from
    cookie, at,        \* the session cookie, and where the visitor is
    reason,            \* the page's r= parameter
    ip_rebind,         \* when the page last went back after a mint for r=ip
    refusals           \* history: when the gate refused her for her network

gateVars == <<cfg, time, skew, viewer, cookie, at, reason, ip_rebind, refusals>>

SESSION_TTL == 3
IP_REBIND_WINDOW == 2
Never == -10
Unknown == "unknown"
ASSUME ViewersAssumption == Unknown \notin Viewers

(* flaw is what verify or the event check holds against a cookie. *)
NoCookie == [flaw |-> "none", expires |-> 0, tag |-> "none", network |-> "none"]
Foreign(flaw) == [flaw |-> flaw, expires |-> SESSION_TTL, tag |-> "none", network |-> Unknown]

-----------------------------------------------------------------------------
(* The gate.                                                               *)

(* The first check that applies decides; with no rules nothing is covered. *)
EdgeTime == time + skew
Waived ==
    cfg.dormant \/ cfg.enforce_from > EdgeTime \/ cfg.fail_open_until > EdgeTime

handler ==
    IF Waived THEN "pass"
    ELSE IF cookie = NoCookie THEN "none"
    ELSE IF cookie.flaw # "none" THEN cookie.flaw
    ELSE IF EdgeTime >= cookie.expires THEN "expired"
    ELSE IF cfg.bind /\ cookie.tag # viewer THEN "ip" ELSE "pass"

GateInit(configs, skews, viewers, cookies) ==
    /\ cfg \in configs
    /\ time = 0 /\ skew \in skews /\ viewer \in viewers
    /\ cookie \in cookies /\ at = "leaving" /\ reason = "none"
    /\ ip_rebind = Never /\ refusals = <<>>

(* A gate that throws, on a failed read of the store, lets the request by. *)
Request ==
    /\ at \in {"leaving", "origin"}
    /\ \/ at' = "origin" /\ UNCHANGED <<reason, refusals>>
       \/ /\ handler # "pass"
          /\ at' = "page" /\ reason' = handler
          /\ refusals' = IF handler = "ip" THEN Append(refusals, time) ELSE refusals
    /\ UNCHANGED <<cfg, time, skew, viewer, cookie, ip_rebind>>

-----------------------------------------------------------------------------
(* generate_token and the page's redeem.                                   *)

(* The tag is made whenever the address is known; the mutant only while    *)
(* the gate would ask for it.                                              *)
MintedTagIfBound(address) == IF cfg.bind /\ address # Unknown THEN address ELSE "none"
MintedTag(address) == IF address # Unknown THEN address ELSE "none"

(* network is history: where the session was minted, as far as is known. *)
Minted(address) ==
    [flaw |-> "none", expires |-> time + SESSION_TTL,
     tag |-> MintedTag(address), network |-> address]

(* The mutant goes back without remembering it. *)
RememberedNot == ip_rebind
Remembered == time

(* The session is minted before the page looks at r=ip: the visit that is  *)
(* stopped has a fresh one too.  The address header may be missing.        *)
redeem ==
    /\ at = "page"
    /\ \E address \in {viewer, Unknown} : cookie' = Minted(address)
    /\ \/ reason # "ip" /\ at' = "leaving" /\ UNCHANGED ip_rebind
       \/ /\ reason = "ip" /\ time - ip_rebind < IP_REBIND_WINDOW
          /\ at' = "stopped" /\ UNCHANGED ip_rebind
       \/ /\ reason = "ip" /\ time - ip_rebind >= IP_REBIND_WINDOW
          /\ at' = "leaving" /\ ip_rebind' = Remembered
    /\ UNCHANGED <<cfg, time, skew, viewer, reason, refusals>>

(* The stopped page asks for a reload, which keeps the address and its r=. *)
Reload ==
    /\ at = "stopped"
    /\ at' = "page"
    /\ UNCHANGED <<cfg, time, skew, viewer, cookie, reason, ip_rebind, refusals>>

-----------------------------------------------------------------------------
(* Around them.                                                            *)

Roam ==
    /\ viewer' \in Viewers \ {viewer}
    /\ UNCHANGED <<cfg, time, skew, cookie, at, reason, ip_rebind, refusals>>

(* apply_ip_binding, apply_set_rules and apply_fail_open, as the edge sees *)
(* them.                                                                   *)
Reconfigure ==
    /\ \/ cfg' = [cfg EXCEPT !.bind = ~@]
       \/ cfg' = [cfg EXCEPT !.dormant = ~@]
       \/ cfg' = [cfg EXCEPT !.fail_open_until = time + 1]
       \/ cfg' = [cfg EXCEPT !.fail_open_until = 0]
    /\ UNCHANGED <<time, skew, viewer, cookie, at, reason, ip_rebind, refusals>>

(* The browser drops the cookie at its Max-Age. *)
ClockTicks ==
    /\ time < MaxTime
    /\ time' = time + 1
    /\ cookie' = IF cookie.expires <= time' THEN NoCookie ELSE cookie
    /\ UNCHANGED <<cfg, skew, viewer, at, reason, ip_rebind, refusals>>

GateNext == Request \/ redeem \/ Reload \/ Roam \/ Reconfigure \/ ClockTicks

-----------------------------------------------------------------------------
(* A session keeps working on the network that redeemed it until it        *)
(* expires at that edge, whatever the operator switches on after it was    *)
(* minted (lib.rs, "turning IP binding on also covers sessions minted      *)
(* before it was switched on"); one minted with no address known is no     *)
(* good while binding is on.                                               *)
NeverTurnedAway ==
    [][at' = "page" /\ at \in {"leaving", "origin"} =>
         \/ cookie = NoCookie \/ cookie.flaw # "none"
         \/ cookie.expires <= EdgeTime
         \/ cfg.bind /\ cookie.network # viewer]_gateVars

(* The gate and the page do not send a visitor back and forth: however her *)
(* network, the settings and her sessions change, and however often she    *)
(* reloads, the gate refuses her for her network at most twice in a window *)
(* (redeem, "stop, rather than bounce between the gate and this page").    *)
BounceBounded ==
    \A k \in 1 .. Len(refusals) - 2 : refusals[k + 2] - refusals[k] >= IP_REBIND_WINDOW
=============================================================================
