----------------------------- MODULE Readiness ------------------------------
(***************************************************************************)
(* The readiness panel of the dashboard (readiness.rs, probe.rs): eight    *)
(* bounded futures run concurrently, each reading the deployment through   *)
(* one or more AWS calls, and nine rows are judged from what those calls   *)
(* returned.                                                               *)
(* Quantities are small: DEFAULT_QUOTA is the quota nobody has raised, and *)
(* REGISTRATION_TARGET the registration rate.  Wording is left out.        *)
(***************************************************************************)
EXTENDS Integers

VARIABLES
    deployment,        \* what each call finds, and the configured targets
    answers,           \* what each call that succeeded returned
    failed,            \* the calls that returned an error
    late               \* the futures whose time ran out

readinessVars == <<deployment, answers, failed, late>>
answered == DOMAIN answers

REGISTRATION_TARGET == 2
DEFAULT_QUOTA == 1
PanelNow == 1
NotReported == -1

(* The bounded futures of run_checks and the calls each one makes. *)
WarmedTables == {"Counters", "PreQueue", "Positions", "Tokens"}
Futures ==
    [warm |-> WarmedTables, limits |-> {"limits"}, api |-> {"api"},
     concurrency |-> {"concurrency"}, open |-> {"open"},
     controller |-> {"controller"}, gate |-> {"gate"},
     edge |-> {"pointer", "distribution", "policy"}]

Calls == UNION {Futures[f] : f \in DOMAIN Futures}

-----------------------------------------------------------------------------
(* The reads.                                                              *)

(* A table that reports no warm throughput counts as warmed to nothing. *)
warm_throughput(t) ==
    LET units(n) == IF n = NotReported THEN 0 ELSE n
    IN  [write   |-> units(answers[t].write),
         read    |-> units(answers[t].read),
         warming |-> answers[t].warming]

(* The behaviour the polled path is served by, if any: one on the legacy   *)
(* cache settings has no policy to read and is reported as an error.       *)
StatusBehaviour == {b \in answers.distribution.behaviours : b.path = "status"}
Legacy == \E b \in StatusBehaviour : ~b.policy

gate_on_default == "viewer-request" \in answers.distribution.default
gate_elsewhere == {b \in answers.distribution.behaviours : b.gate}

(* edge_facts: the pointer, then the distribution, then the policy. *)
Made(call) ==
    /\ call = "distribution" =>
          "pointer" \in answered /\ answers.pointer = "published"
    /\ call = "policy" =>
          "distribution" \in answered /\ StatusBehaviour # {} /\ ~Legacy

EdgeError ==
    \/ "pointer" \in answered /\ answers.pointer = "malformed"
    \/ "distribution" \in answered /\ Legacy

(* The mutant judges the tables that answered and skips one that did not.  *)
BrokenBarTables(f) ==
    \/ f \in late \/ (f # "warm" /\ Futures[f] \cap failed # {})
    \/ f = "edge" /\ EdgeError

Broken(f) ==
    \/ f \in late \/ Futures[f] \cap failed # {}
    \/ f = "edge" /\ EdgeError

(* join! waits for all four tables; edge_facts stops at its first error.   *)
Settled(f) ==
    \/ f \in late
    \/ f = "edge" /\ Broken(f)
    \/ {call \in Futures[f] : Made(call)} \subseteq answered \cup failed

-----------------------------------------------------------------------------
(* The judgement.                                                          *)

evaluate_warm_throughput(targets, applied) ==
    LET low(t, unit) == warm_throughput(t)[unit] < targets[unit]
    IN  IF \E t \in applied : low(t, "write") \/ low(t, "read") THEN "Fail"
        ELSE IF \/ \E t \in applied : warm_throughput(t).warming
                \/ /\ "PreQueue" \in applied
                   /\ warm_throughput("PreQueue").write < REGISTRATION_TARGET
                \/ targets = [write |-> 0, read |-> 0]
        THEN "Warn" ELSE "Pass"

evaluate_dynamodb_limits(limit, targets) ==
    IF limit = NotReported THEN "NotEvaluable"
    ELSE IF limit < targets.write THEN "Fail"
    ELSE IF limit <= DEFAULT_QUOTA THEN "Warn" ELSE "Pass"

evaluate_api_gateway_throttle(rate) ==
    IF rate = NotReported THEN "NotEvaluable"
    ELSE IF rate < DEFAULT_QUOTA THEN "Fail"
    ELSE IF rate = DEFAULT_QUOTA THEN "Warn" ELSE "Pass"

(* An unreserved function fails as one reserved to nothing does. *)
evaluate_reserved_concurrency(n) == IF n <= 0 THEN "Fail" ELSE "Pass"

(* NotReported is an expression that is no one-time at(). *)
evaluate_open_schedule(s) ==
    IF s.state = "absent" THEN "Fail"
    ELSE IF s.state = "enabled" /\ s.at > PanelNow THEN "Pass" ELSE "Warn"

evaluate_controller_schedule(s) == IF s.state = "enabled" THEN "Pass" ELSE "Fail"

evaluate_gate_ruleset(cfg) ==
    IF cfg.rules = 0 \/ cfg.fail_open_until > PanelNow THEN "Warn" ELSE "Pass"

cache_policy_facts ==
    [min_ttl |-> answers.policy.min_ttl,
     cookies |-> answers.policy.cookies \notin {"unset", "none"}]

evaluate_status_caching ==
    IF StatusBehaviour # {} /\ cache_policy_facts.min_ttl > 0 /\ ~cache_policy_facts.cookies
    THEN "Pass" ELSE "Fail"

evaluate_gate_association ==
    IF gate_on_default /\ gate_elsewhere = {} THEN "Pass" ELSE "Fail"

(* One row per check whatever happened: an unread one is not evaluable.    *)
Row(f, verdict) == IF Broken(f) THEN "NotEvaluable" ELSE verdict
EdgeRow(verdict) ==
    IF Broken("edge") \/ answers.pointer = "absent" THEN "NotEvaluable" ELSE verdict

run_checks ==
    LET targets == deployment.targets
        applied == WarmedTables \cap answered
    IN  [WarmThroughput     |-> Row("warm", evaluate_warm_throughput(targets, applied)),
         DynamoDbLimits     |-> Row("limits", evaluate_dynamodb_limits(answers.limits, targets)),
         ApiGatewayThrottle |-> Row("api", evaluate_api_gateway_throttle(answers.api)),
         AssignPositionConcurrency |->
             Row("concurrency", evaluate_reserved_concurrency(answers.concurrency)),
         OpenSchedule       |-> Row("open", evaluate_open_schedule(answers.open)),
         ControllerSchedule |->
             Row("controller", evaluate_controller_schedule(answers.controller)),
         GateRuleset        |-> Row("gate", evaluate_gate_ruleset(answers.gate)),
         StatusCaching      |-> EdgeRow(evaluate_status_caching),
         GateAssociation    |-> EdgeRow(evaluate_gate_association)]

-----------------------------------------------------------------------------
(* The calls and the timer.  Calls outside awaited have returned already:  *)
(* the futures share nothing, so they are explored a few at a time.        *)

ReadinessInit(deployments, awaited) ==
    /\ deployment \in deployments
    /\ answers = [call \in Calls \ awaited |-> deployment[call]]
    /\ failed = {} /\ late = {}

Pending(call) ==
    /\ call \in Calls \ (answered \cup failed)
    /\ Made(call)
    /\ \E f \in DOMAIN Futures : call \in Futures[f] /\ ~Settled(f)

CallReturns ==
    /\ \E call \in Calls :
          /\ Pending(call)
          /\ \/ /\ answers' = [done \in answered \cup {call} |->
                               IF done = call THEN deployment[call] ELSE answers[done]]
                /\ UNCHANGED failed
             \/ failed' = failed \cup {call} /\ UNCHANGED answers
    /\ UNCHANGED <<deployment, late>>

(* PER_CHECK_TIMEOUT bounds a whole future, not each of its calls. *)
bounded(f) == ~Settled(f)

TimesOut ==
    /\ \E f \in DOMAIN Futures : bounded(f) /\ late' = late \cup {f}
    /\ UNCHANGED <<deployment, answers, failed>>

ReadinessNext == CallReturns \/ TimesOut

-----------------------------------------------------------------------------
PanelDone == \A f \in DOMAIN Futures : Settled(f)

(* What a pass of each row means (CheckSpec::means).                       *)
Means ==
    LET d == deployment
    IN  [WarmThroughput |->
             /\ \A t \in WarmedTables, unit \in {"write", "read"} :
                   d.targets[unit] > 0 => d[t][unit] >= d.targets[unit]
             /\ d.PreQueue.write >= REGISTRATION_TARGET,
         DynamoDbLimits |-> d.limits > DEFAULT_QUOTA /\ d.limits >= d.targets.write,
         ApiGatewayThrottle |-> d.api > DEFAULT_QUOTA,
         AssignPositionConcurrency |-> d.concurrency > 0,
         OpenSchedule |-> d.open.state = "enabled" /\ d.open.at > PanelNow,
         ControllerSchedule |-> d.controller.state = "enabled",
         GateRuleset |-> d.gate.rules > 0 /\ d.gate.fail_open_until <= PanelNow,
         StatusCaching |->
             /\ \E b \in d.distribution.behaviours : b.path = "status"
             /\ d.policy.min_ttl > 0 /\ d.policy.cookies \in {"unset", "none"},
         GateAssociation |->
             /\ "viewer-request" \in d.distribution.default
             /\ \A b \in d.distribution.behaviours : ~b.gate]

(* The calls whose answers a row is judged from. *)
EdgeCalls == {"pointer", "distribution"} \cup (IF StatusBehaviour # {} THEN {"policy"} ELSE {})
JudgedFrom(check) ==
    CASE check = "WarmThroughput" -> WarmedTables
      [] check = "DynamoDbLimits" -> {"limits"}
      [] check = "ApiGatewayThrottle" -> {"api"}
      [] check = "AssignPositionConcurrency" -> {"concurrency"}
      [] check = "OpenSchedule" -> {"open"}
      [] check = "ControllerSchedule" -> {"controller"}
      [] check = "GateRuleset" -> {"gate"}
      [] check \in {"StatusCaching", "GateAssociation"} -> EdgeCalls

(* The panel never reassures falsely: a row is judged only when every call *)
(* it stands on answered in time, and it then passes only if what it means *)
(* holds of the deployment and fails only if it does not, whichever of the *)
(* other calls failed, hung or were never made (readiness.rs, "a row that  *)
(* could not see everything must not read as settled").                    *)
PanelHonest ==
    PanelDone =>
        LET rows == run_checks
        IN  \A check \in DOMAIN rows :
                /\ rows[check] # "NotEvaluable" => JudgedFrom(check) \subseteq answered
                /\ rows[check] = "Pass" => Means[check]
                /\ rows[check] = "Fail" => ~Means[check]
=============================================================================
