------------------------------- MODULE MCAdmin -------------------------------
(* Small instances of Admin for TLC. *)
EXTENDS Admin, FiniteSets, TLC

CONSTANTS q1, q2, q3, b1, b2

Ask(kind, n) == [kind |-> kind, to |-> "idle", n |-> n]
MoveTo(phase) == [kind |-> "set_phase", to |-> phase, n |-> 0]

MCEveryAction ==
    {MoveTo("pre_queue"), MoveTo("active"),
     Ask("force_maintenance", 0), Ask("set_rate", 1), Ask("set_message", 0),
     Ask("pause", 0), Ask("resume", 0), Ask("fail_open", 2), Ask("recover", 0),
     Ask("set_start_time", 2), Ask("clear_start_time", 0), Ask("open_now", 0),
     Ask("set_ip_binding", 1), Ask("set_rules", 930), Ask("set_rules", 945)}

(* Two start times, and no way to take the announcement down. *)
MCStartTimes == {Ask("set_start_time", 3), Ask("set_start_time", 4)}

(* Two messages, and a lifecycle move that may be slow. *)
MCLateMove == {Ask("set_message", 0), MoveTo("pre_queue")}

(* Fail-open for a long window, then for a shorter one. *)
MCWindows == {Ask("fail_open", 3), Ask("fail_open", 1)}

(* The two halves share no state, so each is explored on its own. *)
VARIABLE half

(* After the fault, a third request begins when the others are through. *)
Started == {q \in Requests : req[q].pc # "idle"}
UnderWay == {q \in Requests : InFlight(q)}
Bearable == faults > 0 => Cardinality(Started) <= 2 \/ Cardinality(UnderWay) <= 1

MCInit == Init /\ half \in {"console", "sign-in"}

MCNext ==
    /\ \/ half = "console" /\ ConsoleStep
       \/ half = "sign-in" /\ SignInStep
       \/ ClockStep
    /\ Bearable'
    /\ UNCHANGED half

MCSpec == MCInit /\ [][MCNext]_<<vars, half>>

(* The same, by an operator who waits for each answer. *)
OneByOne == Cardinality(UnderWay) <= 1
MCOneByOneSpec == MCInit /\ [][MCNext /\ OneByOne']_<<vars, half>>

MCSymmetry == Permutations({q1, q2, q3})
=============================================================================
