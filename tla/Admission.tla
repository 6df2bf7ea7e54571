----------------------------- MODULE Admission ------------------------------
(***************************************************************************)
(* generate_token: a visitor exchanges a reached position for a session.   *)
(* Two calls of one visitor (a reload, a second tab, the no-JavaScript     *)
(* page) interleave between any two store calls.                           *)
(***************************************************************************)
EXTENDS Serving

CONSTANT Tabs          \* concurrent calls of admit

VARIABLES
    admitted,          \* visitors whose Positions row has status admitted
    sessions,          \* positions each visitor was given a session for
    apc,               \* the store call each call makes next
    who,               \* its visitor
    counters,          \* the Counters item it read
    grant              \* the position decide granted

admissionRows == <<admitted, sessions>>
callVars == <<apc, who, counters, grant>>
admissionVars == <<admissionRows, callVars>>

Nobody == "nobody"
NoCounters == [admitting |-> FALSE, serving |-> 0]

ASSUME NobodyAssumption == Nobody \notin Visitors
ASSUME TabsAssumption == IsFiniteSet(Tabs)

AdmissionTypeOK ==
    /\ admitted \subseteq Visitors
    /\ sessions \in [Visitors -> SUBSET Nat]
    /\ apc \in [Tabs -> {"idle", "load_position", "load_prequeue", "claim",
                         "record_arrival", "sign"}]
    /\ who \in [Tabs -> Visitors \cup {Nobody}]
    /\ counters \in [Tabs -> [admitting : BOOLEAN, serving : Nat]]
    /\ grant \in [Tabs -> Nat]

AdmissionInit ==
    /\ admitted = {}
    /\ sessions = [v \in Visitors |-> {}]
    /\ apc = [c \in Tabs |-> "idle"]
    /\ who = [c \in Tabs |-> Nobody]
    /\ counters = [c \in Tabs |-> NoCounters]
    /\ grant = [c \in Tabs |-> 0]

-----------------------------------------------------------------------------

Then(c, call) == apc' = [apc EXCEPT ![c] = call]

(* The response is sent and the call forgotten. *)
Respond(c) ==
    /\ Then(c, "idle")
    /\ who' = [who EXCEPT ![c] = Nobody]
    /\ counters' = [counters EXCEPT ![c] = NoCounters]
    /\ grant' = [grant EXCEPT ![c] = 0]

LoadAdmission(c, v) ==
    /\ apc[c] = "idle"
    /\ NoFault
    /\ Then(c, "load_position")
    /\ who' = [who EXCEPT ![c] = v]
    /\ counters' = [counters EXCEPT ![c] =
                      [admitting |-> Admitting, serving |-> serving_counter]]
    /\ UNCHANGED <<tables, arrivals, admissionRows, grant>>

(* decide on position p: granted, or refused by a gate, or because the     *)
(* secret presented is not the row's.  The mutant also admits the position *)
(* the cursor stands at.                                                   *)
DecideInclusive(c, p) ==
    \/ /\ counters[c].admitting /\ p <= counters[c].serving
       /\ grant' = [grant EXCEPT ![c] = p]
       /\ Then(c, "claim")
       /\ UNCHANGED <<who, counters>>
    \/ Respond(c)

Decide(c, p) ==
    \/ /\ counters[c].admitting /\ p < counters[c].serving
       /\ grant' = [grant EXCEPT ![c] = p]
       /\ Then(c, "claim")
       /\ UNCHANGED <<who, counters>>
    \/ Respond(c)

(* A Positions row answers by itself, whatever its status. *)
LoadPosition(c) ==
    /\ apc[c] = "load_position"
    /\ NoFault
    /\ \/ positions[who[c]] # NoPosition /\ Decide(c, positions[who[c]])
       \/ /\ positions[who[c]] = NoPosition
          /\ Then(c, "load_prequeue")
          /\ UNCHANGED <<who, counters, grant>>
    /\ UNCHANGED <<tables, arrivals, admissionRows>>

(* No registration (or one a lagging replica does not show), an event not  *)
(* open, and a row that raced the open are refused.  An event that was     *)
(* admitting when its counters were read is open, and its offsets are the  *)
(* current ones.                                                           *)
LoadPrequeue(c) ==
    /\ apc[c] = "load_prequeue"
    /\ \/ NoFault /\ Counted(who[c]) /\ Decide(c, CohortPosition(who[c]))
       \/ NoFault /\ ~Counted(who[c]) /\ Respond(c)
       \/ Fault("stale") /\ Counted(who[c]) /\ Respond(c)
    /\ UNCHANGED <<tables, arrivals, admissionRows>>

(* The guard of claim_admission: the row is absent or still issued.  The   *)
(* mutant lets every call claim.                                           *)
ClaimUnguarded(c) == who[c] \in Visitors
MayClaim(c) == who[c] \notin admitted

(* The claim writes the position it was granted, creating the row of a     *)
(* pre-queue member.                                                       *)
SetAdmitted(c) ==
    /\ admitted' = admitted \cup {who[c]}
    /\ positions' = [positions EXCEPT ![who[c]] = grant[c]]

(* First, repeat, or an error, which is counted as a first. *)
ClaimAdmission(c) ==
    /\ apc[c] = "claim"
    /\ \/ NoFault /\ MayClaim(c) /\ SetAdmitted(c) /\ Then(c, "record_arrival")
       \/ /\ NoFault /\ ~MayClaim(c) /\ Then(c, "sign")
          /\ UNCHANGED <<admitted, positions>>
       \/ /\ Fault("error") /\ Then(c, "record_arrival")
          /\ UNCHANGED <<admitted, positions>>
       \/ /\ Fault("ambiguous") /\ MayClaim(c)
          /\ SetAdmitted(c) /\ Then(c, "record_arrival")
    /\ UNCHANGED <<phase, shuffle_seed, cohort, queue_counter, shard_count,
                   prequeue, arrivals, sessions, who, counters, grant>>

(* A failed draw or a failed add loses the count; neither refuses. *)
RecordArrival(c) ==
    /\ apc[c] = "record_arrival"
    /\ \/ NoFault /\ arrivals' = arrivals + 1
       \/ Fault("error") /\ UNCHANGED arrivals
       \/ Fault("ambiguous") /\ arrivals' = arrivals + 1
    /\ Then(c, "sign")
    /\ UNCHANGED <<tables, admissionRows, who, counters, grant>>

Sign(c) ==
    /\ apc[c] = "sign"
    /\ \/ NoFault /\ sessions' = [sessions EXCEPT ![who[c]] = @ \cup {grant[c]}]
       \/ Fault("error") /\ UNCHANGED sessions
    /\ Respond(c)
    /\ UNCHANGED <<tables, arrivals, admitted>>

(* A failed read, or an invocation that dies between two calls. *)
CallFails(c) ==
    /\ \/ apc[c] \in {"load_position", "load_prequeue"} /\ Fault("error")
       \/ apc[c] # "idle" /\ Fault("crash")
    /\ Respond(c)
    /\ UNCHANGED <<tables, arrivals, admissionRows>>

AdmissionNext ==
    \E c \in Tabs :
        \/ \E v \in Visitors : LoadAdmission(c, v)
        \/ LoadPosition(c) \/ LoadPrequeue(c) \/ ClaimAdmission(c)
        \/ RecordArrival(c) \/ Sign(c) \/ CallFails(c)
=============================================================================
