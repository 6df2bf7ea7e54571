----------------------------- MODULE Controller -----------------------------
(***************************************************************************)
(* The outflow controller.  An execution runs PASSES passes an interval    *)
(* apart; a pass reads the Counters item, then the arrivals shards, and    *)
(* then writes its release on condition that the cursor is still the one   *)
(* it read.  The schedule starts an execution every minute and neither it  *)
(* nor the execution timeout keeps two of them from overlapping.           *)
(***************************************************************************)
EXTENDS Serving, Release

CONSTANTS
    Executions,        \* executions that may be running at once
    PASSES             \* PASSES_PER_INVOKE (6)

ASSUME PassesAssumption == PASSES \in Nat \ {0}

VARIABLES
    last_serving_counter, last_arrivals_total,   \* the previous pass's baselines
    no_show_rate,      \* the smoothed rate, in tenths, or NoRate
    since,             \* intervals since last_open_pass_at, up to STALE
    cpc,               \* what each execution does next
    pass,              \* passes it has completed
    gap,               \* intervals before its next pass is due
    item,              \* the Counters item its pass read
    decision,          \* the release it is about to write
    age                \* intervals since its pass sampled the clock, up to STALE

baselineVars == <<last_serving_counter, last_arrivals_total, no_show_rate, since>>
executionVars == <<cpc, pass, gap, item, decision, age>>
controllerVars == <<serving_counter, baselineVars, executionVars>>

Item == [admitting : BOOLEAN, serving : Nat, last_serving : Nat,
         last_arrivals : Nat, queue : Nat, target : Rates \cup {0},
         rate : Tenths \cup {NoRate}, elapsed : 0 .. STALE]
Decision == [next : Nat, expected : Nat, total : Nat, rate : Tenths]

NoItem == [admitting |-> FALSE, serving |-> 0, last_serving |-> 0,
           last_arrivals |-> 0, queue |-> 0, target |-> 0, rate |-> NoRate,
           elapsed |-> 0]
NoDecision == [next |-> 0, expected |-> 0, total |-> 0, rate |-> 0]

ControllerTypeOK ==
    /\ last_serving_counter \in Nat /\ last_arrivals_total \in Nat
    /\ no_show_rate \in Tenths \cup {NoRate}
    /\ since \in 0 .. STALE
    /\ cpc \in [Executions -> {"waiting", "read_arrivals", "write_release"}]
    /\ pass \in [Executions -> 0 .. PASSES - 1]
    /\ gap \in [Executions -> 0 .. 1]
    /\ item \in [Executions -> Item]
    /\ decision \in [Executions -> Decision]
    /\ age \in [Executions -> 0 .. STALE]

(* A fresh event has no last_open_pass_at, which reads as long ago. *)
ControllerInit ==
    /\ last_serving_counter = 0 /\ last_arrivals_total = 0
    /\ no_show_rate = NoRate
    /\ since = STALE
    /\ cpc = [e \in Executions |-> "waiting"]
    /\ pass = [e \in Executions |-> 0]
    /\ gap = [e \in Executions |-> 0]
    /\ item = [e \in Executions |-> NoItem]
    /\ decision = [e \in Executions |-> NoDecision]
    /\ age = [e \in Executions |-> 0]

-----------------------------------------------------------------------------

(* A pass ends and the durable wait begins.  After its last pass, and      *)
(* after a failed one, which is never retried, the execution ends and the  *)
(* schedule decides when the next one starts.                              *)
Ended(e, last) ==
    /\ cpc' = [cpc EXCEPT ![e] = "waiting"]
    /\ pass' = [pass EXCEPT ![e] = IF last THEN 0 ELSE @ + 1]
    /\ gap' = [gap EXCEPT ![e] = IF last THEN 0 ELSE 1]
    /\ item' = [item EXCEPT ![e] = NoItem]
    /\ decision' = [decision EXCEPT ![e] = NoDecision]
    /\ age' = [age EXCEPT ![e] = 0]

EndPass(e, failed) == Ended(e, failed \/ pass[e] + 1 = PASSES)

(* A pass starts: the clock is sampled and the item read, consistently. *)
ReadItem(e) ==
    /\ cpc[e] = "waiting" /\ gap[e] = 0
    /\ NoFault
    /\ cpc' = [cpc EXCEPT ![e] = "read_arrivals"]
    /\ item' = [item EXCEPT ![e] =
                  [admitting |-> Admitting, serving |-> serving_counter,
                   last_serving |-> last_serving_counter,
                   last_arrivals |-> last_arrivals_total,
                   queue |-> queue_counter, target |-> target_rate,
                   rate |-> no_show_rate, elapsed |-> since]]
    /\ age' = [age EXCEPT ![e] = 0]
    /\ UNCHANGED <<serving_counter, baselineVars, pass, gap, decision>>

(* The shards are read eventually consistently, so a read may lag.  The    *)
(* gates come after this second read, and a held pass writes nothing.      *)
ReadArrivals(e) ==
    /\ cpc[e] = "read_arrivals"
    /\ \E total \in 0 .. arrivals :
        /\ (total = arrivals /\ NoFault) \/ (total # arrivals /\ Fault("stale"))
        /\ \/ /\ item[e].admitting
              /\ decision' = [decision EXCEPT ![e] = ComputeRelease(item[e], total)]
              /\ cpc' = [cpc EXCEPT ![e] = "write_release"]
              /\ item' = [item EXCEPT ![e] = NoItem]
              /\ UNCHANGED <<pass, gap, age>>
           \/ ~item[e].admitting /\ EndPass(e, FALSE)
    /\ UNCHANGED <<serving_counter, baselineVars>>

(* The update of the item.  The age of the pass becomes the age of the     *)
(* item's last_open_pass_at.                                               *)
Land(e) ==
    /\ serving_counter' = decision[e].next
    /\ last_serving_counter' = decision[e].expected
    /\ last_arrivals_total' = decision[e].total
    /\ no_show_rate' = decision[e].rate
    /\ since' = age[e]

(* The condition of the update; the mutant writes without it. *)
CursorUnmovedUnchecked(e) == decision[e].next >= 0

CursorUnmoved(e) == serving_counter = decision[e].expected

(* Landed, lost the race, or failed with or without the write landing. *)
WriteRelease(e) ==
    /\ cpc[e] = "write_release"
    /\ \/ NoFault /\ CursorUnmoved(e) /\ Land(e) /\ EndPass(e, FALSE)
       \/ /\ NoFault /\ ~CursorUnmoved(e)
          /\ EndPass(e, FALSE)
          /\ UNCHANGED <<serving_counter, baselineVars>>
       \/ Fault("ambiguous") /\ CursorUnmoved(e) /\ Land(e) /\ EndPass(e, TRUE)

(* A read or write error, an incomplete batch, or a pass that dies. *)
PassFails(e) ==
    /\ cpc[e] # "waiting"
    /\ Fault("error")
    /\ EndPass(e, TRUE)
    /\ UNCHANGED <<serving_counter, baselineVars>>

PassStep(e) == ReadItem(e) \/ ReadArrivals(e) \/ WriteRelease(e)

ControllerNext == \E e \in Executions : PassStep(e) \/ PassFails(e)

(* One interval goes by. *)
Older(n) == Least(n + 1, STALE)

Tick ==
    /\ since' = Older(since)
    /\ gap' = [e \in Executions |-> 0]
    /\ age' = [e \in Executions |-> IF cpc[e] = "waiting" THEN 0 ELSE Older(age[e])]
    /\ fail_open_left' = SaturatingSub(fail_open_left, 1)
    /\ UNCHANGED <<serving_counter, last_serving_counter, last_arrivals_total,
                   no_show_rate, cpc, pass, item, decision, stored_control,
                   target_rate, arrivals>>
=============================================================================
