-------------------------------- MODULE Admin --------------------------------
(***************************************************************************)
(* The admin Lambda: signing in and the console's actions, over one clock. *)
(* A session decides who may ask, not what an action does, so the two      *)
(* meet only in the clock and in the calls that may fail.                  *)
(***************************************************************************)
EXTENDS Console, SignIn

vars == <<consoleVars, signInVars, clock, faults>>

Init == ConsoleInit /\ SignInInit /\ ArrivalInit

ConsoleStep == ConsoleNext /\ UNCHANGED <<signInVars, clock>>

SignInStep == SignInNext /\ UNCHANGED <<consoleVars, clock>>

ClockStep == Tick /\ UNCHANGED <<consoleVars, signInVars>>

Next == ConsoleStep \/ SignInStep \/ ClockStep

Spec == Init /\ [][Next]_vars

(* Type correctness of the item, the edge's document, the schedule, the    *)
(* sessions and everything in flight.                                      *)
TypeOK == ArrivalTypeOK /\ ConsoleTypeOK /\ SignInTypeOK
=============================================================================
