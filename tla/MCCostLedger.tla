---------------------------- MODULE MCCostLedger ----------------------------
(***************************************************************************)
(* A small instance of CostLedger: days of four minutes, one of which is   *)
(* kept besides the selected one.  The third day evicts the first, until   *)
(* sim-orchestrator is restarted and its clock is back in it; a flight     *)
(* leaves its gate on the second.                                          *)
(***************************************************************************)
EXTENDS CostLedger

ClockAndFlights == {"clock", "flights"}
Events == {"third", "reset", "boarding", "departed"}
Logs ==
  [t \in ClockAndFlights |->
     IF t = "clock" THEN <<"third", "reset">> ELSE <<"boarding", "departed">>]
Message(type, status, at, number) ==
  [type |-> type, status |-> status, flight |-> "flight", delay |-> 0,
   at |-> at, day |-> 1 + at \div 4, number |-> number]

(* The delivery of the facts does not depend on the clock going back.      *)
NeverBack == [t \in ClockAndFlights |-> IF t = "clock" THEN <<"third">> ELSE <<"boarding", "departed">>]

Envelopes ==
  [e \in Events |->
     CASE e = "third"    -> Message("SimClockTick", "other", 9, 1)
       [] e = "reset"    -> Message("SimClockTick", "other", 1, 1)
       [] e = "boarding" -> Message("FlightStatusChanged", "boarding", 2, 0)
       [] e = "departed" -> Message("FlightStatusChanged", "departed", 6, 0)]
OneFlight    == {"flight"}
OnlyDeparts  == [f \in OneFlight |-> "departure"]
=============================================================================
