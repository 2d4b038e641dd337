--------------------------- MODULE MCFlightService ---------------------------
(***************************************************************************)
(* Small instances of the modules of flight-service, checked in one run.   *)
(* The modules share no state: a behaviour exercises the part it chose at  *)
(* the start.                                                              *)
(***************************************************************************)
EXTENDS FlightHolds, RunwayQueue, Turnaround, FlightGates, RunwayRestrictions

VARIABLE part

(* FlightHolds: an arrival and the departure of the same aircraft, due now.*)
BothFlights   == {"a", "d"}
ArrivesDeparts == [f \in BothFlights |-> IF f = "a" THEN "arrival" ELSE "departure"]
AtOnce        == [f \in BothFlights |-> 0]
HalfAnHour    == [f \in BothFlights |-> 30]
SameAircraft  == [f \in BothFlights |-> IF f = "a" THEN "d" ELSE "none"]

(* RunwayQueue: a large and a small arrival and a departure.               *)
TwoArrivals   == {1, 2}
OneDeparture  == {3}
LargeAndSmall == [f \in 1..3 |-> IF f = 1 THEN "SUPER" ELSE "LIGHT"]
Extremes      == {"LIFR", "CAVOK"}
Rates ==
  [c \in Extremes |-> IF c = "CAVOK" THEN [arrival |-> 120, departure |-> 120]
                                     ELSE [arrival |-> 8, departure |-> 6]]

(* Turnaround: a narrow and a wide body compete for one vehicle of a type. *)
TwoAircraft   == {"N1", "N2"}
Bodies        == [r \in TwoAircraft |-> IF r = "N1" THEN "narrow" ELSE "wide"]
OneOfEach     == VehicleTypes
ItsType       == [v \in VehicleTypes |-> v]

(* FlightGates: an arrival and the departure of the same aircraft, both    *)
(* scheduled at the only gate that fits the arrival.                       *)
OneLanding    == {"a"}
OneTakeoff    == {"d"}
Terminals     == [g \in {1, 2} |-> IF g = 1 THEN "T-A" ELSE "T-C"]
Fitting       == [f \in {"a", "d"} |-> IF f = "a" THEN {1} ELSE {1, 2}]
BothAtGate1   == [f \in {"a", "d"} |-> 1]
ThenDeparts   == [f \in OneLanding |-> "d"]

(* RunwayRestrictions: two incidents on one of two runways.                *)
TwoIncidents  == {"i", "j"}
SameRunway    == [i \in TwoIncidents |-> "09R"]
BothRunways   == {"09R", "09L"}
Closures      == [none |-> {}, single_runway |-> {"09R"}, closed |-> BothRunways]

FlightServiceInit ==
  /\ part \in {"holds", "queue", "turnaround", "gates", "restrictions"}
  /\ HoldsInit /\ QueueInit /\ TurnInit /\ GatesInit /\ RestrictionsInit
  /\ part # "holds" => callers = {}
  /\ category = "CAVOK" /\ runway = {1}

FlightServiceNext ==
  /\ UNCHANGED part
  /\ \/ part = "holds" /\ HoldsNext
        /\ UNCHANGED <<queueVars, turnVars, gateVars, restrictionVars>>
     \/ part = "queue" /\ QueueNext
        /\ UNCHANGED <<holdVars, turnVars, gateVars, restrictionVars>>
     \/ part = "turnaround" /\ TurnNext
        /\ UNCHANGED <<holdVars, queueVars, gateVars, restrictionVars>>
     \/ part = "gates" /\ GatesNext
        /\ UNCHANGED <<holdVars, queueVars, turnVars, restrictionVars>>
     \/ part = "restrictions" /\ RestrictionsNext
        /\ UNCHANGED <<holdVars, queueVars, turnVars, gateVars>>

FlightServiceSpec ==
  FlightServiceInit
    /\ [][FlightServiceNext]_<<part, holdVars, queueVars, turnVars, gateVars, restrictionVars>>

(* The types of the five modules; the set of seen event ids is bounded.    *)
FlightServiceTypeOK ==
  HoldsTypeOK /\ QueueTypeOK /\ TurnTypeOK /\ GateTypeOK /\ RestrictionsTypeOK
=============================================================================
