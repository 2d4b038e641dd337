------------------------------ MODULE MCAirport ------------------------------
(***************************************************************************)
(* Small instances of the baggage, passenger and cost services and of      *)
(* sim-orchestrator.  The modules share no state but the incidents: a      *)
(* behaviour exercises the part it chose at the start.                     *)
(***************************************************************************)
EXTENDS BaggageConveyor, PassengerJourney, MCCostLedger, SimClock

CONSTANT Parts   \* those that the run exercises

VARIABLE part

(* BaggageConveyor: a bag each way, and one failure or a redirection; or   *)
(* two failures that share a unit, while no bag moves.                     *)
TwoBags      == {"b1", "b2"}
Departs      == {"d"}
Arrives      == {"a"}
OneOfEachWay == [b \in TwoBags |-> IF b = "b1" THEN "d" ELSE "a"]
OneTerminal  == <<"A">>
GateInA      == [f \in Departs |-> "A"]
InductionA   == [t \in {"A"} |-> "induction-A"]
ScreeningA   == [t \in {"A"} |-> <<"screening-unit-1", "screening-unit-2">>]
MakeUpA      == [t \in {"A"} |-> <<"make-up-A-1", "make-up-A-2">>]
SlowZones ==
  [z \in {"induction-A", "screening-unit-1", "screening-unit-2", "sorting-matrix",
          "make-up-A-1", "make-up-A-2", "arrival-belt-1", "arrival-belt-2"} |-> 60]
BeltsOfA     == [f \in Arrives |-> {"arrival-belt-1", "arrival-belt-2"}]
TwoIncidents == {"i", "j"}
Power ==
  [i \in TwoIncidents |-> IF i = "i" THEN {"induction-A", "screening-unit-1"}
                                     ELSE {"screening-unit-1"}]

(* PassengerJourney: two who need the only wheelchair and one who does not *)
(* leave, or the last one alone while the checkpoint has a breach, or one  *)
(* arrives; or two breaches and nobody.  The others have left before the   *)
(* service started.                                                        *)
FourPax      == {"p1", "p2", "p3", "p4"}
OneLands     == [p \in FourPax |-> IF p = "p4" THEN "a" ELSE "d"]
CheckpointA  == [f \in Departs |-> "A"]
BothAtA      == [b \in TwoIncidents |-> "A"]
OneChair     == [c \in {"A"} |-> 1]

Travelling ==
  CASE part = "departures" -> {"p1", "p2", "p3"}
    [] part = "breach"     -> {"p3"}
    [] part = "arrivals"   -> {"p4"}
    [] OTHER -> {}
LaterThatDay ==
  /\ pax = [p \in FourPax |-> CASE p \notin Travelling -> "departed_airport"
                                [] p \in Departures -> "booked" [] OTHER -> "airborne"]
  /\ pax_flight = [f \in {"a", "d"} |-> IF \E p \in Travelling : OneLands[p] = f THEN "coming"
                                        ELSE IF f = "a" THEN "at_gate" ELSE "departed"]

(* SimClock: days of four minutes, of which the last but one is the time   *)
(* to seed the next.  Either two requests, together or one after the       *)
(* other, and ticks of two minutes, in one of which the day ends; or one   *)
(* request, a fault and changes of the speed.                              *)
TwoRequests == {"r1", "r2"}
OneRequest ==
  /\ requests <= 1 /\ call["r2"].pc = "idle"
TwoMinutes ==
  /\ speed = 2 /\ clock_faults = 0 /\ sim_time < 6

(* The incidents are shared by the services: the module of one leaves the  *)
(* rest of the others alone.                                               *)
baggageOwn == <<bagNodes, flightTopics, baggageMemory, bagHistory>>
paxOwn     == <<pax, flightNews, paxMemory, unwritten, pax_faults>>

OneIncident == node["j"] = "none" /\ decisions <= 1 /\ lost = {}

ASSUME PartsAssumption ==
  Parts \subseteq {"failure", "failures", "redirection",
                   "departures", "breach", "breaches", "arrivals",
                   "charges", "rates", "requests", "clock"}

AirportInit ==
  /\ part \in Parts
  /\ BaggageInit /\ LaterThatDay /\ ProcessStarts /\ LedgerInit /\ ClockInit
  /\ part = "clock" \/ speed = 2

AirportNext ==
  /\ UNCHANGED part
  /\ \/ /\ part \in {"failure", "failures", "redirection"} /\ BaggageNext
        /\ part = "failure" => OneIncident' /\ UNCHANGED redirects
        /\ part = "failures" => UNCHANGED <<bagNodes, flightTopics, redirects>>
        /\ part = "redirection" => UNCHANGED newsVars
        /\ UNCHANGED <<paxOwn, ledgerVars, clockVars>>
     \/ /\ part \in {"departures", "breach", "breaches", "arrivals"} /\ PassengersNext
        /\ part = "breach" => OneIncident'
        /\ part = "breaches" => UNCHANGED <<pax, stage>>
        /\ part \in {"departures", "arrivals"} => UNCHANGED newsVars
        /\ UNCHANGED <<baggageOwn, ledgerVars, clockVars>>
     \/ /\ part \in {"charges", "rates"} /\ LedgerNext
        /\ part = "charges" => doc'.rates = doc.rates
        /\ part = "rates" => faults' = faults
        /\ UNCHANGED <<baggageVars, paxVars, clockVars>>
     \/ /\ part \in {"requests", "clock"} /\ ClockNext
        /\ part = "requests" => TwoMinutes'
        /\ part = "clock" => OneRequest'
        /\ UNCHANGED <<baggageVars, paxVars, ledgerVars>>

AirportSpec == AirportInit /\ [][AirportNext]_<<part, baggageVars, paxVars, ledgerVars, clockVars>>
=============================================================================
