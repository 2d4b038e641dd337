-------------------------- MODULE IncidentTables --------------------------
(***************************************************************************)
(* The constant tables of incident-service: the cascade rules, the ranges  *)
(* of the time-to-resolve (TTR), the emergency protocols and the incident  *)
(* types that an applied recommendation shortens.                          *)
(***************************************************************************)
EXTENDS Integers

CONSTANT NoTtr      \* the value None of ttr_minutes / ttr_remaining

ASSUME NoTtrIsNotAnInteger == NoTtr \notin Int

Severity == {"low", "medium", "high", "critical"}

SEVERITY_RANK == [low |-> 0, medium |-> 1, high |-> 2, critical |-> 3]

(***************************************************************************)
(* Every type that cascades has exactly one rule: the child's type, the    *)
(* least severity of the parent that triggers it, the delay in simulated   *)
(* minutes (0 fires at once) and the child's severity.                     *)
(***************************************************************************)
Rule(child, min, delay, sev) ==
  [child |-> child, min |-> min, delay |-> delay, severity |-> sev]

CASCADE_RULES ==
  [ runway_incursion             |-> Rule("runway_closure_holding_stack", "high", 0, "high"),
    runway_closure_holding_stack |-> Rule("departure_ground_stop", "high", 1, "medium"),
    departure_ground_stop        |-> Rule("gate_congestion", "medium", 2, "low"),
    baggage_fire                 |-> Rule("make_up_zone_offline", "medium", 0, "medium"),
    make_up_zone_offline         |-> Rule("flight_baggage_not_loaded", "medium", 0, "low"),
    security_breach              |-> Rule("zone_lockdown", "medium", 0, "medium"),
    zone_lockdown                |-> Rule("security_queue_frozen", "medium", 0, "medium"),
    security_queue_frozen        |-> Rule("boarding_delayed", "medium", 5, "low"),
    boarding_delayed             |-> Rule("flight_delayed", "low", 0, "low"),
    severe_weather               |-> Rule("runway_capacity_reduction", "medium", 0, "medium"),
    runway_capacity_reduction    |-> Rule("holding_stack", "medium", 0, "low"),
    holding_stack                |-> Rule("departure_ground_delay", "low", 0, "low"),
    departure_ground_delay       |-> Rule("flight_delays_cascade", "low", 0, "low"),
    system_failure               |-> Rule("baggage_throughput_reduction", "medium", 0, "low"),
    baggage_throughput_reduction |-> Rule("make_up_delay", "low", 0, "low"),
    make_up_delay                |-> Rule("flight_baggage_not_loaded", "low", 0, "low"),
    security_congestion          |-> Rule("boarding_delayed", "medium", 0, "low") ]

(* random.randint(lo, hi), or None for the two types without a countdown. *)
TTR_RANGES ==
  [ runway_incursion             |-> 15..45,
    baggage_fire                 |-> 20..60,
    security_breach              |-> 30..90,
    system_failure               |-> 10..120,
    severe_weather               |-> {NoTtr},
    security_congestion          |-> {NoTtr},
    runway_closure_holding_stack |-> 10..35,
    departure_ground_stop        |-> 8..30,
    gate_congestion              |-> 5..20,
    zone_lockdown                |-> 20..70,
    security_queue_frozen        |-> 15..50,
    boarding_delayed             |-> 10..40,
    flight_delayed               |-> 10..40,
    make_up_zone_offline         |-> 15..45,
    flight_baggage_not_loaded    |-> 10..35,
    runway_capacity_reduction    |-> 10..40,
    holding_stack                |-> 10..30,
    departure_ground_delay       |-> 10..30,
    flight_delays_cascade        |-> 10..30,
    baggage_throughput_reduction |-> 10..60,
    make_up_delay                |-> 10..40,
    flight_departure_delay       |-> 10..40 ]

Type == DOMAIN TTR_RANGES

NoProtocol == "none"

Protocol == {"RUNWAY_STOP", "BAGGAGE_HOLD", "ZONE_LOCKDOWN", "TERMINAL_LOCKDOWN",
             "FULL_EVACUATION", "LOW_VIS_PROCEDURES"}

(* The protocol an incident of this type and severity activates, if any. *)
ProtocolOf(type, sev) ==
  CASE type = "runway_incursion" /\ sev \in {"high", "critical"}    -> "RUNWAY_STOP"
    [] type = "baggage_fire"     /\ sev \in {"medium", "high"}      -> "BAGGAGE_HOLD"
    [] type = "security_breach"  /\ sev = "medium"                  -> "ZONE_LOCKDOWN"
    [] type = "security_breach"  /\ sev = "high"                    -> "TERMINAL_LOCKDOWN"
    [] type = "security_breach"  /\ sev = "critical"                -> "FULL_EVACUATION"
    [] type = "severe_weather"   /\ sev \in {"medium", "critical"}  -> "LOW_VIS_PROCEDURES"
    [] OTHER                                                        -> NoProtocol

(***************************************************************************)
(* An applied recommendation shortens the TTR of the incidents of these    *)
(* types, by this percentage of what remains.  "other" is any action the   *)
(* map does not list: the filter is then None, which matches every type.   *)
(***************************************************************************)
ACTION_INCIDENT_MAP ==
  [ open_security_lane        |-> {"security_congestion", "security_breach", "security_queue_frozen"},
    early_gate_call           |-> {"gate_congestion", "boarding_delayed"},
    redirect_checkin          |-> {"security_congestion"},
    gate_reassignment         |-> {"gate_congestion"},
    ground_delay_program      |-> {"runway_incursion", "runway_closure_holding_stack",
                                   "departure_ground_stop", "severe_weather"},
    open_makeup_carousel      |-> {"baggage_fire", "make_up_zone_offline",
                                   "flight_baggage_not_loaded"},
    deploy_additional_vehicle |-> {"runway_incursion"},
    hold_connecting_flight    |-> {"flight_delayed"},
    other                     |-> Type ]

REDUCTION_PERCENT ==
  [ open_security_lane |-> 30, early_gate_call |-> 10, redirect_checkin |-> 15,
    gate_reassignment |-> 25, ground_delay_program |-> 40, open_makeup_carousel |-> 20,
    deploy_additional_vehicle |-> 15, hold_connecting_flight |-> 5,
    other |-> 10 ]

ActionType == DOMAIN ACTION_INCIDENT_MAP

(* The TTR that remains after a recommendation: at least one minute goes. *)
ReducedTtr(ttr, action) ==
  LET cut == (ttr * REDUCTION_PERCENT[action]) \div 100
      less == ttr - (IF cut < 1 THEN 1 ELSE cut)
  IN  IF less < 0 THEN 0 ELSE less
============================================================================
