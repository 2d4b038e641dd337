---------------------------- MODULE FlightStates ----------------------------
(***************************************************************************)
(* The pure part of flight-service: the state machine of a flight          *)
(* (services/state_machine.py) and the decisions the consumer takes with   *)
(* it (application/decisions.py, application/commands.py,                  *)
(* services/turnaround.py).  Times are minutes.                            *)
(***************************************************************************)
EXTENDS Integers

Status == {"scheduled", "boarding", "delayed", "departed", "airborne",
           "approach", "landed", "taxiing", "at_gate", "arrived",
           "cancelled", "diverted"}
TERMINAL_STATES == {"arrived", "cancelled", "diverted"}

VALID_TRANSITIONS ==
  [scheduled |-> {"boarding", "delayed", "cancelled"},
   boarding  |-> {"departed", "delayed", "cancelled"},
   delayed   |-> {"boarding", "approach", "cancelled"},
   departed  |-> {"airborne"},
   airborne  |-> {"approach", "arrived", "diverted"},
   approach  |-> {"landed", "delayed", "diverted"},
   landed    |-> {"taxiing"},
   taxiing   |-> {"at_gate"},
   at_gate   |-> {"arrived"},
   arrived   |-> {}, cancelled |-> {}, diverted |-> {}]

HOLDABLE_STATUSES == {"boarding", "scheduled", "approach"}

Stay    == "none"    \* evaluate_transition returns None
NoTime  == -1        \* actual_time is not set
NoDelay == -1        \* boarding_delay_update returns None

(* A flight f is its stored record; a context c is what the consumer       *)
(* gathers for the decision: runway, gate and held are Booleans, boarded a *)
(* percentage, initial and total the taxi times.                           *)
eval_scheduled(f, now, c) ==
  CASE f.direction = "departure" /\ now >= f.est - 60 /\ c.gate -> "boarding"
    [] f.direction = "arrival" /\ now >= f.est - 20 -> "approach"
    [] OTHER -> Stay

DoorsClose(f, boarded) ==
  \/ boarded >= 95
  \/ f.delay >= 30 /\ boarded >= 80
  \/ f.delay >= 60 /\ boarded >= 50
  \/ f.delay >= 90

eval_boarding(f, now, c) ==
  CASE c.held -> "delayed"
    [] ~c.held /\ f.delay >= 180 -> "cancelled"
    [] ~c.held /\ f.delay < 180 /\ now >= f.est /\ DoorsClose(f, c.boarded) -> "departed"
    [] OTHER -> Stay

DelayedForgetsHold(f, c) ==   \* mutant of eval_delayed
  CASE f.delay >= 180 -> "cancelled"
    [] f.delay < 180 /\ f.direction = "departure" -> "boarding"
    [] f.delay < 180 /\ f.direction = "arrival" /\ c.runway -> "approach"
    [] OTHER -> Stay

eval_delayed(f, c) ==
  CASE f.delay >= 180 -> "cancelled"
    [] f.delay < 180 /\ ~c.held /\ f.direction = "departure" -> "boarding"
    [] f.delay < 180 /\ ~c.held /\ f.direction = "arrival" /\ c.runway -> "approach"
    [] OTHER -> Stay

eval_airborne(f, now) ==
  CASE f.direction = "arrival" /\ now >= f.est - 20 -> "approach"
    [] /\ f.direction = "departure" /\ f.actual # NoTime /\ f.duration > 0
       /\ now >= f.actual + f.duration -> "arrived"
    [] OTHER -> Stay

eval_approach(f, now, c) ==
  CASE now >= f.est /\ c.runway -> "landed"
    [] now >= f.est /\ ~c.runway -> "delayed"
    [] OTHER -> Stay

After(f, now, minutes) == f.actual # NoTime /\ now >= f.actual + minutes

evaluate_transition(f, now, c) ==
  CASE f.status = "scheduled" -> eval_scheduled(f, now, c)
    [] f.status = "boarding"  -> eval_boarding(f, now, c)
    [] f.status = "delayed"   -> eval_delayed(f, c)
    [] f.status = "departed"  -> IF now >= f.est + 5 THEN "airborne" ELSE Stay
    [] f.status = "airborne"  -> eval_airborne(f, now)
    [] f.status = "approach"  -> eval_approach(f, now, c)
    [] f.status = "landed"    -> IF After(f, now, c.initial) THEN "taxiing" ELSE Stay
    [] f.status = "taxiing"   ->
         IF After(f, now, c.total) /\ c.gate THEN "at_gate" ELSE Stay
    [] f.status = "at_gate"   ->
         IF f.direction = "arrival" /\ After(f, now, 30) THEN "arrived" ELSE Stay
    [] OTHER -> Stay

suppress_transition_for_turnaround(new, direction, deplaned, ready) ==
  \/ new = "arrived" /\ direction = "arrival" /\ ~deplaned
  \/ new = "boarding" /\ direction = "departure" /\ ~ready

DelayPastEstimate(f, now, boarded) ==   \* mutant of boarding_delay_update
  IF /\ f.status = "boarding" /\ f.direction = "departure"
     /\ now > f.est /\ boarded < 95 /\ now - f.est > f.delay
  THEN now - f.est
  ELSE NoDelay

boarding_delay_update(f, now, boarded) ==
  IF /\ f.status = "boarding" /\ f.direction = "departure"
     /\ now > f.sched /\ boarded < 95 /\ now - f.sched > f.delay
  THEN now - f.sched
  ELSE NoDelay

validate_hold_precondition(status) == status \in HOLDABLE_STATUSES

(* What propagate_turnaround_delay adds to the outbound flight; nominal is *)
(* the critical path of the turnaround, buffer 30 or 45 minutes.           *)
PropagatedDelay(delay, nominal, buffer) ==
  IF delay > nominal /\ delay >= 15 /\ delay > buffer THEN delay - buffer ELSE 0

Propagates(outbound) ==
  outbound \notin {"departed", "airborne", "cancelled", "at_gate"}
=============================================================================
