----------------------------- MODULE Turnaround -----------------------------
(***************************************************************************)
(* flight-service: the turnaround of an aircraft between its arrival and   *)
(* its departure.  When the arrival reaches its gate a plan is made, ten   *)
(* tasks that wait for each other; some need a ground vehicle of a pool.   *)
(* A clock tick moves the flights, may break some equipment, advances the  *)
(* plans minute by minute and then the pool.  Everything here happens in   *)
(* the consumer, one message at a time.                                    *)
(***************************************************************************)
EXTENDS Integers, SequencesExt

CONSTANTS
  Aircraft,        \* registrations
  Body,            \* "narrow" or "wide", from the flight or aircraft type
  Vehicle, TypeOf, \* the fleet
  TransitMinutes,  \* between the depot and a gate
  FailureMinutes,  \* samples of an equipment failure
  TickMinutes,     \* minutes of a tick
  ArrivalMinutes,  \* when an arrival may reach its gate
  LastTurnMinute, MaxExtensions   \* bounds: failures and flagged bags

Task == {"jetbridge_connect", "deplaning", "baggage_offload", "fueling", "catering",
         "cleaning", "baggage_loading", "boarding", "door_close", "pushback"}

starts_after ==
  [jetbridge_connect |-> {}, fueling |-> {},
   deplaning |-> {"jetbridge_connect"}, baggage_offload |-> {"jetbridge_connect"},
   catering |-> {"jetbridge_connect"}, cleaning |-> {"deplaning"},
   baggage_loading |-> {"baggage_offload"}, boarding |-> {"cleaning", "deplaning"},
   door_close |-> {"boarding", "baggage_loading", "fueling", "catering"},
   pushback |-> {"door_close"}]

duration_min ==
  [narrow |-> [jetbridge_connect |-> 2, deplaning |-> 12, baggage_offload |-> 10,
               fueling |-> 18, catering |-> 22, cleaning |-> 6, baggage_loading |-> 10,
               boarding |-> 12, door_close |-> 2, pushback |-> 1],
   wide   |-> [jetbridge_connect |-> 3, deplaning |-> 18, baggage_offload |-> 14,
               fueling |-> 28, catering |-> 32, cleaning |-> 8, baggage_loading |-> 14,
               boarding |-> 18, door_close |-> 2, pushback |-> 1]]

VEHICLE_TASK_MAP ==
  [fueling |-> "fuel_truck", catering |-> "catering_truck", pushback |-> "pushback_tug",
   baggage_offload |-> "baggage_loader", baggage_loading |-> "baggage_loader"]
VehicleTypes == {VEHICLE_TASK_MAP[t] : t \in DOMAIN VEHICLE_TASK_MAP}

ASSUME TurnaroundAssumption ==
  /\ Body \in [Aircraft -> {"narrow", "wide"}] /\ TypeOf \in [Vehicle -> VehicleTypes]
  /\ TransitMinutes \in Nat \ {0} /\ FailureMinutes \subseteq Nat \ {0}
  /\ TickMinutes \subseteq Nat \ {0} /\ ArrivalMinutes \subseteq Nat
  /\ LastTurnMinute \in Nat /\ MaxExtensions \in Nat

VARIABLES
  minute,
  arrival,      \* the inbound flight of each aircraft
  ground,               \* the plans and the pool, see Ground
  equipment_failure_drawn,
  extensions            \* bound: failures and flagged bags so far

turnVars == <<minute, arrival, ground, equipment_failure_drawn, extensions>>

(* The memory of the consumer: the turnaround_plans in the order they were *)
(* made, the vehicles, the requests that wait for one, and task_vehicles,  *)
(* the vehicle of a task in progress.                                      *)
NotYet  == -1
NoOwner == <<>>
Owner(r, t) == <<r, t>>

Parked == [status |-> "available", arrives_at |-> NotYet, serves |-> NoOwner]
NewPlan(r, now) ==
  [started_at |-> now,
   task |-> [t \in Task |-> [status |-> "pending", duration |-> duration_min[Body[r]][t],
                             started_at |-> NotYet, completed_at |-> NotYet]]]

Done(p, t)            == p.task[t].status = "completed"
is_complete(p)        == \A t \in Task : Done(p, t)
deplaning_done(p)     == Done(p, "deplaning")
Planned(r)            == r \in DOMAIN ground.plan

(* Op(g), evaluating g once: folds are lazy. *)
Eager(Op(_), g) == CHOOSE h \in {Op(x) : x \in {g}} : TRUE

(* f[d] = e, of a dictionary that need not have d. *)
With(f, d, e) == [x \in DOMAIN f \cup {d} |-> IF x = d THEN e ELSE f[x]]

extend_task(g, r, t, minutes) == [g EXCEPT !.plan[r].task[t].duration = @ + minutes]

(* The longest path through the tasks. *)
compute_critical_path(p) ==
  LET finish[t \in Task] ==
        p.task[t].duration +
          Max({0} \cup {finish[d] : d \in starts_after[t]})
  IN  Max({finish[t] : t \in Task})
-----------------------------------------------------------------------------
(* TurnaroundPlan.advance: complete what is over, then start what may.     *)

Over(task, now) == task.status = "in_progress" /\ now >= task.started_at + task.duration
Finished(p, now) == {t \in Task : Over(p.task[t], now)}
Complete(p, now) ==
  [p EXCEPT !.task = [t \in Task |->
     IF Over(p.task[t], now)
     THEN [p.task[t] EXCEPT !.status = "completed", !.completed_at = now] ELSE p.task[t]]]

MayStart(p, t) == p.task[t].status = "pending" /\ \A d \in starts_after[t] : Done(p, d)
Startable(p)   == {t \in Task : MayStart(p, t)}
Start(p, now) ==
  [p EXCEPT !.task = [t \in Task |->
     IF MayStart(p, t)
     THEN [p.task[t] EXCEPT !.status = "in_progress", !.started_at = now] ELSE p.task[t]]]
-----------------------------------------------------------------------------
(* The pool.                                                               *)

NotOnItsWay(g, type) ==   \* mutant of Available
  {v \in Vehicle : TypeOf[v] = type /\ g.vehicle[v].status # "dispatched"}
Available(g, type) == {v \in Vehicle : TypeOf[v] = type /\ g.vehicle[v].status = "available"}
Dispatched(owner, now) ==
  [status |-> "dispatched", arrives_at |-> now + TransitMinutes, serves |-> owner]

(* A task that starts asks for its vehicle, and takes longer for its way;  *)
(* without one it waits in pending_requests and takes five minutes longer. *)
Request(g, r, t, now) ==
  LET free == Available(g, VEHICLE_TASK_MAP[t])
      v    == CHOOSE x \in free : TRUE
  IN  IF free # {}
      THEN [extend_task(g, r, t, TransitMinutes) EXCEPT
              !.vehicle[v] = Dispatched(Owner(r, t), now),
              !.task_vehicles = With(@, Owner(r, t), v)]
      ELSE [extend_task(g, r, t, 5) EXCEPT !.pending_requests = Append(@, Owner(r, t))]

Returning(now) ==
  [status |-> "returning", arrives_at |-> now + TransitMinutes, serves |-> NoOwner]

(* The tasks that are finished give their vehicles back. *)
ReleaseVehicles(g, r, finished, now) ==
  LET owners  == {Owner(r, t) : t \in finished} \cap DOMAIN g.task_vehicles
      leaving == {v \in {g.task_vehicles[o] : o \in owners} :
                    g.vehicle[v].status \in {"at_gate", "dispatched"}}
  IN  [g EXCEPT !.vehicle = [v \in Vehicle |-> IF v \in leaving THEN Returning(now) ELSE g.vehicle[v]],
                !.task_vehicles = Restrict(@, DOMAIN @ \ owners)]

(* _handle_task_vehicles; the tasks a plan starts together need vehicles   *)
(* of different types.                                                     *)
HandleVehicles(g, r, finished, started, now) ==
  FoldSet(LAMBDA t, h : Eager(LAMBDA x : Request(x, r, t, now), h),
          ReleaseVehicles(g, r, finished, now), started \cap DOMAIN VEHICLE_TASK_MAP)

AdvancePlan(g, r, now) ==
  LET after(p) == Eager(LAMBDA h : HandleVehicles(h, r, Finished(g.plan[r], now), Startable(p), now),
                        [g EXCEPT !.plan[r] = Start(p, now)])
  IN  IF is_complete(g.plan[r]) THEN g ELSE Eager(after, Complete(g.plan[r], now))

OnceATick(g, now, step) ==   \* mutant of AdvancePlans
  FoldLeft(LAMBDA h, r : Eager(LAMBDA x : AdvancePlan(x, r, now), h), g, g.turnaround_plans)

(* Every minute of a longer step, plan after plan. *)
AdvancePlans(g, now, step) ==
  LET minutes == [i \in 1..step |-> now - step + i]
      through(h, r) == FoldLeft(LAMBDA k, m : Eager(LAMBDA x : AdvancePlan(x, r, m), k), h, minutes)
  IN  FoldLeft(LAMBDA h, r : Eager(LAMBDA x : through(x, r), h), g, g.turnaround_plans)

(* GroundVehiclePool.advance: vehicles arrive and return, then the waiting *)
(* requests get what is free.                                              *)
Moved(v, now) ==
  CASE v.status = "dispatched" /\ now >= v.arrives_at ->
         [v EXCEPT !.status = "at_gate", !.arrives_at = NotYet]
    [] v.status = "returning" /\ now >= v.arrives_at -> Parked
    [] OTHER -> v

Serve(g, owner, now) ==
  LET free == Available(g, VEHICLE_TASK_MAP[owner[2]])
  IN  IF free = {} THEN [g EXCEPT !.pending_requests = Append(@, owner)]
      ELSE [g EXCEPT !.vehicle[CHOOSE x \in free : TRUE] = Dispatched(owner, now)]

AdvancePool(g, now) ==
  FoldLeft(LAMBDA h, owner : Eager(LAMBDA x : Serve(x, owner, now), h),
           [g EXCEPT !.vehicle = [v \in Vehicle |-> Moved(g.vehicle[v], now)], !.pending_requests = <<>>],
           g.pending_requests)
-----------------------------------------------------------------------------
TurnInit ==
  /\ minute = 0
  /\ arrival = [r \in Aircraft |-> "inbound"]
  /\ ground = [turnaround_plans |-> <<>>, plan |-> <<>>,
               vehicle |-> [v \in Vehicle |-> Parked],
               pending_requests |-> <<>>, task_vehicles |-> <<>>]
  /\ equipment_failure_drawn = {} /\ extensions = 0

(* An arrival reaches its gate: the plan is made and its first tasks start. *)
AtGate(g, r, now) ==
  HandleVehicles([g EXCEPT !.turnaround_plans = IF r \in ToSet(@) THEN @ ELSE Append(@, r),
                           !.plan = With(@, r, Start(NewPlan(r, now), now))],
                 r, {}, Startable(NewPlan(r, now)), now)

(* suppress_transition_for_turnaround *)
MayArrive(r) == arrival[r] = "at_gate" /\ (Planned(r) => deplaning_done(ground.plan[r]))

(* An arrival that is over takes its plan along, if that is complete. *)
Forgotten(g, gone) ==
  LET done == {r \in gone \cap DOMAIN g.plan : is_complete(g.plan[r])}
  IN  [g EXCEPT !.plan = Restrict(@, DOMAIN @ \ done),
                !.turnaround_plans = FoldLeft(LAMBDA s, r : IF r \in done THEN s ELSE Append(s, r), <<>>, @)]

(* _check_equipment_failures picks a task in progress, or a later one. *)
Failing(p) ==
  LET at(status) == {t \in Task \ {"deplaning"} : p.task[t].status = status}
  IN  IF at("in_progress") # {} THEN at("in_progress") ELSE at("pending") \ {"pushback"}

Failure(g) ==
  LET undrawn == DOMAIN g.plan \ equipment_failure_drawn
  IN  {g} \cup
      IF extensions >= MaxExtensions THEN {}
      ELSE UNION {{extend_task(g, r, t, m) :
                     t \in Failing(g.plan[r]), m \in FailureMinutes} : r \in undrawn}

TurnTick(step) ==
  LET now == minute + step
  IN  /\ now <= LastTurnMinute /\ minute' = now
      /\ \E landed \in {{}} \cup {{r} : r \in {x \in Aircraft : arrival[x] = "inbound"}},
            arrived \in SUBSET {r \in Aircraft : MayArrive(r)} :
           /\ landed # {} => now \in ArrivalMinutes
           /\ arrival' = [r \in Aircraft |-> IF r \in landed THEN "at_gate"
                            ELSE IF r \in arrived THEN "arrived" ELSE arrival[r]]
           /\ \E g \in IF landed = {} THEN {Forgotten(ground, arrived)}
                       ELSE {AtGate(Forgotten(ground, arrived), r, now) : r \in landed} :
                \E failed \in Failure(g) :
                    /\ equipment_failure_drawn' = equipment_failure_drawn \cup DOMAIN g.plan
                    /\ extensions' = IF failed = g THEN extensions ELSE extensions + 1
                    /\ ground' = Eager(LAMBDA x : AdvancePool(x, now), AdvancePlans(failed, now, step))

(* BaggageFlagged: the offload takes five minutes longer. *)
BaggageFlagged(r) ==
  /\ Planned(r) /\ extensions < MaxExtensions /\ extensions' = extensions + 1
  /\ ground' = extend_task(ground, r, "baggage_offload", 5)
  /\ UNCHANGED <<minute, arrival, equipment_failure_drawn>>

TurnNext ==
  \/ \E step \in TickMinutes : TurnTick(step)
  \/ \E r \in Aircraft : BaggageFlagged(r)

TurnSpec == TurnInit /\ [][TurnNext]_turnVars
-----------------------------------------------------------------------------
TurnTypeOK ==
  /\ minute \in 0..LastTurnMinute
  /\ DOMAIN ground.plan = ToSet(ground.turnaround_plans)
  /\ \A r \in DOMAIN ground.plan, t \in Task :
       ground.plan[r].task[t].status \in {"pending", "in_progress", "completed"}
  /\ \A v \in Vehicle : /\ ground.vehicle[v].status \in
                             {"available", "dispatched", "at_gate", "returning"}
                        /\ ground.vehicle[v].arrives_at \in {NotYet} \cup Nat

(* The plan is over exactly when its critical path says, whatever the ticks*)
(* and the delays, as long as no finished task is extended: no minute is   *)
(* lost between two tasks.                                                 *)
Regular(p) == \A t \in Task : Done(p, t) => p.task[t].completed_at >= p.task[t].started_at + p.task[t].duration
CompletesOnTime ==
  \A r \in DOMAIN ground.plan :
    LET p == ground.plan[r]
    IN  Regular(p) => (is_complete(p) <=> minute >= p.started_at + compute_critical_path(p))

(* A vehicle that a task in progress has asked for is its own: no two tasks*)
(* share it, it is on its way or at the gate, and it is released with the  *)
(* task.                                                                   *)
OwnVehicle ==
  /\ \A o \in DOMAIN ground.task_vehicles :
       LET v == ground.vehicle[ground.task_vehicles[o]]
       IN  /\ v.serves = o /\ v.status \in {"dispatched", "at_gate"}
           /\ o[1] \in DOMAIN ground.plan /\ ground.plan[o[1]].task[o[2]].status = "in_progress"
  /\ IsInjective(ground.task_vehicles)
=============================================================================
