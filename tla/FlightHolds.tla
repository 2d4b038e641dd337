----------------------------- MODULE FlightHolds -----------------------------
(***************************************************************************)
(* flight-service: a clock tick takes a snapshot of the active flights and *)
(* processes them one by one, awaiting Neo4j many times, while the REST    *)
(* requests hold and release flights.  A hold lives twice: on the Flight   *)
(* node and in held_flights, the memory of the process; every step of a    *)
(* coroutine ends where its next query takes effect or where it resumes.   *)
(* What the runways, the gates, the passengers and the turnaround say is   *)
(* chosen anew at each decision.                                           *)
(***************************************************************************)
EXTENDS FlightStates, Sequences, FiniteSets

CONSTANTS
  Flight, Direction, Scheduled, Duration,
  Pair,          \* the outbound flight of an arrival's aircraft
  NoFlight,
  NominalMin, BufferMin,   \* turnaround times of the aircraft
  Steps,         \* minutes between two ticks the consumer handles
  HoldMinutes, NoiseMinutes, BoardedPct, TaxiMinutes,   \* samples
  FlightRest,    \* the REST requests that may run at a time
  HoldConsumer,  \* the consumer, which executes commands between messages
  LastMinute, MaxCalls   \* bounds

Caller == FlightRest \cup {HoldConsumer}

ASSUME FlightAssumption ==
  /\ Direction \in [Flight -> {"arrival", "departure"}]
  /\ Scheduled \in [Flight -> Nat] /\ Duration \in [Flight -> Nat]
  /\ Pair \in [Flight -> Flight \cup {NoFlight}] /\ NoFlight \notin Flight
  /\ \A f \in Flight : Pair[f] # NoFlight =>
        Direction[f] = "arrival" /\ Direction[Pair[f]] = "departure"
  /\ HoldConsumer \notin FlightRest
  /\ NominalMin \in Nat /\ BufferMin \in Nat
  /\ Steps \subseteq Nat \ {0} /\ HoldMinutes \subseteq Nat \ {0}
  /\ NoiseMinutes \subseteq Nat \ {0} /\ BoardedPct \subseteq 0..100
  /\ TaxiMinutes \subseteq Nat
  /\ LastMinute \in Nat /\ MaxCalls \in Nat

VARIABLES
  flight,        \* the Flight nodes
  sim_time,
  held_flights,  \* memory: the flights under a manual hold
  drawn,         \* memory: crew_delay_drawn, ctot_assigned, diversion_drawn
  tick,          \* the handler of SimClockTick
  request,       \* where each caller stands with its hold or release
  callers,       \* the REST requests of this behaviour: none or all
  overdue,       \* history: the ticks a due departure has spent boarding
  calls          \* bound: holds, releases and restarts so far

holdVars == <<flight, sim_time, held_flights, drawn, tick, request, callers,
              overdue, calls>>

Idle     == [pc |-> "idle"]
NoDraws  == [crew |-> {}, ctot |-> {}, diversion |-> {}]

(* SET of a query: only the fields it names change. *)
Updated(node, update) ==
  [k \in DOMAIN node |-> IF k \in DOMAIN update THEN update[k] ELSE node[k]]

(* update_flight_status clears the manual hold unless it writes 'delayed'. *)
StatusUpdate(status, more) ==
  LET clear == IF status = "delayed" THEN {} ELSE {"hold"}
  IN  [k \in {"status"} \cup clear \cup DOMAIN more |->
         CASE k = "status" -> status [] k = "hold" -> FALSE [] OTHER -> more[k]]
Delay(minutes) == [delay |-> minutes]
NoMore == <<>>
Write(f, update) == [f |-> f, update |-> update]

HoldsInit ==
  /\ flight = [f \in Flight |->
       [status |-> "scheduled", direction |-> Direction[f], sched |-> Scheduled[f],
        est |-> Scheduled[f], actual |-> NoTime, duration |-> Duration[f],
        delay |-> 0, hold |-> FALSE]]
  /\ sim_time = 0 /\ held_flights = {} /\ drawn = NoDraws
  /\ tick = Idle /\ request = [t \in Caller |-> Idle]
  /\ callers \in {{}, FlightRest} /\ overdue = [f \in Flight |-> 0] /\ calls = 0
-----------------------------------------------------------------------------
(* The clock tick.                                                         *)

Tick ==
  /\ tick = Idle /\ request[HoldConsumer] = Idle
  /\ \E d \in Steps : sim_time + d <= LastMinute /\ sim_time' = sim_time + d
  /\ tick' = [pc |-> "next", snapshot |-> flight,
              todo |-> {f \in Flight : flight[f].status \notin TERMINAL_STATES}]
  /\ UNCHANGED <<flight, held_flights, drawn, request, callers, overdue, calls>>

Due(f) == sim_time >= tick.snapshot[f].est /\ sim_time >= Scheduled[f] + 90

EndTick ==
  /\ tick.pc = "next" /\ tick.todo = {}
  /\ tick' = Idle
  /\ overdue' = [f \in Flight |->
       IF \/ {tick.snapshot[f].status, flight[f].status} # {"boarding"}
          \/ flight[f].est # tick.snapshot[f].est
       THEN 0 ELSE IF Due(f) THEN overdue[f] + 1 ELSE overdue[f]]
  /\ UNCHANGED <<flight, sim_time, held_flights, drawn, request, callers, calls>>

(* _process_flight reads held_flights first and then awaits. *)
Process(f) ==
  /\ tick.pc = "next" /\ f \in tick.todo
  /\ tick' = [pc |-> "decide", snapshot |-> tick.snapshot, todo |-> tick.todo \ {f},
              f |-> f, held |-> f \in held_flights]
  /\ UNCHANGED <<flight, sim_time, held_flights, drawn, request, callers, overdue, calls>>

(* The queries the decision leads to, in order; memory changes at once. *)
Queries(writes) ==
  tick' = IF writes = <<>>
          THEN [pc |-> "next", snapshot |-> tick.snapshot, todo |-> tick.todo]
          ELSE [pc |-> "write", snapshot |-> tick.snapshot, todo |-> tick.todo,
                writes |-> writes]

(* The noise model may push a departure back, once per flight and cause.   *)
CrewDelay(f, minutes, boarded) ==
  LET s == tick.snapshot[f]
      u == boarding_delay_update(s, sim_time, boarded)
      first == StatusUpdate("boarding", Delay(s.delay + minutes))
      pushed == StatusUpdate("boarding",
                  [delay |-> s.delay + minutes, est |-> s.est + minutes])
  IN  Queries(<<Write(f, first), Write(f, pushed)>> \o
             IF u = NoDelay THEN <<>> ELSE <<Write(f, StatusUpdate("boarding", Delay(u)))>>)

CtotDelay(f, minutes, boarded) ==
  LET s == tick.snapshot[f]
      u == boarding_delay_update(s, sim_time, boarded)
      pushed == StatusUpdate("boarding",
                  [delay |-> s.delay + minutes, est |-> s.est + minutes])
  IN  Queries(<<Write(f, pushed)>> \o
             IF u = NoDelay THEN <<>> ELSE <<Write(f, StatusUpdate("boarding", Delay(u)))>>)

Remain(f, boarded) ==
  LET u == boarding_delay_update(tick.snapshot[f], sim_time, boarded)
  IN  Queries(IF u = NoDelay THEN <<>>
             ELSE <<Write(f, StatusUpdate("boarding", Delay(u)))>>)

Diversion(f) == <<Write(f, StatusUpdate("diverted", NoMore))>>

(* _execute_transition writes the delay of the snapshot back. *)
Transition(f, new) ==
  LET s == tick.snapshot[f]
      more == IF new \in {"departed", "landed"}
              THEN [delay |-> s.delay, actual |-> sim_time] ELSE Delay(s.delay)
  IN  Write(f, StatusUpdate(new, more))

Propagated(f) == PropagatedDelay(tick.snapshot[f].delay, NominalMin, BufferMin)
Propagating(f, new) == new = "at_gate" /\ Pair[f] # NoFlight /\ Propagated(f) > 0

Draw(kind, f) == drawn' = [drawn EXCEPT ![kind] = @ \cup {f}]

Departing(f, boarded) ==
  \/ /\ f \notin drawn.crew /\ Draw("crew", f)
     /\ \E minutes \in NoiseMinutes : CrewDelay(f, minutes, boarded)
  \/ /\ f \notin drawn.ctot
     /\ drawn' = [drawn EXCEPT !.crew = @ \cup {f}, !.ctot = @ \cup {f}]
     /\ \E minutes \in NoiseMinutes : CtotDelay(f, minutes, boarded)
  \/ /\ \E ctot \in {drawn.ctot, drawn.ctot \cup {f}} :      \* off-peak or not
          drawn' = [drawn EXCEPT !.crew = @ \cup {f}, !.ctot = ctot]
     /\ Queries(<<Transition(f, "departed")>>)

(* What evaluate_transition may return once the turnaround has its say.    *)
Outcomes(s, held, boarded) ==
  LET wanted(gate, runway, taxi) ==
        evaluate_transition(s, sim_time,
          [held |-> held, gate |-> gate, runway |-> runway, boarded |-> boarded,
           initial |-> taxi, total |-> 2 * taxi])
      allowed(new, deplaned, ready) ==
        IF suppress_transition_for_turnaround(new, s.direction, deplaned, ready)
        THEN Stay ELSE new
  IN  {allowed(wanted(gate, runway, taxi), deplaned, ready) :
         gate, runway, deplaned, ready \in BOOLEAN, taxi \in TaxiMinutes}

Decide ==
  /\ tick.pc = "decide"
  /\ LET f == tick.f
         s == tick.snapshot[f]
     IN \E boarded \in IF s.status = "boarding" THEN BoardedPct ELSE {100} :
        \E new \in Outcomes(s, tick.held, boarded) :
        LET diverts == s.status = "approach" /\ new # "landed"
        IN  \/ /\ diverts /\ f \notin drawn.diversion /\ Draw("diversion", f)
               /\ Queries(Diversion(f))
               /\ UNCHANGED held_flights
            \/ /\ new = "departed" /\ Departing(f, boarded)
               /\ UNCHANGED held_flights
            \/ /\ new # "departed"
               /\ IF diverts THEN Draw("diversion", f) ELSE UNCHANGED drawn
               /\ held_flights' = IF new = "cancelled" THEN held_flights \ {f} ELSE held_flights
               /\ CASE new = Stay -> Remain(f, boarded)
                    [] Propagating(f, new) ->
                         tick' = [pc |-> "paired", snapshot |-> tick.snapshot,
                                  todo |-> tick.todo, f |-> f]
                    [] OTHER -> Queries(<<Transition(f, new)>>)
  /\ UNCHANGED <<flight, sim_time, request, callers, overdue, calls>>

(* propagate_turnaround_delay reads the outbound flight and replaces its   *)
(* delay by the propagated one.                                            *)
ReadPaired ==
  /\ tick.pc = "paired"
  /\ LET out == Pair[tick.f]
         minutes == Propagated(tick.f)
         apply_delay == Write(out, [status |-> "delayed", delay |-> minutes,
                                    est |-> flight[out].est + minutes])
     IN  Queries((IF Propagates(flight[out].status) THEN <<apply_delay>> ELSE <<>>)
                \o <<Transition(tick.f, "at_gate")>>)
  /\ UNCHANGED <<flight, sim_time, held_flights, drawn, request, callers, overdue, calls>>

WriteNext ==
  /\ tick.pc = "write"
  /\ LET w == Head(tick.writes)
     IN  /\ flight' = [flight EXCEPT ![w.f] = Updated(@, w.update)]
         /\ overdue' = [overdue EXCEPT ![w.f] =
              IF w.update["status"] = "boarding" /\ "est" \notin DOMAIN w.update THEN @ ELSE 0]
  /\ Queries(Tail(tick.writes))
  /\ UNCHANGED <<sim_time, held_flights, drawn, request, callers, calls>>
-----------------------------------------------------------------------------
(* Holds and releases, by REST requests and by commands.                   *)

MayCall(t) ==
  /\ request[t] = Idle
  /\ IF t = HoldConsumer THEN tick = Idle ELSE t \in callers
  /\ calls < MaxCalls

BeginHold(t, f) ==
  /\ MayCall(t) /\ validate_hold_precondition(flight[f].status)
  /\ request' = [request EXCEPT ![t] = [pc |-> "read", f |-> f]]
  /\ calls' = calls + 1
  /\ UNCHANGED <<flight, sim_time, held_flights, drawn, tick, callers, overdue>>

ReadForHold(t) ==
  /\ request[t].pc = "read"
  /\ \E minutes \in HoldMinutes :
       LET f == request[t].f
       IN  request' = [request EXCEPT ![t] =
             [pc |-> "store", f |-> f, est |-> flight[f].est + minutes,
              delay |-> flight[f].delay + minutes]]
  /\ UNCHANGED <<flight, sim_time, held_flights, drawn, tick, callers, overdue, calls>>

StoreHold(t) ==
  /\ request[t].pc = "store"
  /\ LET r == request[t]
     IN  /\ flight' = [flight EXCEPT ![r.f] =
              Updated(@, [status |-> "delayed", est |-> r.est, delay |-> r.delay,
                          hold |-> TRUE])]
         /\ request' = [request EXCEPT ![t] = [pc |-> "remember", f |-> r.f]]
         /\ overdue' = [overdue EXCEPT ![r.f] = 0]
  /\ UNCHANGED <<sim_time, held_flights, drawn, tick, callers, calls>>

RememberHold(t) ==
  /\ request[t].pc = "remember"
  /\ held_flights' = held_flights \cup {request[t].f}
  /\ request' = [request EXCEPT ![t] = Idle]
  /\ UNCHANGED <<flight, sim_time, drawn, tick, callers, overdue, calls>>

BeginRelease(t, f) ==
  /\ t \in FlightRest /\ MayCall(t) /\ flight[f].status = "delayed"
  /\ request' = [request EXCEPT ![t] = [pc |-> "release", f |-> f]]
  /\ calls' = calls + 1
  /\ UNCHANGED <<flight, sim_time, held_flights, drawn, tick, callers, overdue>>

Release(t) ==
  /\ request[t].pc = "release"
  /\ LET f == request[t].f
         new == IF Direction[f] = "departure" THEN "boarding" ELSE "approach"
     IN  /\ flight' = [flight EXCEPT ![f] = Updated(@, StatusUpdate(new, NoMore))]
         /\ request' = [request EXCEPT ![t] = [pc |-> "forget", f |-> f]]
         /\ overdue' = [overdue EXCEPT ![f] = 0]
  /\ UNCHANGED <<sim_time, held_flights, drawn, tick, callers, calls>>

Forget(t) ==
  /\ request[t].pc = "forget"
  /\ held_flights' = held_flights \ {request[t].f}
  /\ request' = [request EXCEPT ![t] = Idle]
  /\ UNCHANGED <<flight, sim_time, drawn, tick, callers, overdue, calls>>

(* A restart loses the memory and reads the holds back before any tick. *)
AllDelayed == {f \in Flight : flight[f].status = "delayed"}   \* mutant of get_manual_holds
get_manual_holds == {f \in Flight : flight[f].status = "delayed" /\ flight[f].hold}
FlightRestart ==
  /\ calls < MaxCalls /\ calls' = calls + 1
  /\ held_flights' = get_manual_holds
  /\ drawn' = NoDraws /\ tick' = Idle /\ request' = [t \in Caller |-> Idle]
  /\ UNCHANGED <<flight, sim_time, callers, overdue>>

HoldStep(t) ==
  \/ \E f \in Flight : BeginHold(t, f) \/ BeginRelease(t, f)
  \/ ReadForHold(t) \/ StoreHold(t) \/ RememberHold(t)
  \/ Release(t) \/ Forget(t)

HoldsNext ==
  \/ Tick \/ EndTick \/ (\E f \in Flight : Process(f)) \/ Decide \/ ReadPaired \/ WriteNext
  \/ \E t \in Caller : HoldStep(t)
  \/ FlightRestart

HoldsSpec == HoldsInit /\ [][HoldsNext]_holdVars
-----------------------------------------------------------------------------
Quiet == tick = Idle /\ request[HoldConsumer] = Idle

(* The nodes, the memory and the places of the coroutines.                 *)
HoldsTypeOK ==
  /\ \A f \in Flight : /\ flight[f].status \in Status
                       /\ flight[f].direction = Direction[f]
                       /\ flight[f].est \in Nat /\ flight[f].delay \in Nat
                       /\ flight[f].hold \in BOOLEAN
  /\ held_flights \subseteq Flight /\ sim_time \in 0..LastMinute
  /\ tick.pc \in {"idle", "next", "decide", "paired", "write"}
  /\ \A t \in Caller : request[t].pc \in
       {"idle", "read", "store", "remember", "release", "forget"}

(* A flight whose node carries a manual hold is delayed, also while ticks  *)
(* write stale decisions and requests interleave: get_manual_holds relies  *)
(* on it at a restart.  And while only commands hold flights, the memory   *)
(* and the nodes agree whenever the consumer is between messages, restarts *)
(* included.                                                               *)
HoldsMatch ==
  /\ \A f \in Flight : flight[f].hold => flight[f].status = "delayed"
  /\ callers = {} /\ Quiet => held_flights = get_manual_holds

(* A stored hold ends only by a release or by the cancellation of the      *)
(* flight: no tick, no propagated delay and no restart loses one.  Commands*)
(* cannot release, so without requests it ends by cancellation only.  And a*)
(* cancelled or diverted flight stays so: no decision of a tick from an old*)
(* snapshot revives it.  A request that checked the status before the end  *)
(* came still writes (EndedForGood).                                       *)
Ended == {"cancelled", "diverted"}
WrittenByRequest(f) ==
  \E t \in FlightRest : request[t].pc \in {"store", "release"} /\ request[t].f = f
HoldsAndEndsLast ==
  [][\A f \in Flight :
       /\ callers = {} /\ flight[f].hold => flight'[f].hold \/ flight'[f].status = "cancelled"
       /\ flight[f].status \in Ended /\ ~WrittenByRequest(f)
            => flight'[f].status = flight[f].status]_holdVars

(* The doors close: a departure that is past its estimate and 90 minutes   *)
(* past its schedule boards for at most one more tick, the one that brings *)
(* its delay up to date, unless its estimate is pushed again.  (A release  *)
(* by a request may give it another one.)                                  *)
DoorsCloseInTime == callers = {} => \A f \in Flight : overdue[f] <= 1

(* What the state machine says of cancelled and diverted: terminal states. *)
EndedForGood ==
  [][\A f \in Flight : flight[f].status \in Ended
       => flight'[f].status = flight[f].status]_holdVars
=============================================================================
