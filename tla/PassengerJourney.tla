-------------------------- MODULE PassengerJourney --------------------------
(***************************************************************************)
(* passenger-service: the passengers in Neo4j; in memory the queues of the *)
(* security checkpoints and the wheelchairs.  The consumer handles one     *)
(* message at a time.  A clock tick is a sequence of stages, one handler   *)
(* each, and ends at the first that fails; between two stages the other    *)
(* services go on.  Flights and incidents are announced, and a restart     *)
(* rebuilds the queues from Neo4j and may skip or repeat announcements.    *)
(* Who is due in a stage is free: it depends on estimates that move, on    *)
(* walking times, on the open lanes and on caps per minute.                *)
(* Left out: the number of lanes, the forecast, zone densities, alerts,    *)
(* the carousels, flights that change their terminal, and connections,     *)
(* because nothing ever sets connection_flight_id.                         *)
(***************************************************************************)
EXTENDS IncidentNews

CONSTANTS
  Pax, Assisted,         \* Assisted: those with special_assistance
  Leaving, Landing,      \* flights
  ON_FLIGHT,             \* the flight of a passenger
  Checkpoints,           \* of the terminals, in order
  CheckpointOf,          \* of a departing flight
  BreachAt,              \* where an incident is: those of type security_breach
  Chairs,                \* of a terminal
  MaxPaxFaults           \* bound: failed writes and restarts

AnyCheckpoint == ToSet(Checkpoints)
Departures == {p \in Pax : ON_FLIGHT[p] \in Leaving}

ASSUME PassengerAssumption ==
  /\ IsFiniteSet(Pax) /\ Assisted \subseteq Pax /\ Checkpoints \in Seq(AnyCheckpoint)
  /\ Leaving \cap Landing = {} /\ Incident \cap (Leaving \cup Landing) = {}
  /\ ON_FLIGHT \in [Pax -> Leaving \cup Landing] /\ CheckpointOf \in [Leaving -> AnyCheckpoint]
  /\ BreachAt \in [Incident -> AnyCheckpoint] /\ Chairs \in [AnyCheckpoint -> Nat]
  /\ MaxPaxFaults \in Nat

VARIABLES
  pax,                 \* status of the Passenger nodes
  pax_flight,          \* status of the Flight nodes
  news,                \* what was announced of a flight
  heard,               \* how far the consumer has come, of flights and incidents
  stage,               \* of the tick
  _tick_counter,       \* 0 before the first tick of the process, else 1
  main_queue, sa_queue, frozen,           \* the checkpoints
  security_enqueued, security_breaches, noshow_drawn_flights,
  in_use, chair_queue, _assignments,      \* the wheelchairs
  unwritten,           \* history: passengers a failed write has left behind
  pax_faults           \* bound

security   == <<main_queue, sa_queue, frozen, security_enqueued, security_breaches>>
wheelchair == <<in_use, chair_queue, _assignments>>
flightNews == <<pax_flight, news>>
outside    == <<flightNews, newsVars>>
paxMemory  ==
  <<heard, stage, _tick_counter, security, noshow_drawn_flights, wheelchair>>
paxVars == <<pax, outside, paxMemory, unwritten, pax_faults>>

CheckpointOfPax(p) == CheckpointOf[ON_FLIGHT[p]]
WithStatus(status) == {p \in Pax : pax[p] = status}

NewDay ==
  /\ pax = [p \in Pax |-> IF p \in Departures THEN "booked" ELSE "airborne"]
  /\ pax_flight = [f \in Leaving \cup Landing |-> "coming"]

ProcessStarts ==
  /\ NewsInit /\ news = [f \in Leaving \cup Landing |-> <<>>]
  /\ heard = [k \in Leaving \cup Landing \cup Incident |-> 0]
  /\ stage = "idle" /\ _tick_counter = 0
  /\ main_queue = [c \in AnyCheckpoint |-> <<>>] /\ sa_queue = [c \in AnyCheckpoint |-> <<>>]
  /\ frozen = {} /\ security_enqueued = {} /\ security_breaches = {}
  /\ noshow_drawn_flights = {}
  /\ in_use = [c \in AnyCheckpoint |-> 0] /\ chair_queue = [c \in AnyCheckpoint |-> <<>>]
  /\ _assignments = [p \in Pax |-> "none"]
  /\ unwritten = {} /\ pax_faults = 0

PassengersInit == NewDay /\ ProcessStarts
-----------------------------------------------------------------------------
(* The other services: a flight ends once.                                 *)

FlightOutcome ==
  \E f \in Leaving \cup Landing :
    /\ pax_flight[f] = "coming"
    /\ \E status \in {"cancelled", IF f \in Leaving THEN "departed" ELSE "at_gate"} :
         /\ pax_flight' = [pax_flight EXCEPT ![f] = status]
         /\ news' = [news EXCEPT ![f] = <<status>>]
    /\ UNCHANGED <<pax, newsVars, paxMemory, unwritten, pax_faults>>

BreachesChange ==
  NewsNext /\ UNCHANGED <<pax, flightNews, paxMemory, unwritten, pax_faults>>
-----------------------------------------------------------------------------
(* A clock tick.                                                           *)

bulk_update_status(group, status) ==
  pax' = [p \in Pax |-> IF p \in group THEN status ELSE pax[p]]

Works(next) == stage' = next /\ UNCHANGED <<unwritten, pax_faults>>

(* A write or an announcement of the stage fails, which ends the tick.     *)
Breaks(left) ==
  /\ stage' = "idle"
  /\ pax_faults < MaxPaxFaults /\ pax_faults' = pax_faults + 1
  /\ unwritten' = unwritten \cup left

(* Only booked passengers, those of a flight together, at the first tick   *)
(* after every start of the process.                                       *)
_warm_start_departures ==
  /\ stage = "idle" /\ _tick_counter = 0 /\ _tick_counter' = 1
  /\ \E target \in [Leaving -> {"booked", "checked_in", "airside", "at_gate", "boarded"}] :
       pax' = [p \in Pax |-> IF p \in Departures /\ pax[p] = "booked"
                             THEN target[ON_FLIGHT[p]] ELSE pax[p]]
  /\ Works("check-in") \/ Breaks({})
  /\ UNCHANGED <<outside, heard, security, noshow_drawn_flights, wheelchair>>

BeginTick ==
  /\ stage = "idle" /\ _tick_counter = 1 /\ Works("check-in")
  /\ UNCHANGED <<pax, outside, heard, _tick_counter, security, noshow_drawn_flights,
                 wheelchair>>

(* wheelchair.request: a chair that is free goes to the newcomer, whoever  *)
(* is waiting for one.                                                     *)
FreeChairs(c) == Max({0, Chairs[c] - in_use[c]})
Newcomers(group, c) ==
  SetToSeq({p \in group \cap Assisted : CheckpointOfPax(p) = c /\ _assignments[p] = "none"})
Served(group, c) == Min({FreeChairs(c), Len(Newcomers(group, c))})
RequestChairs(group) ==
  LET served ==
        UNION {ToSet(SubSeq(Newcomers(group, c), 1, Served(group, c))) : c \in AnyCheckpoint}
  IN  /\ in_use' = [c \in AnyCheckpoint |-> in_use[c] + Served(group, c)]
      /\ chair_queue' = [c \in AnyCheckpoint |->
           chair_queue[c] \o SubSeq(Newcomers(group, c), Served(group, c) + 1,
                                    Len(Newcomers(group, c)))]
      /\ _assignments' = [p \in Pax |->
           CASE p \in served -> "dispatched"
             [] p \in (group \cap Assisted) \ served /\ _assignments[p] = "none" -> "requested"
             [] OTHER -> _assignments[p]]

_advance_booked_to_checkin ==
  /\ stage = "check-in"
  /\ \E due \in SUBSET (WithStatus("booked") \cap Departures) :
       /\ bulk_update_status(due, "checked_in")
       /\ \/ Works("wheelchairs") /\ RequestChairs(due)
          \/ \E asked \in SUBSET due : Breaks({}) /\ RequestChairs(asked)
  /\ UNCHANGED <<outside, heard, _tick_counter, security, noshow_drawn_flights>>

(* One turn of the loop of wheelchair.tick, and its end.                   *)
Waiting(c) == chair_queue[c] # <<>> /\ FreeChairs(c) > 0
DispatchChair ==
  \E c \in AnyCheckpoint :
    /\ stage = "wheelchairs" /\ Waiting(c)
    /\ chair_queue' = [chair_queue EXCEPT ![c] = Tail(@)]
    /\ LET p == Head(chair_queue[c]) IN
       IF _assignments[p] = "requested"
       THEN /\ in_use' = [in_use EXCEPT ![c] = @ + 1]
            /\ _assignments' = [_assignments EXCEPT ![p] = "dispatched"]
       ELSE UNCHANGED <<in_use, _assignments>>
    /\ UNCHANGED <<pax, outside, heard, stage, _tick_counter, security, noshow_drawn_flights,
                   unwritten, pax_faults>>

_wheelchair_tick ==
  /\ stage = "wheelchairs" /\ (\A c \in AnyCheckpoint : ~Waiting(c)) /\ Works("security")
  /\ UNCHANGED <<pax, outside, heard, _tick_counter, security, noshow_drawn_flights,
                 wheelchair>>

(* SecurityCheckpoint.enqueue, in the lane of each.                        *)
Joined(lane, group) ==
  [c \in AnyCheckpoint |->
     lane[c] \o SetToSeq({p \in group \ ToSet(lane[c]) : CheckpointOfPax(p) = c})]
enqueue(group) ==
  /\ main_queue' = Joined(main_queue, group \ Assisted)
  /\ sa_queue' = Joined(sa_queue, group \cap Assisted)
  /\ security_enqueued' = security_enqueued \cup group

(* They are queued flight by flight, before they are written.              *)
_advance_checkin_to_security ==
  /\ stage = "security"
  /\ \E due \in SUBSET ((WithStatus("checked_in") \cap Departures) \ security_enqueued) :
       /\ enqueue(due)
       /\ \/ Works("drain") /\ bulk_update_status(due, "security_queue")
          \/ \E f \in Leaving :
               LET left == {p \in due : ON_FLIGHT[p] = f}
               IN  Breaks(left) /\ bulk_update_status(due \ left, "security_queue")
  /\ UNCHANGED <<outside, heard, _tick_counter, frozen, security_breaches,
                 noshow_drawn_flights, wheelchair>>

(* Those of a lane who are in the group, in the order they stand there.    *)
Only(lane, group) ==
  LET places == {i \in DOMAIN lane : lane[i] \in group}
      nth(k) == CHOOSE i \in places : Cardinality({j \in places : j <= i}) = k
  IN  [k \in 1..Cardinality(places) |-> lane[nth(k)]]

(* Every sixtieth tick.                                                    *)
_sync_security_from_db ==
  LET queued    == WithStatus("security_queue")
      fresh     == queued \ security_enqueued
      Kept(lane) == [c \in AnyCheckpoint |-> Only(lane[c], queued)]
  IN  /\ stage = "drain" /\ Works("synced")
      /\ main_queue' = Kept(Joined(main_queue, fresh \ Assisted))
      /\ sa_queue' = Kept(Joined(sa_queue, fresh \cap Assisted))
      /\ security_enqueued' = security_enqueued \cup fresh
      /\ UNCHANGED <<pax, outside, heard, _tick_counter, frozen, security_breaches,
                     noshow_drawn_flights, wheelchair>>

(* drain: at least one passenger of a lane, none of a frozen main lane.    *)
FrontOf(lane, stopped) ==
  {n \in [AnyCheckpoint -> 0..Cardinality(Pax)] :
     \A c \in AnyCheckpoint :
       IF lane[c] = <<>> \/ c \in stopped THEN n[c] = 0 ELSE n[c] \in 1..Len(lane[c])}
Drained(lane, n, c) == ToSet(SubSeq(lane[c], 1, n[c]))
Rest(lane, n) == [c \in AnyCheckpoint |-> SubSeq(lane[c], n[c] + 1, Len(lane[c]))]

(* All lanes are drained, then the checkpoints are written one by one.     *)
_drain_security_queues ==
  /\ stage \in {"drain", "synced"}
  /\ \E n \in FrontOf(main_queue, frozen), m \in FrontOf(sa_queue, {}) :
       LET Out(i, j) == UNION {Drained(main_queue, n, Checkpoints[k])
                               \cup Drained(sa_queue, m, Checkpoints[k]) : k \in i..j}
           last == Len(Checkpoints)
       IN  /\ main_queue' = Rest(main_queue, n) /\ sa_queue' = Rest(sa_queue, m)
           /\ \/ Works("gates") /\ bulk_update_status(Out(1, last), "airside")
              \/ \E i \in 1..last :
                   Breaks(Out(i, last)) /\ bulk_update_status(Out(1, i - 1), "airside")
  /\ UNCHANGED <<outside, heard, _tick_counter, frozen, security_enqueued, security_breaches,
                 noshow_drawn_flights, wheelchair>>

_advance_airside_to_gate ==
  /\ stage = "gates"
  /\ \E due \in SUBSET WithStatus("airside") : bulk_update_status(due, "at_gate")
  /\ Works("boarding") \/ Breaks({})
  /\ UNCHANGED <<outside, heard, _tick_counter, security, noshow_drawn_flights, wheelchair>>

(* wheelchair.release: only of those who board.                            *)
ReleaseAll(group, c) ==   \* mutant of Returned
  Cardinality({p \in group : CheckpointOfPax(p) = c /\ _assignments[p] # "none"})
Returned(group, c) ==
  Cardinality({p \in group : CheckpointOfPax(p) = c /\ _assignments[p] = "dispatched"})
release(group) ==
  /\ in_use' = [c \in AnyCheckpoint |-> Max({0, in_use[c] - Returned(group, c)})]
  /\ _assignments' = [p \in Pax |-> IF p \in group THEN "none" ELSE _assignments[p]]
  /\ UNCHANGED chair_queue

(* The no-shows of a flight are drawn once; whoever is at the gate of a    *)
(* flight that has left boards it at once.                                 *)
AtGate(f) == {p \in WithStatus("at_gate") : ON_FLIGHT[p] = f}
Called(due) ==
  {f \in Leaving : /\ AtGate(f) # {}
                   /\ \/ pax_flight[f] = "departed"
                      \/ pax_flight[f] = "coming" /\ f \in due}
Boards(noshow, boarding) ==
  pax' = [p \in Pax |-> CASE p \in noshow -> "departed_airport" [] p \in boarding -> "boarded"
                           [] OTHER -> pax[p]]
_advance_boarding ==
  /\ stage = "boarding"
  /\ \E due \in SUBSET Leaving :
       LET group == UNION {AtGate(f) : f \in Called(due)}
       IN  \E noshow \in SUBSET {p \in group : ON_FLIGHT[p] \notin noshow_drawn_flights} :
           \E boarding \in SUBSET (group \ noshow) :
             /\ noshow_drawn_flights' = noshow_drawn_flights \cup Called(due)
             /\ Boards(noshow, boarding)
             /\ \/ /\ Works("arrivals")
                   /\ \A p \in group \ noshow :
                        pax_flight[ON_FLIGHT[p]] = "departed" => p \in boarding
                   /\ release(boarding \cap Assisted)
                \/ \E served \in SUBSET (boarding \cap Assisted) :
                     Breaks({}) /\ release(served)
  /\ UNCHANGED <<outside, heard, _tick_counter, security>>

_advance_arrivals ==
  /\ stage = "arrivals" /\ Works("idle")
  /\ \E customs \in SUBSET WithStatus("deplaning"), away \in SUBSET WithStatus("baggage_claim") :
     \E claim \in SUBSET ((WithStatus("deplaning") \ customs) \cup WithStatus("customs")) :
       pax' = [p \in Pax |-> CASE p \in customs -> "customs" [] p \in claim -> "baggage_claim"
                                [] p \in away -> "departed_airport" [] OTHER -> pax[p]]
  /\ UNCHANGED <<outside, heard, _tick_counter, security, noshow_drawn_flights, wheelchair>>
-----------------------------------------------------------------------------
(* The messages between two ticks.                                         *)

Hears(k, kind) ==
  /\ stage = "idle" /\ heard[k] < Len(news[k]) /\ news[k][heard[k] + 1] = kind
  /\ heard' = [heard EXCEPT ![k] = @ + 1]

AnyOnBoard(f) == {p \in Pax : ON_FLIGHT[p] = f}   \* mutant of Deplaning
Deplaning(f) ==
  {p \in Pax : ON_FLIGHT[p] = f /\ pax[p] \in {"checked_in", "airborne", "booked", "boarded"}}
Flown(f) == {p \in Pax : ON_FLIGHT[p] = f /\ pax[p] = "boarded"}

(* A query that fails is the same as nobody to write.                      *)
_on_flight_status_changed ==
  /\ \/ \E f \in Landing : /\ Hears(f, "at_gate")
                           /\ bulk_update_status(Deplaning(f), "deplaning")
     \/ \E f \in Leaving : /\ Hears(f, "departed")
                           /\ bulk_update_status(Flown(f), "departed_airport")
  /\ UNCHANGED <<outside, stage, _tick_counter, security, noshow_drawn_flights,
                 wheelchair, unwritten, pax_faults>>

Stranded(f) ==
  {p \in Pax : ON_FLIGHT[p] = f /\ pax[p] \notin {"boarded", "departed_airport"}}

(* One by one: a failure leaves out the others.                            *)
_on_flight_cancelled ==
  \E f \in Leaving \cup Landing :
    /\ Hears(f, "cancelled")
    /\ \/ bulk_update_status(Stranded(f), "disrupted") /\ Works("idle")
       \/ \E told \in SUBSET Stranded(f) :
            bulk_update_status(told, "disrupted") /\ Breaks({})
    /\ UNCHANGED <<outside, _tick_counter, security, noshow_drawn_flights, wheelchair>>

_on_incident_created(b) ==
  security_breaches' = security_breaches \cup {b} /\ frozen' = frozen \cup {BreachAt[b]}

ThawsAtOnce(b, others) == {BreachAt[b]}   \* mutant of Thawed
Thawed(b, others) == {BreachAt[b]} \ {BreachAt[x] : x \in others}
_on_incident_status_changed(b, status) ==
  IF status = "resolved"
  THEN /\ security_breaches' = security_breaches \ {b}
       /\ frozen' = frozen \ Thawed(b, security_breaches \ {b})
  ELSE UNCHANGED <<security_breaches, frozen>>

OnBreach ==
  \E b \in Incident :
    /\ stage = "idle" /\ heard[b] < Len(log[b]) /\ heard' = [heard EXCEPT ![b] = @ + 1]
    /\ LET kind == log[b][heard'[b]].kind
       IN  IF kind = "active" THEN _on_incident_created(b)
           ELSE _on_incident_status_changed(b, kind)
    /\ UNCHANGED <<pax, outside, stage, _tick_counter, main_queue, sa_queue, security_enqueued,
                   noshow_drawn_flights, wheelchair, unwritten, pax_faults>>
-----------------------------------------------------------------------------
(* rebuild_security_from_neo4j, after a crash at any point.  The offsets   *)
(* are committed in the background: messages are skipped or repeated.  The *)
(* wheelchairs and the requests for them are forgotten.                    *)

Requeued(group) == Joined([c \in AnyCheckpoint |-> <<>>], group)
load_security_breaches == Open
PaxPartition(k) == IF k \in Incident THEN log[k] ELSE news[k]

RestartPassengers ==
  /\ pax_faults < MaxPaxFaults /\ pax_faults' = pax_faults + 1
  /\ stage' = "idle" /\ _tick_counter' = 0
  /\ main_queue' = Requeued(WithStatus("security_queue") \ Assisted)
  /\ sa_queue' = Requeued(WithStatus("security_queue") \cap Assisted)
  /\ security_enqueued' = WithStatus("security_queue")
  /\ security_breaches' = load_security_breaches
  /\ frozen' = {BreachAt[b] : b \in load_security_breaches}
  /\ noshow_drawn_flights' = {}
  /\ in_use' = [c \in AnyCheckpoint |-> 0] /\ chair_queue' = [c \in AnyCheckpoint |-> <<>>]
  /\ _assignments' = [p \in Pax |-> "none"]
  /\ unwritten' = {}
  /\ \E k \in DOMAIN heard : \E n \in 0..Len(PaxPartition(k)) : heard' = [heard EXCEPT ![k] = n]
  /\ UNCHANGED <<pax, outside>>

PassengersNext ==
  \/ FlightOutcome \/ BreachesChange
  \/ _warm_start_departures \/ BeginTick \/ _advance_booked_to_checkin
  \/ DispatchChair \/ _wheelchair_tick \/ _advance_checkin_to_security
  \/ _sync_security_from_db \/ _drain_security_queues \/ _advance_airside_to_gate
  \/ _advance_boarding \/ _advance_arrivals
  \/ _on_flight_status_changed \/ _on_flight_cancelled
  \/ OnBreach \/ RestartPassengers

PassengersSpec == PassengersInit /\ [][PassengersNext]_paxVars
-----------------------------------------------------------------------------
Turns(lane, p) ==
  UNION {{<<c, i>> : i \in {n \in DOMAIN lane[c] : lane[c][n] = p}} : c \in AnyCheckpoint}

(* Between two messages the checkpoints are those a restart would rebuild. *)
(* A passenger who is in the security queue stands once in the lane of his *)
(* own checkpoint; nobody else stands there, but those whose flight was    *)
(* cancelled meanwhile.  A checkpoint with an open breach is frozen once   *)
(* its announcements were heard, and none is frozen but for a breach that  *)
(* is open or of which not all was heard, however breaches overlap.        *)
(* Excepted are the passengers that a failed write left behind, and the    *)
(* breaches whose announcements tell something else than their nodes: see  *)
(* Settled.                                                                *)
SecurityMatches ==
  stage = "idle" =>
    /\ \A p \in Departures \ unwritten :
         LET own   == IF p \in Assisted THEN sa_queue ELSE main_queue
             other == IF p \in Assisted THEN main_queue ELSE sa_queue
         IN  /\ Turns(other, p) = {} /\ Cardinality(Turns(own, p)) <= 1
             /\ \A t \in Turns(own, p) :
                  t[1] = CheckpointOfPax(p) /\ pax[p] \in {"security_queue", "disrupted"}
             /\ pax[p] = "security_queue" => Turns(own, p) # {}
    /\ \A b \in Open : Settled(b, heard) => BreachAt[b] \in frozen
    /\ frozen \subseteq {BreachAt[b] : b \in {x \in Incident : x \in Open \/ ~Settled(x, heard)}}

(* Nobody goes backwards: stale lanes, repeated news, the warm start after *)
(* a restart and a flight that leaves early take no passenger back to      *)
(* where he was.  Excepted is one who was queuing when his flight was      *)
(* cancelled and is still drained.                                         *)
Progress ==
  [booked |-> 0, checked_in |-> 1, security_queue |-> 2, airside |-> 3, at_gate |-> 4,
   boarded |-> 5, airborne |-> 0, deplaning |-> 6, customs |-> 7, baggage_claim |-> 8,
   disrupted |-> 8, departed_airport |-> 9]
JourneyForward ==
  [][\A p \in Pax :
       \/ Progress[pax[p]] <= Progress[pax'[p]]
       \/ /\ pax[p] = "disrupted" /\ pax'[p] = "airside"
          /\ Turns(main_queue, p) \cup Turns(sa_queue, p) # {}]_paxVars

(* The chairs in use are those that were dispatched, never more than there *)
(* are, and whoever waits for a chair is in the queue for one.             *)
ChairsCounted ==
  /\ \A c \in AnyCheckpoint :
       /\ in_use[c] <= Chairs[c]
       /\ in_use[c] = Cardinality({p \in Departures : CheckpointOfPax(p) = c
                                                      /\ _assignments[p] = "dispatched"})
  /\ \A p \in Departures :
       /\ _assignments[p] = "requested" => Cardinality(Turns(chair_queue, p)) = 1
       /\ _assignments[p] = "dispatched" => Turns(chair_queue, p) = {}
=============================================================================
