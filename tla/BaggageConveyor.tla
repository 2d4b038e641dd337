-------------------------- MODULE BaggageConveyor --------------------------
(***************************************************************************)
(* baggage-service: the bags in Neo4j and the conveyor in memory, a queue  *)
(* of bags per zone.  The consumer handles one message at a time.  A clock *)
(* tick inducts bags, moves every zone on by its throughput and then lets  *)
(* every bag that left a zone be written by a handler of its own, sixteen  *)
(* at a time; the other messages put bags aboard, unload them, stop zones  *)
(* or redirect a bag.  A handler may fail half-way, and a restart rebuilds *)
(* the conveyor from Neo4j and may skip or repeat messages.                *)
(* Left out: the transit between terminals, because both ends of it are    *)
(* derived from the gate of the flight and never differ; Prometheus; the   *)
(* published events; the cap of 500 bags inducted in a minute.             *)
(***************************************************************************)
EXTENDS IncidentNews

CONSTANTS
  Bag,
  Departing, Arriving,   \* flights
  FlightOf,              \* the flight of a bag at check-in
  Terminals, TerminalOf, \* in order; of the gate of a departing flight
  Induction, TERMINAL_SCREENING, TERMINAL_MAKEUP,   \* the zones of a terminal
  ZONE_THROUGHPUT,       \* bags per hour
  BeltsOf,               \* of the terminal of an arriving flight
  FAILURE_IMPACT,        \* the zones an incident stops: those of type system_failure
  Deltas,                \* minutes of a tick
  MaxBagFaults, MaxRedirects   \* bounds

BagFlight == Departing \cup Arriving
Terminal  == ToSet(Terminals)
Sorting   == "sorting-matrix"
Zone      == DOMAIN ZONE_THROUGHPUT
Units     == FlattenSeq([i \in DOMAIN Terminals |-> TERMINAL_SCREENING[Terminals[i]]])
MakeUps   == UNION {ToSet(TERMINAL_MAKEUP[t]) : t \in Terminal}
Inductions == {Induction[t] : t \in Terminal}
Belts     == UNION {BeltsOf[f] : f \in Arriving}
NoZone    == {"check-in", "aircraft-hold", "return", "redirected"}

ASSUME BaggageAssumption ==
  /\ IsFiniteSet(Bag) /\ Departing \cap Arriving = {} /\ Incident \cap BagFlight = {}
  /\ FlightOf \in [Bag -> BagFlight] /\ TerminalOf \in [Departing -> Terminal]
  /\ Terminals \in Seq(Terminal) /\ IsInjective(Terminals)
  /\ ZONE_THROUGHPUT \in [Zone -> Nat] /\ BeltsOf \in [Arriving -> (SUBSET Zone) \ {{}}]
  /\ Induction \in [Terminal -> Zone] /\ IsInjective(Induction)
  /\ TERMINAL_SCREENING \in [Terminal -> Seq(Zone) \ {<<>>}] /\ IsInjective(Units)
  /\ TERMINAL_MAKEUP \in [Terminal -> Seq(Zone) \ {<<>>}] /\ Sorting \in Zone
  /\ Sorting \notin Inductions \cup ToSet(Units) \cup MakeUps \cup Belts
  /\ Inductions \cap (ToSet(Units) \cup MakeUps \cup Belts) = {}
  /\ ToSet(Units) \cap (MakeUps \cup Belts) = {} /\ MakeUps \cap Belts = {}
  /\ Zone \cap NoZone = {}
  /\ FAILURE_IMPACT \in [Incident -> SUBSET Zone] /\ Deltas \subseteq Nat \ {0}
  /\ MaxBagFaults \in Nat /\ MaxRedirects \in Nat

VARIABLES
  bag,            \* status and last_scan_zone of the Baggage nodes
  loaded_on,      \* the flights a bag has a LOADED_ON relationship with
  flight_status,  \* of the Flight nodes, written by flight-service
  topic,          \* what was announced of a flight, in order
  bag_position,   \* how far the consumer has come, of flights and incidents
  queue,          \* of a zone
  offline,        \* zones
  screening_turn, makeup_turn,  \* the round robins
  inducted_bag_ids, active_failures, _offloaded_flights,
  exits,          \* bags that left a zone in this tick and are to be written
  missed,         \* history: bags a failed handler has left behind
  again,          \* history: flights whose news a restart repeated
  bag_faults, redirects   \* bounds

bagNodes  == <<bag, loaded_on>>
flightTopics == <<flight_status, topic>>
airport   == <<flightTopics, newsVars>>
turns     == <<screening_turn, makeup_turn>>
conveyor  == <<queue, offline, turns>>
bagHistory == <<missed, again, bag_faults, redirects>>
baggageMemory ==
  <<bag_position, conveyor, inducted_bag_ids, active_failures, _offloaded_flights, exits>>
baggageVars == <<bagNodes, airport, baggageMemory, bagHistory>>

BagStatus ==
  {"dropped_off", "inducted", "screening", "sorting", "flagged", "loaded", "offloaded",
   "in_hold", "arrived", "on_carousel", "collected"}
Scan(status, zone) == [status |-> status, zone |-> zone]

BaggageInit ==
  /\ bag = [b \in Bag |-> IF FlightOf[b] \in Departing THEN Scan("dropped_off", "check-in")
                          ELSE Scan("in_hold", "aircraft-hold")]
  /\ loaded_on = [b \in Bag |-> {FlightOf[b]}]
  /\ flight_status = [f \in BagFlight |-> "coming"]
  /\ NewsInit
  /\ topic = [f \in BagFlight |-> <<>>]
  /\ bag_position = [k \in BagFlight \cup Incident |-> 0]
  /\ queue = [z \in Zone |-> <<>>] /\ offline = {}
  /\ screening_turn = [t \in Terminal |-> 0] /\ makeup_turn = [t \in Terminal |-> 0]
  /\ inducted_bag_ids = {} /\ active_failures = {} /\ _offloaded_flights = {}
  /\ exits = {} /\ missed = {} /\ again = {} /\ bag_faults = 0 /\ redirects = 0
-----------------------------------------------------------------------------
(* The rest of the airport: a flight ends once; a cancellation is          *)
(* announced twice.                                                        *)

Announcements(status) ==
  IF status = "cancelled" THEN <<"FlightCancelled", "cancelled">> ELSE <<status>>

FlightEnds ==
  \E f \in BagFlight :
    /\ flight_status[f] = "coming"
    /\ \E status \in IF f \in Departing THEN {"departed", "cancelled"} ELSE {"at_gate"} :
         /\ flight_status' = [flight_status EXCEPT ![f] = status]
         /\ topic' = [topic EXCEPT ![f] = Announcements(status)]
    /\ UNCHANGED <<bagNodes, newsVars, baggageMemory, bagHistory>>

FailuresChange ==
  NewsNext /\ UNCHANGED <<bagNodes, flightTopics, baggageMemory, bagHistory>>
-----------------------------------------------------------------------------
(* The conveyor.                                                           *)

Holds(items, b) == \E i \in DOMAIN items : items[i].bag = b
Found(q, b)     == \E z \in Zone : Holds(q[z], b)
_find_bag_current_zone(q, b) == CHOOSE z \in Zone : Holds(q[z], b)   \* the first
Kept(items, places) ==
  FlattenSeq([i \in DOMAIN items |-> IF i \in places THEN <<items[i]>> ELSE <<>>])

(* Of each bag only the first place is removed.                            *)
KeepInZones(q, bags) == q   \* mutant of remove_bag_from_all_zones
FirstPlace(q, z, i) ==
  LET b == q[z][i].bag
  IN  z = _find_bag_current_zone(q, b) /\ \A j \in 1..(i - 1) : q[z][j].bag # b
remove_bag_from_all_zones(q, bags) ==
  [z \in Zone |-> Kept(q[z], {i \in DOMAIN q[z] : q[z][i].bag \in bags => ~FirstPlace(q, z, i)})]

drain_zone(items, z, delta) ==
  IF z \in offline THEN <<>>
  ELSE SubSeq(items, 1, Min({Len(items), Max({1, (ZONE_THROUGHPUT[z] * delta) \div 60})}))

Available(zones) == Kept(zones, {i \in DOMAIN zones : zones[i] \notin offline})
_pick_zone(zones, turn, i) ==   \* for the i-th bag of a tick
  LET up == Available(zones) IN
  IF up = <<>> THEN Head(zones) ELSE up[1 + ((turn + i - 1) % Len(up))]
NextTurn(zones, turn, bags) ==
  LET up == Available(zones) IN
  IF up = <<>> \/ bags = 0 THEN turn ELSE 1 + ((turn + bags - 1) % Len(up))
Routed(items, zones, turn, z) ==
  Kept(items, {i \in DOMAIN items : _pick_zone(zones, turn, i) = z})

SortedFor(out, t) ==
  Kept(out[Sorting], {i \in DOMAIN out[Sorting] : TerminalOf[out[Sorting][i].flight] = t})

Inflow(out, z) ==
  CASE z = Sorting -> FlattenSeq([n \in DOMAIN Units |-> out[Units[n]]])
    [] z \in ToSet(Units) ->
         FlattenSeq([i \in DOMAIN Terminals |->
           Routed(out[Induction[Terminals[i]]], TERMINAL_SCREENING[Terminals[i]],
                  screening_turn[Terminals[i]], z)])
    [] z \in MakeUps ->
         FlattenSeq([i \in DOMAIN Terminals |->
           Routed(SortedFor(out, Terminals[i]), TERMINAL_MAKEUP[Terminals[i]],
                  makeup_turn[Terminals[i]], z)])
    [] OTHER -> <<>>

(* Downstream zones first: what enters a zone leaves it in a later tick.   *)
advance_tick(q, delta) ==
  LET out == [z \in Zone |-> drain_zone(q[z], z, delta)] IN
  /\ queue' = [z \in Zone |-> SubSeq(q[z], Len(out[z]) + 1, Len(q[z])) \o Inflow(out, z)]
  /\ screening_turn' = [t \in Terminal |->
       NextTurn(TERMINAL_SCREENING[t], screening_turn[t], Len(out[Induction[t]]))]
  /\ makeup_turn' = [t \in Terminal |->
       NextTurn(TERMINAL_MAKEUP[t], makeup_turn[t], Len(SortedFor(out, t)))]
  /\ exits' = UNION {{[from |-> z, item |-> item] : item \in ToSet(out[z])} : z \in Zone}
-----------------------------------------------------------------------------
(* A clock tick.  Which flights leave within 90 minutes is free.           *)

Quiet == exits = {}
Done(k) == bag_position' = [bag_position EXCEPT ![k] = @ + 1]

Rows == UNION {{[bag |-> b, flight |-> f] : f \in loaded_on[b]} : b \in Bag}
get_dropped_off_baggage_for_departures ==
  {r \in Rows : /\ bag[r.bag].status = "dropped_off"
                /\ r.flight \in Departing /\ flight_status[r.flight] # "cancelled"}
ToInduct(due) ==
  {r \in get_dropped_off_baggage_for_departures :
     r.bag \notin inducted_bag_ids /\ (flight_status[r.flight] = "departed" \/ r.flight \in due)}

Entering(rows, t) ==
  {r \in rows : flight_status[r.flight] # "departed" /\ TerminalOf[r.flight] = t}
InductedAt(r) ==
  IF flight_status[r.flight] = "departed" THEN Scan("in_hold", "aircraft-hold")
  ELSE Scan("inducted", Induction[TerminalOf[r.flight]])
WriteInducted(rows) ==
  bag' = [b \in Bag |-> IF \E r \in rows : r.bag = b
                        THEN InductedAt(CHOOSE r \in rows : r.bag = b) ELSE bag[b]]
WithInducted(rows) ==
  [z \in Zone |->
     IF z \in Inductions
     THEN queue[z] \o SetToSeq(Entering(rows, CHOOSE t \in Terminal : Induction[t] = z))
     ELSE queue[z]]
BagsOf(rows) == {r.bag : r \in rows}

Tick ==
  \E due \in SUBSET Departing, delta \in Deltas :
    LET rows == ToInduct(due) IN
    /\ Quiet
    /\ WriteInducted(rows)
    /\ inducted_bag_ids' = inducted_bag_ids \cup BagsOf(rows)
    /\ advance_tick(WithInducted(rows), delta)
    /\ UNCHANGED <<loaded_on, airport, bag_position, offline, active_failures,
                   _offloaded_flights, bagHistory>>

(* The batch is written, then a bag cannot be announced: the bags after it *)
(* are not queued and the tick ends.                                       *)
Fails == bag_faults < MaxBagFaults /\ bag_faults' = bag_faults + 1

TickFails ==
  \E due \in SUBSET Departing : \E rows \in SUBSET ToInduct(due) :
    /\ Quiet /\ Fails /\ ToInduct(due) # {}
    /\ WriteInducted(ToInduct(due))
    /\ inducted_bag_ids' = inducted_bag_ids \cup BagsOf(rows)
    /\ queue' = WithInducted(rows)
    /\ missed' = missed \cup (BagsOf(ToInduct(due)) \ BagsOf(rows))
    /\ UNCHANGED <<loaded_on, airport, bag_position, offline, turns, active_failures,
                   _offloaded_flights, exits, again, redirects>>
-----------------------------------------------------------------------------
(* The bags that left a zone, each by a handler of its own.                *)

Write(b, status, zone) == bag' = [bag EXCEPT ![b] = Scan(status, zone)]
set_loaded_on_timestamp(item) ==   \* MERGE
  loaded_on' = [loaded_on EXCEPT ![item.bag] = @ \cup {item.flight}]

LeavesInduction(e) ==
  /\ e.from \in Inductions
  /\ IF Found(queue, e.item.bag)
     THEN Write(e.item.bag, "screening", _find_bag_current_zone(queue, e.item.bag))
     ELSE UNCHANGED bag
  /\ UNCHANGED <<loaded_on, queue>>

(* screen_item: dangerous goods may be found or missed, and any bag may    *)
(* be held for nothing.                                                    *)
Flagged(e) ==
  /\ e.from \in ToSet(Units)
  /\ Write(e.item.bag, "flagged", e.from)
  /\ queue' = remove_bag_from_all_zones(queue, {e.item.bag})
  /\ UNCHANGED loaded_on

Clear(e) ==
  /\ e.from \in ToSet(Units)
  /\ Write(e.item.bag, "sorting", Sorting)
  /\ UNCHANGED <<loaded_on, queue>>

LeavesSorting(e) ==
  /\ e.from = Sorting
  /\ IF Found(queue, e.item.bag)
     THEN /\ Write(e.item.bag, "loaded", _find_bag_current_zone(queue, e.item.bag))
          /\ set_loaded_on_timestamp(e.item)
     ELSE UNCHANGED bagNodes
  /\ UNCHANGED queue

LeavesMakeUp(e) ==
  /\ e.from \in MakeUps
  /\ Write(e.item.bag, "loaded", e.from) /\ set_loaded_on_timestamp(e.item)
  /\ UNCHANGED queue

LeavesBelt(e) ==   \* on_carousel, and collected at once
  /\ e.from \in Belts
  /\ Write(e.item.bag, "collected", e.from)
  /\ UNCHANGED <<loaded_on, queue>>

_process_bag_exit ==
  \E e \in exits :
    /\ exits' = exits \ {e}
    /\ LeavesInduction(e) \/ Flagged(e) \/ Clear(e) \/ LeavesSorting(e) \/ LeavesMakeUp(e)
         \/ LeavesBelt(e)
    /\ UNCHANGED <<airport, bag_position, offline, turns, inducted_bag_ids, active_failures,
                   _offloaded_flights, bagHistory>>

(* A failed handler has written nothing, or its first status: a flagged    *)
(* bag then stays in the queue of the sorter, and a bag on the carousel is *)
(* never collected.                                                        *)
ExitFails ==
  \E e \in exits :
    /\ Fails
    /\ exits' = exits \ {e} /\ missed' = missed \cup {e.item.bag}
    /\ \/ UNCHANGED bag
       \/ e.from \in ToSet(Units) /\ Write(e.item.bag, "flagged", e.from)
       \/ e.from \in Belts /\ Write(e.item.bag, "on_carousel", e.from)
    /\ UNCHANGED <<loaded_on, airport, bag_position, conveyor, inducted_bag_ids, active_failures,
                   _offloaded_flights, again, redirects>>
-----------------------------------------------------------------------------
(* The other messages.                                                     *)

(* Its condition on the status belongs to an OPTIONAL MATCH of the         *)
(* passenger and removes no bag.                                           *)
get_flight_baggage(f) == {b \in Bag : f \in loaded_on[b]}

Heard(k, kind) == bag_position[k] < Len(topic[k]) /\ topic[k][bag_position[k] + 1] = kind

SetAll(bags, status, zone) ==
  bag' = [b \in Bag |-> IF b \in bags THEN Scan(status, zone) ELSE bag[b]]

OnDeparted ==
  \E f \in Departing :
    /\ Quiet /\ Heard(f, "departed") /\ Done(f)
    /\ SetAll(get_flight_baggage(f), "in_hold", "aircraft-hold")
    /\ queue' = remove_bag_from_all_zones(queue, get_flight_baggage(f))
    /\ UNCHANGED <<loaded_on, airport, offline, turns, inducted_bag_ids, active_failures,
                   _offloaded_flights, exits, bagHistory>>

(* The belt follows from a hash that differs from process to process.      *)
OnAtGate ==
  \E f \in Arriving : \E belt \in BeltsOf[f] :
    /\ Quiet /\ Heard(f, "at_gate") /\ Done(f)
    /\ SetAll(get_flight_baggage(f), "arrived", belt)
    /\ queue' = [queue EXCEPT ![belt] =
         @ \o SetToSeq({[bag |-> b, flight |-> f] : b \in get_flight_baggage(f)})]
    /\ UNCHANGED <<loaded_on, airport, offline, turns, inducted_bag_ids, active_failures,
                   _offloaded_flights, exits, bagHistory>>

(* The first of the two announcements unloads the flight.                  *)
offload_flight_baggage(f, bags) ==
  /\ _offloaded_flights' = _offloaded_flights \cup {f}
  /\ SetAll(bags, "offloaded", "return")
  /\ queue' = remove_bag_from_all_zones(queue, bags)

OnCancelled ==
  \E f \in Departing :
    /\ Quiet /\ (Heard(f, "cancelled") \/ Heard(f, "FlightCancelled")) /\ Done(f)
    /\ offload_flight_baggage(f, IF f \in _offloaded_flights THEN {} ELSE get_flight_baggage(f))
    /\ UNCHANGED <<loaded_on, airport, offline, turns, inducted_bag_ids, active_failures,
                   exits, bagHistory>>

(* A failure after the write of a departure or between two bags of a       *)
(* cancellation: the rest is not done.                                     *)
MessageFails ==
  \E f \in Departing : \E bags \in SUBSET get_flight_baggage(f) :
    /\ Quiet /\ Fails /\ Done(f)
    /\ missed' = missed \cup (get_flight_baggage(f) \ bags)
    /\ \/ /\ Heard(f, "departed")
          /\ SetAll(get_flight_baggage(f), "in_hold", "aircraft-hold")
          /\ queue' = remove_bag_from_all_zones(queue, bags)
          /\ UNCHANGED _offloaded_flights
       \/ /\ Heard(f, "cancelled") \/ Heard(f, "FlightCancelled")
          /\ f \notin _offloaded_flights
          /\ offload_flight_baggage(f, bags)
    /\ UNCHANGED <<loaded_on, airport, offline, turns, inducted_bag_ids, active_failures,
                   exits, again, redirects>>

StoppedBy(incidents) == UNION {FAILURE_IMPACT[i] : i \in incidents}

OnFailureCreated(i) ==
  /\ active_failures' = active_failures \cup {i}
  /\ offline' = offline \cup FAILURE_IMPACT[i]

RestartsZones(i, status) ==   \* mutant of OnFailureChanged
  IF status = "resolved"
  THEN /\ active_failures' = active_failures \ {i}
       /\ offline' = offline \ FAILURE_IMPACT[i]
  ELSE UNCHANGED <<active_failures, offline>>

OnFailureChanged(i, status) ==
  IF status = "resolved"
  THEN /\ active_failures' = active_failures \ {i}
       /\ offline' = offline \ (FAILURE_IMPACT[i] \ StoppedBy(active_failures \ {i}))
  ELSE UNCHANGED <<active_failures, offline>>

OnFailure ==
  \E i \in Incident :
    /\ Quiet /\ bag_position[i] < Len(log[i]) /\ Done(i)
    /\ LET kind == log[i][bag_position'[i]].kind
       IN  IF kind = "active" THEN OnFailureCreated(i)
           ELSE OnFailureChanged(i, kind)
    /\ UNCHANGED <<bagNodes, airport, queue, turns, inducted_bag_ids, _offloaded_flights,
                   exits, bagHistory>>

(* RedirectBaggage: any bag, whatever became of it.                        *)
RedirectBaggage ==
  \E b \in Bag, f \in Departing :
    /\ Quiet /\ redirects < MaxRedirects /\ redirects' = redirects + 1
    /\ loaded_on' = [loaded_on EXCEPT ![b] = {f}]
    /\ bag' = [bag EXCEPT ![b].zone = "redirected"]
    /\ queue' = remove_bag_from_all_zones(queue, {b})
    /\ UNCHANGED <<airport, bag_position, offline, turns, inducted_bag_ids, active_failures,
                   _offloaded_flights, exits, missed, again, bag_faults>>
-----------------------------------------------------------------------------
(* rebuild_from_neo4j.  The offsets are committed in the background,       *)
(* before or after the messages are handled: those of one flight or        *)
(* incident are skipped or repeated.  A redirected bag is in no queue.     *)

get_active_system_failures == Open

InPipeline == {"inducted", "screening", "sorting", "arrived"}
get_baggage_in_pipeline ==
  {r \in Rows : bag[r.bag].status \in InPipeline \cup {"loaded", "in_hold", "flagged"}}
RebuiltByZone(z) ==   \* mutant of Rebuilt
  {r \in get_baggage_in_pipeline : bag[r.bag].zone = z}
Rebuilt(z) == {r \in get_baggage_in_pipeline :
                 bag[r.bag].status \in InPipeline /\ bag[r.bag].zone = z}

BagPartition(k) == IF k \in Incident THEN log[k] ELSE topic[k]
RestartBaggage ==
  /\ Fails
  /\ queue' = [z \in Zone |-> SetToSeq(Rebuilt(z))]
  /\ inducted_bag_ids' = BagsOf(get_baggage_in_pipeline)
  /\ active_failures' = get_active_system_failures
  /\ offline' = StoppedBy(get_active_system_failures)
  /\ screening_turn' = [t \in Terminal |-> 0] /\ makeup_turn' = [t \in Terminal |-> 0]
  /\ _offloaded_flights' = {} /\ exits' = {} /\ missed' = {}
  /\ \E k \in DOMAIN bag_position : \E p \in 0..Len(BagPartition(k)) :
       /\ bag_position' = [bag_position EXCEPT ![k] = p]
       /\ again' = IF p < bag_position[k] THEN again \cup {k} ELSE again
  /\ UNCHANGED <<bagNodes, airport, redirects>>

BaggageNext ==
  \/ FlightEnds \/ FailuresChange
  \/ Tick \/ TickFails \/ _process_bag_exit \/ ExitFails
  \/ OnDeparted \/ OnAtGate \/ OnCancelled \/ MessageFails
  \/ OnFailure \/ RedirectBaggage \/ RestartBaggage

BaggageSpec == BaggageInit /\ [][BaggageNext]_baggageVars
-----------------------------------------------------------------------------
Redirected(b) == FlightOf[b] \in Arriving /\ loaded_on[b] # {FlightOf[b]}
Repeated(b)   == FlightOf[b] \in Arriving \cap again
Places(b) ==
  UNION {{<<z, i>> : i \in {n \in DOMAIN queue[z] : queue[z][n].bag = b}} : z \in Zone}

(* Between two messages the conveyor is the one a restart would rebuild: a *)
(* bag under way is in the queue of the zone it was last scanned in, once, *)
(* on one flight, and no bag that is aboard, unloaded, flagged or          *)
(* collected is on a belt.  The zones of an open failure stand still once  *)
(* its announcements were heard, and no zone stands still but for a        *)
(* failure that is open or of which not all was heard, however failures    *)
(* overlap.  Excepted are the bags that a failed handler left behind, those*)
(* of an arrival whose news came twice, and the failures whose             *)
(* announcements tell something else than their nodes: see Settled.        *)
ConveyorMatches ==
  Quiet =>
    /\ \A b \in Bag \ missed : ~Repeated(b) =>
         /\ Cardinality(loaded_on[b]) = 1
         /\ Cardinality(Places(b)) <= 1
         /\ bag[b].status \in InPipeline /\ bag[b].zone \in Zone => Holds(queue[bag[b].zone], b)
         /\ \A p \in Places(b) :
              p[1] = bag[b].zone /\ bag[b].status \in InPipeline \cup {"loaded"}
    /\ \A i \in Open : Settled(i, bag_position) => FAILURE_IMPACT[i] \subseteq offline
    /\ offline \subseteq StoppedBy({i \in Incident : i \in Open \/ ~Settled(i, bag_position)})

(* A bag moves forward through the airport: no scan written late takes a   *)
(* bag that is aboard, unloaded or collected back to the conveyor.  The    *)
(* same bags are excepted, and those of an arrival that were redirected.   *)
Before ==
  [dropped_off |-> 0, inducted |-> 1, screening |-> 2, sorting |-> 3, flagged |-> 3,
   loaded |-> 4, offloaded |-> 5, in_hold |-> 5, arrived |-> 6, on_carousel |-> 7,
   collected |-> 8]
BagsMoveForward ==
  [][\A b \in Bag : b \in missed' \/ Redirected(b) \/ Repeated(b)
        \/ Before[bag[b].status] <= Before[bag[b].status]']_baggageVars

(* The statuses that a departure asks for leave out the bags that were     *)
(* flagged: such a bag does not fly.                                       *)
FlaggedStaysOff == [][\A b \in Bag : bag[b].status = "flagged" => bag'[b].status # "in_hold"]_bag
=============================================================================
