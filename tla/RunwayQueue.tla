---------------------------- MODULE RunwayQueue ----------------------------
(***************************************************************************)
(* The runway queue of flight-service and the part of the clock tick that  *)
(* uses it: a tick hands out slots, then processes the active flights,     *)
(* which ask for slots or leave the queue, then counts the minutes every   *)
(* arrival of its snapshot has been holding.  Only the consumer touches    *)
(* the queue, one message at a time.  An item stays in its heap when its   *)
(* flight is removed and is skipped when it is popped.  Flights are        *)
(* numbers, the last part of a priority; the time of an emergency is the   *)
(* number of ticks that declared one before.  The schedule gives its       *)
(* flights a runway; an injected flight may start without one.             *)
(***************************************************************************)
EXTENDS Integers, FiniteSets

CONSTANTS
  Arrivals, Departures,   \* flights
  AircraftType,           \* of a flight
  Times,                  \* estimated times, as they order requests
  Category, Rate,         \* weather categories and their movements per hour
  StepMinutes,            \* minutes between two ticks
  PanPanMinutes           \* holding_fuel_panpan_minutes

Flights   == Arrivals \cup Departures
Directions == {"arrival", "departure"}

(* What the queue sees of a flight: it may ask (a scheduled arrival, a     *)
(* boarding departure), hold in approach, wait, has landed or departed     *)
(* (away), is cancelled or diverted (out).                                 *)
Phase == {"scheduled", "boarding", "delayed", "approach", "away", "out"}
Wake      == {"SUPER", "HEAVY", "MEDIUM", "LIGHT"}

ASSUME QueueAssumption ==
  /\ Arrivals \subseteq Nat /\ Departures \subseteq Nat
  /\ IsFiniteSet(Arrivals) /\ IsFiniteSet(Departures)
  /\ Arrivals \cap Departures = {}
  /\ AircraftType \in [Flights -> Wake] /\ Times \subseteq Nat
  /\ Category # {} /\ Rate \in [Category -> [Directions -> Nat]]
  /\ StepMinutes \subseteq Nat \ {0} /\ PanPanMinutes \in Nat \ {0}

VARIABLES
  queue,            \* the two heaps
  queued_flights,
  category,         \* the last weather the consumer heard of
  occupied,         \* seconds until the runway is free, at the last tick
  phase,            \* of a flight
  runway,           \* the flights with a runway
  holding_minutes,  \* counted until the PAN PAN
  fuel_panpan,
  declared,         \* ticks that declared an emergency
  step,             \* minutes of the tick being handled; 0 between ticks
  todo, holding,    \* of this tick: flights to process, arrivals in approach
  asked,            \* history: the item a queued flight waits with
  granted           \* history: the items this tick has served

queueVars == <<queue, queued_flights, category, occupied, phase, runway,
               holding_minutes, fuel_panpan, declared, step, todo, holding, asked, granted>>

NoItem == [flight |-> -1, emergency |-> FALSE, time |-> 0, type |-> "MEDIUM"]
Item(f, emergency, time, type) ==
  [flight |-> f, emergency |-> emergency, time |-> time, type |-> type]
DirectionOf(f) == IF f \in Arrivals THEN "arrival" ELSE "departure"

(* The order of the heap: emergencies, then estimated time, then flight.   *)
Before(i, j) ==
  \/ i.emergency /\ ~j.emergency
  \/ i.emergency = j.emergency /\ i.time < j.time
  \/ i.emergency = j.emergency /\ i.time = j.time /\ i.flight < j.flight

Larger(a, b)  == IF a > b THEN a ELSE b
-----------------------------------------------------------------------------
(* Wake turbulence and runway occupancy.                                   *)

SEPARATION_NM ==
  [SUPER  |-> [SUPER |-> 4, HEAVY |-> 6, MEDIUM |-> 7, LIGHT |-> 8],
   HEAVY  |-> [SUPER |-> 4, HEAVY |-> 4, MEDIUM |-> 5, LIGHT |-> 6],
   MEDIUM |-> [SUPER |-> 3, HEAVY |-> 3, MEDIUM |-> 3, LIGHT |-> 5],
   LIGHT  |-> [SUPER |-> 3, HEAVY |-> 3, MEDIUM |-> 3, LIGHT |-> 3]]
APPROACH_SPEED_KT == [SUPER |-> 150, HEAVY |-> 140, MEDIUM |-> 130, LIGHT |-> 110]

separation_seconds(leader, follower) ==
  (SEPARATION_NM[leader][follower] * 3600) \div APPROACH_SPEED_KT[follower]

rot_seconds == [SUPER |-> 80, HEAVY |-> 65, MEDIUM |-> 50, LIGHT |-> 42]
-----------------------------------------------------------------------------
(* The queue.                                                              *)

(* A popped item takes its flight out of the queue: an older one of the    *)
(* same flight, which comes after it, is skipped then.                     *)
Live(d) ==
  {i \in queue[d] : /\ i.flight \in queued_flights
                    /\ \A j \in queue[d] : j.flight = i.flight => ~Before(j, i)}
Ahead(S, i) == {j \in S : Before(j, i)}
NewestFirst(S, n) == {i \in S : Cardinality(Ahead(S, i)) + n >= Cardinality(S)}   \* mutant of First
First(S, n) == {i \in S : Cardinality(Ahead(S, i)) < n}

(* Two items served one after the other keep their distance. *)
Spaced(S, i) ==
  \A j \in Ahead(S, i) \cup {i}, l \in Ahead(S, i) :
    Cardinality(Ahead(S, j)) = Cardinality(Ahead(S, l)) + 1
      => separation_seconds(l.type, j.type) <= 60

assign_from_queue(d, n) == {i \in First(Live(d), n) : Spaced(Live(d), i)}

(* What is left of a heap: an item of a removed flight goes once it comes  *)
(* to the top.                                                             *)
NotPushedBack(d, served, full) ==   \* mutant of Unserved
  {i \in queue[d] \ served : full /\ Spaced(Live(d), i)}

Unserved(d, served, full) ==
  LET left == Live(d) \ served
      dead == queue[d] \ Live(d)
  IN  left \cup {j \in dead : IF full THEN \A i \in served : Before(i, j)
                              ELSE \E i \in left : Before(i, j)}

Slots(d) == Larger(1, Rate[category][d] \div 60)

(* In clear weather each direction has its slots. *)
Separate(d) == assign_from_queue(d, Slots(d))

ArrivalsOnly(d) ==   \* mutant of Alternating
  LET n == Slots("arrival") + Slots("departure")
  IN  First(Live(d), IF d = "arrival" THEN n ELSE Larger(0, n - Cardinality(Live("arrival"))))

(* In IMC and LIFR the directions take turns, arrivals first; one that has *)
(* no flight leaves its turn to the other.                                 *)
Alternating(d) ==
  LET n == Slots("arrival") + Slots("departure")
      a == Cardinality(Live("arrival"))
      b == Cardinality(Live("departure"))
  IN  First(Live(d), IF d = "arrival" THEN Larger((n + 1) \div 2, n - b)
                                      ELSE Larger(n \div 2, n - a))

(* ... and is found to have none, which empties its heap. *)
RunsDry(d) ==
  LET n == Slots("arrival") + Slots("departure")
      a == Cardinality(Live("arrival"))
      b == Cardinality(Live("departure"))
  IN  IF d = "arrival" THEN a = 0 \/ (b > a /\ 2 * a < n)
      ELSE (a = 0 /\ b = 0) \/ (a > b + 1 /\ 2 * b + 1 < n)

InTurns == category \in {"IMC", "LIFR"}
assign_slots(d) == IF InTurns THEN Alternating(d) ELSE Separate(d)
Full(d, served) ==
  IF InTurns THEN ~RunsDry(d) ELSE Cardinality(served) = Slots(d)

(* The last assignment of the tick occupies the runway. *)
LastType(arr, dep) ==
  LET last(S) == CHOOSE i \in S : \A j \in S : ~Before(i, j)
  IN  IF dep = {} \/ (InTurns /\ Cardinality(arr) > Cardinality(dep))
      THEN last(arr).type ELSE last(dep).type

QueueInit ==
  /\ queue = [d \in Directions |-> {}] /\ queued_flights = {}
  /\ category \in Category /\ occupied = 0
  /\ phase = [f \in Flights |-> IF f \in Arrivals THEN "scheduled" ELSE "delayed"]
  /\ runway \in SUBSET Flights
  /\ holding_minutes = [f \in Arrivals |-> 0] /\ fuel_panpan = {} /\ declared = 0
  /\ step = 0 /\ todo = {} /\ holding = {}
  /\ asked = [f \in Flights |-> NoItem] /\ granted = {}

update_capacity ==
  /\ step = 0 /\ category' \in Category
  /\ UNCHANGED <<queue, queued_flights, occupied, phase, runway, holding_minutes,
                 fuel_panpan, declared, step, todo, holding, asked, granted>>

(* Step 2 of a tick: no slot while the runway is occupied, and a slot is   *)
(* lost when no runway is open for it.                                     *)
AssignSlots(minutes) ==
  /\ step = 0 /\ step' = minutes
  /\ todo' = {f \in Flights : phase[f] \notin {"away", "out"}}
  /\ holding' = {f \in Arrivals : phase[f] = "approach"}
  /\ IF occupied > 60 * minutes
     THEN /\ occupied' = occupied - 60 * minutes
          /\ UNCHANGED <<queue, queued_flights, asked, runway, granted>>
     ELSE LET arr == assign_slots("arrival")
              dep == assign_slots("departure")
          IN  /\ granted' = arr \cup dep
              /\ occupied' = IF granted' = {} THEN 0 ELSE rot_seconds[LastType(arr, dep)]
              /\ queue' = [arrival   |-> Unserved("arrival", arr, Full("arrival", arr)),
                           departure |-> Unserved("departure", dep, Full("departure", dep))]
              /\ queued_flights' = queued_flights \ {i.flight : i \in granted'}
              /\ asked' = [f \in Flights |->
                    IF f \in queued_flights' THEN asked[f] ELSE NoItem]
              /\ \E open \in SUBSET {i.flight : i \in granted'} : runway' = runway \cup open
  /\ UNCHANGED <<category, phase, holding_minutes, fuel_panpan, declared>>

(* Step 3 for one flight.  Only scheduled arrivals and boarding departures *)
(* without a runway ask; where a flight goes, holds and releases included, *)
(* is decided elsewhere.  A flight that ends early is removed.  The order  *)
(* of the flights makes no difference to the queue.                        *)
Moves ==
  [arrival   |-> [scheduled |-> {"scheduled", "approach", "delayed"},
                  approach  |-> {"approach", "away", "delayed", "out"},
                  delayed   |-> {"delayed", "approach", "out"}],
   departure |-> [delayed   |-> {"delayed", "boarding", "out"},
                  boarding  |-> {"boarding", "away", "delayed", "out"}]]

MayAsk(f) ==
  /\ f \notin runway \cup queued_flights
  /\ phase[f] = IF f \in Arrivals THEN "scheduled" ELSE "boarding"

Requests(f) ==
  {NoItem} \cup IF MayAsk(f) THEN {Item(f, FALSE, t, AircraftType[f]) : t \in Times} ELSE {}

ProcessFlight ==
  /\ todo # {} /\ granted' = {}
  /\ LET f == CHOOSE g \in todo : \A h \in todo : g <= h
     IN  /\ todo' = todo \ {f}
         /\ \E new \in Moves[DirectionOf(f)][phase[f]], item \in Requests(f) :
              LET asks == item # NoItem
                  out  == new = "out"
              IN  /\ phase' = [phase EXCEPT ![f] = new]
                  /\ queue' = [queue EXCEPT ![DirectionOf(f)] = @ \cup ({item} \ {NoItem})]
                  /\ queued_flights' = (queued_flights \cup {g \in {f} : asks}) \ {g \in {f} : out}
                  /\ asked' = [asked EXCEPT ![f] =
                        CASE out -> NoItem [] asks /\ ~out -> item [] OTHER -> @]
                  /\ holding_minutes' = IF out /\ f \in holding
                        THEN [holding_minutes EXCEPT ![f] = 0] ELSE holding_minutes
  /\ UNCHANGED <<category, occupied, runway, fuel_panpan, declared, step, holding>>

Counted      == holding \ fuel_panpan

(* Step 3a: _track_holding_fuel_burn works from the statuses the tick      *)
(* started with.  A PAN PAN asks for a slot ahead of the others, with the  *)
(* default aircraft type.                                                  *)
TrackHolding ==
  /\ step > 0 /\ todo = {}
  /\ step' = 0 /\ holding' = {} /\ granted' = {}
  /\ LET minutes(f) == holding_minutes[f] + step
         panpan == {f \in Counted : minutes(f) >= PanPanMinutes}
         emergency(f) == Item(f, TRUE, declared, "MEDIUM")
         accepted == panpan \ queued_flights
     IN  /\ holding_minutes' = [f \in Arrivals |->
                IF f \in Counted \ panpan THEN minutes(f) ELSE 0]
         /\ fuel_panpan' = fuel_panpan \cup panpan
         /\ queue' = [queue EXCEPT !["arrival"] = @ \cup {emergency(f) : f \in accepted}]
         /\ asked' = [f \in Flights |-> IF f \in accepted THEN emergency(f) ELSE asked[f]]
         /\ queued_flights' = queued_flights \cup accepted
         /\ declared' = IF panpan = {} THEN declared ELSE declared + 1
  /\ UNCHANGED <<category, occupied, phase, runway, todo>>

QueueNext ==
  \/ \E minutes \in StepMinutes : AssignSlots(minutes)
  \/ ProcessFlight \/ TrackHolding \/ update_capacity

QueueSpec == QueueInit /\ [][QueueNext]_queueVars
-----------------------------------------------------------------------------
QueueTypeOK ==
  /\ \A d \in Directions : \A i \in queue[d] : DirectionOf(i.flight) = d
  /\ queued_flights \subseteq Flights /\ runway \subseteq Flights
  /\ phase \in [Flights -> Phase] /\ fuel_panpan \subseteq Arrivals
  /\ todo \subseteq Flights /\ holding \subseteq Arrivals
  /\ category \in Category /\ occupied \in 0..80 /\ step \in {0} \cup StepMinutes
  /\ declared <= Cardinality(fuel_panpan)

(* A flight that counts as queued has the item of its latest request in a  *)
(* heap.  Without one it could never be served, nor ask again: the lazy    *)
(* removal, the separation and the turns must not drop it.                 *)
QueuedHaveItems ==
  \A f \in queued_flights : asked[f] \in queue[DirectionOf(f)]

(* Nobody is overtaken: a flight that waits while another one of its       *)
(* direction gets a slot has asked with a lower priority, and a flight is  *)
(* served with its latest request, whatever older items its heap holds.    *)
ServedInOrder ==
  [][\A i \in granted' :
       /\ i = asked[i.flight]
       /\ \A g \in queued_flights \ {j.flight : j \in granted'} :
            DirectionOf(g) = DirectionOf(i.flight) => Before(i, asked[g])]_queueVars

(* Whenever the runway is free, each direction that has a flight waiting   *)
(* gets a slot, also when they take turns: with the order within a         *)
(* direction, nobody starves while slots are not lost.                     *)
NoDirectionStarves ==
  [][step = 0 /\ step' > 0 /\ occupied <= 60 * step' =>
       \A d \in Directions : Live(d) # {} =>
         \E i \in granted' : DirectionOf(i.flight) = d]_queueVars
=============================================================================
