----------------------- MODULE FlightResources_proofs -----------------------
(***************************************************************************)
(* Proofs about what the flights share.  FlightGates: the gates, for any   *)
(* flights, gates and requests.  RunwayQueue: the runway, for any flights, *)
(* rates, separations and steps of the clock.  RunwayRestrictions: the     *)
(* restrictions, for any incidents, runways and sizes of the duplicate     *)
(* filter.  Turnaround: the plans and the vehicles, for any aircraft,      *)
(* fleet, minutes of transit, failures and steps of the clock.  The four   *)
(* share no state.                                                         *)
(***************************************************************************)
EXTENDS FlightGates, RunwayQueue, RunwayRestrictions, Turnaround, FiniteSetTheorems,
        SequenceTheorems, WellFoundedInduction, TLAPS

LandingStatus == {"scheduled", "approach", "delayed", "landed", "taxiing", "at_gate", "arrived",
                  "cancelled", "diverted"}
TakeoffStatus == {"scheduled", "boarding", "delayed", "departed", "cancelled"}
StatusOf(f) == IF f \in Landings THEN LandingStatus ELSE TakeoffStatus
AtStand  == {"landed", "taxiing", "at_gate"}
Unsettled  == {"scheduled", "boarding", "delayed"}
Searches == {"check", "search", "assign"}
Handles  == Searches \cup {"release", "paired", "delay", "write"}

StatusesOK == \A f \in GateFlight : status[f] \in StatusOf(f)

(* The consumer knows the flights it has yet to process, and the one it is *)
(* processing is not one of them.                                          *)
Seeing == [GateFlight -> [status : Status, gate : Gate \cup {NoGate}]]
Working == work.pc # "idle"
WorkOK ==
  /\ work.pc \in {"idle", "next"} \cup Handles
  /\ ~Working => work = GateIdle
  /\ Working =>
       /\ {"pc", "todo", "seen"} \subseteq DOMAIN work
       /\ work.todo \subseteq GateFlight
       /\ work.todo # {} \/ work.pc = "check" => work.seen \in Seeing
       /\ \A f \in work.todo : work.seen[f].status \in StatusOf(f)
  /\ work.pc \in Handles =>
       /\ {"f", "new"} \subseteq DOMAIN work
       /\ work.f \in GateFlight \ work.todo
       /\ work.new \in StatusOf(work.f) \cup {Stay}
       /\ work.new = Stay => work.pc \in Searches
  /\ work.pc \in Searches => work.new \in {"landed", "boarding", Stay}
  /\ work.pc = "release" => work.new \notin AtStand
  /\ work.pc = "assign" => work.gate \in Gate
  /\ work.pc \in {"paired", "delay"} => work.new = "at_gate" /\ OutboundOf[work.f] \in Takeoffs

RestOK ==
  \A t \in GateRest :
    \/ rest[t] = GateIdle
    \/ /\ rest[t].f \in GateFlight
       /\ rest[t].new \in IF rest[t].f \in Landings THEN {"delayed", "approach"}
                                                   ELSE {"delayed", "boarding"}

Types == /\ GateTypeOK /\ StatusesOK /\ WorkOK /\ RestOK
         /\ DOMAIN rest = GateRest

(* What the tick read is still what the gates' links say. *)
Linked(f) == link[f] # NoGate => work.seen[f].gate = link[f]
SeenIsLinked ==
  /\ Working => \A f \in work.todo : Linked(f)
  /\ work.pc = "check" => Linked(work.f)

(* A departure that the consumer believes scheduled still waits. *)
StillWaiting ==
  /\ Working => \A f \in work.todo \cap Takeoffs :
                   work.seen[f].status = "scheduled" => status[f] \in Unsettled
  /\ work.pc \in {"check", "search"} /\ work.f \in Takeoffs => status[work.f] \in Unsettled
  /\ work.pc = "assign" /\ work.f \in Takeoffs /\ work.new # Stay => status[work.f] \in Unsettled

(* An arrival owns its gate from its landing on, also where the consumer   *)
(* has yet to write the status it read or decided.                         *)
OnItsWay(f) ==
  \/ Working /\ f \in work.todo /\ work.seen[f].status \in AtStand
  \/ work.pc \in {"paired", "delay", "write"} /\ f = work.f /\ work.new \in AtStand
Owns(f) == f \in Takeoffs \/ status[f] \in AtStand \/ OnItsWay(f)
AboutToLand(f) == work.pc = "write" /\ f = work.f /\ work.new = "landed"

OwnersOccupy == \A f \in checked : Owns(f) /\ ~AboutToLand(f) => status[f] \in Occupying
SearchingUnchecked ==
  work.pc = "search" \/ (work.pc = "assign" /\ work.new # Stay) => work.f \notin checked
OwnersApart ==
  \A f, h \in checked : f # h /\ Owns(f) /\ Owns(h) /\ link[f] # NoGate => link[f] # link[h]

Apart == OwnersOccupy /\ SearchingUnchecked /\ OwnersApart
GInv  == Types /\ SeenIsLinked /\ StillWaiting /\ Apart
-----------------------------------------------------------------------------
USE DEF GateFlight, GateIdle, Stay

LEMMA StatusesAreStatus == \A f \in GateFlight : StatusOf(f) \subseteq Status
BY DEF StatusOf, LandingStatus, TakeoffStatus, Status

(* The first gate of a terminal: what ORDER BY and LIMIT 1 return. *)
LEMMA LeastNat ==
  ASSUME NEW T, T \subseteq Nat, T # {}
  PROVE  \E n \in T : \A m \in T : n <= m
<1> DEFINE R == OpToRel(<, Nat)
<1>1. IsWellFoundedOn(R, Nat)
  BY NatLessThanWellFounded
<1>2. \A x, y \in Nat : x < y => <<x, y>> \in R
  BY DEF OpToRel
<1> HIDE DEF R
<1>3. PICK n \in T : \A m \in T : ~ (<<m, n>> \in R)
  BY <1>1, WFMin
<1>4. \A m \in T : ~ (m < n)
  BY <1>2, <1>3, Zenon
<1> QED BY <1>4, SMT

LEMMA MovesOK ==
  ASSUME NEW f \in GateFlight, NEW s \in StatusOf(f), NEW new \in GateMoves(f, s)
  PROVE  /\ new \in StatusOf(f) \ {Stay}
         /\ new = "at_gate" => f \in Landings
         /\ StartsWith(f, s, new) \in {"check", "release", "paired", "write"}
         /\ StartsWith(f, s, new) = "check" =>
              new \in {"landed", "boarding"} /\ (f \in Takeoffs => s = "scheduled")
         /\ StartsWith(f, s, new) = "release" => new \notin AtStand
         /\ StartsWith(f, s, new) = "paired" => new = "at_gate" /\ OutboundOf[f] \in Takeoffs
         /\ StartsWith(f, s, new) \in {"paired", "write"} /\ new \in AtStand => s \in AtStand
<1>1. /\ new \in StatusOf(f) \ {Stay}
      /\ new = "at_gate" => f \in Landings
  BY DEF GateMoves, StatusOf, LandingStatus, TakeoffStatus
<1>2. StartsWith(f, s, new) \in {"check", "release", "paired", "write"}
  BY DEF StartsWith
<1>3. StartsWith(f, s, new) = "paired" => new = "at_gate" /\ OutboundOf[f] # NoOutbound
  BY DEF StartsWith
<1>4. ASSUME StartsWith(f, s, new) = "check"
      PROVE  new \in {"landed", "boarding"} /\ (f \in Takeoffs => s = "scheduled")
  <2>1. new = "landed" \/ (s = "scheduled" /\ f \in Takeoffs)
    BY <1>4 DEF StartsWith
  <2> QED BY <2>1, <1>1, GateAssumption DEF GateMoves, StatusOf, TakeoffStatus
<1>5. StartsWith(f, s, new) = "release" => new \notin AtStand
  BY DEF StartsWith, AtStand
<1>6. ASSUME StartsWith(f, s, new) \in {"paired", "write"}, new \in AtStand
      PROVE  s \in AtStand
  <2>1. new # "landed"
    BY <1>6 DEF StartsWith
  <2> QED BY <1>6, <2>1 DEF GateMoves, AtStand
<1> QED BY <1>1, <1>2, <1>3, <1>4, <1>5, <1>6, GateAssumption

(* A search ends with the first free gate, goes on, or gives up.           *)
LEMMA SearchSteps ==
  ASSUME Types, SearchGate
  PROVE  /\ work.pc = "search" /\ work.f \in GateFlight
         /\ UNCHANGED <<status, link, gate_id, rest, checked, gate_calls>>
         /\ work'.todo = work.todo /\ work'.seen = work.seen
         /\ \/ /\ work'.pc = "assign" /\ work'.gate \in Gate
               /\ DOMAIN work' = {"pc", "todo", "seen", "f", "new", "gate"}
               /\ work'.f = work.f /\ work'.new = work.new
            \/ work' = Searching(Tail(work.terminals))
            \/ work' = AfterCheck
<1> DEFINE free == FreeGates(Head(work.terminals), work.f)
           least == CHOOSE g \in free : \A h \in free : g <= h
<1>1. /\ work.pc = "search" /\ work.f \in GateFlight
      /\ UNCHANGED <<status, link, gate_id, rest, checked, gate_calls>>
  BY DEF SearchGate, Types, WorkOK, Handles, Searches
<1>2. free \subseteq Gate
  BY <1>1, GateAssumption DEF FreeGates
<1>3. free # {} => \E g \in free : \A h \in free : g <= h
  BY <1>2, GateAssumption, LeastNat
<1>4. free # {} => least \in Gate
  BY <1>2, <1>3
<1> HIDE DEF free, least
<1>5. work' = CASE free # {} -> [pc |-> "assign", todo |-> work.todo, seen |-> work.seen,
                                 f |-> work.f, new |-> work.new, gate |-> least]
                [] free = {} /\ Tail(work.terminals) # <<>> -> Searching(Tail(work.terminals))
                [] OTHER -> AfterCheck
  BY DEF SearchGate, free, least
<1>6. \/ /\ work'.pc = "assign" /\ work'.gate \in Gate
         /\ DOMAIN work' = {"pc", "todo", "seen", "f", "new", "gate"}
         /\ work'.f = work.f /\ work'.new = work.new
         /\ work'.todo = work.todo /\ work'.seen = work.seen
      \/ work' = Searching(Tail(work.terminals))
      \/ work' = AfterCheck
  BY <1>4, <1>5
<1>7. /\ Searching(Tail(work.terminals)).todo = work.todo
      /\ Searching(Tail(work.terminals)).seen = work.seen
  BY DEF Searching
<1>8. AfterCheck.todo = work.todo /\ AfterCheck.seen = work.seen
  BY <1>1 DEF AfterCheck, NextFlight, Types, WorkOK, Working
<1> QED BY <1>1, <1>6, <1>7, <1>8

LEMMA TypesNext ==
  ASSUME Types, GatesNext
  PROVE  Types'
<1> USE StatusesAreStatus DEF Types
<1>1. ASSUME GateTick PROVE Types'
  <2>1. work'.seen \in Seeing
    BY <1>1 DEF GateTick, Seeing, GateTypeOK
  <2>2. \A f \in GateFlight : work'.seen[f].status = status[f]
    BY <1>1 DEF GateTick
  <2> QED BY <1>1, <2>1, <2>2 DEF GateTick, GateTypeOK, StatusesOK, WorkOK, RestOK, Working, Handles, Searches
<1>2. ASSUME GateTickEnds PROVE Types'
  BY <1>2 DEF GateTickEnds, GateTypeOK, StatusesOK, WorkOK, RestOK, Working, Handles, Searches
<1>3. ASSUME NEW f \in GateFlight, ProcessGate(f) PROVE Types'
  <2> DEFINE s == work.seen[f].status
  <2>1. /\ f \in work.todo /\ work.pc = "next" /\ s \in StatusOf(f) /\ work.seen \in Seeing
        /\ work.todo \subseteq GateFlight
    BY <1>3 DEF ProcessGate, WorkOK, Working
  <2>2. CASE \E new \in GateMoves(f, s) : work' = Step(StartsWith(f, s, new), f, new)
    <3>1. PICK new \in GateMoves(f, s) : work' = Step(StartsWith(f, s, new), f, new)
      BY <2>2
    <3>2. /\ work'.pc = StartsWith(f, s, new) /\ work'.f = f /\ work'.new = new
          /\ work'.todo = work.todo \ {f} /\ work'.seen = work.seen
          /\ DOMAIN work' = {"pc", "todo", "seen", "f", "new"}
      BY <3>1 DEF Step
    <3>3. /\ new \in StatusOf(f) \ {Stay}
          /\ StartsWith(f, s, new) \in {"check", "release", "paired", "write"}
          /\ StartsWith(f, s, new) = "check" => new \in {"landed", "boarding"}
          /\ StartsWith(f, s, new) = "release" => new \notin AtStand
          /\ StartsWith(f, s, new) = "paired" => new = "at_gate" /\ OutboundOf[f] \in Takeoffs
      BY <2>1, <3>1, MovesOK
    <3>4. WorkOK'
      BY <2>1, <3>2, <3>3 DEF WorkOK, Working, Handles, Searches
    <3> QED BY <1>3, <3>4 DEF ProcessGate, GateTypeOK, StatusesOK, RestOK
  <2>3. CASE work' = [NextFlight EXCEPT !.todo = @ \ {f}]
    BY <1>3, <2>1, <2>3 DEF NextFlight, ProcessGate, GateTypeOK, StatusesOK, WorkOK, RestOK, Working, Handles, Searches
  <2>4. CASE work' = Step("check", f, Stay)
    BY <1>3, <2>1, <2>4 DEF Step, ProcessGate, GateTypeOK, StatusesOK, WorkOK, RestOK, Working, Handles, Searches
  <2> QED BY <1>3, <2>2, <2>3, <2>4 DEF ProcessGate
<1>4. ASSUME CheckGate PROVE Types'
  BY <1>4 DEF CheckGate, AfterCheck, NextFlight, Searching, GateTypeOK, StatusesOK, WorkOK, RestOK, Working, Handles, Searches
<1>5. ASSUME SearchGate PROVE Types'
  <2>1. WorkOK'
    BY <1>5, SearchSteps DEF Searching, AfterCheck, NextFlight, WorkOK, Working, Handles, Searches
  <2> QED BY <1>5, <2>1, SearchSteps DEF GateTypeOK, StatusesOK, RestOK
<1>6. ASSUME Assign PROVE Types'
  BY <1>6 DEF Assign, AfterCheck, NextFlight, GateTypeOK, StatusesOK, WorkOK, RestOK, Working, Handles, Searches
<1>7. ASSUME release_gate PROVE Types'
  BY <1>7 DEF release_gate, GateTypeOK, StatusesOK, WorkOK, RestOK, Working, Handles, Searches
<1>8. ASSUME PairedDelay PROVE Types'
  <2>1. /\ work.pc \in {"paired", "delay"} /\ work.new = "at_gate"
        /\ OutboundOf[work.f] \in Takeoffs /\ OutboundOf[work.f] \notin Landings
    BY <1>8, GateAssumption DEF PairedDelay, WorkOK
  <2>2. CASE work.pc = "paired"
    BY <1>8, <2>1, <2>2 DEF PairedDelay, GateTypeOK, StatusesOK, WorkOK, RestOK, Working, Handles, Searches
  <2>3. CASE work.pc = "delay"
    <3>1. /\ status' = [status EXCEPT ![OutboundOf[work.f]] = "delayed"]
          /\ work' = [work EXCEPT !.pc = "write"]
      BY <1>8, <2>3 DEF PairedDelay
    <3>2. GateTypeOK' /\ StatusesOK'
      BY <1>8, <2>1, <3>1
      DEF PairedDelay, GateTypeOK, StatusesOK, StatusOf, TakeoffStatus, LandingStatus, Status
    <3>3. WorkOK'
      BY <2>1, <3>1 DEF WorkOK, Working, Handles, Searches
    <3> QED BY <1>8, <3>2, <3>3 DEF PairedDelay, RestOK
  <2> QED BY <2>1, <2>2, <2>3
<1>9. ASSUME WriteStatus PROVE Types'
  BY <1>9 DEF WriteStatus, NextFlight, StillChecked, GateTypeOK, StatusesOK, WorkOK, RestOK, Working, Handles, Searches
<1>10. ASSUME GateRestart PROVE Types'
  BY <1>10 DEF GateRestart, GateTypeOK, StatusesOK, WorkOK, RestOK, Working, Handles, Searches
<1>11. ASSUME NEW f \in GateFlight, HoldCommand(f) PROVE Types'
  BY <1>11 DEF HoldCommand, GateTypeOK, StatusesOK, WorkOK, RestOK, Working, Handles, Searches, StatusOf, TakeoffStatus, LandingStatus
<1>12. ASSUME NEW f \in GateFlight, NEW g \in Gate, ReassignGate(f, g) PROVE Types'
  BY <1>12 DEF ReassignGate, GateTypeOK, StatusesOK, WorkOK, RestOK, Working, Handles, Searches
<1>13. ASSUME NEW t \in GateRest, NEW f \in GateFlight, RestBegins(t, f) PROVE Types'
  BY <1>13 DEF RestBegins, GateTypeOK, StatusesOK, WorkOK, RestOK, Working
<1>14. ASSUME NEW t \in GateRest, RestWrites(t) PROVE Types'
  BY <1>14 DEF RestWrites, StillChecked, GateTypeOK, StatusesOK, WorkOK, RestOK, Working, StatusOf, TakeoffStatus, LandingStatus
<1> QED
  BY <1>1, <1>2, <1>3, <1>4, <1>5, <1>6, <1>7, <1>8, <1>9, <1>10, <1>11, <1>12, <1>13, <1>14
  DEF GatesNext
-----------------------------------------------------------------------------
(* A step of the consumer that moves neither a flight nor a link.          *)
LEMMA OwnersKept ==
  ASSUME OwnersOccupy, OwnersApart, UNCHANGED <<status, link>>, checked' \subseteq checked,
         \A f \in checked' : Owns(f)' => Owns(f),
         \A f \in checked' : AboutToLand(f) => AboutToLand(f)'
  PROVE  OwnersOccupy' /\ OwnersApart'
<1> USE DEF OwnersOccupy, OwnersApart
<1>1. OwnersOccupy'
  OBVIOUS
<1>2. OwnersApart'
  OBVIOUS
<1> QED BY <1>1, <1>2

(* What the consumer knows of the flights stays true until it acts on it.  *)
LEMMA SeenNext ==
  ASSUME Types, SeenIsLinked, StillWaiting, GatesNext
  PROVE  SeenIsLinked' /\ StillWaiting'
<1> USE DEF Types, SeenIsLinked, StillWaiting, Linked
<1>1. ASSUME GateTick PROVE SeenIsLinked' /\ StillWaiting'
  <2>1. /\ work'.pc = "next" /\ work'.todo \subseteq GateFlight
        /\ \A f \in GateFlight : /\ work'.seen[f].status = status[f]
                                 /\ link[f] # NoGate => work'.seen[f].gate = link[f]
    BY <1>1 DEF GateTick
  <2> QED BY <1>1, <2>1 DEF GateTick, Unsettled
<1>2. ASSUME GateTickEnds PROVE SeenIsLinked' /\ StillWaiting'
  BY <1>2 DEF GateTickEnds, Working
<1>3. ASSUME NEW f \in GateFlight, ProcessGate(f) PROVE SeenIsLinked' /\ StillWaiting'
  <2> DEFINE s == work.seen[f].status
  <2>1. /\ f \in work.todo /\ work.pc = "next" /\ s \in StatusOf(f) /\ Working
        /\ UNCHANGED <<status, link>>
    BY <1>3 DEF ProcessGate, WorkOK, Working
  <2>2. CASE \E new \in GateMoves(f, s) : work' = Step(StartsWith(f, s, new), f, new)
    <3>1. PICK new \in GateMoves(f, s) : work' = Step(StartsWith(f, s, new), f, new)
      BY <2>2
    <3>2. /\ work'.pc = StartsWith(f, s, new) /\ work'.f = f
          /\ work'.todo = work.todo \ {f} /\ work'.seen = work.seen
      BY <3>1 DEF Step
    <3>3. /\ StartsWith(f, s, new) \in {"check", "release", "paired", "write"}
          /\ StartsWith(f, s, new) = "check" => (f \in Takeoffs => s = "scheduled")
      BY <2>1, <3>1, MovesOK
    <3> QED BY <2>1, <3>2, <3>3 DEF Working
  <2>3. CASE work' = [NextFlight EXCEPT !.todo = @ \ {f}]
    BY <2>1, <2>3 DEF NextFlight, Working
  <2>4. CASE s = "scheduled" /\ work' = Step("check", f, Stay)
    BY <2>1, <2>4 DEF Step, Working
  <2> QED BY <1>3, <2>2, <2>3, <2>4 DEF ProcessGate
<1>4. ASSUME CheckGate PROVE SeenIsLinked' /\ StillWaiting'
  <2>1. work.pc = "check" /\ UNCHANGED <<status, link>> /\ Working
    BY <1>4 DEF CheckGate, Working
  <2> QED BY <1>4, <2>1 DEF CheckGate, AfterCheck, NextFlight, Searching, Working, WorkOK
<1>5. ASSUME SearchGate PROVE SeenIsLinked' /\ StillWaiting'
  <2>1. /\ work.pc = "search" /\ UNCHANGED <<status, link>> /\ Working
        /\ work'.todo = work.todo /\ work'.seen = work.seen
    BY <1>5, SearchSteps DEF Working
  <2>2. /\ work'.pc \in {"assign", "search", "next", "write"}
        /\ work'.pc \in {"assign", "search"} => work'.f = work.f
    BY <1>5, SearchSteps DEF Searching, AfterCheck, NextFlight, WorkOK, Working, Handles, Searches
  <2> QED BY <2>1, <2>2 DEF Working
<1>6. ASSUME Assign PROVE SeenIsLinked' /\ StillWaiting'
  <2>1. work.pc = "assign" /\ work.f \notin work.todo /\ work.f \in GateFlight
    BY <1>6 DEF Assign, WorkOK, Handles, Searches
  <2>2. \A f \in GateFlight \ {work.f} : link'[f] = link[f]
    BY <1>6 DEF Assign, GateTypeOK
  <2> QED BY <1>6, <2>1, <2>2 DEF Assign, AfterCheck, NextFlight, Working, WorkOK
<1>7. ASSUME release_gate PROVE SeenIsLinked' /\ StillWaiting'
  BY <1>7 DEF release_gate, Working, WorkOK, GateTypeOK, Handles, Searches
<1>8. ASSUME PairedDelay PROVE SeenIsLinked' /\ StillWaiting'
  <2>1. \A f \in GateFlight : status'[f] \in {status[f], "delayed"}
    BY <1>8 DEF PairedDelay, GateTypeOK
  <2>2. work'.pc \in {"delay", "write"} /\ work'.todo = work.todo /\ work'.seen = work.seen
    BY <1>8 DEF PairedDelay, WorkOK, Working
  <2>3. Working /\ work.todo \subseteq GateFlight /\ UNCHANGED link
    BY <1>8 DEF PairedDelay, WorkOK, Working
  <2> QED BY <2>1, <2>2, <2>3 DEF Unsettled, Working
<1>9. ASSUME WriteStatus PROVE SeenIsLinked' /\ StillWaiting'
  BY <1>9 DEF WriteStatus, NextFlight, Working, WorkOK, GateTypeOK, Handles, Searches
<1>10. ASSUME GateRestart PROVE SeenIsLinked' /\ StillWaiting'
  BY <1>10 DEF GateRestart, Working
<1>11. ASSUME NEW f \in GateFlight, HoldCommand(f) PROVE SeenIsLinked' /\ StillWaiting'
  BY <1>11 DEF HoldCommand, Working
<1>12. ASSUME NEW f \in GateFlight, NEW g \in Gate, ReassignGate(f, g)
       PROVE  SeenIsLinked' /\ StillWaiting'
  BY <1>12 DEF ReassignGate, Working
<1>13. ASSUME NEW t \in GateRest, NEW f \in GateFlight, RestBegins(t, f)
       PROVE  SeenIsLinked' /\ StillWaiting'
  BY <1>13 DEF RestBegins, Working
<1>14. ASSUME NEW t \in GateRest, RestWrites(t) PROVE SeenIsLinked' /\ StillWaiting'
  <2>1. \A f \in Takeoffs : status'[f] \in {status[f], "delayed", "boarding"}
    BY <1>14, GateAssumption DEF RestWrites, RestOK, GateTypeOK
  <2>2. UNCHANGED <<work, link>>
    BY <1>14 DEF RestWrites
  <2> QED BY <2>1, <2>2 DEF Unsettled, Working
<1> QED
  BY <1>1, <1>2, <1>3, <1>4, <1>5, <1>6, <1>7, <1>8, <1>9, <1>10, <1>11, <1>12, <1>13, <1>14
  DEF GatesNext

(* A flight takes a gate nobody occupies, so it stands apart from those    *)
(* that own one.                                                           *)
LEMMA NobodyThere ==
  ASSUME Types, OwnersOccupy, NEW f \in GateFlight, NEW g, ~is_gate_occupied(g, f),
         NEW h \in checked \ {f}, Owns(h), ~AboutToLand(h)
  PROVE  link[h] # g
BY DEF Types, GateTypeOK, OwnersOccupy, is_gate_occupied, Occupants

LEMMA ApartNext ==
  ASSUME Types, SeenIsLinked, StillWaiting, Apart, GatesNext
  PROVE  Apart'
<1> USE DEF Apart
<1>1. ASSUME GateTick PROVE Apart'
  <2>1. /\ work'.pc = "next" /\ work'.todo \subseteq GateFlight
        /\ \A f \in GateFlight : work'.seen[f].status = status[f]
        /\ work.pc = "idle" /\ UNCHANGED <<status, link, checked>>
    BY <1>1 DEF GateTick
  <2>2. \A f \in checked' : Owns(f)' => Owns(f)
    BY <2>1 DEF Owns, OnItsWay
  <2>3. \A f \in checked' : AboutToLand(f) => AboutToLand(f)'
    BY <2>1 DEF AboutToLand
  <2> QED BY <2>1, <2>2, <2>3, OwnersKept DEF SearchingUnchecked
<1>2. ASSUME GateTickEnds PROVE Apart'
  <2>1. /\ work'.pc = "idle" /\ work.pc = "next" /\ UNCHANGED <<status, link, checked>>
    BY <1>2 DEF GateTickEnds
  <2>2. \A f \in checked' : Owns(f)' => Owns(f)
    BY <2>1 DEF Owns, OnItsWay, Working
  <2>3. \A f \in checked' : AboutToLand(f) => AboutToLand(f)'
    BY <2>1 DEF AboutToLand
  <2> QED BY <2>1, <2>2, <2>3, OwnersKept DEF SearchingUnchecked
<1>3. ASSUME NEW f \in GateFlight, ProcessGate(f) PROVE Apart'
  <2> DEFINE s == work.seen[f].status
  <2>1. /\ f \in work.todo /\ work.pc = "next" /\ s \in StatusOf(f) /\ Working
        /\ UNCHANGED <<status, link, checked>>
    BY <1>3 DEF ProcessGate, Types, WorkOK, Working
  <2>2. /\ work'.todo = work.todo \ {f} /\ work'.seen = work.seen
        /\ work'.pc \in {"next", "check", "release", "paired", "write"}
        /\ work'.pc \in {"paired", "write"} => work'.f = f /\ (work'.new \in AtStand => s \in AtStand)
    <3>1. CASE \E new \in GateMoves(f, s) : work' = Step(StartsWith(f, s, new), f, new)
      <4>1. PICK new \in GateMoves(f, s) : work' = Step(StartsWith(f, s, new), f, new)
        BY <3>1
      <4>2. /\ work'.pc = StartsWith(f, s, new) /\ work'.f = f /\ work'.new = new
            /\ work'.todo = work.todo \ {f} /\ work'.seen = work.seen
        BY <4>1 DEF Step
      <4> QED BY <2>1, <4>1, <4>2, MovesOK
    <3>2. CASE work' = [NextFlight EXCEPT !.todo = @ \ {f}]
      BY <3>2 DEF NextFlight
    <3>3. CASE work' = Step("check", f, Stay)
      BY <3>3 DEF Step
    <3> QED BY <1>3, <3>1, <3>2, <3>3 DEF ProcessGate
  <2>3. \A h \in checked' : Owns(h)' => Owns(h)
    BY <2>1, <2>2 DEF Owns, OnItsWay, Working
  <2>4. \A h \in checked' : AboutToLand(h) => AboutToLand(h)'
    BY <2>1 DEF AboutToLand
  <2> QED BY <2>1, <2>2, <2>3, <2>4, OwnersKept DEF SearchingUnchecked
<1>4. ASSUME CheckGate PROVE Apart'
  <2>0. PICK f \in GateFlight : f = work.f
    BY <1>4 DEF CheckGate, Types, WorkOK, Handles, Searches
  <2> DEFINE g == work.seen[f].gate
  <2>1. /\ work.pc = "check" /\ UNCHANGED <<status, link>> /\ f \in GateFlight /\ f \notin work.todo
        /\ work.new \in {"landed", "boarding", Stay} /\ work.new \in StatusOf(f) \cup {Stay}
        /\ Working /\ \A h : ~AboutToLand(h)
    BY <1>4, <2>0 DEF CheckGate, Types, WorkOK, Handles, Searches, Working, AboutToLand
  <2>2. CASE g # NoGate /\ ~is_gate_occupied(g, f)
    <3>1. work' = AfterCheck /\ checked' = checked \cup {f}
      BY <1>4, <2>0, <2>2 DEF CheckGate
    <3>2. /\ work'.todo = work.todo /\ work'.seen = work.seen
          /\ \/ work'.pc = "next" /\ work.new = Stay
             \/ work'.pc = "write" /\ work'.f = f /\ work'.new = work.new
      BY <2>0, <2>1, <3>1 DEF AfterCheck, NextFlight, Types, WorkOK, Handles, Searches
    <3>3. \A h \in checked' \ {f} : h \in checked /\ (Owns(h)' => Owns(h))
      BY <2>0, <2>1, <3>1, <3>2 DEF Owns, OnItsWay, Working
    <3>4. link[f] # NoGate => \A h \in checked' \ {f} : Owns(h)' => link[h] # link[f]
      <4>1. link[f] # NoGate => link[f] = g
        BY <2>0, <2>1 DEF SeenIsLinked, Linked
      <4> QED BY <2>0, <2>1, <2>2, <3>3, <4>1, NobodyThere
    <3>5. OwnersApart'
      BY <2>0, <2>1, <3>3, <3>4 DEF OwnersApart
    <3>6. Owns(f)' /\ ~AboutToLand(f)' => status[f] \in Occupying
      <4>1. CASE f \in Takeoffs
        BY <2>0, <2>1, <4>1 DEF StillWaiting, Unsettled, Occupying
      <4>2. CASE f \notin Takeoffs
        BY <2>0, <2>1, <3>2, <4>2 DEF Owns, OnItsWay, AboutToLand, AtStand, Occupying, StatusOf
      <4> QED BY <4>1, <4>2
    <3>7. OwnersOccupy'
      BY <2>0, <2>1, <3>3, <3>6 DEF OwnersOccupy
    <3> QED BY <3>2, <3>5, <3>7 DEF SearchingUnchecked
  <2>3. CASE ~(g # NoGate /\ ~is_gate_occupied(g, f))
    <3>1. /\ work'.pc = "search" /\ work'.f = f /\ work'.todo = work.todo /\ work'.seen = work.seen
          /\ checked' = checked \ {f}
      BY <1>4, <2>0, <2>3 DEF CheckGate, Searching
    <3>2. \A h \in checked' : Owns(h)' => Owns(h)
      BY <2>0, <2>1, <3>1 DEF Owns, OnItsWay, Working
    <3> QED BY <2>0, <2>1, <3>1, <3>2, OwnersKept DEF SearchingUnchecked
  <2> QED BY <2>2, <2>3
<1>5. ASSUME SearchGate PROVE Apart'
  <2>1. /\ work.pc = "search" /\ UNCHANGED <<status, link, checked>> /\ Working
        /\ work'.todo = work.todo /\ work'.seen = work.seen /\ work.f \notin checked
    BY <1>5, SearchSteps DEF Working, SearchingUnchecked
  <2>2. /\ work'.pc \in {"assign", "search", "next", "write"}
        /\ work'.pc # "next" => work'.f = work.f
    BY <1>5, SearchSteps DEF Searching, AfterCheck, NextFlight, Types, WorkOK, Working, Handles, Searches
  <2>3. \A h \in checked' : Owns(h)' => Owns(h)
    BY <2>1, <2>2 DEF Owns, OnItsWay, Working
  <2>4. \A h \in checked' : AboutToLand(h) => AboutToLand(h)'
    BY <2>1 DEF AboutToLand
  <2> QED BY <2>1, <2>2, <2>3, <2>4, OwnersKept DEF SearchingUnchecked
<1>6. ASSUME Assign PROVE Apart'
  <2>0. PICK f \in GateFlight : f = work.f
    BY <1>6 DEF Assign, Types, WorkOK, Handles, Searches
  <2> DEFINE g == work.gate
  <2>1. /\ work.pc = "assign" /\ UNCHANGED status /\ f \in GateFlight /\ f \notin work.todo
        /\ work.new \in {"landed", "boarding", Stay} /\ work.new \in StatusOf(f) \cup {Stay}
        /\ Working /\ \A h : ~AboutToLand(h)
    BY <1>6, <2>0 DEF Assign, Types, WorkOK, Handles, Searches, Working, AboutToLand
  <2>2. /\ work'.todo = work.todo /\ work'.seen = work.seen
        /\ \/ work'.pc = "next" /\ work.new = Stay
           \/ work'.pc = "write" /\ work'.f = f /\ work'.new = work.new /\ work.new # Stay
    BY <1>6, <2>0, <2>1 DEF Assign, AfterCheck, NextFlight, Types, WorkOK, Handles, Searches
  <2>3. work.new # Stay => f \notin checked
    BY <2>0, <2>1 DEF SearchingUnchecked
  <2>4. \A h \in checked : Owns(h)' => Owns(h)
    BY <2>0, <2>1, <2>2, <2>3 DEF Owns, OnItsWay, Working
  <2>5. CASE is_gate_occupied(g, f)
    BY <1>6, <2>0, <2>1, <2>2, <2>4, <2>5, OwnersKept DEF Assign, SearchingUnchecked
  <2>6. CASE ~is_gate_occupied(g, f)
    <3>1. /\ link' = [link EXCEPT ![f] = g]
          /\ checked' = IF (IF work.new = Stay THEN status[f] ELSE work.new) \in Occupying
                        THEN checked \cup {f} ELSE checked
      BY <1>6, <2>0, <2>6 DEF Assign
    <3>2. link'[f] = g /\ \A h \in checked' \ {f} : link'[h] = link[h] /\ h \in checked
      BY <2>0, <2>1, <3>1 DEF Types, GateTypeOK
    <3>3. \A h \in checked' \ {f} : Owns(h)' => link[h] # g
      BY <2>0, <2>1, <2>4, <2>6, <3>2, NobodyThere
    <3>4. OwnersApart'
      BY <2>0, <2>1, <2>4, <3>2, <3>3 DEF OwnersApart
    <3>5. f \in checked' /\ Owns(f)' /\ ~AboutToLand(f)' => status[f] \in Occupying
      <4>1. CASE work.new = Stay
        BY <2>0, <2>1, <2>2, <2>4, <3>1, <4>1 DEF OwnersOccupy
      <4>2. CASE work.new # Stay
        <5>1. CASE f \in Takeoffs
          BY <2>0, <2>1, <4>2, <5>1 DEF StillWaiting, Unsettled, Occupying
        <5>2. CASE f \notin Takeoffs
          BY <2>0, <2>1, <2>2, <4>2, <5>2 DEF Owns, OnItsWay, AboutToLand, AtStand, Occupying, StatusOf
        <5> QED BY <5>1, <5>2
      <4> QED BY <4>1, <4>2
    <3>6. OwnersOccupy'
      BY <2>0, <2>1, <2>4, <3>2, <3>5 DEF OwnersOccupy
    <3> QED BY <2>2, <3>4, <3>6 DEF SearchingUnchecked
  <2> QED BY <2>5, <2>6
<1>7. ASSUME release_gate PROVE Apart'
  <2> DEFINE f == work.f
  <2>1. /\ work.pc = "release" /\ UNCHANGED <<status, checked>> /\ f \in GateFlight
        /\ work.new \notin AtStand /\ Working /\ \A h : ~AboutToLand(h)
    BY <1>7 DEF release_gate, Types, WorkOK, Handles, Searches, Working, AboutToLand
  <2>2. /\ work'.todo = work.todo /\ work'.seen = work.seen
        /\ work'.pc = "write" /\ work'.f = f /\ work'.new = work.new
        /\ link'[f] = NoGate /\ \A h \in GateFlight \ {f} : link'[h] = link[h]
    BY <1>7, <2>1 DEF release_gate, Types, WorkOK, GateTypeOK, Handles, Searches
  <2>3. \A h \in checked : h \in GateFlight /\ (Owns(h)' => Owns(h))
    BY <2>1, <2>2 DEF Owns, OnItsWay, Working, Types, GateTypeOK
  <2>4. OwnersApart'
    BY <2>1, <2>2, <2>3 DEF OwnersApart
  <2>5. OwnersOccupy'
    BY <2>1, <2>3 DEF OwnersOccupy
  <2> QED BY <2>2, <2>4, <2>5 DEF SearchingUnchecked
<1>8. ASSUME PairedDelay PROVE Apart'
  <2> DEFINE out == OutboundOf[work.f]
  <2>1. /\ work.pc \in {"paired", "delay"} /\ UNCHANGED <<link, checked>> /\ work.new = "at_gate"
        /\ out \in Takeoffs /\ Working /\ \A h : ~AboutToLand(h)
    BY <1>8 DEF PairedDelay, Types, WorkOK, Handles, Searches, Working, AboutToLand
  <2>2. /\ work'.pc \in {"delay", "write"} /\ work'.todo = work.todo /\ work'.seen = work.seen
        /\ work'.f = work.f /\ work'.new = work.new
    BY <1>8, <2>1 DEF PairedDelay, Types, WorkOK, Handles, Searches, Working
  <2>3. \A h \in GateFlight : status'[h] = status[h] \/ (h \in Takeoffs /\ status'[h] = "delayed")
    BY <1>8, <2>1 DEF PairedDelay, Types, GateTypeOK
  <2>4. \A h \in checked : h \in GateFlight /\ (Owns(h)' => Owns(h))
    BY <2>1, <2>2, <2>3 DEF Owns, OnItsWay, Working, Types, GateTypeOK
  <2>5. OwnersApart'
    BY <2>1, <2>4 DEF OwnersApart
  <2>6. OwnersOccupy'
    BY <2>1, <2>3, <2>4 DEF OwnersOccupy, Occupying
  <2> QED BY <2>2, <2>5, <2>6 DEF SearchingUnchecked
<1>9. ASSUME WriteStatus PROVE Apart'
  <2> DEFINE f == work.f
  <2>1. /\ work.pc = "write" /\ UNCHANGED link /\ f \in GateFlight /\ f \notin work.todo /\ Working
        /\ work'.pc = "next" /\ work'.todo = work.todo /\ work'.seen = work.seen
    BY <1>9 DEF WriteStatus, NextFlight, Types, WorkOK, Handles, Searches, Working
  <2>2. /\ status'[f] = work.new /\ \A h \in GateFlight \ {f} : status'[h] = status[h]
        /\ checked' \subseteq checked /\ (f \in checked' => work.new \in Occupying)
    BY <1>9, <2>1 DEF WriteStatus, StillChecked, Types, GateTypeOK
  <2>3. \A h \in checked' : h \in GateFlight /\ (Owns(h)' => Owns(h))
    BY <2>1, <2>2 DEF Owns, OnItsWay, Working, Types, GateTypeOK
  <2>4. OwnersApart'
    BY <2>1, <2>2, <2>3 DEF OwnersApart
  <2>5. OwnersOccupy'
    BY <2>1, <2>2, <2>3 DEF OwnersOccupy, AboutToLand
  <2> QED BY <2>1, <2>4, <2>5 DEF SearchingUnchecked
<1>10. ASSUME GateRestart PROVE Apart'
  <2>1. work'.pc = "idle" /\ UNCHANGED <<status, link, checked>>
    BY <1>10 DEF GateRestart
  <2>2. \A h \in checked : h \in GateFlight /\ (Owns(h)' => Owns(h))
    BY <2>1 DEF Owns, OnItsWay, Working, Types, GateTypeOK
  <2>3. OwnersApart'
    BY <2>1, <2>2 DEF OwnersApart
  <2>4. ASSUME NEW h \in checked, Owns(h)', AboutToLand(h) PROVE status[h] \in Occupying
    <3>1. h \notin Takeoffs
      BY <2>4, GateAssumption
      DEF AboutToLand, Types, WorkOK, Handles, Searches, StatusOf, TakeoffStatus
    <3> QED BY <2>1, <2>4, <3>1 DEF Owns, OnItsWay, Working, AtStand, Occupying
  <2>5. OwnersOccupy'
    BY <2>1, <2>2, <2>4 DEF OwnersOccupy
  <2> QED BY <2>1, <2>3, <2>5 DEF SearchingUnchecked
<1>11. ASSUME NEW f \in GateFlight, HoldCommand(f) PROVE Apart'
  <2>1. /\ work.pc = "idle" /\ UNCHANGED <<work, link, checked>> /\ \A h : ~AboutToLand(h)
        /\ \A h \in GateFlight : status'[h] = status[h] \/ status'[h] = "delayed"
    BY <1>11 DEF HoldCommand, AboutToLand, Types, GateTypeOK
  <2>2. \A h \in checked : h \in GateFlight /\ (Owns(h)' => Owns(h))
    BY <2>1 DEF Owns, OnItsWay, Working, AtStand, Types, GateTypeOK
  <2>3. OwnersApart'
    BY <2>1, <2>2 DEF OwnersApart
  <2>4. OwnersOccupy'
    BY <2>1, <2>2 DEF OwnersOccupy, Occupying
  <2> QED BY <2>1, <2>3, <2>4 DEF SearchingUnchecked
<1>12. ASSUME NEW f \in GateFlight, NEW g \in Gate, ReassignGate(f, g) PROVE Apart'
  <2>1. /\ work.pc = "idle" /\ UNCHANGED <<status, link, checked>>
        /\ work'.pc = "assign" /\ work'.new = Stay /\ work'.todo = {}
    BY <1>12 DEF ReassignGate
  <2>2. \A h \in checked' : Owns(h)' => Owns(h)
    BY <2>1 DEF Owns, OnItsWay
  <2>3. \A h \in checked' : AboutToLand(h) => AboutToLand(h)'
    BY <2>1 DEF AboutToLand
  <2> QED BY <2>1, <2>2, <2>3, OwnersKept DEF SearchingUnchecked
<1>13. ASSUME NEW t \in GateRest, NEW f \in GateFlight, RestBegins(t, f) PROVE Apart'
  BY <1>13 DEF RestBegins, OwnersOccupy, OwnersApart, SearchingUnchecked, Owns, OnItsWay, AboutToLand, Working
<1>14. ASSUME NEW t \in GateRest, RestWrites(t) PROVE Apart'
  <2> DEFINE f == rest[t].f
  <2>1. /\ UNCHANGED <<work, link>> /\ f \in GateFlight /\ rest[t].new \notin AtStand
        /\ f \in Takeoffs => rest[t].new \in Occupying
    BY <1>14, GateAssumption DEF RestWrites, Types, RestOK, AtStand, Occupying
  <2>2. /\ status'[f] = rest[t].new /\ \A h \in GateFlight \ {f} : status'[h] = status[h]
        /\ checked' \subseteq checked /\ (f \in checked' => rest[t].new \in Occupying)
    BY <1>14, <2>1 DEF RestWrites, StillChecked, Types, GateTypeOK
  <2>3. \A h \in checked' : h \in GateFlight /\ (Owns(h)' => Owns(h))
    BY <2>1, <2>2 DEF Owns, OnItsWay, Working, Types, GateTypeOK
  <2>4. OwnersApart'
    BY <2>1, <2>2, <2>3 DEF OwnersApart
  <2>5. OwnersOccupy'
    BY <2>1, <2>2, <2>3 DEF OwnersOccupy, AboutToLand
  <2> QED BY <2>1, <2>2, <2>4, <2>5 DEF SearchingUnchecked
<1> QED
  BY <1>1, <1>2, <1>3, <1>4, <1>5, <1>6, <1>7, <1>8, <1>9, <1>10, <1>11, <1>12, <1>13, <1>14
  DEF GatesNext
-----------------------------------------------------------------------------
LEMMA GInvInit == GatesInit => GInv
<1> SUFFICES ASSUME GatesInit PROVE GInv
  OBVIOUS
<1>1. Types
  BY GateAssumption
  DEF GatesInit, Types, GateTypeOK, Status, StatusesOK, StatusOf, LandingStatus, TakeoffStatus,
      WorkOK, Working, RestOK, Handles, Searches
<1> QED BY <1>1
  DEF GInv, GatesInit, SeenIsLinked, StillWaiting, Apart, OwnersOccupy, SearchingUnchecked, OwnersApart, Working

LEMMA GInvStep == GInv /\ [GatesNext]_gateVars => GInv'
<1> SUFFICES ASSUME GInv, [GatesNext]_gateVars PROVE GInv'
  OBVIOUS
<1>1. CASE GatesNext
  BY <1>1, TypesNext, SeenNext, ApartNext DEF GInv
<1>2. CASE UNCHANGED gateVars
  BY <1>2
  DEF gateVars, GInv, Types, GateTypeOK, StatusesOK, WorkOK, Working, RestOK, SeenIsLinked, Linked,
      StillWaiting, Apart, OwnersOccupy, SearchingUnchecked, OwnersApart, Owns, OnItsWay, AboutToLand
<1> QED BY <1>1, <1>2

LEMMA GInvAlways == GatesSpec => []GInv
BY GInvInit, GInvStep, PTL DEF GatesSpec

(* The consumer, its commands, the requests and the restarts leave a       *)
(* status, a gate and a link of their kind with every flight.              *)
THEOREM GatesTypeCorrect == GatesSpec => []GateTypeOK
<1>1. GInv => GateTypeOK
  BY DEF GInv, Types
<1> QED BY <1>1, GInvAlways, PTL

(* Two flights on their stands never share a gate when each of them came   *)
(* to occupy it after a check that found the gate free, whatever the       *)
(* requests, the reassignments and the restarts did between the check, the *)
(* assignment and the status: for any flights, gates, compatibility,       *)
(* seeding and pairing of the flights.                                     *)
THEOREM CheckedFlightsStandAlone == GatesSpec => []StandsAlone
<1>1. GInv => StandsAlone
  BY DEF GInv, Apart, OwnersApart, Owns, StandsAlone, OnStand, Types, GateTypeOK, AtStand
<1> QED BY <1>1, GInvAlways, PTL
-----------------------------------------------------------------------------
Items == [flight : Flights, emergency : BOOLEAN, time : Nat, type : Wake]
Gone == {"away", "out"}
PhaseOf(f) ==
  IF f \in Arrivals THEN {"scheduled", "delayed", "approach"} ELSE {"delayed", "boarding"}

QueueTypes ==
  /\ queue \in [Directions -> SUBSET Items]
  /\ \A d \in Directions : \A i \in queue[d] : DirectionOf(i.flight) = d
  /\ queued_flights \in SUBSET Flights
  /\ asked = [f \in Flights |-> asked[f]]
  /\ category \in Category /\ occupied \in Nat
  /\ phase = [f \in Flights |-> phase[f]] /\ \A f \in Flights : phase[f] \in PhaseOf(f) \cup Gone
  /\ fuel_panpan \in SUBSET Arrivals /\ declared \in Nat
  /\ step \in Nat /\ todo \in SUBSET Flights /\ holding \in SUBSET Arrivals
  /\ \A f \in todo : phase[f] \notin Gone

(* A queued flight waits with the item it has asked with last.  A heap     *)
(* holds another item of a flight only if the flight is out: an old        *)
(* request, which the PAN PAN of its last minute comes before.             *)
ItemsOfFlights ==
  /\ \A f \in queued_flights : asked[f] \in queue[DirectionOf(f)] /\ asked[f].flight = f
  /\ \A d \in Directions : \A i \in queue[d] :
       /\ i.emergency => i.flight \in fuel_panpan
       /\ i.flight \in queued_flights =>
            \/ i = asked[i.flight]
            \/ asked[i.flight].emergency /\ ~i.emergency
       /\ phase[i.flight] = "out" \/ (i.flight \in queued_flights /\ i = asked[i.flight])

QInv == QueueTypes /\ ItemsOfFlights /\ (step = 0 => granted = {})
-----------------------------------------------------------------------------
LEMMA FlightsAre ==
  /\ Flights \subseteq Nat /\ IsFiniteSet(Flights)
  /\ \A f \in Flights : DirectionOf(f) \in Directions /\ AircraftType[f] \in Wake
  /\ \A f \in Arrivals : f \in Flights /\ DirectionOf(f) = "arrival"
  /\ \A c \in Category, d \in Directions : Rate[c][d] \in Nat
  /\ \A m \in StepMinutes : m \in Nat /\ m > 0
  /\ Times \subseteq Nat
<1>1. /\ Arrivals \subseteq Nat /\ Departures \subseteq Nat /\ IsFiniteSet(Arrivals) /\ IsFiniteSet(Departures)
      /\ AircraftType \in [Flights -> Wake] /\ Times \subseteq Nat
      /\ Rate \in [Category -> [Directions -> Nat]] /\ StepMinutes \subseteq Nat \ {0}
  BY QueueAssumption
<1>2. IsFiniteSet(Flights)
  BY <1>1, FS_Union DEF Flights
<1> QED BY <1>1, <1>2 DEF Flights, DirectionOf, Directions

(* What a set of waiting items is to the order: finite, and totally ordered. *)
Ordered(S) ==
  /\ IsFiniteSet(S)
  /\ \A i \in S : i \in Items
  /\ \A i, j \in S : i # j => Before(i, j) \/ Before(j, i)

LEMMA BeforeIsOrder ==
  /\ \A i \in Items : ~Before(i, i)
  /\ \A i, j, k \in Items : Before(i, j) /\ Before(j, k) => Before(i, k)
  /\ \A i, j \in Items : ~(Before(i, j) /\ Before(j, i))
<1>1. \A i \in Items : i.flight \in Nat /\ i.time \in Nat /\ i.emergency \in BOOLEAN
  BY FlightsAre DEF Items
<1> QED BY <1>1 DEF Before

LEMMA AheadGrows ==
  ASSUME NEW S, Ordered(S), NEW i \in S, NEW j \in S, Before(j, i)
  PROVE  /\ Ahead(S, j) \subseteq Ahead(S, i) /\ j \in Ahead(S, i) \ Ahead(S, j)
         /\ Cardinality(Ahead(S, j)) < Cardinality(Ahead(S, i))
<1>1. Ahead(S, j) \subseteq Ahead(S, i) /\ j \in Ahead(S, i) \ Ahead(S, j)
  BY BeforeIsOrder DEF Ordered, Ahead
<1>2. IsFiniteSet(Ahead(S, i)) /\ Ahead(S, i) \subseteq S
  <2>1. Ahead(S, i) \in SUBSET S
    BY DEF Ahead
  <2> QED BY <2>1, FS_Subset DEF Ordered
<1>3. /\ IsFiniteSet(Ahead(S, j)) /\ Cardinality(Ahead(S, j)) <= Cardinality(Ahead(S, i))
      /\ Cardinality(Ahead(S, i)) = Cardinality(Ahead(S, j)) => Ahead(S, i) = Ahead(S, j)
  BY <1>1, <1>2, FS_Subset
<1>4. Cardinality(Ahead(S, i)) \in Nat /\ Cardinality(Ahead(S, j)) \in Nat
  BY <1>2, <1>3, FS_CardinalityType
<1> QED BY <1>1, <1>3, <1>4

LEMMA AheadIsNat == ASSUME NEW S, Ordered(S), NEW i \in S PROVE Cardinality(Ahead(S, i)) \in Nat
<1>1. Ahead(S, i) \in SUBSET S
  BY DEF Ahead
<1> QED BY <1>1, FS_Subset, FS_CardinalityType DEF Ordered

LEMMA FirstClosed ==
  ASSUME NEW S, Ordered(S), NEW n \in Int, NEW i \in First(S, n), NEW j \in S, j \notin First(S, n)
  PROVE  Before(i, j)
<1>1. i \in S /\ Cardinality(Ahead(S, i)) < n /\ ~(Cardinality(Ahead(S, j)) < n)
  BY DEF First
<1>2. Cardinality(Ahead(S, i)) \in Nat /\ Cardinality(Ahead(S, j)) \in Nat
  BY <1>1, AheadIsNat
<1>3. ~Before(j, i)
  BY <1>1, <1>2, AheadGrows
<1>4. i # j
  OBVIOUS
<1> QED BY <1>1, <1>3, <1>4 DEF Ordered

LEMMA SpacedClosed ==
  ASSUME NEW S, Ordered(S), NEW i \in S, NEW j \in S, Before(j, i), Spaced(S, i)
  PROVE  Spaced(S, j)
<1>1. Ahead(S, j) \cup {j} \subseteq Ahead(S, i) \cup {i} /\ Ahead(S, j) \subseteq Ahead(S, i)
  BY AheadGrows
<1> QED BY <1>1 DEF Spaced

(* Ahead of a first item there is nobody. *)
LEMMA SomebodyIsFirst == ASSUME NEW S, Ordered(S), S # {} PROVE \E i \in S : Ahead(S, i) = {}
<1> DEFINE T == {Cardinality(Ahead(S, i)) : i \in S}
<1>1. T \subseteq Nat /\ T # {}
  BY AheadIsNat
<1>2. PICK n \in T : \A m \in T : n <= m
  <2> HIDE DEF T
  <2> QED BY <1>1, LeastNat
<1>3. PICK i \in S : n = Cardinality(Ahead(S, i))
  OBVIOUS
<1>4. ASSUME NEW j \in Ahead(S, i) PROVE FALSE
  <2>1. j \in S /\ Before(j, i)
    BY DEF Ahead
  <2>2. Cardinality(Ahead(S, j)) < n
    BY <1>3, <2>1, AheadGrows
  <2>3. Cardinality(Ahead(S, j)) \in T
    BY <2>1
  <2>4. n <= Cardinality(Ahead(S, j))
    BY <1>2, <2>3
  <2> QED BY <1>1, <1>2, <2>1, <2>2, <2>4, AheadIsNat
<1> QED BY <1>4

LEMMA SomebodyIsLast == ASSUME NEW S, Ordered(S), S # {} PROVE \E i \in S : \A j \in S : ~Before(i, j)
<1> DEFINE c == Cardinality(S)
           T == {c - Cardinality(Ahead(S, i)) : i \in S}
<1>1. c \in Nat
  BY FS_CardinalityType DEF Ordered
<1>2. \A i \in S : Cardinality(Ahead(S, i)) <= c
  <2>1. \A i \in S : Ahead(S, i) \in SUBSET S
    BY DEF Ahead
  <2> QED BY <2>1, FS_Subset DEF Ordered
<1>3. T \subseteq Nat /\ T # {}
  <2> HIDE DEF c
  <2> QED BY <1>1, <1>2, AheadIsNat
<1>4. PICK n \in T : \A m \in T : n <= m
  <2> HIDE DEF T
  <2> QED BY <1>3, LeastNat
<1>5. PICK i \in S : n = c - Cardinality(Ahead(S, i))
  OBVIOUS
<1>6. ASSUME NEW j \in S, Before(i, j) PROVE FALSE
  <2>1. Cardinality(Ahead(S, i)) < Cardinality(Ahead(S, j))
    BY <1>6, AheadGrows
  <2>2. c - Cardinality(Ahead(S, j)) \in T
    OBVIOUS
  <2>3. n <= c - Cardinality(Ahead(S, j))
    BY <1>4, <2>2
  <2> HIDE DEF c
  <2> QED BY <1>1, <1>5, <2>1, <2>3, AheadIsNat
<1> QED BY <1>6
-----------------------------------------------------------------------------
(* The live items are what the queued flights have asked with.             *)
Waiting(d) == {f \in queued_flights : DirectionOf(f) = d}

LEMMA LiveIs ==
  ASSUME QInv, NEW d \in Directions
  PROVE  /\ \A i : i \in Live(d) <=> \E f \in Waiting(d) : i = asked[f]
         /\ \A f \in Waiting(d) : asked[f] \in Items /\ asked[f].flight = f
         /\ Live(d) \subseteq queue[d]
<1>1. /\ queue[d] \in SUBSET Items /\ \A i \in queue[d] : DirectionOf(i.flight) = d
      /\ \A f \in queued_flights : asked[f] \in queue[DirectionOf(f)] /\ asked[f].flight = f
      /\ \A i \in queue[d] : i.flight \in queued_flights =>
            \/ i = asked[i.flight]
            \/ asked[i.flight].emergency /\ ~i.emergency
  BY DEF QInv, QueueTypes, ItemsOfFlights
<1>2. \A f \in Waiting(d) : asked[f] \in queue[d] /\ asked[f] \in Items /\ asked[f].flight = f /\ f \in queued_flights
  BY <1>1 DEF Waiting
<1>3. \A f \in Waiting(d) : asked[f] \in Live(d)
  <2>1. SUFFICES ASSUME NEW f \in Waiting(d), NEW j \in queue[d], j.flight = f PROVE ~Before(j, asked[f])
    BY <1>2 DEF Live
  <2>2. CASE j = asked[f]
    BY <1>2, <2>2, BeforeIsOrder
  <2>3. CASE asked[f].emergency /\ ~j.emergency
    BY <2>3 DEF Before
  <2> QED BY <1>1, <1>2, <2>1, <2>2, <2>3
<1>4. ASSUME NEW i \in Live(d) PROVE \E f \in Waiting(d) : i = asked[f]
  <2>1. /\ i \in queue[d] /\ i.flight \in queued_flights /\ i.flight \in Waiting(d)
        /\ \A j \in queue[d] : j.flight = i.flight => ~Before(j, i)
    BY <1>1 DEF Live, Waiting
  <2>2. ~(asked[i.flight].emergency /\ ~i.emergency)
    <3>1. asked[i.flight] \in queue[d] /\ asked[i.flight].flight = i.flight
      BY <1>2, <2>1
    <3> QED BY <2>1, <3>1 DEF Before
  <2> QED BY <1>1, <2>1, <2>2
<1> QED BY <1>2, <1>3, <1>4 DEF Live

LEMMA LiveIsOrdered == ASSUME QInv, NEW d \in Directions PROVE Ordered(Live(d))
<1> DEFINE g == [f \in Waiting(d) |-> asked[f]]
<1>1. IsFiniteSet(Waiting(d))
  <2>1. Waiting(d) \in SUBSET Flights
    BY DEF Waiting, QInv, QueueTypes
  <2> QED BY <2>1, FlightsAre, FS_Subset
<1>2. g \in Surjection(Waiting(d), Live(d))
  BY LiveIs DEF Surjection
<1>3. IsFiniteSet(Live(d))
  <2> HIDE DEF g
  <2> QED BY <1>1, <1>2, FS_Surjection
<1>4. ASSUME NEW i \in Live(d), NEW j \in Live(d), i # j PROVE Before(i, j) \/ Before(j, i)
  <2>1. i \in Items /\ j \in Items /\ i.flight # j.flight
    BY <1>4, LiveIs
  <2>2. i.flight \in Nat /\ i.time \in Nat /\ i.emergency \in BOOLEAN
        /\ j.flight \in Nat /\ j.time \in Nat /\ j.emergency \in BOOLEAN
    BY <2>1, FlightsAre DEF Items
  <2> QED BY <2>1, <2>2 DEF Before
<1> QED BY <1>3, <1>4, LiveIs DEF Ordered

(* How many a direction may be given.                                      *)
LEMMA SlotsAre == ASSUME QInv, NEW d \in Directions PROVE Slots(d) \in Nat /\ Slots(d) >= 1
<1>1. Rate[category][d] \in Nat
  BY FlightsAre DEF QInv, QueueTypes
<1>2. Rate[category][d] \div 60 \in Nat
  BY <1>1
<1> QED BY <1>2 DEF Slots, Larger

LEMMA AlternatingIs ==
  ASSUME QInv, NEW d \in Directions
  PROVE  \E n \in Int : n >= 1 /\ Alternating(d) = First(Live(d), n)
<1> DEFINE n == Slots("arrival") + Slots("departure")
           a == Cardinality(Live("arrival"))
           b == Cardinality(Live("departure"))
           m == IF d = "arrival" THEN Larger((n + 1) \div 2, n - b) ELSE Larger(n \div 2, n - a)
<1>1. n \in Nat /\ n >= 2
  BY SlotsAre DEF Directions
<1>2. a \in Nat /\ b \in Nat
  BY LiveIsOrdered, FS_CardinalityType DEF Ordered, Directions
<1>3. Alternating(d) = First(Live(d), m)
  BY DEF Alternating
<1>4. \A k, x \in Int : k >= 2 => /\ Larger((k + 1) \div 2, k - x) \in Int /\ Larger((k + 1) \div 2, k - x) >= 1
                                  /\ Larger(k \div 2, k - x) \in Int /\ Larger(k \div 2, k - x) >= 1
  BY DEF Larger
<1>5. m \in Int /\ m >= 1
  <2> HIDE DEF n, a, b
  <2>1. n \in Int /\ a \in Int /\ b \in Int /\ n >= 2
    BY <1>1, <1>2
  <2>2. Larger((n + 1) \div 2, n - b) \in Int /\ Larger((n + 1) \div 2, n - b) >= 1
    BY <1>4, <2>1
  <2>3. Larger(n \div 2, n - a) \in Int /\ Larger(n \div 2, n - a) >= 1
    BY <1>4, <2>1
  <2> QED BY <2>2, <2>3
<1> HIDE DEF m
<1> QED BY <1>3, <1>5

(* A slot goes to the first of those who wait, and to somebody.            *)
LEMMA SlotsInOrder ==
  ASSUME QInv, NEW d \in Directions
  PROVE  /\ assign_slots(d) \subseteq Live(d)
         /\ \A i \in assign_slots(d), j \in Live(d) \ assign_slots(d) : Before(i, j)
         /\ Live(d) # {} => assign_slots(d) # {}
<1> DEFINE S == Live(d)
<1>0. Ordered(S)
  BY LiveIsOrdered
<1>1. ASSUME NEW n \in Int, n >= 1
      PROVE  /\ First(S, n) \subseteq S
             /\ \A i \in S : Ahead(S, i) = {} => i \in First(S, n)
  <2>1. Cardinality({}) = 0
    BY FS_EmptySet
  <2> QED BY <1>1, <2>1 DEF First
<1>2. S # {} => \E i \in S : Ahead(S, i) = {}
  BY <1>0, SomebodyIsFirst
<1>3. CASE InTurns
  <2>1. assign_slots(d) = Alternating(d)
    BY <1>3 DEF assign_slots
  <2>2. PICK n \in Int : n >= 1 /\ Alternating(d) = First(S, n)
    BY AlternatingIs
  <2> HIDE DEF S
  <2> QED BY <1>0, <1>1, <1>2, <2>1, <2>2, FirstClosed DEF S
<1>4. CASE ~InTurns
  <2> DEFINE n == Slots(d)
  <2>1. assign_slots(d) = {i \in First(S, n) : Spaced(S, i)} /\ n \in Int /\ n >= 1
    BY <1>4, SlotsAre DEF assign_slots, Separate, assign_from_queue
  <2> HIDE DEF S, n
  <2>2. ASSUME NEW i \in assign_slots(d), NEW j \in S, j \notin assign_slots(d) PROVE Before(i, j)
    <3>1. i \in First(S, n) /\ i \in S /\ Spaced(S, i)
      BY <1>1, <2>1
    <3>2. CASE j \notin First(S, n)
      BY <1>0, <2>1, <3>1, <3>2, FirstClosed
    <3>3. CASE j \in First(S, n)
      <4>1. ~Spaced(S, j) /\ i # j
        BY <2>1, <2>2, <3>1, <3>3
      <4>2. ~Before(j, i)
        BY <1>0, <3>1, <4>1, SpacedClosed
      <4> QED BY <1>0, <3>1, <4>1, <4>2 DEF Ordered
    <3> QED BY <3>2, <3>3
  <2>3. \A i \in S : Ahead(S, i) = {} => Spaced(S, i)
    BY DEF Spaced
  <2> QED BY <1>1, <1>2, <2>1, <2>2, <2>3 DEF S
<1> QED BY <1>3, <1>4

LEMMA LastTypeIs ==
  ASSUME QInv, assign_slots("arrival") \cup assign_slots("departure") # {}
  PROVE  LastType(assign_slots("arrival"), assign_slots("departure")) \in Wake
<1> DEFINE arr == assign_slots("arrival")
           dep == assign_slots("departure")
           last(S) == CHOOSE i \in S : \A j \in S : ~Before(i, j)
<1>1. Ordered(arr) /\ Ordered(dep)
  <2>1. ASSUME NEW d \in Directions PROVE Ordered(assign_slots(d))
    <3>1. assign_slots(d) \in SUBSET Live(d) /\ Ordered(Live(d))
      BY SlotsInOrder, LiveIsOrdered
    <3> QED BY <3>1, FS_Subset DEF Ordered
  <2> QED BY <2>1 DEF Directions
<1>2. ASSUME NEW S, Ordered(S), S # {} PROVE last(S).type \in Wake
  <2>1. \E i \in S : \A j \in S : ~Before(i, j)
    BY <1>2, SomebodyIsLast
  <2>2. last(S) \in S
    BY <2>1
  <2> QED BY <1>2, <2>2 DEF Ordered, Items
<1>3. Cardinality(arr) > Cardinality(dep) => arr # {}
  BY <1>1, FS_EmptySet, FS_CardinalityType DEF Ordered
<1>4. LastType(arr, dep) = IF dep = {} \/ (InTurns /\ Cardinality(arr) > Cardinality(dep))
                           THEN last(arr).type ELSE last(dep).type
  BY DEF LastType
<1> HIDE DEF arr, dep, last
<1>5. arr # {} \/ dep # {}
  BY DEF arr, dep
<1>6. LastType(arr, dep) \in Wake
  BY <1>1, <1>2, <1>3, <1>4, <1>5
<1> QED BY <1>6 DEF arr, dep
-----------------------------------------------------------------------------
LEMMA QueueStart == QueueInit => QInv
<1> SUFFICES ASSUME QueueInit PROVE QInv
  OBVIOUS
<1>1. queue = [d \in Directions |-> {}] /\ \A d \in Directions : queue[d] = {}
  BY DEF QueueInit
<1>2. phase = [f \in Flights |-> IF f \in Arrivals THEN "scheduled" ELSE "delayed"]
  BY DEF QueueInit
<1>3. \A f \in Flights : phase[f] \in PhaseOf(f) \cup Gone
  BY <1>2 DEF PhaseOf
<1>4. QueueTypes
  BY <1>1, <1>2, <1>3 DEF QueueInit, QueueTypes
<1> QED BY <1>1, <1>4 DEF QueueInit, ItemsOfFlights, QInv

LEMMA CapacityKeeps == QInv /\ update_capacity => QInv' /\ granted' = granted /\ step' = 0 /\ step = 0
<1> SUFFICES ASSUME QInv, update_capacity PROVE QInv' /\ granted' = granted /\ step' = 0 /\ step = 0
  OBVIOUS
<1>1. /\ step = 0 /\ category' \in Category
      /\ UNCHANGED <<queue, queued_flights, occupied, phase, runway, holding_minutes,
                     fuel_panpan, declared, step, todo, holding, asked, granted>>
  BY DEF update_capacity
<1>2. QueueTypes'
  BY <1>1 DEF QInv, QueueTypes
<1>3. ItemsOfFlights'
  BY <1>1 DEF QInv, ItemsOfFlights
<1> QED BY <1>1, <1>2, <1>3 DEF QInv

(* Slots are given in order, and to each direction that waits. *)
InOrder ==
  \A i \in granted' :
    /\ i = asked[i.flight]
    /\ \A g \in queued_flights \ {j.flight : j \in granted'} :
         DirectionOf(g) = DirectionOf(i.flight) => Before(i, asked[g])
Starves(d) == Live(d) # {} /\ ~ \E i \in granted' : DirectionOf(i.flight) = d

LEMMA AssignSlotsKeeps ==
  ASSUME QInv, NEW minutes \in StepMinutes, AssignSlots(minutes)
  PROVE  /\ QInv' /\ InOrder
         /\ occupied <= 60 * step' => \A d \in Directions : ~Starves(d)
<1>1. /\ step = 0 /\ step' = minutes /\ minutes \in Nat /\ minutes > 0 /\ occupied \in Nat
      /\ todo' = {f \in Flights : phase[f] \notin Gone}
      /\ holding' = {f \in Arrivals : phase[f] = "approach"}
      /\ UNCHANGED <<category, phase, holding_minutes, fuel_panpan, declared>>
      /\ granted = {} /\ QueueTypes /\ ItemsOfFlights
  BY FlightsAre DEF AssignSlots, QInv, QueueTypes, Gone
<1>2. CASE occupied > 60 * minutes
  <2>1. /\ occupied' = occupied - 60 * minutes /\ occupied' \in Nat
        /\ UNCHANGED <<queue, queued_flights, asked, runway, granted>>
    BY <1>1, <1>2 DEF AssignSlots
  <2>2. QueueTypes'
    BY <1>1, <2>1, FlightsAre DEF QueueTypes
  <2>3. ItemsOfFlights'
    BY <1>1, <2>1 DEF ItemsOfFlights
  <2>4. ~(occupied <= 60 * step')
    BY <1>1, <1>2
  <2> QED BY <1>1, <2>1, <2>2, <2>3, <2>4 DEF QInv, InOrder
<1>3. CASE ~(occupied > 60 * minutes)
  <2> DEFINE arr == assign_slots("arrival")
             dep == assign_slots("departure")
             Given(d) == assign_slots(d)
  <2>1. /\ granted' = arr \cup dep
        /\ occupied' = IF granted' = {} THEN 0 ELSE rot_seconds[LastType(arr, dep)]
        /\ queue' = [arrival   |-> Unserved("arrival", arr, Full("arrival", arr)),
                     departure |-> Unserved("departure", dep, Full("departure", dep))]
        /\ queued_flights' = queued_flights \ {i.flight : i \in granted'}
        /\ asked' = [f \in Flights |-> IF f \in queued_flights' THEN asked[f] ELSE NoItem]
    BY <1>3 DEF AssignSlots
  <2>2. occupied' \in Nat
    <3>1. granted' # {} => LastType(arr, dep) \in Wake
      BY <2>1, LastTypeIs
    <3> HIDE DEF arr, dep
    <3> QED BY <2>1, <3>1 DEF rot_seconds, Wake
  <2>3. ASSUME NEW d \in Directions
        PROVE  /\ Given(d) \subseteq granted' /\ Given(d) \subseteq Live(d)
               /\ queue'[d] \subseteq queue[d]
               /\ Live(d) \ Given(d) \subseteq queue'[d] /\ queue'[d] \cap Given(d) = {}
    <3>1. Given(d) \subseteq granted' /\ Given(d) \subseteq Live(d) /\ Live(d) \subseteq queue[d]
      BY <2>1, SlotsInOrder DEF Directions, Live
    <3>2. queue'[d] = Unserved(d, Given(d), Full(d, Given(d)))
      BY <2>1 DEF Directions
    <3> HIDE DEF Given
    <3>3. \A full : /\ Unserved(d, Given(d), full) \subseteq queue[d]
                    /\ Live(d) \ Given(d) \subseteq Unserved(d, Given(d), full)
                    /\ Unserved(d, Given(d), full) \cap Given(d) = {}
      BY <3>1 DEF Unserved
    <3> QED BY <3>1, <3>2, <3>3
  <2>4. \A i \in granted' : /\ DirectionOf(i.flight) \in Directions /\ i \in Given(DirectionOf(i.flight))
                            /\ i.flight \in queued_flights /\ i = asked[i.flight]
    <3>1. SUFFICES ASSUME NEW d \in Directions, NEW i \in Given(d)
                   PROVE  /\ DirectionOf(i.flight) = d
                          /\ i.flight \in queued_flights /\ i = asked[i.flight]
      BY <2>1 DEF Directions
    <3>2. i \in Live(d)
      BY <2>3
    <3> HIDE DEF Given
    <3>3. PICK f \in Waiting(d) : i = asked[f]
      BY <3>2, LiveIs
    <3> QED BY <3>3, LiveIs DEF Waiting
  <2>5. ASSUME NEW g \in queued_flights, g \notin {j.flight : j \in granted'}
        PROVE  LET d == DirectionOf(g) IN
                 /\ d \in Directions /\ asked[g] \in Live(d) \ Given(d) /\ asked[g] \in queue'[d]
                 /\ asked[g].flight = g
    <3> DEFINE d == DirectionOf(g)
    <3>1. g \in Flights /\ d \in Directions /\ g \in Waiting(d)
      BY <1>1, FlightsAre DEF QueueTypes, Waiting
    <3>2. asked[g] \in Live(d) /\ asked[g].flight = g
      BY <3>1, LiveIs
    <3>3. asked[g] \notin granted'
      BY <2>5, <3>2
    <3>4. asked[g] \notin Given(d)
      BY <2>3, <3>1, <3>3
    <3> QED BY <2>3, <3>1, <3>2, <3>4
  <2> HIDE DEF Given
  <2>6. QueueTypes'
    <3>1. queue' \in [Directions -> SUBSET Items]
      <4>1. \A d \in Directions : queue'[d] \in SUBSET Items
        BY <1>1, <2>3 DEF QueueTypes
      <4>2. queue' = [d \in Directions |-> queue'[d]]
        BY <2>1 DEF Directions
      <4> QED BY <4>1, <4>2
    <3>2. \A d \in Directions : \A i \in queue'[d] : DirectionOf(i.flight) = d
      BY <1>1, <2>3 DEF QueueTypes
    <3>3. asked' = [f \in Flights |-> asked'[f]] /\ queued_flights' \in SUBSET Flights
      BY <1>1, <2>1 DEF QueueTypes
    <3> QED BY <1>1, <2>2, <3>1, <3>2, <3>3 DEF QueueTypes
  <2>7. ItemsOfFlights'
    <3>1. \A f \in queued_flights' : f \in queued_flights /\ asked'[f] = asked[f] /\ f \notin {j.flight : j \in granted'}
      BY <1>1, <2>1 DEF QueueTypes
    <3>2. \A f \in queued_flights' : asked'[f] \in queue'[DirectionOf(f)] /\ asked'[f].flight = f
      BY <2>5, <3>1
    <3>3. ASSUME NEW d \in Directions, NEW i \in queue'[d]
          PROVE  /\ i.emergency => i.flight \in fuel_panpan'
                 /\ i.flight \in queued_flights' =>
                      \/ i = asked'[i.flight]
                      \/ asked'[i.flight].emergency /\ ~i.emergency
                 /\ phase'[i.flight] = "out" \/ (i.flight \in queued_flights' /\ i = asked'[i.flight])
      <4>1. i \in queue[d] /\ i \notin Given(d)
        BY <2>3, <3>3
      <4>2. /\ i.emergency => i.flight \in fuel_panpan
            /\ i.flight \in queued_flights => i = asked[i.flight] \/ (asked[i.flight].emergency /\ ~i.emergency)
            /\ phase[i.flight] = "out" \/ (i.flight \in queued_flights /\ i = asked[i.flight])
        BY <1>1, <4>1 DEF ItemsOfFlights
      <4>3. CASE i.flight \in queued_flights'
        BY <1>1, <3>1, <4>2, <4>3
      <4>4. CASE i.flight \notin queued_flights'
        <5>1. i.flight \in queued_flights => i # asked[i.flight]
          <6>1. SUFFICES ASSUME i.flight \in queued_flights, i = asked[i.flight] PROVE FALSE
            OBVIOUS
          <6>2. PICK j \in granted' : j.flight = i.flight
            BY <2>1, <4>4, <6>1
          <6>3. j = i /\ i \in Given(DirectionOf(i.flight)) /\ DirectionOf(i.flight) = d
            BY <1>1, <2>4, <4>1, <6>1, <6>2 DEF QueueTypes
          <6> QED BY <4>1, <6>3
        <5> QED BY <1>1, <4>2, <4>4, <5>1
      <4> QED BY <4>3, <4>4
    <3> QED BY <3>2, <3>3 DEF ItemsOfFlights
  <2>8. InOrder
    <3>1. SUFFICES ASSUME NEW i \in granted', NEW g \in queued_flights \ {j.flight : j \in granted'},
                          DirectionOf(g) = DirectionOf(i.flight)
                   PROVE  Before(i, asked[g])
      BY <2>4 DEF InOrder
    <3> DEFINE d == DirectionOf(g)
    <3>2. d \in Directions /\ i \in Given(d)
      BY <2>4, <3>1
    <3>3. asked[g] \in Live(d) \ Given(d)
      BY <2>5, <3>1
    <3> HIDE DEF d
    <3> QED BY <3>2, <3>3, SlotsInOrder DEF Given
  <2>9. \A d \in Directions : ~Starves(d)
    <3>1. SUFFICES ASSUME NEW d \in Directions, Live(d) # {} PROVE \E i \in granted' : DirectionOf(i.flight) = d
      BY DEF Starves
    <3>2. Given(d) # {}
      BY <3>1, SlotsInOrder DEF Given
    <3>3. \A i \in Given(d) : i \in granted' /\ i \in queue[d]
      BY <2>3, LiveIs
    <3> QED BY <1>1, <3>2, <3>3 DEF QueueTypes
  <2> QED BY <1>1, <2>6, <2>7, <2>8, <2>9 DEF QInv
<1> QED BY <1>2, <1>3

LEMMA RequestsAre ==
  ASSUME QInv, NEW f \in Flights, NEW item \in Requests(f)
  PROVE  item = NoItem \/ (/\ MayAsk(f) /\ item \in Items /\ item.flight = f /\ ~item.emergency /\ item # NoItem)
<1>1. CASE item = NoItem
  BY <1>1
<1>2. CASE item # NoItem
  <2>1. MayAsk(f) /\ \E t \in Times : item = Item(f, FALSE, t, AircraftType[f])
    BY <1>2 DEF Requests
  <2> QED BY <1>2, <2>1, FlightsAre DEF Item, Items
<1> QED BY <1>1, <1>2

LEMMA ProcessFlightKeeps == QInv /\ ProcessFlight => QInv' /\ granted' = {} /\ step' = step
<1> SUFFICES ASSUME QInv, ProcessFlight PROVE QInv' /\ granted' = {} /\ step' = step
  OBVIOUS
<1> DEFINE f == CHOOSE g \in todo : \A h \in todo : g <= h
<1>1. PICK new \in Moves[DirectionOf(f)][phase[f]], item \in Requests(f) :
        LET asks == item # NoItem
            out  == new = "out"
        IN  /\ phase' = [phase EXCEPT ![f] = new]
            /\ queue' = [queue EXCEPT ![DirectionOf(f)] = @ \cup ({item} \ {NoItem})]
            /\ queued_flights' = (queued_flights \cup {g \in {f} : asks}) \ {g \in {f} : out}
            /\ asked' = [asked EXCEPT ![f] =
                  CASE out -> NoItem [] asks /\ ~out -> item [] OTHER -> @]
            /\ holding_minutes' = IF out /\ f \in holding
                  THEN [holding_minutes EXCEPT ![f] = 0] ELSE holding_minutes
  BY Zenon DEF ProcessFlight
<1>2. /\ item \in Requests(f)
      /\ phase' = [phase EXCEPT ![f] = new]
      /\ queue' = [queue EXCEPT ![DirectionOf(f)] = @ \cup ({item} \ {NoItem})]
      /\ queued_flights' = (queued_flights \cup {g \in {f} : item # NoItem}) \ {g \in {f} : new = "out"}
      /\ asked' = [asked EXCEPT ![f] =
            CASE new = "out" -> NoItem [] item # NoItem /\ ~(new = "out") -> item [] OTHER -> @]
  BY <1>1
<1>3. /\ todo # {} /\ todo' = todo \ {f} /\ granted' = {}
      /\ UNCHANGED <<category, occupied, runway, fuel_panpan, declared, step, holding>>
  BY DEF ProcessFlight
<1>4. QueueTypes /\ ItemsOfFlights /\ todo \in SUBSET Flights
  BY DEF QInv, QueueTypes
<1>5. f \in todo /\ f \in Flights
  <2>1. todo \subseteq Nat
    BY <1>4, FlightsAre
  <2>2. \E g \in todo : \A h \in todo : g <= h
    BY <1>3, <2>1, LeastNat
  <2> QED BY <1>4, <2>2
<1> HIDE DEF f
<1>6. DirectionOf(f) \in Directions /\ phase[f] \in PhaseOf(f) /\ phase[f] \notin Gone
  BY <1>4, <1>5, FlightsAre DEF QueueTypes
<1>7. new \in PhaseOf(f) \cup Gone
  <2>1. CASE f \in Arrivals
    BY <1>1, <1>6, <2>1 DEF Moves, PhaseOf, DirectionOf, Gone
  <2>2. CASE f \notin Arrivals
    BY <1>1, <1>6, <2>2 DEF Moves, PhaseOf, DirectionOf, Gone
  <2> QED BY <2>1, <2>2
<1>8. /\ item \in Requests(f)
      /\ item # NoItem => /\ f \notin queued_flights /\ item \in Items /\ item.flight = f /\ ~item.emergency
  BY <1>2, <1>5, RequestsAre DEF MayAsk
<1>9. /\ \A g \in Flights : phase'[g] = IF g = f THEN new ELSE phase[g]
      /\ phase' = [g \in Flights |-> phase'[g]]
  BY <1>2, <1>4 DEF QueueTypes
<1>10. \A d \in Directions : queue'[d] = queue[d] \cup (IF d = DirectionOf(f) THEN {item} \ {NoItem} ELSE {})
  BY <1>2, <1>4 DEF QueueTypes
<1>11. /\ asked' = [g \in Flights |-> asked'[g]]
       /\ \A g \in Flights : g # f => asked'[g] = asked[g]
       /\ asked'[f] = IF new = "out" THEN NoItem ELSE IF item # NoItem THEN item ELSE asked[f]
  BY <1>2, <1>4, <1>5 DEF QueueTypes
<1>12. QueueTypes'
  <2>1. queue' \in [Directions -> SUBSET Items]
    <3>1. \A d \in Directions : queue'[d] \in SUBSET Items
      BY <1>4, <1>8, <1>10 DEF QueueTypes
    <3>2. queue' = [d \in Directions |-> queue'[d]]
      BY <1>2, <1>4 DEF QueueTypes
    <3> QED BY <3>1, <3>2
  <2>2. \A d \in Directions : \A i \in queue'[d] : DirectionOf(i.flight) = d
    BY <1>4, <1>8, <1>10 DEF QueueTypes
  <2>3. queued_flights' \in SUBSET Flights
    BY <1>2, <1>4, <1>5 DEF QueueTypes
  <2>4. \A g \in Flights : phase'[g] \in PhaseOf(g) \cup Gone
    BY <1>4, <1>7, <1>9 DEF QueueTypes
  <2>5. \A g \in todo' : phase'[g] \notin Gone
    BY <1>3, <1>4, <1>9 DEF QueueTypes
  <2> QED BY <1>3, <1>4, <1>9, <1>11, <2>1, <2>2, <2>3, <2>4, <2>5 DEF QueueTypes
<1>13. ItemsOfFlights'
  <2>1. ASSUME NEW g \in queued_flights' PROVE asked'[g] \in queue'[DirectionOf(g)] /\ asked'[g].flight = g
    <3>1. g \in Flights /\ DirectionOf(g) \in Directions
      BY <1>12, FlightsAre DEF QueueTypes
    <3>2. CASE g # f
      BY <1>2, <1>4, <1>10, <1>11, <3>1, <3>2 DEF ItemsOfFlights
    <3>3. CASE g = f /\ item # NoItem
      BY <1>2, <1>6, <1>8, <1>10, <1>11, <3>3
    <3>4. CASE g = f /\ item = NoItem
      BY <1>2, <1>4, <1>6, <1>10, <1>11, <3>4 DEF ItemsOfFlights
    <3> QED BY <3>2, <3>3, <3>4
  <2>2. ASSUME NEW d \in Directions, NEW i \in queue'[d]
        PROVE  /\ i.emergency => i.flight \in fuel_panpan'
               /\ i.flight \in queued_flights' =>
                    \/ i = asked'[i.flight]
                    \/ asked'[i.flight].emergency /\ ~i.emergency
               /\ phase'[i.flight] = "out" \/ (i.flight \in queued_flights' /\ i = asked'[i.flight])
    <3>1. CASE i = item /\ item # NoItem
      BY <1>2, <1>5, <1>8, <1>9, <1>11, <3>1
    <3>2. CASE ~(i = item /\ item # NoItem)
      <4>1. i \in queue[d] /\ i.flight \in Flights
        BY <1>4, <1>10, <2>2, <3>2 DEF QueueTypes, Items
      <4>2. /\ i.emergency => i.flight \in fuel_panpan
            /\ i.flight \in queued_flights => i = asked[i.flight] \/ (asked[i.flight].emergency /\ ~i.emergency)
            /\ phase[i.flight] = "out" \/ (i.flight \in queued_flights /\ i = asked[i.flight])
        BY <1>4, <4>1 DEF ItemsOfFlights
      <4>3. CASE i.flight # f
        BY <1>2, <1>3, <1>9, <1>11, <4>1, <4>2, <4>3
      <4>4. CASE i.flight = f
        <5>1. f \in queued_flights /\ i = asked[f] /\ item = NoItem
          BY <1>6, <1>8, <4>2, <4>4 DEF Gone
        <5> QED BY <1>2, <1>3, <1>5, <1>9, <1>11, <4>2, <4>4, <5>1
      <4> QED BY <4>3, <4>4
    <3> QED BY <3>1, <3>2
  <2> QED BY <2>1, <2>2 DEF ItemsOfFlights
<1> QED BY <1>3, <1>12, <1>13 DEF QInv

LEMMA TrackHoldingKeeps == QInv /\ TrackHolding => QInv' /\ granted' = {} /\ step' = 0
<1> SUFFICES ASSUME QInv, TrackHolding PROVE QInv' /\ granted' = {} /\ step' = 0
  OBVIOUS
<1> DEFINE panpan == {f \in Counted : holding_minutes[f] + step >= PanPanMinutes}
           emergency(f) == Item(f, TRUE, declared, "MEDIUM")
           accepted == panpan \ queued_flights
<1>1. /\ step' = 0 /\ holding' = {} /\ granted' = {} /\ todo' = todo /\ todo = {}
      /\ fuel_panpan' = fuel_panpan \cup panpan
      /\ queue' = [queue EXCEPT !["arrival"] = @ \cup {emergency(f) : f \in accepted}]
      /\ asked' = [f \in Flights |-> IF f \in accepted THEN emergency(f) ELSE asked[f]]
      /\ queued_flights' = queued_flights \cup accepted
      /\ declared' = IF panpan = {} THEN declared ELSE declared + 1
      /\ UNCHANGED <<category, occupied, phase>>
  BY DEF TrackHolding
<1>2. QueueTypes /\ ItemsOfFlights
  BY DEF QInv
<1>3. panpan \subseteq Arrivals /\ panpan \cap fuel_panpan = {}
  BY <1>2 DEF Counted, QueueTypes
<1>4. \A f \in accepted : /\ f \in Arrivals /\ f \in Flights /\ DirectionOf(f) = "arrival" /\ f \in panpan
                          /\ f \notin queued_flights /\ f \notin fuel_panpan
  BY <1>3, FlightsAre
<1> HIDE DEF panpan, accepted
<1>5. \A f \in accepted : emergency(f) \in Items /\ emergency(f).flight = f /\ emergency(f).emergency
  BY <1>2, <1>4 DEF Item, Items, Wake, QueueTypes
<1> HIDE DEF emergency
<1>6. /\ \A d \in Directions : queue'[d] = queue[d] \cup (IF d = "arrival" THEN {emergency(f) : f \in accepted} ELSE {})
      /\ queue' = [d \in Directions |-> queue'[d]]
  BY <1>1, <1>2 DEF QueueTypes
<1>7. accepted \subseteq panpan
  BY <1>4
<1>8. QueueTypes'
  <2>1. \A d \in Directions : queue'[d] \in SUBSET Items
    BY <1>2, <1>5, <1>6 DEF QueueTypes
  <2>2. queue' \in [Directions -> SUBSET Items]
    BY <1>6, <2>1
  <2>3. \A d \in Directions : \A i \in queue'[d] : DirectionOf(i.flight) = d
    BY <1>2, <1>4, <1>5, <1>6 DEF QueueTypes
  <2>4. /\ queued_flights' \in SUBSET Flights /\ fuel_panpan' \in SUBSET Arrivals /\ declared' \in Nat
        /\ asked' = [f \in Flights |-> asked'[f]]
    BY <1>1, <1>2, <1>3, <1>4 DEF QueueTypes
  <2> QED BY <1>1, <1>2, <2>2, <2>3, <2>4 DEF QueueTypes
<1>9. ItemsOfFlights'
  <2>1. ASSUME NEW g \in queued_flights' PROVE asked'[g] \in queue'[DirectionOf(g)] /\ asked'[g].flight = g
    <3>1. CASE g \in accepted
      BY <1>1, <1>4, <1>5, <1>6, <3>1 DEF Directions
    <3>2. CASE g \notin accepted
      <4>1. g \in queued_flights /\ g \in Flights /\ DirectionOf(g) \in Directions /\ asked'[g] = asked[g]
        BY <1>1, <1>2, <3>2, FlightsAre DEF QueueTypes
      <4> QED BY <1>2, <1>6, <4>1 DEF ItemsOfFlights
    <3> QED BY <3>1, <3>2
  <2>2. ASSUME NEW d \in Directions, NEW i \in queue'[d]
        PROVE  /\ i.emergency => i.flight \in fuel_panpan'
               /\ i.flight \in queued_flights' =>
                    \/ i = asked'[i.flight]
                    \/ asked'[i.flight].emergency /\ ~i.emergency
               /\ phase'[i.flight] = "out" \/ (i.flight \in queued_flights' /\ i = asked'[i.flight])
    <3>1. CASE i \in {emergency(f) : f \in accepted}
      <4>1. PICK f \in accepted : i = emergency(f)
        BY <3>1
      <4> QED BY <1>1, <1>4, <1>5, <1>7, <4>1
    <3>2. CASE i \notin {emergency(f) : f \in accepted}
      <4>1. i \in queue[d] /\ i.flight \in Flights
        BY <1>2, <1>6, <2>2, <3>2 DEF QueueTypes, Items
      <4>2. /\ i.emergency => i.flight \in fuel_panpan
            /\ i.flight \in queued_flights => i = asked[i.flight] \/ (asked[i.flight].emergency /\ ~i.emergency)
            /\ phase[i.flight] = "out" \/ (i.flight \in queued_flights /\ i = asked[i.flight])
        BY <1>2, <4>1 DEF ItemsOfFlights
      <4>3. CASE i.flight \in accepted
        BY <1>1, <1>4, <1>5, <4>1, <4>2, <4>3
      <4>4. CASE i.flight \notin accepted
        BY <1>1, <4>1, <4>2, <4>4
      <4> QED BY <4>3, <4>4
    <3> QED BY <3>1, <3>2
  <2> QED BY <2>1, <2>2 DEF ItemsOfFlights
<1> QED BY <1>1, <1>8, <1>9 DEF QInv

LEMMA QueueStep ==
  ASSUME QInv, [QueueNext]_queueVars
  PROVE  /\ QInv' /\ (queueVars' = queueVars \/ InOrder)
         /\ step = 0 /\ step' > 0 /\ occupied <= 60 * step' => \A d \in Directions : ~Starves(d)
<1>1. ASSUME NEW minutes \in StepMinutes, AssignSlots(minutes)
      PROVE  QInv' /\ InOrder /\ (occupied <= 60 * step' => \A d \in Directions : ~Starves(d))
  BY <1>1, AssignSlotsKeeps
<1>2. CASE ProcessFlight
  <2>1. QInv' /\ granted' = {} /\ step' = step
    BY <1>2, ProcessFlightKeeps
  <2> QED BY <2>1 DEF InOrder
<1>3. CASE TrackHolding
  <2>1. QInv' /\ granted' = {} /\ step' = 0
    BY <1>3, TrackHoldingKeeps
  <2> QED BY <2>1 DEF InOrder
<1>4. CASE update_capacity
  <2>1. QInv' /\ granted' = {} /\ step' = 0
    BY <1>4, CapacityKeeps DEF QInv
  <2> QED BY <2>1 DEF InOrder
<1>5. CASE queueVars' = queueVars
  <2>1. UNCHANGED <<queue, queued_flights, category, occupied, phase, runway,
               holding_minutes, fuel_panpan, declared, step, todo, holding, asked, granted>>
    BY <1>5 DEF queueVars
  <2>2. QInv'
    BY <2>1 DEF QInv, QueueTypes, ItemsOfFlights
  <2>3. ~(step = 0 /\ step' > 0)
    BY <2>1
  <2> QED BY <1>5, <2>2, <2>3
<1> QED BY <1>1, <1>2, <1>3, <1>4, <1>5 DEF QueueNext

LEMMA QueueInvariant == QueueSpec => []QInv
<1>1. QInv /\ [QueueNext]_queueVars => QInv'
  BY QueueStep
<1> QED BY <1>1, QueueStart, PTL DEF QueueSpec

(* A flight that counts as queued has the item of its latest request in    *)
(* the heap of its direction, whatever was popped, put back or skipped.    *)
THEOREM QueuedHaveItemsProved == QueueSpec => []QueuedHaveItems
<1>1. QInv => QueuedHaveItems
  BY DEF QInv, ItemsOfFlights, QueuedHaveItems
<1> QED BY <1>1, QueueInvariant, PTL

(* Nobody is overtaken, and a flight is served with its latest request.    *)
THEOREM ServedInOrderProved == QueueSpec => ServedInOrder
<1>1. QInv /\ [QueueNext]_queueVars =>
        [\A i \in granted' :
           /\ i = asked[i.flight]
           /\ \A g \in queued_flights \ {j.flight : j \in granted'} :
                DirectionOf(g) = DirectionOf(i.flight) => Before(i, asked[g])]_queueVars
  BY QueueStep DEF InOrder
<1> QED BY <1>1, QueueInvariant, PTL DEF QueueSpec, ServedInOrder

(* A free runway gives a slot to each direction that waits.                *)
THEOREM NoDirectionStarvesProved == QueueSpec => NoDirectionStarves
<1>1. QInv /\ [QueueNext]_queueVars =>
        [step = 0 /\ step' > 0 /\ occupied <= 60 * step' =>
           \A d \in Directions : Live(d) # {} =>
             \E i \in granted' : DirectionOf(i.flight) = d]_queueVars
  BY QueueStep DEF Starves
<1> QED BY <1>1, QueueInvariant, PTL DEF QueueSpec, NoDirectionStarves
-----------------------------------------------------------------------------
(* The restrictions.                                                       *)
Messages == [kind : Kind, incident : Incident, id : Nat]
Said(i, kind) == {p \in 1..Len(log[i]) : log[i][p].kind = kind}
ToCome(i, kind) ==
  \/ unsent[i][kind] > 0
  \/ \E p \in Said(i, kind) : p > handled[i] /\ log[i][p] \notin ToSet(seen)

RestrictionTypes ==
  /\ node \in [Incident -> {"none"} \cup Kind]
  /\ decided \in [Incident -> [Kind -> Nat]] /\ unsent \in [Incident -> [Kind -> Nat]]
  /\ log \in [Incident -> Seq(Messages)] /\ handled \in [Incident -> Nat]
  /\ \A i \in Incident : /\ handled[i] <= Len(log[i])
                         /\ \A p \in 1..Len(log[i]) : log[i][p].incident = i /\ log[i][p].id <= p
  /\ seen \in Seq(Messages) /\ active_incident_locations \in SUBSET Incident
  /\ heard \in Impact \cup {"unknown"}

(* Tasks and announcements are those of incidents that exist; a creation,  *)
(* and a resolution that still holds, are announced, will be, or are lost. *)
NewsIsTrue(i) ==
  /\ \A k \in Kind : decided[i][k] > 0 \/ unsent[i][k] > 0 \/ Said(i, k) # {} => node[i] # "none"
  /\ node[i] # "none" => unsent[i]["active"] > 0 \/ Said(i, "active") # {} \/ i \in lost
  /\ node[i] = "resolved" => unsent[i]["resolved"] > 0 \/ Said(i, "resolved") # {} \/ i \in lost
SeenIsHandled ==
  \A m \in ToSet(seen) : \E p \in 1..Len(log[m.incident]) : p <= handled[m.incident] /\ log[m.incident][p] = m

(* An open incident that is not known is still to come, or was resolved    *)
(* before; one that is known and is not open any more has its resolution   *)
(* to come, or had it early.                                               *)
KnownInTime(i) ==
  /\ rebuilt /\ i \in Open /\ i \notin active_incident_locations =>
       \/ ToCome(i, "active") \/ i \in lost
       \/ unsent[i]["resolved"] > 0 \/ Said(i, "resolved") # {}
  /\ i \in active_incident_locations =>
       /\ node[i] # "none"
       /\ node[i] = "resolved" => ToCome(i, "resolved") \/ Misordered(i) \/ i \in lost

ClosedByAll ==
  /\ weather_affected_runways = ByWeather
  /\ incident_affected_runways = Restricted(active_incident_locations, weather_affected_runways)

RInv ==
  /\ RestrictionTypes /\ SeenIsHandled /\ ClosedByAll
  /\ \A i \in Incident : NewsIsTrue(i) /\ KnownInTime(i)

LEMMA MessagesAre == \A m \in Messages : m.kind \in Kind /\ m.incident \in Incident /\ m.id \in Nat
BY DEF Messages

LEMMA LogAppended ==
  ASSUME NEW s \in Seq(Messages), NEW m \in Messages
  PROVE  /\ Append(s, m) \in Seq(Messages) /\ Len(Append(s, m)) = Len(s) + 1 /\ Len(s) \in Nat
         /\ \A p \in 1..Len(s) : Append(s, m)[p] = s[p]
         /\ Append(s, m)[Len(s) + 1] = m
         /\ \A p \in 1..Len(Append(s, m)) : p \in 1..Len(s) \/ p = Len(s) + 1
OBVIOUS

LEMMA Evicted ==
  ASSUME NEW m \in Messages, seen \in Seq(Messages)
  PROVE  /\ Evict(Append(seen, m)) \in Seq(Messages)
         /\ \A x \in ToSet(Evict(Append(seen, m))) : x \in ToSet(seen) \/ x = m
<1> DEFINE s == Append(seen, m)
<1>1. /\ s \in Seq(Messages) /\ Len(s) = Len(seen) + 1 /\ Len(seen) \in Nat
      /\ \A p \in 1..Len(s) : s[p] = m \/ (p \in 1..Len(seen) /\ s[p] = seen[p])
  OBVIOUS
<1>2. \A x \in ToSet(s) : x \in ToSet(seen) \/ x = m
  <2>1. DOMAIN s = 1..Len(s) /\ DOMAIN seen = 1..Len(seen)
    BY <1>1
  <2> HIDE DEF s
  <2> QED BY <1>1, <2>1 DEF ToSet
<1> HIDE DEF s
<1>3. Tail(s) \in Seq(Messages) /\ \A x \in ToSet(Tail(s)) : x \in ToSet(s)
  BY <1>1 DEF ToSet
<1> QED BY <1>1, <1>2, <1>3 DEF Evict, s

LEMMA WeatherCloses == ClosedBy \in [Impact -> SUBSET Runway]
BY RestrictionAssumption

(* One count of one incident changes. *)
LEMMA OneCount ==
  ASSUME NEW f \in [Incident -> [Kind -> Nat]], NEW i \in Incident, NEW k \in Kind, NEW c \in Nat,
         NEW g, g = [f EXCEPT ![i][k] = c]
  PROVE  /\ g \in [Incident -> [Kind -> Nat]] /\ g[i][k] = c
         /\ \A l \in Kind : l # k => g[i][l] = f[i][l]
         /\ \A j \in Incident : j # i => g[j] = f[j]
<1>1. g = [f EXCEPT ![i] = [f[i] EXCEPT ![k] = c]]
  OBVIOUS
<1>2. f[i] \in [Kind -> Nat]
  OBVIOUS
<1> DEFINE h == [f[i] EXCEPT ![k] = c]
<1>3. h \in [Kind -> Nat] /\ h[k] = c /\ \A l \in Kind : l # k => h[l] = f[i][l]
  BY <1>2
<1>4. g = [f EXCEPT ![i] = h]
  BY <1>1
<1> HIDE DEF h
<1> QED BY <1>3, <1>4

LEMMA RestrictionsStart == RestrictionsInit => RInv
<1> SUFFICES ASSUME RestrictionsInit PROVE RInv
  OBVIOUS
<1>0. /\ node = [i \in Incident |-> "none"] /\ log = [i \in Incident |-> <<>>] /\ lost = {}
      /\ decided = [i \in Incident |-> [k \in Kind |-> 0]]
      /\ unsent = [i \in Incident |-> [k \in Kind |-> 0]]
      /\ handled = [i \in Incident |-> 0] /\ seen = <<>> /\ active_incident_locations = {}
      /\ weather_affected_runways = {} /\ incident_affected_runways = {} /\ heard = "unknown"
  BY DEF RestrictionsInit, NewsInit, NoTask
<1>1. RestrictionTypes
  <2>1. decided \in [Incident -> [Kind -> Nat]] /\ unsent \in [Incident -> [Kind -> Nat]]
    BY <1>0
  <2>2. node \in [Incident -> {"none"} \cup Kind]
    BY <1>0
  <2>3. log \in [Incident -> Seq(Messages)] /\ handled \in [Incident -> Nat]
    BY <1>0
  <2>4. \A i \in Incident : log[i] = <<>> /\ handled[i] = 0
    BY <1>0
  <2>5. \A i \in Incident : Len(log[i]) = 0
    BY <2>4
  <2> QED BY <1>0, <2>1, <2>2, <2>3, <2>4, <2>5 DEF RestrictionTypes
<1>2. ToSet(seen) = {}
  BY <1>0 DEF ToSet
<1>3. \A i \in Incident : NewsIsTrue(i)
  <2>1. \A i \in Incident : node[i] = "none" /\ log[i] = <<>>
                            /\ \A k \in Kind : decided[i][k] = 0 /\ unsent[i][k] = 0
    BY <1>0
  <2>2. \A i \in Incident : \A k \in Kind : Said(i, k) = {}
    BY <2>1 DEF Said
  <2> QED BY <2>1, <2>2 DEF NewsIsTrue
<1>4. \A i \in Incident : KnownInTime(i)
  BY <1>0 DEF KnownInTime, Open
<1>5. ClosedByAll
  BY <1>0 DEF ClosedByAll, ByWeather, Restricted, Places
<1> QED BY <1>1, <1>2, <1>3, <1>4, <1>5 DEF RInv, SeenIsHandled

(* What is not touched of an incident. *)
LEMMA OthersKeep ==
  ASSUME NEW j \in Incident, NewsIsTrue(j), KnownInTime(j),
         node'[j] = node[j], decided'[j] = decided[j], unsent'[j] = unsent[j], log'[j] = log[j],
         j \in lost => j \in lost',
         UNCHANGED <<handled, seen, active_incident_locations, rebuilt>>
  PROVE  NewsIsTrue(j)' /\ KnownInTime(j)'
<1>1. \A k : Said(j, k)' = Said(j, k) /\ ToCome(j, k)' = ToCome(j, k)
  BY DEF Said, ToCome
<1>2. Misordered(j)' = Misordered(j) /\ (j \in Open' <=> j \in Open)
  BY DEF Misordered, Open
<1> QED BY <1>1, <1>2 DEF NewsIsTrue, KnownInTime

LEMMA CreateKeeps == ASSUME RInv, NEW i \in Incident, CreateIncident(i),
                            UNCHANGED <<handled, memoryVars, heard, rebuilt>> PROVE RInv'
<1>1. /\ node[i] = "none" /\ node' = [node EXCEPT ![i] = "active"]
      /\ unsent' = [unsent EXCEPT ![i]["active"] = unsent[i]["active"] + 1]
      /\ UNCHANGED <<decided, log, lost, handled, seen, active_incident_locations,
                     weather_affected_runways, incident_affected_runways, heard, rebuilt>>
  BY DEF CreateIncident, memoryVars
<1>2. RestrictionTypes /\ \A j \in Incident : NewsIsTrue(j) /\ KnownInTime(j)
  BY DEF RInv
<1>3. "active" \in Kind /\ unsent \in [Incident -> [Kind -> Nat]] /\ unsent[i]["active"] + 1 \in Nat
  BY <1>2 DEF RestrictionTypes, Kind
<1>4. /\ unsent' \in [Incident -> [Kind -> Nat]] /\ unsent'[i]["active"] = unsent[i]["active"] + 1
      /\ \A k \in Kind : k # "active" => unsent'[i][k] = unsent[i][k]
      /\ \A j \in Incident : j # i => unsent'[j] = unsent[j]
  BY <1>1, <1>3, OneCount
<1>5. RestrictionTypes'
  BY <1>1, <1>2, <1>4 DEF RestrictionTypes, Kind
<1>6. ASSUME NEW j \in Incident, j # i PROVE NewsIsTrue(j)' /\ KnownInTime(j)'
  BY <1>1, <1>2, <1>4, <1>6, OthersKeep DEF RestrictionTypes
<1>7. NewsIsTrue(i)' /\ KnownInTime(i)'
  <2>1. node'[i] = "active" /\ unsent'[i]["active"] > 0
    BY <1>1, <1>2, <1>3, <1>4 DEF RestrictionTypes
  <2> QED BY <1>1, <2>1 DEF NewsIsTrue, KnownInTime, ToCome
<1>8. SeenIsHandled' /\ ClosedByAll'
  BY <1>1 DEF RInv, SeenIsHandled, ClosedByAll, ByWeather
<1> QED BY <1>5, <1>6, <1>7, <1>8 DEF RInv

LEMMA ReadKeeps == ASSUME RInv, NEW i \in Incident, NEW new \in Kind, ReadStatus(i, new),
                          UNCHANGED <<handled, memoryVars, heard, rebuilt>> PROVE RInv'
<1>1. /\ new \in Transitions[node[i]]
      /\ decided' = [decided EXCEPT ![i][new] = decided[i][new] + 1]
      /\ UNCHANGED <<node, unsent, log, lost, handled, seen, active_incident_locations,
                     weather_affected_runways, incident_affected_runways, heard, rebuilt>>
  BY DEF ReadStatus, memoryVars
<1>2. RestrictionTypes /\ \A j \in Incident : NewsIsTrue(j) /\ KnownInTime(j)
  BY DEF RInv
<1>3. decided \in [Incident -> [Kind -> Nat]] /\ decided[i][new] + 1 \in Nat
  BY <1>2 DEF RestrictionTypes
<1>4. /\ decided' \in [Incident -> [Kind -> Nat]]
      /\ \A j \in Incident : j # i => decided'[j] = decided[j]
  BY <1>1, <1>3, OneCount
<1>5. RestrictionTypes'
  BY <1>1, <1>2, <1>4 DEF RestrictionTypes
<1>6. ASSUME NEW j \in Incident, j # i PROVE NewsIsTrue(j)' /\ KnownInTime(j)'
  BY <1>1, <1>2, <1>4, <1>6, OthersKeep
<1>7. NewsIsTrue(i)' /\ KnownInTime(i)'
  <2>1. node[i] # "none"
    BY <1>1 DEF Transitions
  <2>2. \A k : Said(i, k)' = Said(i, k) /\ ToCome(i, k)' = ToCome(i, k)
    BY <1>1 DEF Said, ToCome
  <2>3. Misordered(i)' = Misordered(i) /\ Open' = Open
    BY <1>1 DEF Misordered, Open
  <2> QED BY <1>1, <1>2, <2>1, <2>2, <2>3 DEF NewsIsTrue, KnownInTime
<1>8. SeenIsHandled' /\ ClosedByAll'
  BY <1>1 DEF RInv, SeenIsHandled, ClosedByAll, ByWeather
<1> QED BY <1>5, <1>6, <1>7, <1>8 DEF RInv

LEMMA ChangeKeeps == ASSUME RInv, NEW i \in Incident, NEW new \in {"contained", "resolved"},
                            ChangeStatus(i, new),
                            UNCHANGED <<handled, memoryVars, heard, rebuilt>> PROVE RInv'
<1>1. /\ decided[i][new] > 0 /\ decided' = [decided EXCEPT ![i][new] = decided[i][new] - 1]
      /\ node' = [node EXCEPT ![i] = new]
      /\ unsent' = [unsent EXCEPT ![i][new] = unsent[i][new] + 1]
      /\ UNCHANGED <<log, lost, handled, seen, active_incident_locations,
                     weather_affected_runways, incident_affected_runways, heard, rebuilt>>
  BY DEF ChangeStatus, memoryVars
<1>2. RestrictionTypes /\ \A j \in Incident : NewsIsTrue(j) /\ KnownInTime(j)
  BY DEF RInv
<1>3. /\ new \in Kind /\ decided \in [Incident -> [Kind -> Nat]] /\ unsent \in [Incident -> [Kind -> Nat]]
      /\ unsent[i][new] + 1 \in Nat /\ decided[i][new] - 1 \in Nat /\ unsent[i][new] \in Nat
      /\ node \in [Incident -> {"none"} \cup Kind]
  <2>1. new \in Kind /\ decided \in [Incident -> [Kind -> Nat]] /\ unsent \in [Incident -> [Kind -> Nat]]
    BY <1>2 DEF RestrictionTypes, Kind
  <2>2. decided[i][new] \in Nat /\ unsent[i][new] \in Nat
    BY <2>1
  <2> QED BY <1>1, <1>2, <2>1, <2>2 DEF RestrictionTypes
<1>4. /\ decided' \in [Incident -> [Kind -> Nat]]
      /\ \A j \in Incident : j # i => decided'[j] = decided[j]
  BY <1>1, <1>3, OneCount
<1>5. /\ unsent' \in [Incident -> [Kind -> Nat]] /\ unsent'[i][new] = unsent[i][new] + 1
      /\ \A k \in Kind : k # new => unsent'[i][k] = unsent[i][k]
      /\ \A j \in Incident : j # i => unsent'[j] = unsent[j]
  BY <1>1, <1>3, OneCount
<1>6. node'[i] = new /\ \A j \in Incident : j # i => node'[j] = node[j]
  BY <1>1, <1>3
<1>7. RestrictionTypes'
  BY <1>1, <1>2, <1>3, <1>4, <1>5 DEF RestrictionTypes
<1>8. ASSUME NEW j \in Incident, j # i PROVE NewsIsTrue(j)' /\ KnownInTime(j)'
  BY <1>1, <1>2, <1>4, <1>5, <1>6, <1>8, OthersKeep
<1>9. \A k : Said(i, k)' = Said(i, k)
  BY <1>1 DEF Said
<1>10. \A k \in Kind : unsent[i][k] > 0 => unsent'[i][k] > 0
  BY <1>3, <1>5
<1>11. unsent'[i][new] > 0 /\ node[i] # "none"
  <2>1. node[i] # "none"
    BY <1>1, <1>2, <1>3 DEF NewsIsTrue
  <2> QED BY <1>3, <1>5, <2>1
<1>12. NewsIsTrue(i)'
  <2>1. unsent[i]["active"] > 0 \/ Said(i, "active") # {} \/ i \in lost
    BY <1>2, <1>11 DEF NewsIsTrue
  <2>2. unsent'[i]["active"] > 0 \/ Said(i, "active")' # {} \/ i \in lost'
    BY <1>1, <1>9, <1>10, <2>1 DEF Kind
  <2>3. node'[i] # "none"
    BY <1>6
  <2> QED BY <1>6, <1>11, <2>2, <2>3 DEF NewsIsTrue
<1>13. KnownInTime(i)'
  <2>1. \A k \in Kind : ToCome(i, k) => ToCome(i, k)'
    BY <1>1, <1>9, <1>10 DEF ToCome
  <2>2. Misordered(i)' = Misordered(i)
    BY <1>1 DEF Misordered
  <2>3. CASE new = "resolved"
    <3>1. i \notin Open' /\ ToCome(i, "resolved")'
      BY <1>6, <1>11, <2>3 DEF Open, ToCome
    <3> QED BY <1>6, <2>3, <3>1 DEF KnownInTime
  <2>4. CASE new = "contained"
    <3>1. ASSUME rebuilt, i \notin active_incident_locations
          PROVE  \/ ToCome(i, "active")' \/ i \in lost'
                 \/ unsent'[i]["resolved"] > 0 \/ Said(i, "resolved")' # {}
      <4>1. CASE i \in Open
        BY <1>1, <1>2, <1>9, <1>10, <2>1, <3>1, <4>1 DEF KnownInTime, Kind
      <4>2. CASE i \notin Open
        <5>1. node[i] = "resolved"
          BY <1>3, <1>11, <4>2 DEF Open, Kind
        <5> QED BY <1>1, <1>2, <1>9, <1>10, <5>1 DEF NewsIsTrue, Kind
      <4> QED BY <4>1, <4>2
    <3> QED BY <1>1, <1>6, <2>4, <3>1 DEF KnownInTime
  <2> QED BY <2>3, <2>4
<1>14. SeenIsHandled' /\ ClosedByAll'
  BY <1>1 DEF RInv, SeenIsHandled, ClosedByAll, ByWeather
<1> QED BY <1>7, <1>8, <1>12, <1>13, <1>14 DEF RInv

LEMMA LoseKeeps == ASSUME RInv, NEW i \in Incident, NEW kind \in Kind, Lose(i, kind),
                          UNCHANGED <<handled, memoryVars, heard, rebuilt>> PROVE RInv'
<1>1. /\ unsent[i][kind] > 0 /\ unsent' = [unsent EXCEPT ![i][kind] = unsent[i][kind] - 1]
      /\ lost' = lost \cup {i}
      /\ UNCHANGED <<node, decided, log, handled, seen, active_incident_locations,
                     weather_affected_runways, incident_affected_runways, heard, rebuilt>>
  BY DEF Lose, memoryVars
<1>2. RestrictionTypes /\ \A j \in Incident : NewsIsTrue(j) /\ KnownInTime(j)
  BY DEF RInv
<1>3. unsent \in [Incident -> [Kind -> Nat]] /\ unsent[i][kind] - 1 \in Nat
  <2>1. unsent \in [Incident -> [Kind -> Nat]]
    BY <1>2 DEF RestrictionTypes
  <2>2. unsent[i][kind] \in Nat
    BY <2>1
  <2> QED BY <1>1, <2>1, <2>2
<1>4. /\ unsent' \in [Incident -> [Kind -> Nat]] /\ unsent'[i][kind] = unsent[i][kind] - 1
      /\ \A k \in Kind : k # kind => unsent'[i][k] = unsent[i][k]
      /\ \A j \in Incident : j # i => unsent'[j] = unsent[j]
  BY <1>1, <1>3, OneCount
<1>5. RestrictionTypes'
  BY <1>1, <1>2, <1>4 DEF RestrictionTypes
<1>6. ASSUME NEW j \in Incident, j # i PROVE NewsIsTrue(j)' /\ KnownInTime(j)'
  BY <1>1, <1>2, <1>4, <1>6, OthersKeep
<1>7. NewsIsTrue(i)' /\ KnownInTime(i)'
  <2>1. i \in lost' /\ \A k : Said(i, k)' = Said(i, k)
    BY <1>1 DEF Said
  <2>2. \A k \in Kind : unsent'[i][k] > 0 => unsent[i][k] > 0
    BY <1>1, <1>4
  <2>3. node[i] # "none"
    BY <1>1, <1>2 DEF NewsIsTrue
  <2> QED BY <1>1, <2>1, <2>2, <2>3 DEF NewsIsTrue, KnownInTime
<1>8. SeenIsHandled' /\ ClosedByAll'
  BY <1>1 DEF RInv, SeenIsHandled, ClosedByAll, ByWeather
<1> QED BY <1>5, <1>6, <1>7, <1>8 DEF RInv

(* A message more in the partition of an incident: a new one, or a copy.   *)
LEMMA LogGrows ==
  ASSUME RInv, NEW i \in Incident, NEW m \in Messages, m.incident = i, m.id <= Len(log[i]) + 1,
         log' = [log EXCEPT ![i] = Append(@, m)],
         UNCHANGED <<node, decided, lost, handled, seen, active_incident_locations,
                     weather_affected_runways, incident_affected_runways, heard, rebuilt>>,
         \/ unsent' = unsent /\ Said(i, m.kind) # {}
         \/ /\ unsent' = [unsent EXCEPT ![i][m.kind] = @ - 1] /\ unsent[i][m.kind] > 0
            /\ m.id = Len(log[i]) + 1
  PROVE  RInv'
<1>1. RestrictionTypes /\ \A j \in Incident : NewsIsTrue(j) /\ KnownInTime(j)
  BY DEF RInv
<1>2. /\ log[i] \in Seq(Messages) /\ log'[i] = Append(log[i], m) /\ \A j \in Incident : j # i => log'[j] = log[j]
      /\ m.kind \in Kind /\ m.id \in Nat
  BY <1>1, MessagesAre DEF RestrictionTypes
<1>3. /\ log'[i] \in Seq(Messages) /\ Len(log'[i]) = Len(log[i]) + 1 /\ Len(log[i]) \in Nat
      /\ \A p \in 1..Len(log[i]) : p \in 1..Len(log'[i]) /\ log'[i][p] = log[i][p]
      /\ log'[i][Len(log[i]) + 1] = m /\ Len(log[i]) + 1 \in 1..Len(log'[i])
      /\ \A p \in 1..Len(log'[i]) : p \in 1..Len(log[i]) \/ p = Len(log[i]) + 1
  <2>1. /\ log'[i] \in Seq(Messages) /\ Len(log'[i]) = Len(log[i]) + 1 /\ Len(log[i]) \in Nat
        /\ \A p \in 1..Len(log[i]) : log'[i][p] = log[i][p]
        /\ log'[i][Len(log[i]) + 1] = m
        /\ \A p \in 1..Len(log'[i]) : p \in 1..Len(log[i]) \/ p = Len(log[i]) + 1
    BY <1>2, LogAppended
  <2> QED BY <2>1
<1>4. /\ unsent' \in [Incident -> [Kind -> Nat]]
      /\ \A j \in Incident : j # i => unsent'[j] = unsent[j]
      /\ \A k \in Kind : k # m.kind => unsent'[i][k] = unsent[i][k]
      /\ \A k \in Kind : unsent'[i][k] > 0 => unsent[i][k] > 0
      /\ unsent'[i][m.kind] # unsent[i][m.kind] => m.id = Len(log[i]) + 1
      /\ unsent[i][m.kind] > 0 \/ Said(i, m.kind) # {}
  <2>1. unsent \in [Incident -> [Kind -> Nat]]
    BY <1>1 DEF RestrictionTypes
  <2>2. unsent[i][m.kind] \in Nat
    BY <1>2, <2>1
  <2>3. CASE unsent' = unsent /\ Said(i, m.kind) # {}
    <3>1. \A k \in Kind : unsent'[i][k] = unsent[i][k]
      BY <2>3
    <3> QED BY <1>2, <2>1, <2>3, <3>1
  <2>4. CASE /\ unsent' = [unsent EXCEPT ![i][m.kind] = @ - 1] /\ unsent[i][m.kind] > 0
             /\ m.id = Len(log[i]) + 1
    <3>1. unsent[i][m.kind] - 1 \in Nat /\ unsent' = [unsent EXCEPT ![i][m.kind] = unsent[i][m.kind] - 1]
      BY <2>2, <2>4
    <3>2. /\ unsent' \in [Incident -> [Kind -> Nat]] /\ unsent'[i][m.kind] = unsent[i][m.kind] - 1
          /\ \A k \in Kind : k # m.kind => unsent'[i][k] = unsent[i][k]
          /\ \A j \in Incident : j # i => unsent'[j] = unsent[j]
      BY <1>2, <2>1, <3>1, OneCount
    <3> QED BY <2>4, <3>2
  <2> QED BY <2>3, <2>4
<1>5. RestrictionTypes'
  <2>0. log \in [Incident -> Seq(Messages)]
    BY <1>1 DEF RestrictionTypes
  <2>1. log' \in [Incident -> Seq(Messages)]
    <3>1. Append(log[i], m) \in Seq(Messages)
      BY <1>2, <1>3
    <3> QED BY <2>0, <3>1
  <2>2. \A j \in Incident : /\ handled'[j] <= Len(log'[j])
                            /\ \A p \in 1..Len(log'[j]) : log'[j][p].incident = j /\ log'[j][p].id <= p
    <3>1. ASSUME NEW j \in Incident, j # i
          PROVE  handled'[j] <= Len(log'[j]) /\ \A p \in 1..Len(log'[j]) : log'[j][p].incident = j /\ log'[j][p].id <= p
      BY <1>1, <1>2, <3>1 DEF RestrictionTypes
    <3>2. handled'[i] <= Len(log'[i])
      BY <1>1, <1>3 DEF RestrictionTypes
    <3>3. ASSUME NEW p \in 1..Len(log'[i]) PROVE log'[i][p].incident = i /\ log'[i][p].id <= p
      <4>1. CASE p \in 1..Len(log[i])
        BY <1>1, <1>3, <4>1 DEF RestrictionTypes
      <4>2. CASE p = Len(log[i]) + 1
        BY <1>3, <4>2
      <4> QED BY <1>3, <4>1, <4>2
    <3> QED BY <3>1, <3>2, <3>3
  <2> QED BY <1>1, <1>4, <2>1, <2>2 DEF RestrictionTypes
<1>6. ASSUME NEW j \in Incident, j # i PROVE NewsIsTrue(j)' /\ KnownInTime(j)'
  BY <1>1, <1>2, <1>4, <1>6, OthersKeep
<1>7. \A k : Said(i, k) \subseteq Said(i, k)' /\ (k # m.kind => Said(i, k)' = Said(i, k))
  <2> SUFFICES ASSUME NEW k
               PROVE  Said(i, k) \subseteq Said(i, k)' /\ (k # m.kind => Said(i, k)' = Said(i, k))
    OBVIOUS
  <2>1. ASSUME NEW p \in Said(i, k) PROVE p \in Said(i, k)'
    <3>1. p \in 1..Len(log[i]) /\ log[i][p].kind = k
      BY <2>1 DEF Said
    <3>2. p \in 1..Len(log'[i]) /\ log'[i][p].kind = k
      BY <1>3, <3>1
    <3> QED BY <3>2 DEF Said
  <2>2. ASSUME NEW p \in Said(i, k)', k # m.kind PROVE p \in Said(i, k)
    <3>1. p \in 1..Len(log'[i]) /\ log'[i][p].kind = k
      BY <2>2 DEF Said
    <3>2. p # Len(log[i]) + 1
      BY <1>3, <2>2, <3>1
    <3>3. p \in 1..Len(log[i]) /\ log[i][p].kind = k
      BY <1>3, <3>1, <3>2
    <3> QED BY <3>3 DEF Said
  <2> QED BY <2>1, <2>2
<1>8. Len(log[i]) + 1 \in Said(i, m.kind)' /\ Said(i, m.kind)' # {}
  <2>1. Len(log[i]) + 1 \in Said(i, m.kind)'
    BY <1>3 DEF Said
  <2> QED BY <2>1
<1>9. NewsIsTrue(i)'
  <2>1. \A k \in Kind : unsent[i][k] > 0 \/ Said(i, k) # {} => unsent'[i][k] > 0 \/ Said(i, k)' # {}
    <3>1. ASSUME NEW k \in Kind, k = m.kind PROVE Said(i, k)' # {}
      BY <1>8, <3>1
    <3>2. ASSUME NEW k \in Kind, k # m.kind PROVE unsent'[i][k] = unsent[i][k] /\ Said(i, k)' = Said(i, k)
      BY <1>4, <1>7, <3>2
    <3> QED BY <3>1, <3>2
  <2>2. \A k \in Kind : unsent'[i][k] > 0 \/ Said(i, k)' # {} => node[i] # "none"
    <3>1. node[i] # "none"
      BY <1>1, <1>2, <1>4 DEF NewsIsTrue
    <3> QED BY <3>1
  <2>3. /\ unsent[i]["active"] > 0 \/ Said(i, "active") # {} => unsent'[i]["active"] > 0 \/ Said(i, "active")' # {}
        /\ unsent[i]["resolved"] > 0 \/ Said(i, "resolved") # {}
             => unsent'[i]["resolved"] > 0 \/ Said(i, "resolved")' # {}
    BY <2>1 DEF Kind
  <2>4. \A k \in Kind : decided[i][k] > 0 => node[i] # "none"
    BY <1>1 DEF NewsIsTrue
  <2> QED BY <1>1, <2>2, <2>3, <2>4 DEF NewsIsTrue
<1>10. SeenIsHandled'
  <2>1. SUFFICES ASSUME NEW x \in ToSet(seen)
                 PROVE  \E p \in 1..Len(log'[x.incident]) : p <= handled[x.incident] /\ log'[x.incident][p] = x
    BY DEF SeenIsHandled
  <2>2. x \in Messages /\ x.incident \in Incident
    BY <1>1, MessagesAre DEF RestrictionTypes, ToSet
  <2>3. PICK p \in 1..Len(log[x.incident]) : p <= handled[x.incident] /\ log[x.incident][p] = x
    BY DEF RInv, SeenIsHandled
  <2> QED BY <1>2, <1>3, <2>2, <2>3
(* A new message has a new id. *)
<1>11. ASSUME unsent'[i][m.kind] # unsent[i][m.kind] PROVE m \notin ToSet(seen)
  <2>1. SUFFICES ASSUME m \in ToSet(seen) PROVE FALSE
    OBVIOUS
  <2>2. PICK p \in 1..Len(log[i]) : p <= handled[i] /\ log[i][p] = m
    BY <2>1 DEF RInv, SeenIsHandled
  <2>3. m.id <= p
    BY <1>1, <2>2 DEF RestrictionTypes
  <2> QED BY <1>2, <1>3, <1>4, <1>11, <2>2, <2>3
<1>12. \A k \in Kind : ToCome(i, k) => ToCome(i, k)'
  <2>1. SUFFICES ASSUME NEW k \in Kind, ToCome(i, k) PROVE ToCome(i, k)'
    OBVIOUS
  <2>2. CASE unsent[i][k] > 0 /\ unsent'[i][k] = unsent[i][k]
    BY <2>2 DEF ToCome
  <2>3. CASE unsent[i][k] > 0 /\ unsent'[i][k] # unsent[i][k]
    <3>1. k = m.kind /\ m \notin ToSet(seen)
      BY <1>4, <1>11, <2>3
    <3>2. Len(log[i]) + 1 > handled[i]
      BY <1>1, <1>3 DEF RestrictionTypes
    <3> QED BY <1>3, <1>8, <3>1, <3>2 DEF ToCome
  <2>4. ASSUME NEW p \in Said(i, k), p > handled[i], log[i][p] \notin ToSet(seen) PROVE ToCome(i, k)'
    <3>1. p \in Said(i, k)' /\ log'[i][p] = log[i][p]
      BY <1>3, <1>7, <2>4 DEF Said
    <3> QED BY <2>4, <3>1 DEF ToCome
  <2> QED BY <2>1, <2>2, <2>3, <2>4 DEF ToCome
<1>13. KnownInTime(i)'
  <2>1. Misordered(i) => Misordered(i)'
    <3>1. DOMAIN log[i] = 1..Len(log[i]) /\ DOMAIN log'[i] = 1..Len(log'[i])
      BY <1>2, <1>3
    <3> QED BY <1>3, <3>1 DEF Misordered
  <2>2. Open' = Open
    BY DEF Open
  <2>3. unsent[i]["resolved"] > 0 \/ Said(i, "resolved") # {} => unsent'[i]["resolved"] > 0 \/ Said(i, "resolved")' # {}
    <3>1. CASE m.kind = "resolved"
      BY <1>8, <3>1
    <3>2. CASE m.kind # "resolved"
      BY <1>4, <1>7, <3>2 DEF Kind
    <3> QED BY <3>1, <3>2
  <2> QED BY <1>1, <1>12, <2>1, <2>2, <2>3 DEF KnownInTime, Kind
<1>14. ClosedByAll'
  BY DEF RInv, ClosedByAll, ByWeather
<1> QED BY <1>5, <1>6, <1>9, <1>10, <1>13, <1>14 DEF RInv

LEMMA AnnounceKeeps == ASSUME RInv, NEW i \in Incident, NEW kind \in Kind, Announce(i, kind),
                              UNCHANGED <<handled, memoryVars, heard, rebuilt>> PROVE RInv'
<1> DEFINE m == [kind |-> kind, incident |-> i, id |-> Len(log[i]) + 1]
<1>1. /\ unsent[i][kind] > 0 /\ unsent' = [unsent EXCEPT ![i][kind] = @ - 1]
      /\ log' = [log EXCEPT ![i] = Append(@, m)]
      /\ UNCHANGED <<node, decided, lost, handled, seen, active_incident_locations,
                     weather_affected_runways, incident_affected_runways, heard, rebuilt>>
  BY DEF Announce, memoryVars
<1>2. Len(log[i]) \in Nat
  BY DEF RInv, RestrictionTypes
<1>3. m \in Messages /\ m.kind = kind /\ m.incident = i /\ m.id = Len(log[i]) + 1 /\ m.id <= Len(log[i]) + 1
  BY <1>2 DEF Messages
<1> HIDE DEF m
<1> QED BY <1>1, <1>3, LogGrows

LEMMA WriteAgainKeeps == ASSUME RInv, NEW i \in Incident, WriteAgain(i) PROVE RInv'
<1>1. PICK m \in ToSet(log[i]) : log' = [log EXCEPT ![i] = Append(@, m)]
  BY DEF WriteAgain
<1>2. UNCHANGED <<node, decided, lost, unsent, handled, seen, active_incident_locations,
                  weather_affected_runways, incident_affected_runways, heard, rebuilt>>
  BY DEF WriteAgain, memoryVars
<1>3. log[i] \in Seq(Messages) /\ \A p \in 1..Len(log[i]) : log[i][p].incident = i /\ log[i][p].id <= p
  BY DEF RInv, RestrictionTypes
<1>4. PICK p \in 1..Len(log[i]) : log[i][p] = m
  BY <1>3 DEF ToSet
<1>5. m \in Messages /\ m.incident = i /\ m.id <= p /\ m.id \in Nat /\ Len(log[i]) \in Nat
  BY <1>3, <1>4, MessagesAre
<1>6. m.id <= Len(log[i]) + 1
  BY <1>4, <1>5
<1>7. Said(i, m.kind) # {}
  BY <1>4 DEF Said
<1> QED BY <1>1, <1>2, <1>5, <1>6, <1>7, LogGrows

LEMMA DispatchKeeps == ASSUME RInv, NEW i \in Incident, Dispatch(i) PROVE RInv'
<1> DEFINE h == handled[i] + 1
           m == log[i][h]
           known == CASE m.kind = "active" -> active_incident_locations \cup {i}
                      [] m.kind = "resolved" -> active_incident_locations \ {i}
                      [] OTHER -> active_incident_locations
<1>1. RestrictionTypes /\ \A j \in Incident : NewsIsTrue(j) /\ KnownInTime(j)
  BY DEF RInv
<1>2. /\ handled[i] < Len(log[i]) /\ handled' = [handled EXCEPT ![i] = @ + 1]
      /\ UNCHANGED <<node, decided, unsent, log, lost, heard, rebuilt>>
  BY DEF Dispatch, newsVars
<1>3. /\ handled'[i] = h /\ \A j \in Incident : j # i => handled'[j] = handled[j]
      /\ h \in 1..Len(log[i]) /\ m \in Messages /\ m.incident = i /\ m.kind \in Kind
      /\ h \in Nat /\ handled[i] \in Nat /\ Len(log[i]) \in Nat
  BY <1>1, <1>2, MessagesAre DEF RestrictionTypes
<1>4. IF m \in ToSet(seen)
      THEN UNCHANGED <<seen, active_incident_locations, weather_affected_runways, incident_affected_runways>>
      ELSE /\ seen' = Evict(Append(seen, m))
           /\ active_incident_locations' = known
           /\ weather_affected_runways' = weather_affected_runways
           /\ incident_affected_runways' = Restricted(known, weather_affected_runways)
  BY <1>2, <1>3 DEF Dispatch, is_duplicate, memoryVars, _on_incident_created, _on_incident_status_changed, Refresh
<1> HIDE DEF m, known
<1>5. h \in Said(i, m.kind)
  BY <1>3 DEF Said, m
<1>6. /\ seen' \in Seq(Messages)
      /\ \A x \in ToSet(seen') : x \in ToSet(seen) \/ x = m
  BY <1>1, <1>3, <1>4, Evicted DEF RestrictionTypes
<1>7. active_incident_locations' \in SUBSET Incident
  BY <1>1, <1>4 DEF RestrictionTypes, known
<1>8. RestrictionTypes'
  <2>1. handled' \in [Incident -> Nat] /\ \A j \in Incident : handled'[j] <= Len(log[j])
    BY <1>1, <1>2, <1>3 DEF RestrictionTypes
  <2> QED BY <1>1, <1>2, <1>6, <1>7, <2>1 DEF RestrictionTypes
<1>9. /\ \A j \in Incident : NewsIsTrue(j)' /\ Misordered(j)' = Misordered(j)
      /\ \A j, k : Said(j, k)' = Said(j, k)
  BY <1>1, <1>2 DEF NewsIsTrue, Said, Misordered
<1>10. SeenIsHandled'
  <2>1. SUFFICES ASSUME NEW x \in ToSet(seen')
                 PROVE  \E p \in 1..Len(log[x.incident]) : p <= handled'[x.incident] /\ log[x.incident][p] = x
    BY <1>2 DEF SeenIsHandled
  <2>2. CASE x = m
    BY <1>3, <2>2 DEF m
  <2>3. CASE x \in ToSet(seen)
    <3>1. x \in Messages /\ x.incident \in Incident
      BY <1>1, <2>3, MessagesAre DEF RestrictionTypes, ToSet
    <3>2. PICK p \in 1..Len(log[x.incident]) : p <= handled[x.incident] /\ log[x.incident][p] = x
      BY <2>3 DEF RInv, SeenIsHandled
    <3>3. handled[x.incident] <= handled'[x.incident] /\ handled[x.incident] \in Nat /\ handled'[x.incident] \in Nat
      <4>1. handled \in [Incident -> Nat]
        BY <1>1 DEF RestrictionTypes
      <4>2. handled[x.incident] \in Nat
        BY <3>1, <4>1
      <4>3. CASE x.incident = i
        BY <1>3, <4>3
      <4>4. CASE x.incident # i
        <5>1. handled'[x.incident] = handled[x.incident]
          BY <1>3, <3>1, <4>4
        <5> QED BY <4>2, <5>1
      <4> QED BY <4>3, <4>4
    <3> QED BY <3>1, <3>2, <3>3
  <2> QED BY <1>6, <2>1, <2>2, <2>3
(* What is still to come stays so, unless it is what is handled. *)
<1>11. ASSUME NEW j \in Incident, NEW k \in Kind, ToCome(j, k), j = i => k # m.kind \/ m \in ToSet(seen)
       PROVE ToCome(j, k)'
  <2>1. CASE unsent[j][k] > 0
    BY <1>2, <2>1 DEF ToCome
  <2>2. ASSUME NEW p \in Said(j, k), p > handled[j], log[j][p] \notin ToSet(seen) PROVE ToCome(j, k)'
    <3>1. log[j][p].kind = k /\ log[j][p].incident = j /\ p \in 1..Len(log[j]) /\ p \in Nat
      BY <1>1, <2>2 DEF Said, RestrictionTypes
    <3>2. j = i => p # h
      BY <1>11, <2>2, <3>1 DEF m
    <3>3. p > handled'[j]
      <4>1. CASE j # i
        BY <1>3, <2>2, <4>1
      <4>2. CASE j = i
        BY <1>3, <2>2, <3>1, <3>2, <4>2
      <4> QED BY <4>1, <4>2
    <3>4. log[j][p] \notin ToSet(seen')
      <4>1. CASE m \in ToSet(seen)
        BY <1>6, <2>2, <4>1
      <4>2. CASE m \notin ToSet(seen)
        BY <1>3, <1>6, <1>11, <2>2, <3>1, <4>2
      <4> QED BY <4>1, <4>2
    <3> QED BY <1>2, <1>9, <3>3, <3>4 DEF ToCome
  <2> QED BY <1>11, <2>1, <2>2 DEF ToCome
<1>12. Open' = Open /\ \A j \in Open : j \in Incident /\ node[j] # "resolved"
  BY <1>2 DEF Open
<1>13. ASSUME NEW j \in Incident, j # i PROVE KnownInTime(j)'
  <2>1. j \in active_incident_locations' <=> j \in active_incident_locations
    BY <1>4, <1>13 DEF known
  <2>2. \A k \in Kind : ToCome(j, k) => ToCome(j, k)'
    BY <1>11, <1>13
  <2> QED BY <1>1, <1>2, <1>9, <1>12, <2>1, <2>2 DEF KnownInTime, Kind
<1>14. KnownInTime(i)'
  <2>1. CASE m \in ToSet(seen)
    <3>1. \A k \in Kind : ToCome(i, k) => ToCome(i, k)'
      BY <1>11, <2>1
    <3>2. active_incident_locations' = active_incident_locations
      BY <1>4, <2>1
    <3> QED BY <1>1, <1>2, <1>9, <1>12, <3>1, <3>2 DEF KnownInTime, Kind
  <2>2. CASE m \notin ToSet(seen) /\ m.kind = "contained"
    <3>1. active_incident_locations' = active_incident_locations
      BY <1>4, <2>2 DEF known
    <3>2. \A k \in {"active", "resolved"} : ToCome(i, k) => ToCome(i, k)'
      BY <1>11, <2>2 DEF Kind
    <3> QED BY <1>1, <1>2, <1>9, <1>12, <3>1, <3>2 DEF KnownInTime
  <2>3. CASE m \notin ToSet(seen) /\ m.kind = "resolved"
    <3>1. i \notin active_incident_locations'
      BY <1>4, <2>3 DEF known
    <3>2. Said(i, "resolved")' # {}
      BY <1>5, <1>9, <2>3
    <3> QED BY <3>1, <3>2 DEF KnownInTime
  <2>4. CASE m \notin ToSet(seen) /\ m.kind = "active"
    <3>1. i \in active_incident_locations'
      BY <1>4, <2>4 DEF known
    <3>2. node'[i] # "none"
      BY <1>1, <1>2, <1>3, <1>5 DEF NewsIsTrue
    <3>3. ASSUME NEW p \in Said(i, "resolved"), p < h PROVE Misordered(i)
      <4>1. DOMAIN log[i] = 1..Len(log[i])
        BY <1>1 DEF RestrictionTypes
      <4>2. log[i][h].kind = "active" /\ h \in 1..Len(log[i])
        BY <1>3, <2>4 DEF m
      <4>3. p \in 1..Len(log[i]) /\ log[i][p].kind = "resolved"
        BY <3>3 DEF Said
      <4> QED BY <3>3, <4>1, <4>2, <4>3 DEF Misordered
    <3>4. ASSUME node'[i] = "resolved" PROVE ToCome(i, "resolved")' \/ Misordered(i)' \/ i \in lost'
      <4>1. unsent[i]["resolved"] > 0 \/ Said(i, "resolved") # {} \/ i \in lost
        BY <1>1, <1>2, <3>4 DEF NewsIsTrue
      <4>2. CASE unsent[i]["resolved"] > 0
        BY <1>2, <4>2 DEF ToCome
      <4>3. ASSUME NEW p \in Said(i, "resolved") PROVE ToCome(i, "resolved")' \/ Misordered(i)
        <5>1. p \in 1..Len(log[i]) /\ log[i][p].kind = "resolved" /\ log[i][p].incident = i /\ p \in Nat
          BY <1>1 DEF Said, RestrictionTypes
        <5>2. p # h /\ log[i][p] # m
          BY <2>4, <5>1 DEF m
        <5>3. CASE p < h
          BY <3>3, <5>3
        <5>4. CASE log[i][p] \in ToSet(seen)
          <6>1. PICK q \in 1..Len(log[i]) : q <= handled[i] /\ log[i][q] = log[i][p]
            BY <5>1, <5>4 DEF RInv, SeenIsHandled
          <6>2. q \in Said(i, "resolved") /\ q < h
            BY <1>3, <5>1, <6>1 DEF Said
          <6> QED BY <3>3, <6>2
        <5>5. CASE p > h /\ log[i][p] \notin ToSet(seen)
          <6>1. log[i][p] \notin ToSet(seen')
            BY <1>6, <5>2, <5>5
          <6> QED BY <1>2, <1>3, <1>9, <5>5, <6>1 DEF ToCome
        <5> QED BY <1>3, <5>1, <5>2, <5>3, <5>4, <5>5
      <4> QED BY <1>2, <1>9, <4>1, <4>2, <4>3
    <3> QED BY <3>1, <3>2, <3>4 DEF KnownInTime
  <2> QED BY <1>3, <2>1, <2>2, <2>3, <2>4 DEF Kind
<1>15. ClosedByAll'
  <2>1. ByWeather' = ByWeather
    BY <1>2 DEF ByWeather
  <2>2. CASE m \in ToSet(seen)
    BY <1>4, <2>1, <2>2 DEF RInv, ClosedByAll
  <2>3. CASE m \notin ToSet(seen)
    BY <1>4, <2>1, <2>3 DEF RInv, ClosedByAll
  <2> QED BY <2>2, <2>3
<1> QED BY <1>8, <1>9, <1>10, <1>13, <1>14, <1>15 DEF RInv

LEMMA WeatherKeeps == ASSUME RInv, NEW impact \in Impact, _on_weather_changed(impact) PROVE RInv'
<1>1. /\ weather_affected_runways' = ClosedBy[impact] /\ heard' = impact
      /\ incident_affected_runways' = Restricted(active_incident_locations, ClosedBy[impact])
      /\ UNCHANGED <<node, decided, unsent, log, lost, handled, seen, active_incident_locations, rebuilt>>
  BY DEF _on_weather_changed, Refresh, newsVars
<1>2. RestrictionTypes'
  BY <1>1 DEF RInv, RestrictionTypes
<1>3. SeenIsHandled'
  BY <1>1 DEF RInv, SeenIsHandled
<1>4. \A j \in Incident : NewsIsTrue(j)' /\ KnownInTime(j)'
  BY <1>1, OthersKeep DEF RInv
<1>5. ClosedByAll'
  <2>1. impact # "unknown"
    BY DEF Impact
  <2> QED BY <1>1, <2>1 DEF ClosedByAll, ByWeather
<1> QED BY <1>2, <1>3, <1>4, <1>5 DEF RInv

LEMMA RestrictionsRestartKeep == ASSUME RInv, RestartFlightService PROVE RInv'
<1>1. /\ seen' = <<>> /\ heard' = "unknown" /\ weather_affected_runways' = {}
      /\ active_incident_locations' = IF rebuilt' THEN Open ELSE {}
      /\ incident_affected_runways' = Restricted(active_incident_locations', {})
      /\ UNCHANGED <<node, decided, unsent, log, lost>>
  BY DEF RestartFlightService, Refresh, newsVars, get_active_incident_impacts
<1>2. PICK committed \in [Incident -> 0..Longest] :
        (\A i \in Incident : committed[i] <= Len(log[i])) /\ handled' = committed
  BY DEF RestartFlightService
<1>3. handled' \in [Incident -> Nat] /\ \A i \in Incident : handled'[i] <= Len(log[i])
  <2>1. \A i \in Incident : committed[i] \in Nat
    <3> HIDE DEF Longest
    <3> QED BY <1>2
  <2> QED BY <1>2, <2>1
<1>4. Open \in SUBSET Incident
  BY DEF Open
<1>5. RestrictionTypes'
  BY <1>1, <1>3, <1>4 DEF RInv, RestrictionTypes
<1>6. SeenIsHandled'
  BY <1>1 DEF SeenIsHandled, ToSet
<1>7. \A j \in Incident : NewsIsTrue(j)' /\ KnownInTime(j)'
  <2>1. \A j \in Incident : NewsIsTrue(j)'
    BY <1>1 DEF RInv, NewsIsTrue, Said
  <2>2. \A j \in Incident : j \in active_incident_locations' => j \in Open /\ node[j] \notin {"none", "resolved"}
    BY <1>1 DEF Open
  <2>3. Open' = Open
    BY <1>1 DEF Open
  <2> QED BY <1>1, <2>1, <2>2, <2>3 DEF KnownInTime
<1>8. ClosedByAll'
  BY <1>1 DEF ClosedByAll, ByWeather
<1> QED BY <1>5, <1>6, <1>7, <1>8 DEF RInv

LEMMA RestrictionsStep == RInv /\ [RestrictionsNext]_restrictionVars => RInv'
<1> SUFFICES ASSUME RInv, [RestrictionsNext]_restrictionVars PROVE RInv'
  OBVIOUS
<1>1. CASE IncidentsChange
  <2>1. NewsNext /\ UNCHANGED <<handled, memoryVars, heard, rebuilt>>
    BY <1>1 DEF IncidentsChange
  <2>2. PICK i \in Incident :
          \/ CreateIncident(i)
          \/ \E new \in {"contained", "resolved"} : ReadStatus(i, new) \/ ChangeStatus(i, new)
          \/ \E kind \in Kind : Announce(i, kind) \/ Lose(i, kind)
    BY <2>1 DEF NewsNext
  <2>3. {"contained", "resolved"} \subseteq Kind
    BY DEF Kind
  <2> QED BY <2>1, <2>2, <2>3, CreateKeeps, ReadKeeps, ChangeKeeps, AnnounceKeeps, LoseKeeps
<1>2. ASSUME NEW i \in Incident, WriteAgain(i) \/ Dispatch(i) PROVE RInv'
  BY <1>2, WriteAgainKeeps, DispatchKeeps
<1>3. CASE RestartFlightService
  BY <1>3, RestrictionsRestartKeep
<1>4. ASSUME NEW impact \in Impact, _on_weather_changed(impact) PROVE RInv'
  BY <1>4, WeatherKeeps
<1>5. CASE UNCHANGED restrictionVars
  <2>1. UNCHANGED <<node, decided, unsent, log, lost, handled, seen, active_incident_locations,
                    weather_affected_runways, incident_affected_runways, heard, rebuilt>>
    BY <1>5 DEF restrictionVars, newsVars
  <2>2. RestrictionTypes' /\ SeenIsHandled' /\ ClosedByAll'
    BY <2>1 DEF RInv, RestrictionTypes, SeenIsHandled, ClosedByAll, ByWeather
  <2>3. \A i \in Incident : NewsIsTrue(i)' /\ KnownInTime(i)'
    BY <2>1, OthersKeep DEF RInv
  <2> QED BY <2>2, <2>3 DEF RInv
<1> QED BY <1>1, <1>2, <1>3, <1>4, <1>5 DEF RestrictionsNext

(* Once its announcements are handled, an open incident closes its place;  *)
(* what the weather closes is closed; and nothing else stays closed, but   *)
(* for an incident of which an announcement is missing, the creation was   *)
(* written after the resolution, or the resolution was overwritten.        *)
THEOREM RestrictionsMatchProved == RestrictionsSpec => []RestrictionsMatch
<1>1. RInv => RestrictionsMatch
  <2> SUFFICES ASSUME RInv PROVE RestrictionsMatch
    OBVIOUS
  <2>1. ASSUME NEW i \in Incident, Settled(i, handled)
        PROVE  /\ \A k \in Kind : ~ToCome(i, k) /\ ~(unsent[i][k] > 0)
               /\ i \notin lost /\ ~Misordered(i) /\ (i \in Open => Said(i, "resolved") = {})
    <3>1. /\ unsent[i] = NoTask /\ handled[i] = Len(log[i]) /\ Len(log[i]) \in Nat
          /\ ~Misordered(i) /\ ~Revived(i) /\ i \notin lost /\ DOMAIN log[i] = 1..Len(log[i])
      BY <2>1 DEF Settled, RInv, RestrictionTypes
    <3>2. \A k \in Kind : ~(unsent[i][k] > 0)
      BY <3>1 DEF NoTask
    <3>3. \A k \in Kind : ~ToCome(i, k)
      BY <3>1, <3>2 DEF ToCome, Said
    <3>4. i \in Open => Said(i, "resolved") = {}
      BY <3>1 DEF Said, Revived, Logged
    <3> QED BY <3>1, <3>2, <3>3, <3>4
  <2>2. incident_affected_runways = ByWeather \cup {LocationOf[j] : j \in active_incident_locations}
    BY DEF RInv, ClosedByAll, Restricted, Places
  <2>3. \A i \in Open : rebuilt /\ Settled(i, handled) => LocationOf[i] \in incident_affected_runways
    <3>1. \A i \in Open : i \in Incident
      BY DEF Open
    <3>2. ASSUME NEW i \in Open, rebuilt, Settled(i, handled) PROVE i \in active_incident_locations
      BY <2>1, <3>1, <3>2 DEF RInv, KnownInTime, Kind
    <3> QED BY <2>2, <3>2
  <2>4. ASSUME NEW j \in active_incident_locations PROVE j \in Incident /\ (j \in Open \/ ~Settled(j, handled))
    <3>1. j \in Incident /\ node[j] \in {"none"} \cup Kind
      BY DEF RInv, RestrictionTypes
    <3>2. node[j] # "none" /\ (node[j] = "resolved" => ToCome(j, "resolved") \/ Misordered(j) \/ j \in lost)
      BY <3>1 DEF RInv, KnownInTime
    <3>3. CASE node[j] = "resolved"
      BY <2>1, <3>1, <3>2, <3>3 DEF Kind
    <3>4. CASE node[j] # "resolved"
      BY <3>1, <3>2, <3>4 DEF Kind, Open
    <3> QED BY <3>1, <3>3, <3>4
  <2> QED BY <2>2, <2>3, <2>4 DEF RestrictionsMatch, Places
<1> QED BY <1>1, RestrictionsStart, RestrictionsStep, PTL DEF RestrictionsSpec
-----------------------------------------------------------------------------
(* Turnaround.  FoldSet and FoldLeft are recursive functions: the first    *)
(* lemmas say that such a function exists and what its steps keep.         *)

(* A fold over the finite set S takes the elements as pick says: its       *)
(* function w gives the fold of every part of S.                           *)
Picks(S, pick) == IsFiniteSet(S) /\ \A s \in SUBSET S : s # {} => pick[s] \in s
FoldOf(S, pick, base, F, w) ==
  /\ \E V : w \in [SUBSET S -> V]
  /\ w[{}] = base
  /\ \A s \in SUBSET S : s # {} => w[s] = F[s][w[s \ {pick[s]}]]

(* What holds of the fold of the empty set and passes from a part of the   *)
(* set to a larger one holds of the fold.                                  *)
LEMMA FoldKept ==
  ASSUME NEW S, NEW pick, Picks(S, pick),
         NEW w, NEW GG, w[{}] \in GG[{}],
         \A s \in SUBSET S : s # {} /\ w[s \ {pick[s]}] \in GG[s \ {pick[s]}] => w[s] \in GG[s]
  PROVE  \A s \in SUBSET S : w[s] \in GG[s]
<1> DEFINE Bad == {s \in SUBSET S : w[s] \notin GG[s]}
           T == {Cardinality(s) : s \in Bad}
<1> SUFFICES ASSUME Bad # {} PROVE FALSE
  OBVIOUS
<1>1. \A s \in SUBSET S : IsFiniteSet(s) /\ Cardinality(s) \in Nat
  BY FS_Subset, FS_CardinalityType DEF Picks
<1>2. T \subseteq Nat /\ T # {}
  BY <1>1
<1>3. PICK n \in T : \A m \in T : n <= m
  <2> HIDE DEF T
  <2> QED BY <1>2, LeastNat
<1>4. PICK s \in Bad : n = Cardinality(s)
  OBVIOUS
<1>5. s # {}
  OBVIOUS
<1> DEFINE p == s \ {pick[s]}
<1>6. p \in SUBSET S /\ Cardinality(p) = Cardinality(s) - 1
  BY <1>1, <1>5, FS_RemoveElement DEF Picks
<1>7. p \notin Bad
  <2>1. Cardinality(s) \in Nat /\ ~(Cardinality(s) <= Cardinality(p))
    BY <1>1, <1>6
  <2>2. p \in Bad => Cardinality(p) \in T
    OBVIOUS
  <2> HIDE DEF T, Bad, p
  <2> QED BY <1>3, <1>4, <2>1, <2>2
<1> QED BY <1>4, <1>5, <1>6, <1>7

(* The recursive function of a fold exists.                                *)
LEMMA FoldExists ==
  ASSUME NEW S, NEW pick, Picks(S, pick),
         NEW base, NEW F
  PROVE  \E w : FoldOf(S, pick, base, F, w)
<1> DEFINE Upto(n) == {s \in SUBSET S : Cardinality(s) <= n}
           Works(w, n) == w = [s \in Upto(n) |-> IF s = {} THEN base ELSE F[s][w[s \ {pick[s]}]]]
           T == {n \in Nat : ~ \E w : Works(w, n)}
<1>1. \A s \in SUBSET S : IsFiniteSet(s) /\ Cardinality(s) \in Nat /\ Cardinality(s) <= Cardinality(S)
  BY FS_Subset, FS_CardinalityType DEF Picks
<1>2. \A s \in SUBSET S : s # {} => Cardinality(s \ {pick[s]}) = Cardinality(s) - 1 /\ s \ {pick[s]} \in SUBSET S
  BY <1>1, FS_RemoveElement DEF Picks
<1>3. \A s \in SUBSET S : Cardinality(s) = 0 => s = {}
  BY <1>1, FS_EmptySet
<1>4. T = {}
  <2> SUFFICES ASSUME T # {} PROVE FALSE
    OBVIOUS
  <2>1. PICK n \in T : \A m \in T : n <= m
    <3>1. T \subseteq Nat
      OBVIOUS
    <3> HIDE DEF T
    <3> QED BY <3>1, LeastNat
  <2>2. n \in Nat /\ ~ \E w : Works(w, n)
    OBVIOUS
  <2>3. CASE n = 0
    <3> DEFINE w == [s \in Upto(0) |-> base]
    <3>1. \A s \in Upto(0) : s = {}
      BY <1>1, <1>3
    <3>2. w = [s \in Upto(0) |-> IF s = {} THEN base ELSE F[s][w[s \ {pick[s]}]]]
      BY <3>1
    <3> QED BY <2>2, <2>3, <3>2
  <2>4. CASE n # 0
    <3>1. n - 1 \in Nat /\ n - 1 \notin T
      <4>1. n \in Nat /\ n - 1 \in Nat /\ ~(n <= n - 1)
        BY <2>2, <2>4
      <4>2. n - 1 \notin T
        <5> HIDE DEF T
        <5> QED BY <2>1, <4>1
      <4> QED BY <4>1, <4>2
    <3>2. PICK v : Works(v, n - 1)
      BY <3>1
    <3> DEFINE w == [s \in Upto(n) |-> IF s = {} THEN base ELSE F[s][v[s \ {pick[s]}]]]
    <3>3. \A s \in Upto(n - 1) : v[s] = IF s = {} THEN base ELSE F[s][v[s \ {pick[s]}]]
      <4>1. v = [s \in Upto(n - 1) |-> IF s = {} THEN base ELSE F[s][v[s \ {pick[s]}]]]
        BY <3>2
      <4> HIDE DEF Upto
      <4> QED BY <4>1
    <3>4. \A s \in Upto(n - 1) : s \in Upto(n) /\ w[s] = v[s]
      <4>1. \A s \in Upto(n - 1) : s \in Upto(n)
        BY <1>1, <2>2, <3>1
      <4> HIDE DEF Upto
      <4> QED BY <3>3, <4>1
    <3>5. \A s \in Upto(n) : s # {} => s \ {pick[s]} \in Upto(n - 1)
      BY <1>1, <1>2, <2>2
    <3>6. \A s \in Upto(n) : w[s] = IF s = {} THEN base ELSE F[s][w[s \ {pick[s]}]]
      <4> HIDE DEF Upto
      <4> QED BY <3>4, <3>5
    <3>7. w = [s \in Upto(n) |-> IF s = {} THEN base ELSE F[s][w[s \ {pick[s]}]]]
      <4> HIDE DEF Upto
      <4>1. w = [s \in Upto(n) |-> w[s]]
        OBVIOUS
      <4> HIDE DEF w
      <4> QED BY <3>6, <4>1
    <3> QED BY <2>2, <3>7
  <2> QED BY <2>3, <2>4
<1>5. Cardinality(S) \in Nat /\ Upto(Cardinality(S)) = SUBSET S
  BY <1>1
<1>6. PICK w : Works(w, Cardinality(S))
  BY <1>4, <1>5
<1>7. w = [s \in SUBSET S |-> IF s = {} THEN base ELSE F[s][w[s \ {pick[s]}]]]
  BY <1>5, <1>6
<1>8. w[{}] = base /\ \A s \in SUBSET S : s # {} => w[s] = F[s][w[s \ {pick[s]}]]
  BY <1>7
<1> DEFINE V == {w[s] : s \in SUBSET S}
<1>9. w \in [SUBSET S -> V]
  BY <1>7
<1> HIDE DEF V
<1> QED BY <1>8, <1>9 DEF FoldOf

(* Both: the recursive function exists, and holds what its steps keep.     *)
LEMMA FoldWorks ==
  ASSUME NEW S, NEW pick, Picks(S, pick),
         NEW base, NEW F, NEW GG, base \in GG[{}],
         \A s \in SUBSET S : s # {} => \A k \in GG[s \ {pick[s]}] : F[s][k] \in GG[s]
  PROVE  \E w : FoldOf(S, pick, base, F, w) /\ \A s \in SUBSET S : w[s] \in GG[s]
<1>1. PICK w : FoldOf(S, pick, base, F, w)
  BY FoldExists
<1>2. w[{}] = base /\ \A s \in SUBSET S : s # {} => w[s] = F[s][w[s \ {pick[s]}]]
  BY <1>1 DEF FoldOf
<1>3. w[{}] \in GG[{}]
  BY <1>2
<1>4. \A s \in SUBSET S : s # {} /\ w[s \ {pick[s]}] \in GG[s \ {pick[s]}] => w[s] \in GG[s]
  BY <1>2
<1>5. \A s \in SUBSET S : w[s] \in GG[s]
  BY <1>3, <1>4, FoldKept
<1> QED BY <1>1, <1>5

Served == DOMAIN VEHICLE_TASK_MAP
TaskState ==
  [status : {"pending", "in_progress", "completed"}, duration : Nat \ {0},
   started_at : Int, completed_at : Int]
PlanState == [started_at : Int, task : [Task -> TaskState]]
VehicleState ==
  [status : {"available", "dispatched", "at_gate", "returning"}, arrives_at : {NotYet} \cup Nat,
   serves : (Aircraft \X Task) \cup {NoOwner}]
Ground ==
  [turnaround_plans : Seq(Aircraft), plan : UNION {[D -> PlanState] : D \in SUBSET Aircraft},
   vehicle : [Vehicle -> VehicleState], pending_requests : Seq(Aircraft \X Served),
   task_vehicles : UNION {[D -> Vehicle] : D \in SUBSET (Aircraft \X Task)}]

(* Every vehicle that a task has is its own, and the task is in progress   *)
(* but for those in X.                                                     *)
Own(g, X) ==
  \A o \in DOMAIN g.task_vehicles :
    /\ g.vehicle[g.task_vehicles[o]].serves = o
    /\ g.vehicle[g.task_vehicles[o]].status \in {"dispatched", "at_gate"}
    /\ o[1] \in DOMAIN g.plan
    /\ o \in X \/ g.plan[o[1]].task[o[2]].status = "in_progress"
Sound(g, X) ==
  /\ g \in Ground /\ IsInjective(g.turnaround_plans)
  /\ DOMAIN g.plan = ToSet(g.turnaround_plans) /\ Own(g, X)

(* A plan up to minute m: no task starts before or after it may, or ends   *)
(* before or after it is over; a task that is finished may be extended.    *)
TaskOnTime(p, t, m) ==
  /\ p.task[t].status = "pending" => \E d \in starts_after[t] : ~Done(p, d)
  /\ p.task[t].status # "pending" =>
       /\ p.started_at <= p.task[t].started_at
       /\ \A d \in starts_after[t] : Done(p, d) /\ p.task[d].completed_at <= p.task[t].started_at
       /\ \/ p.task[t].started_at = p.started_at
          \/ \E d \in starts_after[t] : p.task[t].started_at = p.task[d].completed_at
  /\ p.task[t].status = "in_progress" => m < p.task[t].started_at + p.task[t].duration
  /\ Done(p, t) => /\ p.task[t].completed_at <= m
                   /\ p.task[t].completed_at <= p.task[t].started_at + p.task[t].duration
OnTime(p, m) == \A t \in Task : TaskOnTime(p, t, m)

(* The same but for tasks that take longer.                                *)
Slower(p, o) ==
  /\ o.started_at = p.started_at
  /\ \A t \in Task :
       /\ o.task[t].status = p.task[t].status /\ o.task[t].started_at = p.task[t].started_at
       /\ o.task[t].completed_at = p.task[t].completed_at
       /\ o.task[t].duration >= p.task[t].duration
AllSlower(g, h) ==
  /\ h.turnaround_plans = g.turnaround_plans
  /\ DOMAIN h.plan = DOMAIN g.plan /\ \A r \in DOMAIN g.plan : Slower(g.plan[r], h.plan[r])

(* The tasks are finitely many and only wait for each other, and those     *)
(* with a vehicle are tasks.                                               *)
LEMMA TaskGraph ==
  /\ IsFiniteSet(Task) /\ \A t \in Task : starts_after[t] \subseteq Task
  /\ Served \subseteq Task /\ \A t \in Served : VEHICLE_TASK_MAP[t] \in VehicleTypes
<1>1. IsFiniteSet(Task)
  <2>1. \A S, x : IsFiniteSet(S) => IsFiniteSet(S \cup {x})
    BY FS_AddElement
  <2>2. IsFiniteSet({})
    BY FS_EmptySet
  <2>3. IsFiniteSet({} \cup {"jetbridge_connect"} \cup {"deplaning"} \cup {"baggage_offload"} \cup {"fueling"}
                      \cup {"catering"} \cup {"cleaning"} \cup {"baggage_loading"} \cup {"boarding"}
                      \cup {"door_close"} \cup {"pushback"})
    BY <2>1, <2>2, Zenon
  <2>4. Task = {} \cup {"jetbridge_connect"} \cup {"deplaning"} \cup {"baggage_offload"} \cup {"fueling"}
                      \cup {"catering"} \cup {"cleaning"} \cup {"baggage_loading"} \cup {"boarding"}
                      \cup {"door_close"} \cup {"pushback"}
    BY DEF Task
  <2> QED BY <2>3, <2>4
<1>2. \A t \in Task : starts_after[t] \subseteq Task
  BY DEF Task, starts_after
<1>3. Served \subseteq Task /\ \A t \in Served : VEHICLE_TASK_MAP[t] \in VehicleTypes
  BY DEF Task, Served, VEHICLE_TASK_MAP, VehicleTypes
<1> QED BY <1>1, <1>2, <1>3

(* The dictionaries of the consumer, as functions.                         *)
LEMMA InGround ==
  ASSUME NEW g \in Ground
  PROVE  /\ DOMAIN g.plan \subseteq Aircraft /\ g.plan \in [DOMAIN g.plan -> PlanState]
         /\ DOMAIN g.task_vehicles \subseteq Aircraft \X Task
         /\ g.task_vehicles \in [DOMAIN g.task_vehicles -> Vehicle]
         /\ g.vehicle \in [Vehicle -> VehicleState]
<1>1. PICK D \in SUBSET Aircraft : g.plan \in [D -> PlanState]
  BY DEF Ground
<1>2. PICK E \in SUBSET (Aircraft \X Task) : g.task_vehicles \in [E -> Vehicle]
  BY DEF Ground
<1> QED BY <1>1, <1>2 DEF Ground

(* Longer tasks keep a plan on time: what is in progress ends later, what  *)
(* is over has taken no more than that.                                    *)
LEMMA SlowerOnTime ==
  ASSUME NEW p \in PlanState, NEW o \in PlanState, Slower(p, o), NEW m \in Int, OnTime(p, m)
  PROVE  OnTime(o, m)
<1> SUFFICES ASSUME NEW t \in Task PROVE TaskOnTime(o, t, m)
  BY DEF OnTime
<1>1. /\ TaskOnTime(p, t, m) /\ o.started_at = p.started_at
      /\ \A d \in Task : /\ o.task[d].status = p.task[d].status
                         /\ o.task[d].started_at = p.task[d].started_at
                         /\ o.task[d].completed_at = p.task[d].completed_at
      /\ o.task[t].duration >= p.task[t].duration
  BY DEF OnTime, Slower
<1>2. /\ p.task[t].started_at \in Int /\ p.task[t].duration \in Nat /\ o.task[t].duration \in Nat
      /\ p.task[t].completed_at \in Int
  BY DEF PlanState, TaskState
<1>3. starts_after[t] \subseteq Task
  BY TaskGraph
<1>4. \A d \in starts_after[t] : Done(o, d) <=> Done(p, d)
  BY <1>1, <1>3 DEF Done
<1>5. Done(o, t) <=> Done(p, t)
  BY <1>1 DEF Done
<1> QED BY <1>1, <1>2, <1>3, <1>4, <1>5 DEF TaskOnTime

(* Longer and longer again.                                                *)
LEMMA SlowerThanSlow ==
  ASSUME NEW g \in Ground, NEW h \in Ground, NEW k \in Ground, AllSlower(g, h), AllSlower(h, k)
  PROVE  AllSlower(g, k)
<1>1. \A r \in DOMAIN g.plan : g.plan[r] \in PlanState /\ h.plan[r] \in PlanState /\ k.plan[r] \in PlanState
  BY InGround DEF AllSlower
<1>2. \A p, q, o \in PlanState : Slower(p, q) /\ Slower(q, o) => Slower(p, o)
  BY DEF Slower, PlanState, TaskState
<1> QED BY <1>1, <1>2 DEF AllSlower

(* No task longer.                                                         *)
LEMMA NoSlower == \A g \in Ground : AllSlower(g, g)
<1> SUFFICES ASSUME NEW g \in Ground PROVE AllSlower(g, g)
  OBVIOUS
<1>1. \A r \in DOMAIN g.plan : g.plan[r] \in PlanState
  BY InGround
<1>2. \A p \in PlanState : Slower(p, p)
  BY DEF Slower, PlanState, TaskState
<1> QED BY <1>1, <1>2 DEF AllSlower

(* extend_task: the task takes longer, and nothing else changes.           *)
LEMMA Extended ==
  ASSUME NEW X, NEW g, Sound(g, X), NEW r \in DOMAIN g.plan, NEW t \in Task, NEW minutes \in Nat
  PROVE  LET h == extend_task(g, r, t, minutes)
         IN  /\ Sound(h, X) /\ AllSlower(g, h)
             /\ h.vehicle = g.vehicle /\ h.pending_requests = g.pending_requests
             /\ h.task_vehicles = g.task_vehicles
<1> DEFINE h == extend_task(g, r, t, minutes)
           p == [g.plan[r] EXCEPT !.task[t].duration = @ + minutes]
<1>1. g \in Ground
  BY DEF Sound
<1>2. /\ g.plan \in [DOMAIN g.plan -> PlanState] /\ DOMAIN g.plan \subseteq Aircraft
      /\ g.plan[r] \in PlanState
  BY <1>1, InGround
<1>3. p \in PlanState /\ Slower(g.plan[r], p)
  <2> DEFINE o == g.plan[r]
             k == [o.task[t] EXCEPT !.duration = @ + minutes]
  <2>1. o \in PlanState /\ o.task \in [Task -> TaskState] /\ o.task[t] \in TaskState
    BY <1>2 DEF PlanState
  <2>2. /\ k \in TaskState /\ k.status = o.task[t].status /\ k.started_at = o.task[t].started_at
        /\ k.completed_at = o.task[t].completed_at /\ k.duration >= o.task[t].duration
    BY <2>1 DEF TaskState
  <2>3. \A d \in Task : o.task[d].duration \in Nat /\ o.task[d].duration >= o.task[d].duration
    BY <2>1 DEF TaskState
  <2>4. p = [o EXCEPT !.task = [o.task EXCEPT ![t] = k]]
    BY <2>1 DEF PlanState
  <2> HIDE DEF o, k, p
  <2>5. p \in PlanState /\ p.started_at = o.started_at /\ p.task = [o.task EXCEPT ![t] = k]
    BY <2>1, <2>2, <2>4 DEF PlanState
  <2>6. Slower(o, p)
    BY <2>1, <2>2, <2>3, <2>5 DEF Slower
  <2> QED BY <2>5, <2>6 DEF o
<1>4. \A q \in PlanState : Slower(q, q)
  BY DEF PlanState, TaskState, Slower
<1>5. /\ h = [g EXCEPT !.plan = [g.plan EXCEPT ![r] = p]]
      /\ h.plan = [g.plan EXCEPT ![r] = p] /\ h.turnaround_plans = g.turnaround_plans
      /\ h.vehicle = g.vehicle /\ h.pending_requests = g.pending_requests
      /\ h.task_vehicles = g.task_vehicles
  BY <1>1, <1>2 DEF extend_task, Ground
<1> HIDE DEF p
<1>6. /\ DOMAIN h.plan = DOMAIN g.plan /\ h.plan \in [DOMAIN g.plan -> PlanState]
      /\ \A q \in DOMAIN g.plan : h.plan[q] = IF q = r THEN p ELSE g.plan[q]
  BY <1>2, <1>3, <1>5
<1>7. h \in Ground
  <2>1. h.plan \in UNION {[D -> PlanState] : D \in SUBSET Aircraft}
    BY <1>2, <1>6
  <2> QED BY <1>1, <1>5, <2>1 DEF Ground
<1> HIDE DEF h
<1>8. \A q \in DOMAIN g.plan : Slower(g.plan[q], h.plan[q])
  BY <1>2, <1>3, <1>4, <1>6
<1>9. AllSlower(g, h)
  BY <1>5, <1>6, <1>8 DEF AllSlower
<1>10. Own(h, X)
  <2>1. \A o \in DOMAIN g.task_vehicles : o[1] \in DOMAIN g.plan /\ o[2] \in Task
    BY <1>1, InGround DEF Sound, Own
  <2>2. \A q \in DOMAIN g.plan, d \in Task : h.plan[q].task[d].status = g.plan[q].task[d].status
    BY <1>8 DEF Slower
  <2>3. Own(g, X)
    BY DEF Sound
  <2> QED BY <1>5, <1>6, <2>1, <2>2, <2>3 DEF Own
<1> QED BY <1>5, <1>6, <1>7, <1>9, <1>10 DEF h, Sound

(* _request_vehicle: the vehicle was free, so no other task has it.        *)
LEMMA Asked ==
  ASSUME NEW g, Sound(g, {}), NEW r \in DOMAIN g.plan, NEW t \in Served, NEW now \in Nat,
         g.plan[r].task[t].status = "in_progress", TurnaroundAssumption
  PROVE  LET h == Request(g, r, t, now) IN Sound(h, {}) /\ AllSlower(g, h)
<1> DEFINE free == Available(g, VEHICLE_TASK_MAP[t])
           v == CHOOSE x \in free : TRUE
           e == extend_task(g, r, t, TransitMinutes)
           f == extend_task(g, r, t, 5)
           a == [e EXCEPT !.vehicle[v] = Dispatched(Owner(r, t), now),
                          !.task_vehicles = With(@, Owner(r, t), v)]
           b == [f EXCEPT !.pending_requests = Append(@, Owner(r, t))]
<1>1. g \in Ground /\ t \in Task /\ r \in Aircraft /\ TransitMinutes \in Nat
  BY InGround, TaskGraph DEF Sound, TurnaroundAssumption
<1>2. /\ Sound(e, {}) /\ AllSlower(g, e) /\ e.vehicle = g.vehicle
      /\ e.pending_requests = g.pending_requests /\ e.task_vehicles = g.task_vehicles
  BY <1>1, Extended
<1>3. /\ Sound(f, {}) /\ AllSlower(g, f) /\ f.vehicle = g.vehicle
      /\ f.pending_requests = g.pending_requests /\ f.task_vehicles = g.task_vehicles
  BY <1>1, Extended
<1>4. Request(g, r, t, now) = IF free # {} THEN a ELSE b
  BY DEF Request
<1>5. e \in Ground /\ f \in Ground
  BY <1>2, <1>3 DEF Sound
<1>6. Owner(r, t) = <<r, t>> /\ Owner(r, t) \in Aircraft \X Task /\ Owner(r, t) \in Aircraft \X Served
  BY <1>1 DEF Owner
<1> HIDE DEF e, f
<1>7. CASE free # {}
  <2>1. v \in Vehicle /\ g.vehicle[v].status = "available"
    BY <1>7 DEF Available
  <2>2. Dispatched(Owner(r, t), now) \in VehicleState
    <3>1. now + TransitMinutes \in Nat
      BY <1>1
    <3> QED BY <1>6, <3>1 DEF Dispatched, VehicleState
  <2>3. /\ a.turnaround_plans = e.turnaround_plans /\ a.plan = e.plan
        /\ a.pending_requests = e.pending_requests
        /\ a.vehicle = [e.vehicle EXCEPT ![v] = Dispatched(Owner(r, t), now)]
        /\ a.task_vehicles = With(g.task_vehicles, Owner(r, t), v)
        /\ DOMAIN a = DOMAIN e
    BY <1>2, <1>5 DEF Ground
  <2>4. /\ g.task_vehicles \in [DOMAIN g.task_vehicles -> Vehicle]
        /\ DOMAIN g.task_vehicles \subseteq Aircraft \X Task
        /\ g.vehicle \in [Vehicle -> VehicleState]
    BY <1>1, InGround
  <2>5. /\ DOMAIN a.task_vehicles = DOMAIN g.task_vehicles \cup {Owner(r, t)}
        /\ \A o \in DOMAIN a.task_vehicles :
             a.task_vehicles[o] = IF o = Owner(r, t) THEN v ELSE g.task_vehicles[o]
        /\ a.task_vehicles \in [DOMAIN a.task_vehicles -> Vehicle]
    <3> HIDE DEF a, v
    <3> QED BY <2>1, <2>3, <2>4 DEF With
  <2>6. a \in Ground
    <3>1. a.task_vehicles \in UNION {[D -> Vehicle] : D \in SUBSET (Aircraft \X Task)}
      <4> HIDE DEF a, v
      <4>1. DOMAIN a.task_vehicles \in SUBSET (Aircraft \X Task)
        BY <1>6, <2>4, <2>5
      <4> QED BY <2>5, <4>1
    <3>2. a.vehicle \in [Vehicle -> VehicleState]
      BY <1>2, <2>1, <2>2, <2>3, <2>4
    <3>3. /\ e.turnaround_plans \in Seq(Aircraft) /\ e.pending_requests \in Seq(Aircraft \X Served)
          /\ e.plan \in UNION {[D -> PlanState] : D \in SUBSET Aircraft}
      BY <1>5 DEF Ground
    <3> QED BY <1>5, <2>3, <3>1, <3>2, <3>3 DEF Ground
  <2>7. Own(a, {})
    <3> SUFFICES ASSUME NEW o \in DOMAIN a.task_vehicles
                 PROVE  /\ a.vehicle[a.task_vehicles[o]].serves = o
                        /\ a.vehicle[a.task_vehicles[o]].status \in {"dispatched", "at_gate"}
                        /\ o[1] \in DOMAIN a.plan /\ a.plan[o[1]].task[o[2]].status = "in_progress"
      BY DEF Own
    <3> HIDE DEF a, v, free
    <3>1. \A d \in Vehicle : a.vehicle[d] = IF d = v THEN Dispatched(Owner(r, t), now) ELSE g.vehicle[d]
      BY <1>2, <2>1, <2>3, <2>4
    <3>2. Own(e, {}) /\ DOMAIN e.plan = DOMAIN g.plan
      BY <1>2 DEF Sound, AllSlower
    <3>3. CASE o = Owner(r, t)
      <4>1. e.plan[r].task[t].status = g.plan[r].task[t].status
        BY <1>1, <1>2 DEF AllSlower, Slower
      <4>2. o[1] = r /\ o[2] = t
        BY <1>6, <3>3
      <4>3. a.vehicle[v] = Dispatched(o, now) /\ a.task_vehicles[o] = v
        BY <2>1, <2>5, <3>1, <3>3
      <4> QED BY <2>3, <3>2, <4>1, <4>2, <4>3 DEF Dispatched
    <3>4. CASE o # Owner(r, t)
      <4>1. o \in DOMAIN g.task_vehicles /\ a.task_vehicles[o] = g.task_vehicles[o]
        BY <2>5, <3>4
      <4>2. /\ g.vehicle[g.task_vehicles[o]].serves = o
            /\ g.vehicle[g.task_vehicles[o]].status \in {"dispatched", "at_gate"}
            /\ o[1] \in DOMAIN e.plan /\ e.plan[o[1]].task[o[2]].status = "in_progress"
        BY <1>2, <3>2, <4>1 DEF Own
      <4>3. g.task_vehicles[o] # v /\ g.task_vehicles[o] \in Vehicle
        BY <2>1, <2>4, <4>1, <4>2
      <4> QED BY <2>3, <3>1, <4>1, <4>2, <4>3
    <3> QED BY <3>3, <3>4
  <2>8. Sound(a, {}) /\ AllSlower(g, a)
    BY <1>2, <2>3, <2>6, <2>7 DEF Sound, AllSlower
  <2> QED BY <1>4, <1>7, <2>8
<1>8. CASE free = {}
  <2>1. /\ b.turnaround_plans = f.turnaround_plans /\ b.plan = f.plan /\ b.vehicle = f.vehicle
        /\ b.pending_requests = Append(f.pending_requests, Owner(r, t))
        /\ b.task_vehicles = f.task_vehicles
    BY <1>5 DEF Ground
  <2>2. b \in Ground
    <3>1. f.pending_requests \in Seq(Aircraft \X Served)
      BY <1>5 DEF Ground
    <3>2. Append(f.pending_requests, Owner(r, t)) \in Seq(Aircraft \X Served)
      BY <1>6, <3>1
    <3> QED BY <1>5, <3>2 DEF Ground
  <2> HIDE DEF b
  <2>3. Own(f, {}) /\ IsInjective(f.turnaround_plans) /\ DOMAIN f.plan = ToSet(f.turnaround_plans)
    BY <1>3 DEF Sound
  <2>4. Own(b, {})
    BY <2>1, <2>3 DEF Own
  <2>5. AllSlower(g, b)
    BY <1>3, <2>1 DEF AllSlower
  <2>6. Sound(b, {}) /\ AllSlower(g, b)
    BY <2>1, <2>2, <2>3, <2>4, <2>5 DEF Sound
  <2> QED BY <1>4, <1>8, <2>6
<1> QED BY <1>7, <1>8

(* release_vehicle: what is finished gives its vehicle back, so that every *)
(* vehicle left is that of a task in progress.                             *)
LEMMA Released ==
  ASSUME NEW g, NEW r, NEW finished, Sound(g, {Owner(r, t) : t \in finished}), NEW now \in Nat,
         TurnaroundAssumption
  PROVE  LET h == ReleaseVehicles(g, r, finished, now)
         IN  /\ Sound(h, {}) /\ h.turnaround_plans = g.turnaround_plans /\ h.plan = g.plan
<1> DEFINE h == ReleaseVehicles(g, r, finished, now)
           X == {Owner(r, t) : t \in finished}
           owners == X \cap DOMAIN g.task_vehicles
           leaving == {v \in {g.task_vehicles[o] : o \in owners} :
                         g.vehicle[v].status \in {"at_gate", "dispatched"}}
<1>1. g \in Ground /\ Own(g, X)
  BY DEF Sound
<1>2. /\ DOMAIN g.task_vehicles \subseteq Aircraft \X Task
      /\ g.task_vehicles \in [DOMAIN g.task_vehicles -> Vehicle]
      /\ g.vehicle \in [Vehicle -> VehicleState]
  BY <1>1, InGround
<1>3. /\ h.turnaround_plans = g.turnaround_plans /\ h.plan = g.plan
      /\ h.pending_requests = g.pending_requests
      /\ h.vehicle = [v \in Vehicle |-> IF v \in leaving THEN Returning(now) ELSE g.vehicle[v]]
      /\ h.task_vehicles = Restrict(g.task_vehicles, DOMAIN g.task_vehicles \ owners)
      /\ h = [g EXCEPT !.vehicle = h.vehicle, !.task_vehicles = h.task_vehicles]
  <2> HIDE DEF X
  <2> QED BY <1>1 DEF ReleaseVehicles, Ground, X
<1>4. Returning(now) \in VehicleState
  <2>1. now + TransitMinutes \in Nat
    BY DEF TurnaroundAssumption
  <2> QED BY <2>1 DEF Returning, VehicleState
<1>5. /\ DOMAIN h.task_vehicles = DOMAIN g.task_vehicles \ owners
      /\ \A o \in DOMAIN g.task_vehicles \ owners : h.task_vehicles[o] = g.task_vehicles[o]
      /\ h.task_vehicles \in [DOMAIN g.task_vehicles \ owners -> Vehicle]
  <2> HIDE DEF h, owners
  <2> QED BY <1>2, <1>3 DEF Restrict
<1>6. h.vehicle \in [Vehicle -> VehicleState]
  <2> HIDE DEF h, leaving
  <2> QED BY <1>2, <1>3, <1>4
<1>7. h \in Ground
  <2> HIDE DEF h, owners
  <2>1. h.task_vehicles \in UNION {[D -> Vehicle] : D \in SUBSET (Aircraft \X Task)}
    BY <1>2, <1>5
  <2> QED BY <1>1, <1>3, <1>6, <2>1 DEF Ground
<1>8. Own(h, {})
  <2> SUFFICES ASSUME NEW o \in DOMAIN h.task_vehicles
               PROVE  /\ h.vehicle[h.task_vehicles[o]].serves = o
                      /\ h.vehicle[h.task_vehicles[o]].status \in {"dispatched", "at_gate"}
                      /\ o[1] \in DOMAIN h.plan /\ h.plan[o[1]].task[o[2]].status = "in_progress"
    BY DEF Own
  <2>1. o \in DOMAIN g.task_vehicles /\ o \notin X /\ h.task_vehicles[o] = g.task_vehicles[o]
    <3> HIDE DEF h, X
    <3> QED BY <1>5
  <2>2. /\ g.vehicle[g.task_vehicles[o]].serves = o
        /\ g.vehicle[g.task_vehicles[o]].status \in {"dispatched", "at_gate"}
        /\ o[1] \in DOMAIN g.plan /\ g.plan[o[1]].task[o[2]].status = "in_progress"
    <3> HIDE DEF h, X
    <3> QED BY <1>1, <2>1 DEF Own
  <2>3. g.task_vehicles[o] \notin leaving
    <3> SUFFICES ASSUME g.task_vehicles[o] \in leaving PROVE FALSE
      OBVIOUS
    <3>1. PICK q \in owners : g.task_vehicles[o] = g.task_vehicles[q]
      OBVIOUS
    <3>2. q \in X /\ q \in DOMAIN g.task_vehicles /\ g.vehicle[g.task_vehicles[q]].serves = q
      <4> HIDE DEF X, h
      <4> QED BY <1>1, <3>1 DEF Own
    <3> QED BY <2>1, <2>2, <3>1, <3>2
  <2>4. h.vehicle[h.task_vehicles[o]] = g.vehicle[g.task_vehicles[o]]
    <3> HIDE DEF h, leaving
    <3> QED BY <1>2, <1>3, <2>1, <2>3
  <2> HIDE DEF h
  <2> QED BY <1>3, <2>2, <2>4
<1> HIDE DEF h
<1> QED BY <1>3, <1>7, <1>8 DEF Sound, h

(* _handle_task_vehicles: the vehicles that the starting tasks get are     *)
(* those of nobody else, and their tasks take longer.                      *)
LEMMA Handled ==
  ASSUME NEW g, NEW r \in DOMAIN g.plan, NEW finished, NEW started, started \subseteq Task,
         NEW now \in Nat, Sound(g, {Owner(r, t) : t \in finished}),
         \A t \in started : g.plan[r].task[t].status = "in_progress", TurnaroundAssumption
  PROVE  LET h == HandleVehicles(g, r, finished, started, now) IN Sound(h, {}) /\ AllSlower(g, h)
<1> DEFINE S == started \cap DOMAIN VEHICLE_TASK_MAP
           base == ReleaseVehicles(g, r, finished, now)
           Pick(s) == CHOOSE x \in s : TRUE
           One(x, z) == Eager(LAMBDA y : Request(y, r, x, now), z)
           It(w) == w = [s \in SUBSET S |->
                      IF s = {} THEN base ELSE LET x == Pick(s) IN One(x, w[s \ {x}])]
           it == CHOOSE w : It(w)
<1>1. HandleVehicles(g, r, finished, started, now) = it[S]
  BY Zenon DEF HandleVehicles, FoldSet, MapThenFoldSet
<1>2. \A x, z : One(x, z) = Request(z, r, x, now)
  BY DEF Eager
<1> DEFINE pick == [s \in SUBSET S |-> Pick(s)]
           U == {k \in Ground : Sound(k, {}) /\ AllSlower(g, k)}
           F == [s \in SUBSET S |-> [k \in U |-> One(Pick(s), k)]]
           GG == [s \in SUBSET S |-> U]
<1>3. IsFiniteSet(S) /\ S \subseteq started /\ S \subseteq Task /\ S \subseteq Served
  BY TaskGraph, FS_Subset DEF Served
<1>4. g \in Ground /\ \A t \in S : g.plan[r].task[t].status = "in_progress"
  BY <1>3 DEF Sound
<1>5. base \in U
  <2>1. Sound(base, {}) /\ base.plan = g.plan /\ base.turnaround_plans = g.turnaround_plans
    BY Released
  <2> HIDE DEF base
  <2>2. AllSlower(g, base)
    BY <1>4, <2>1, NoSlower DEF AllSlower
  <2> QED BY <2>1, <2>2 DEF Sound
<1>6. \A s \in SUBSET S : s # {} => Pick(s) \in s
  OBVIOUS
<1> HIDE DEF base, S, Pick, One
<1>7. Picks(S, pick)
  BY <1>3, <1>6 DEF Picks
<1>8. \A k \in U, t \in S : One(t, k) \in U
  <2> SUFFICES ASSUME NEW k \in U, NEW t \in S PROVE Request(k, r, t, now) \in U
    BY <1>2
  <2>1. r \in DOMAIN k.plan /\ k.plan[r].task[t].status = "in_progress" /\ t \in Served
    BY <1>3, <1>4 DEF AllSlower, Slower
  <2>2. Sound(Request(k, r, t, now), {}) /\ AllSlower(k, Request(k, r, t, now))
    BY <2>1, Asked
  <2>3. Request(k, r, t, now) \in Ground
    BY <2>2 DEF Sound
  <2>4. AllSlower(g, Request(k, r, t, now))
    BY <1>4, <2>2, <2>3, SlowerThanSlow
  <2> QED BY <2>2, <2>3, <2>4
<1> HIDE DEF U
<1>9. \A s \in SUBSET S : s # {} => \A k \in GG[s \ {pick[s]}] : F[s][k] \in GG[s]
  BY <1>6, <1>8
<1>10. PICK w : FoldOf(S, pick, base, F, w) /\ \A s \in SUBSET S : w[s] \in GG[s]
  <2>1. base \in GG[{}]
    BY <1>5
  <2> HIDE DEF F, GG, pick
  <2> QED BY <1>7, <1>9, <2>1, FoldWorks
<1>11. /\ w[{}] = base /\ w = [s \in SUBSET S |-> w[s]]
       /\ \A s \in SUBSET S : s # {} => w[s] = One(Pick(s), w[s \ {Pick(s)}])
  <2>1. \A s \in SUBSET S : s # {} => s \ {Pick(s)} \in SUBSET S
    OBVIOUS
  <2> QED BY <1>10, <2>1 DEF FoldOf
<1>12. It(w)
  BY <1>11
<1>13. It(it)
  <2> HIDE DEF It
  <2> QED BY <1>12
<1> HIDE DEF it, F
<1>14. /\ it[{}] = base
       /\ \A s \in SUBSET S : s # {} => it[s] = One(Pick(s), it[s \ {Pick(s)}])
  BY <1>13
<1> HIDE DEF It
<1>15. it[{}] \in GG[{}]
  BY <1>5, <1>14
<1>16. \A s \in SUBSET S : s # {} /\ it[s \ {pick[s]}] \in GG[s \ {pick[s]}] => it[s] \in GG[s]
  <2> SUFFICES ASSUME NEW s \in SUBSET S, s # {}, it[s \ {pick[s]}] \in GG[s \ {pick[s]}]
               PROVE  it[s] \in GG[s]
    OBVIOUS
  <2>1. pick[s] = Pick(s) /\ Pick(s) \in S /\ it[s \ {Pick(s)}] \in U
    BY <1>6
  <2>2. it[s] = One(Pick(s), it[s \ {Pick(s)}])
    BY <1>14
  <2>3. it[s] \in U
    BY <1>8, <2>1, <2>2
  <2> QED BY <2>3
<1>17. \A s \in SUBSET S : it[s] \in GG[s]
  <2> HIDE DEF GG, pick
  <2> QED BY <1>7, <1>15, <1>16, FoldKept
<1> QED BY <1>1, <1>17 DEF U

(* What a minute does to the plan itself.                                  *)
Advanced(p, now) == Start(Complete(p, now), now)

(* A minute of a plan, task by task: what is over is completed, what may   *)
(* start starts, and nothing else changes.                                 *)
LEMMA AdvancedTasks ==
  ASSUME NEW p \in PlanState, NEW now \in Nat
  PROVE  LET c == Complete(p, now)
             s == Advanced(p, now)
         IN  /\ s \in PlanState /\ s.started_at = p.started_at
             /\ \A t \in Task :
                  /\ Done(s, t) <=> Done(p, t) \/ Over(p.task[t], now)
                  /\ MayStart(c, t) <=> /\ p.task[t].status = "pending"
                                        /\ \A d \in starts_after[t] : Done(s, d)
                  /\ Over(p.task[t], now) =>
                       /\ p.task[t].status = "in_progress"
                       /\ s.task[t].status = "completed" /\ s.task[t].completed_at = now
                       /\ s.task[t].duration = p.task[t].duration
                       /\ s.task[t].started_at = p.task[t].started_at
                  /\ MayStart(c, t) =>
                       /\ s.task[t].status = "in_progress" /\ s.task[t].started_at = now
                       /\ s.task[t].duration = p.task[t].duration
                  /\ ~Over(p.task[t], now) /\ ~MayStart(c, t) => s.task[t] = p.task[t]
<1> DEFINE c == Complete(p, now)
           s == Advanced(p, now)
           over(t) == [p.task[t] EXCEPT !.status = "completed", !.completed_at = now]
           started(t) == [c.task[t] EXCEPT !.status = "in_progress", !.started_at = now]
<1>1. p.task \in [Task -> TaskState] /\ \A t \in Task : p.task[t] \in TaskState
  BY DEF PlanState
<1>2. \A t \in Task : /\ over(t) \in TaskState /\ over(t).status = "completed"
                      /\ over(t).completed_at = now /\ over(t).duration = p.task[t].duration
                      /\ over(t).started_at = p.task[t].started_at
  <2> DEFINE o(k) == [k EXCEPT !.status = "completed", !.completed_at = now]
  <2>1. \A k \in TaskState :
          /\ o(k) \in TaskState /\ o(k).status = "completed" /\ o(k).completed_at = now
          /\ o(k).duration = k.duration /\ o(k).started_at = k.started_at
    <3> SUFFICES ASSUME NEW k \in TaskState
                 PROVE  /\ o(k) \in TaskState /\ o(k).status = "completed" /\ o(k).completed_at = now
                        /\ o(k).duration = k.duration /\ o(k).started_at = k.started_at
      OBVIOUS
    <3> DEFINE m == [k EXCEPT !.status = "completed"]
    <3>1. /\ m \in TaskState /\ m.status = "completed" /\ m.duration = k.duration
          /\ m.started_at = k.started_at
      BY DEF TaskState
    <3>2. o(k) = [m EXCEPT !.completed_at = now]
      OBVIOUS
    <3> HIDE DEF m
    <3>3. now \in Int
      OBVIOUS
    <3> HIDE DEF o
    <3> QED BY <3>1, <3>2, <3>3 DEF TaskState
  <2>2. \A t \in Task : over(t) = o(p.task[t])
    OBVIOUS
  <2> HIDE DEF o, over
  <2> QED BY <1>1, <2>1, <2>2
<1> HIDE DEF over
<1>3. /\ c.started_at = p.started_at /\ c \in PlanState
      /\ \A t \in Task : c.task[t] = IF Over(p.task[t], now) THEN over(t) ELSE p.task[t]
  BY <1>1, <1>2 DEF Complete, PlanState, over
<1> HIDE DEF c
<1>4. c.task \in [Task -> TaskState] /\ \A t \in Task : c.task[t] \in TaskState
  BY <1>3 DEF PlanState
<1>5. \A t \in Task : /\ started(t) \in TaskState /\ started(t).status = "in_progress"
                      /\ started(t).started_at = now /\ started(t).duration = c.task[t].duration
  <2> DEFINE o(k) == [k EXCEPT !.status = "in_progress", !.started_at = now]
  <2>1. \A k \in TaskState :
          /\ o(k) \in TaskState /\ o(k).status = "in_progress" /\ o(k).started_at = now
          /\ o(k).duration = k.duration
    <3> SUFFICES ASSUME NEW k \in TaskState
                 PROVE  /\ o(k) \in TaskState /\ o(k).status = "in_progress" /\ o(k).started_at = now
                        /\ o(k).duration = k.duration
      OBVIOUS
    <3> DEFINE m == [k EXCEPT !.status = "in_progress"]
    <3>1. m \in TaskState /\ m.status = "in_progress" /\ m.duration = k.duration
      BY DEF TaskState
    <3>2. o(k) = [m EXCEPT !.started_at = now]
      OBVIOUS
    <3> HIDE DEF m
    <3>3. now \in Int
      OBVIOUS
    <3> HIDE DEF o
    <3> QED BY <3>1, <3>2, <3>3 DEF TaskState
  <2>2. \A t \in Task : started(t) = o(c.task[t])
    OBVIOUS
  <2> HIDE DEF o, started
  <2> QED BY <1>4, <2>1, <2>2
<1> HIDE DEF started
<1>6. /\ s.started_at = p.started_at /\ s \in PlanState
      /\ \A t \in Task : s.task[t] = IF MayStart(c, t) THEN started(t) ELSE c.task[t]
  BY <1>3, <1>4, <1>5 DEF Advanced, Start, PlanState, started, c
<1> HIDE DEF s
<1>7. \A t \in Task : Over(p.task[t], now) => p.task[t].status = "in_progress"
  BY DEF Over
<1>8. \A t \in Task : Done(c, t) <=> Done(p, t) \/ Over(p.task[t], now)
  BY <1>2, <1>3, <1>7 DEF Done
<1>9. \A t \in Task : Done(s, t) <=> Done(c, t)
  BY <1>5, <1>6 DEF Done, MayStart
<1>10. \A t \in Task : MayStart(c, t) <=> /\ p.task[t].status = "pending"
                                          /\ \A d \in starts_after[t] : Done(s, d)
  BY <1>2, <1>3, <1>7, <1>9, TaskGraph DEF MayStart
<1>11. \A t \in Task : MayStart(c, t) => ~Over(p.task[t], now) /\ c.task[t] = p.task[t]
  BY <1>3, <1>7, <1>10
<1> SUFFICES ASSUME NEW t \in Task
             PROVE  /\ Over(p.task[t], now) =>
                         /\ s.task[t].status = "completed" /\ s.task[t].completed_at = now
                         /\ s.task[t].duration = p.task[t].duration
                         /\ s.task[t].started_at = p.task[t].started_at
                    /\ MayStart(c, t) =>
                         /\ s.task[t].status = "in_progress" /\ s.task[t].started_at = now
                         /\ s.task[t].duration = p.task[t].duration
                    /\ ~Over(p.task[t], now) /\ ~MayStart(c, t) => s.task[t] = p.task[t]
  BY <1>6, <1>7, <1>8, <1>9, <1>10 DEF s, c
<1> QED BY <1>2, <1>3, <1>5, <1>6, <1>11

(* A minute after the last one, the plan is still on time.                 *)
LEMMA AdvancedOnTime ==
  ASSUME NEW p \in PlanState, NEW now \in Nat, OnTime(p, now - 1)
  PROVE  OnTime(Advanced(p, now), now)
<1> DEFINE c == Complete(p, now)
           s == Advanced(p, now)
<1> SUFFICES ASSUME NEW t \in Task PROVE TaskOnTime(s, t, now)
  BY DEF OnTime
<1>1. /\ s \in PlanState /\ s.started_at = p.started_at
      /\ \A d \in Task : Done(s, d) <=> Done(p, d) \/ Over(p.task[d], now)
      /\ \A d \in Task : MayStart(c, d) <=> /\ p.task[d].status = "pending"
                                            /\ \A e \in starts_after[d] : Done(s, e)
      /\ \A d \in Task : Over(p.task[d], now) =>
           /\ p.task[d].status = "in_progress"
           /\ s.task[d].status = "completed" /\ s.task[d].completed_at = now
           /\ s.task[d].duration = p.task[d].duration
           /\ s.task[d].started_at = p.task[d].started_at
      /\ \A d \in Task : MayStart(c, d) =>
           /\ s.task[d].status = "in_progress" /\ s.task[d].started_at = now
           /\ s.task[d].duration = p.task[d].duration
      /\ \A d \in Task : ~Over(p.task[d], now) /\ ~MayStart(c, d) => s.task[d] = p.task[d]
  BY AdvancedTasks
<1> HIDE DEF s, c
<1>2. \A d \in Task : /\ p.task[d].status \in {"pending", "in_progress", "completed"}
                      /\ p.task[d].duration \in Nat \ {0} /\ p.task[d].started_at \in Int
                      /\ p.task[d].completed_at \in Int
  BY DEF PlanState, TaskState
<1>3. starts_after[t] \subseteq Task /\ p.started_at \in Int /\ now - 1 \in Int
  BY TaskGraph DEF PlanState
<1>4. \A d \in Task : TaskOnTime(p, d, now - 1)
  BY DEF OnTime
<1>5. \A d \in Task : Over(p.task[d], now) =>
        /\ p.started_at <= p.task[d].started_at
        /\ p.task[d].started_at + p.task[d].duration <= now
        /\ now <= p.task[d].started_at + p.task[d].duration
  <2> SUFFICES ASSUME NEW d \in Task, Over(p.task[d], now)
               PROVE  /\ p.started_at <= p.task[d].started_at
                      /\ p.task[d].started_at + p.task[d].duration <= now
                      /\ now <= p.task[d].started_at + p.task[d].duration
    OBVIOUS
  <2>1. TaskOnTime(p, d, now - 1) /\ p.task[d].status = "in_progress"
    BY <1>1, <1>4
  <2>2. /\ p.started_at <= p.task[d].started_at
        /\ now - 1 < p.task[d].started_at + p.task[d].duration
    BY <2>1 DEF TaskOnTime
  <2>3. now >= p.task[d].started_at + p.task[d].duration
    BY DEF Over
  <2> QED BY <1>2, <1>3, <2>2, <2>3
<1>6. \A d \in Task : Done(s, d) => s.task[d].completed_at <= now
  <2> SUFFICES ASSUME NEW d \in Task, Done(s, d) PROVE s.task[d].completed_at <= now
    OBVIOUS
  <2>1. CASE Over(p.task[d], now)
    BY <1>1, <2>1
  <2>2. CASE ~Over(p.task[d], now)
    <3>1. Done(p, d) /\ p.task[d].status = "completed"
      BY <1>1, <2>2 DEF Done
    <3>2. s.task[d] = p.task[d]
      BY <1>1, <2>2, <3>1
    <3>3. p.task[d].completed_at <= now - 1
      BY <1>4, <3>1 DEF TaskOnTime
    <3> QED BY <1>2, <3>2, <3>3
  <2> QED BY <2>1, <2>2
<1>7. CASE MayStart(c, t)
  <2>1. PICK d \in starts_after[t] : ~Done(p, d)
    BY <1>1, <1>4, <1>7 DEF TaskOnTime
  <2>2. d \in Task /\ Over(p.task[d], now) /\ \A e \in starts_after[t] : Done(s, e)
    BY <1>1, <1>3, <1>7, <2>1
  <2>3. p.started_at <= now /\ s.task[d].completed_at = now
    BY <1>1, <1>2, <1>3, <1>5, <2>2
  <2>4. \A e \in starts_after[t] : s.task[e].completed_at <= now
    BY <1>3, <1>6, <2>2
  <2>5. s.task[t].status = "in_progress" /\ s.task[t].started_at = now /\ s.task[t].duration \in Nat \ {0}
    BY <1>1, <1>2, <1>7
  <2>6. now < now + s.task[t].duration
    BY <2>5
  <2> QED BY <1>1, <2>2, <2>3, <2>4, <2>5, <2>6 DEF TaskOnTime, Done
<1>8. CASE ~MayStart(c, t)
  <2>1. \A d \in starts_after[t] : Done(p, d) => Done(s, d) /\ s.task[d].completed_at = p.task[d].completed_at
    <3> SUFFICES ASSUME NEW d \in starts_after[t], Done(p, d)
                 PROVE  Done(s, d) /\ s.task[d].completed_at = p.task[d].completed_at
      OBVIOUS
    <3>1. d \in Task /\ p.task[d].status = "completed"
      BY <1>3 DEF Done
    <3>2. s.task[d] = p.task[d]
      BY <1>1, <3>1
    <3> QED BY <1>1, <3>1, <3>2
  <2>2. s.task[t].started_at = p.task[t].started_at /\ s.task[t].duration = p.task[t].duration
    BY <1>1, <1>8
  <2>3. s.task[t].status = "pending" => p.task[t].status = "pending"
    BY <1>1, <1>8
  <2>4. s.task[t].status # "pending" => p.task[t].status # "pending"
    BY <1>1, <1>8
  <2>5. s.task[t].status = "pending" => \E d \in starts_after[t] : ~Done(s, d)
    BY <1>1, <1>8, <2>3
  <2>6. s.task[t].status # "pending" =>
          /\ s.started_at <= s.task[t].started_at
          /\ \A d \in starts_after[t] : Done(s, d) /\ s.task[d].completed_at <= s.task[t].started_at
          /\ \/ s.task[t].started_at = s.started_at
             \/ \E d \in starts_after[t] : s.task[t].started_at = s.task[d].completed_at
    BY <1>1, <1>4, <2>1, <2>2, <2>4 DEF TaskOnTime
  <2>7. s.task[t].status = "in_progress" => now < s.task[t].started_at + s.task[t].duration
    <3> SUFFICES ASSUME s.task[t].status = "in_progress"
                 PROVE  now < s.task[t].started_at + s.task[t].duration
      OBVIOUS
    <3>1. ~Over(p.task[t], now) /\ p.task[t].status = "in_progress"
      BY <1>1, <1>8
    <3> QED BY <1>2, <2>2, <3>1 DEF Over
  <2>8. Done(s, t) => /\ s.task[t].completed_at <= now
                      /\ s.task[t].completed_at <= s.task[t].started_at + s.task[t].duration
    <3> SUFFICES ASSUME Done(s, t)
                 PROVE  s.task[t].completed_at <= s.task[t].started_at + s.task[t].duration
      BY <1>6
    <3>1. CASE Over(p.task[t], now)
      BY <1>1, <1>5, <2>2, <3>1
    <3>2. CASE ~Over(p.task[t], now)
      <4>1. Done(p, t) /\ s.task[t] = p.task[t]
        BY <1>1, <1>8, <3>2
      <4> QED BY <1>4, <4>1 DEF TaskOnTime
    <3> QED BY <3>1, <3>2
  <2> QED BY <2>5, <2>6, <2>7, <2>8 DEF TaskOnTime
<1> QED BY <1>7, <1>8

(* A minute that the plan is already past, as when it was made in this     *)
(* step: nothing is over and nothing can start.                            *)
LEMMA AdvancedLate ==
  ASSUME NEW p \in PlanState, NEW now \in Nat, NEW n \in Nat, now <= n, OnTime(p, n)
  PROVE  OnTime(Advanced(p, now), n)
<1> DEFINE c == Complete(p, now)
           s == Advanced(p, now)
<1>1. /\ s \in PlanState /\ s.started_at = p.started_at
      /\ \A d \in Task : Done(s, d) <=> Done(p, d) \/ Over(p.task[d], now)
      /\ \A d \in Task : MayStart(c, d) <=> /\ p.task[d].status = "pending"
                                            /\ \A e \in starts_after[d] : Done(s, e)
      /\ \A d \in Task : ~Over(p.task[d], now) /\ ~MayStart(c, d) => s.task[d] = p.task[d]
  BY AdvancedTasks
<1> HIDE DEF s, c
<1>2. \A d \in Task : TaskOnTime(p, d, n) /\ starts_after[d] \subseteq Task
  BY TaskGraph DEF OnTime
<1>3. \A d \in Task : p.task[d].duration \in Nat /\ p.task[d].started_at \in Int
  BY DEF PlanState, TaskState
<1>4. \A d \in Task : ~Over(p.task[d], now)
  BY <1>2, <1>3 DEF Over, TaskOnTime
<1>5. \A d \in Task : ~MayStart(c, d)
  BY <1>1, <1>2, <1>4 DEF TaskOnTime
<1>6. \A d \in Task : s.task[d] = p.task[d]
  BY <1>1, <1>4, <1>5
<1>7. Slower(p, s)
  BY <1>1, <1>3, <1>6 DEF Slower
<1> QED BY <1>1, <1>7, SlowerOnTime DEF s

(* A complete plan stays on time.                                          *)
LEMMA CompleteStays ==
  ASSUME NEW p \in PlanState, NEW n \in Int, NEW m \in Int, n <= m, OnTime(p, n), is_complete(p)
  PROVE  OnTime(p, m)
<1> SUFFICES ASSUME NEW t \in Task PROVE TaskOnTime(p, t, m)
  BY DEF OnTime
<1>1. TaskOnTime(p, t, n) /\ Done(p, t) /\ p.task[t].completed_at \in Int
  BY DEF OnTime, is_complete, PlanState, TaskState
<1> QED BY <1>1 DEF TaskOnTime, Done

(* FoldLeft takes the last element first.                                  *)
LEMMA MaxPicks ==
  ASSUME NEW n \in Nat
  PROVE  /\ Picks(1..n, [s \in SUBSET (1..n) |-> Max(s)])
         /\ \A i \in 1..n : Max(1..i) = i
<1>1. \A s \in SUBSET (1..n) : s # {} => Max(s) \in s
  <2> SUFFICES ASSUME NEW s \in SUBSET (1..n), s # {} PROVE \E x \in s : \A y \in s : x >= y
    BY DEF Max
  <2> DEFINE T == {n - x : x \in s}
  <2>1. T \subseteq Nat /\ T # {}
    <3>1. \A x \in s : n - x \in Nat
      OBVIOUS
    <3> QED BY <3>1
  <2>2. PICK m \in T : \A k \in T : m <= k
    <3> HIDE DEF T
    <3> QED BY <2>1, LeastNat
  <2>3. PICK x \in s : m = n - x
    OBVIOUS
  <2>4. \A y \in s : n - x <= n - y
    BY <2>2, <2>3
  <2>5. x \in Int /\ \A y \in s : y \in Int
    OBVIOUS
  <2> HIDE DEF T
  <2>6. \A y \in s : x >= y
    BY <2>4, <2>5
  <2> QED BY <2>6
<1>2. \A i \in 1..n : Max(1..i) = i
  <2> SUFFICES ASSUME NEW i \in 1..n PROVE Max(1..i) = i
    OBVIOUS
  <2>1. i \in 1..i /\ \A y \in 1..i : i >= y
    OBVIOUS
  <2>2. \A x \in 1..i : (\A y \in 1..i : x >= y) => x = i
    OBVIOUS
  <2> QED BY <2>1, <2>2 DEF Max
<1>3. IsFiniteSet(1..n)
  BY FS_Interval
<1> QED BY <1>1, <1>2, <1>3 DEF Picks

(* What holds before the first element of a sequence and passes from each  *)
(* element to the next holds of the fold.                                  *)
LEMMA PrefixKept ==
  ASSUME NEW n \in Nat, NEW w, NEW GG, w[{}] \in GG[0],
         \A i \in 1..n : w[(1..i) \ {i}] \in GG[i - 1] => w[1..i] \in GG[i]
  PROVE  w[1..n] \in GG[n]
<1> DEFINE T == {i \in 0..n : w[1..i] \notin GG[i]}
<1> SUFFICES ASSUME T # {} PROVE FALSE
  BY DEF T
<1>1. T \subseteq Nat
  OBVIOUS
<1>2. PICK i \in T : \A j \in T : i <= j
  <2> HIDE DEF T
  <2> QED BY <1>1, LeastNat
<1>3. i \in 0..n /\ w[1..i] \notin GG[i]
  OBVIOUS
<1>4. i # 0
  <2>1. 1..0 = {}
    OBVIOUS
  <2> QED BY <1>3, <2>1
<1>5. i \in 1..n /\ i - 1 \in 0..n /\ ~(i <= i - 1) /\ (1..i) \ {i} = 1..(i - 1)
  BY <1>3, <1>4
<1>6. i - 1 \notin T
  <2> HIDE DEF T
  <2> QED BY <1>2, <1>5
<1>7. w[1..(i - 1)] \in GG[i - 1]
  BY <1>5, <1>6
<1> QED BY <1>3, <1>5, <1>7

(* The minute of a plan without the devices that evaluate it once.         *)
LEMMA AdvancePlanIs ==
  ASSUME NEW g, NEW r, NEW now
  PROVE  AdvancePlan(g, r, now) =
           IF is_complete(g.plan[r]) THEN g
           ELSE HandleVehicles([g EXCEPT !.plan[r] = Advanced(g.plan[r], now)], r,
                               Finished(g.plan[r], now), Startable(Complete(g.plan[r], now)), now)
<1> DEFINE H(p, x) == HandleVehicles(x, r, Finished(g.plan[r], now), Startable(p), now)
           G(p) == [g EXCEPT !.plan[r] = Start(p, now)]
           after(p) == Eager(LAMBDA h : H(p, h), G(p))
<1>1. \A p : after(p) = H(p, G(p))
  <2> HIDE DEF H, G
  <2> QED BY DEF Eager
<1>2. Eager(after, Complete(g.plan[r], now)) = after(Complete(g.plan[r], now))
  <2> HIDE DEF after
  <2> QED BY DEF Eager
<1>3. AdvancePlan(g, r, now) = IF is_complete(g.plan[r]) THEN g ELSE Eager(after, Complete(g.plan[r], now))
  BY Zenon DEF AdvancePlan
<1>4. Eager(after, Complete(g.plan[r], now)) = H(Complete(g.plan[r], now), G(Complete(g.plan[r], now)))
  BY <1>1, <1>2
<1>5. AdvancePlan(g, r, now) = IF is_complete(g.plan[r]) THEN g
                               ELSE H(Complete(g.plan[r], now), G(Complete(g.plan[r], now)))
  BY <1>3, <1>4
<1> QED BY <1>5 DEF Advanced

(* A minute of one plan: the others keep their time.                       *)
LEMMA PlanAdvanced ==
  ASSUME NEW g, Sound(g, {}), NEW r \in DOMAIN g.plan, NEW now \in Nat, TurnaroundAssumption
  PROVE  LET h == AdvancePlan(g, r, now)
         IN  /\ h \in Ground /\ Sound(h, {}) /\ h.turnaround_plans = g.turnaround_plans
             /\ DOMAIN h.plan = DOMAIN g.plan
             /\ \A q \in DOMAIN g.plan \ {r}, n \in Int : OnTime(g.plan[q], n) => OnTime(h.plan[q], n)
             /\ OnTime(g.plan[r], now - 1) => OnTime(h.plan[r], now)
             /\ \A n \in Nat : now <= n /\ OnTime(g.plan[r], n) => OnTime(h.plan[r], n)
<1> DEFINE p == g.plan[r]
           s == Advanced(p, now)
           finished == Finished(p, now)
           started == Startable(Complete(p, now))
           a == [g EXCEPT !.plan[r] = s]
           h == HandleVehicles(a, r, finished, started, now)
           X == {Owner(r, t) : t \in finished}
<1>1. /\ g \in Ground /\ g.plan \in [DOMAIN g.plan -> PlanState] /\ DOMAIN g.plan \subseteq Aircraft
      /\ \A q \in DOMAIN g.plan : g.plan[q] \in PlanState
  BY InGround DEF Sound
<1>2. AdvancePlan(g, r, now) = IF is_complete(p) THEN g ELSE h
  BY AdvancePlanIs
<1>3. now - 1 \in Int /\ now \in Int /\ now - 1 <= now /\ r \in Aircraft
  BY <1>1
<1>4. CASE is_complete(p)
  <2>1. OnTime(p, now - 1) => OnTime(p, now)
    BY <1>1, <1>3, <1>4, CompleteStays
  <2> QED BY <1>1, <1>2, <1>4, <2>1
<1>5. CASE ~is_complete(p)
  <2>1. /\ s \in PlanState /\ s.started_at = p.started_at
        /\ \A t \in Task : MayStart(Complete(p, now), t) => s.task[t].status = "in_progress"
        /\ \A t \in Task : p.task[t].status = "in_progress" =>
             Over(p.task[t], now) \/ s.task[t].status = "in_progress"
    <3>1. \A t \in Task : /\ MayStart(Complete(p, now), t) => s.task[t].status = "in_progress"
                          /\ MayStart(Complete(p, now), t) => p.task[t].status = "pending"
                          /\ ~Over(p.task[t], now) /\ ~MayStart(Complete(p, now), t) => s.task[t] = p.task[t]
      BY <1>1, AdvancedTasks
    <3>2. s \in PlanState /\ s.started_at = p.started_at
      BY <1>1, AdvancedTasks
    <3> HIDE DEF s, p
    <3> QED BY <3>1, <3>2
  <2>2. started \subseteq Task /\ \A t \in started : s.task[t].status = "in_progress"
    BY <2>1 DEF Startable
  <2>3. /\ a.turnaround_plans = g.turnaround_plans /\ a.vehicle = g.vehicle
        /\ a.pending_requests = g.pending_requests /\ a.task_vehicles = g.task_vehicles
        /\ a.plan = [g.plan EXCEPT ![r] = s] /\ a = [g EXCEPT !.plan = a.plan]
    <3> HIDE DEF s
    <3> QED BY <1>1 DEF Ground
  <2> HIDE DEF a
  <2>4. /\ DOMAIN a.plan = DOMAIN g.plan /\ a.plan \in [DOMAIN g.plan -> PlanState] /\ a.plan[r] = s
        /\ \A q \in DOMAIN g.plan \ {r} : a.plan[q] = g.plan[q]
    <3> HIDE DEF s
    <3> QED BY <1>1, <2>1, <2>3
  <2>5. a \in Ground
    <3>1. a.plan \in UNION {[D -> PlanState] : D \in SUBSET Aircraft}
      BY <1>1, <2>4
    <3> QED BY <1>1, <2>3, <3>1 DEF Ground
  <2>6. Own(a, X)
    <3>1. Own(g, {})
      BY DEF Sound
    <3> SUFFICES ASSUME NEW o \in DOMAIN g.task_vehicles
                 PROVE  /\ o[1] \in DOMAIN a.plan
                        /\ o \in X \/ a.plan[o[1]].task[o[2]].status = "in_progress"
      <4>1. a.vehicle = g.vehicle /\ a.task_vehicles = g.task_vehicles
        BY <2>3
      <4> QED BY <3>1, <4>1 DEF Own
    <3>2. o[1] \in DOMAIN g.plan /\ g.plan[o[1]].task[o[2]].status = "in_progress"
      BY <3>1 DEF Own
    <3>3. o \in Aircraft \X Task /\ o[2] \in Task
      BY <1>1, InGround
    <3>4. CASE o[1] = r
      <4>1. o = Owner(r, o[2])
        BY <3>3, <3>4 DEF Owner
      <4>2. Over(p.task[o[2]], now) => o[2] \in finished
        BY <3>3 DEF Finished
      <4> QED BY <2>1, <2>4, <3>2, <3>3, <3>4, <4>1, <4>2
    <3>5. CASE o[1] # r
      BY <2>4, <3>2, <3>5
    <3> QED BY <3>4, <3>5
  <2>7. Sound(a, X)
    BY <2>3, <2>4, <2>5, <2>6 DEF Sound
  <2>8. Sound(h, {}) /\ AllSlower(a, h)
    <3> HIDE DEF s, finished, started, p
    <3> QED BY <2>2, <2>4, <2>7, Handled
  <2>9. h \in Ground /\ DOMAIN h.plan = DOMAIN g.plan /\ h.turnaround_plans = g.turnaround_plans
    BY <2>3, <2>4, <2>8 DEF Sound, AllSlower
  <2>10. \A q \in DOMAIN g.plan : a.plan[q] \in PlanState /\ h.plan[q] \in PlanState
    BY <2>4, <2>9, InGround
  <2>11. \A q \in DOMAIN g.plan, n \in Int : OnTime(a.plan[q], n) => OnTime(h.plan[q], n)
    <3> HIDE DEF h
    <3> QED BY <2>4, <2>8, <2>10, SlowerOnTime DEF AllSlower
  <2>12. OnTime(p, now - 1) => OnTime(s, now)
    BY <1>1, AdvancedOnTime
  <2>13. \A n \in Nat : now <= n /\ OnTime(p, n) => OnTime(s, n)
    BY <1>1, AdvancedLate
  <2> HIDE DEF h, s
  <2> QED BY <1>2, <1>3, <1>5, <2>4, <2>8, <2>9, <2>11, <2>12, <2>13
<1> QED BY <1>4, <1>5

Through(g, r, now, span) ==
  FoldLeft(LAMBDA k, m : Eager(LAMBDA x : AdvancePlan(x, r, m), k), g, [i \in 1..span |-> now - span + i])

(* The minutes of a step, of one plan.                                     *)
LEMMA StepOfPlan ==
  ASSUME NEW g, Sound(g, {}), NEW r \in DOMAIN g.plan, NEW from \in Nat, NEW span \in Nat \ {0},
         OnTime(g.plan[r], from) \/ OnTime(g.plan[r], from + span), TurnaroundAssumption
  PROVE  LET h == Through(g, r, from + span, span)
         IN  /\ h \in Ground /\ Sound(h, {}) /\ h.turnaround_plans = g.turnaround_plans
             /\ DOMAIN h.plan = DOMAIN g.plan
             /\ \A q \in DOMAIN g.plan \ {r}, n \in Int : OnTime(g.plan[q], n) => OnTime(h.plan[q], n)
             /\ OnTime(h.plan[r], from + span)
<1> DEFINE now == from + span
           minutes == [i \in 1..span |-> now - span + i]
           S == DOMAIN minutes
           Pick(s) == Max(s)
           One(m, z) == Eager(LAMBDA x : AdvancePlan(x, r, m), z)
           It(w) == w = [s \in SUBSET S |->
                      IF s = {} THEN g ELSE LET x == Pick(s) IN One(minutes[x], w[s \ {x}])]
           it == CHOOSE w : It(w)
<1>1. Through(g, r, now, span) = it[S]
  BY Zenon DEF Through, FoldLeft, MapThenFoldSet
<1>2. \A m, z : One(m, z) = AdvancePlan(z, r, m)
  BY DEF Eager
<1> DEFINE pick == [s \in SUBSET S |-> Pick(s)]
           U == {h \in Ground :
                   /\ Sound(h, {}) /\ h.turnaround_plans = g.turnaround_plans
                   /\ DOMAIN h.plan = DOMAIN g.plan
                   /\ \A q \in DOMAIN g.plan \ {r}, n \in Int : OnTime(g.plan[q], n) => OnTime(h.plan[q], n)}
           F == [s \in SUBSET S |-> [k \in U |-> One(minutes[Pick(s)], k)]]
           At(i) == {h \in U : OnTime(h.plan[r], from + i) \/ OnTime(h.plan[r], now)}
           GG == [s \in SUBSET S |-> U]
           HH == [i \in 0..span |-> At(i)]
<1>3. S = 1..span /\ \A i \in S : minutes[i] = from + i /\ minutes[i] \in Nat
  OBVIOUS
<1>4. g \in U
  BY DEF Sound
<1>5. \A s \in SUBSET S : s # {} => Pick(s) \in s
  BY MaxPicks DEF Picks
<1>6. \A i \in S : Pick(1..i) = i
  BY MaxPicks
<1> HIDE DEF minutes, Pick, One
<1>7. \A k \in U, i \in S : One(minutes[i], k) \in U
  <2> SUFFICES ASSUME NEW k \in U, NEW i \in S PROVE AdvancePlan(k, r, minutes[i]) \in U
    BY <1>2
  <2> DEFINE h == AdvancePlan(k, r, minutes[i])
  <2>1. /\ h \in Ground /\ Sound(h, {}) /\ h.turnaround_plans = k.turnaround_plans
        /\ DOMAIN h.plan = DOMAIN k.plan
        /\ \A q \in DOMAIN k.plan \ {r}, n \in Int : OnTime(k.plan[q], n) => OnTime(h.plan[q], n)
    BY <1>3, PlanAdvanced
  <2> HIDE DEF h
  <2> QED BY <2>1 DEF h
<1>8. \A i \in S : \A k \in At(i - 1) : One(minutes[i], k) \in At(i)
  <2> SUFFICES ASSUME NEW i \in S, NEW k \in At(i - 1)
               PROVE  \/ OnTime(AdvancePlan(k, r, minutes[i]).plan[r], from + i)
                      \/ OnTime(AdvancePlan(k, r, minutes[i]).plan[r], now)
    BY <1>2, <1>7
  <2> DEFINE h == AdvancePlan(k, r, minutes[i])
  <2>1. /\ OnTime(k.plan[r], minutes[i] - 1) => OnTime(h.plan[r], minutes[i])
        /\ \A n \in Nat : minutes[i] <= n /\ OnTime(k.plan[r], n) => OnTime(h.plan[r], n)
    BY <1>3, PlanAdvanced
  <2>2. minutes[i] = from + i /\ minutes[i] - 1 = from + (i - 1) /\ minutes[i] <= now /\ now \in Nat
    BY <1>3
  <2> HIDE DEF h, now, U
  <2> QED BY <2>1, <2>2 DEF h
<1>9. Picks(S, pick)
  <2>1. IsFiniteSet(S)
    BY <1>3, FS_Interval
  <2> QED BY <1>5, <2>1 DEF Picks
<1> HIDE DEF U
<1>10. \A s \in SUBSET S : s # {} => \A k \in GG[s \ {pick[s]}] : F[s][k] \in GG[s]
  BY <1>5, <1>7
<1>11. PICK w : FoldOf(S, pick, g, F, w) /\ \A s \in SUBSET S : w[s] \in GG[s]
  <2>1. g \in GG[{}]
    BY <1>4
  <2> HIDE DEF F, GG, pick, S
  <2> QED BY <1>9, <1>10, <2>1, FoldWorks
<1> HIDE DEF S
<1>12. /\ w[{}] = g /\ w = [s \in SUBSET S |-> w[s]]
       /\ \A s \in SUBSET S : s # {} => w[s] = One(minutes[Pick(s)], w[s \ {Pick(s)}])
  <2>1. \A s \in SUBSET S : s # {} => s \ {Pick(s)} \in SUBSET S
    OBVIOUS
  <2> QED BY <1>11, <2>1 DEF FoldOf
<1>13. It(w)
  BY <1>12
<1>14. It(it)
  <2> HIDE DEF It
  <2> QED BY <1>13
<1> HIDE DEF it, F
<1>15. /\ it[{}] = g
       /\ \A s \in SUBSET S : s # {} => it[s] = One(minutes[Pick(s)], it[s \ {Pick(s)}])
  BY <1>14
<1> HIDE DEF It
<1>16. it[{}] \in HH[0]
  BY <1>4, <1>15
<1>17. \A i \in 1..span : it[(1..i) \ {i}] \in HH[i - 1] => it[1..i] \in HH[i]
  <2> SUFFICES ASSUME NEW i \in 1..span, it[(1..i) \ {i}] \in HH[i - 1] PROVE it[1..i] \in HH[i]
    OBVIOUS
  <2>1. i \in S /\ 1..i \in SUBSET S /\ 1..i # {} /\ Pick(1..i) = i
    <3>1. i \in S /\ i \in 1..i /\ 1..i \subseteq S
      BY <1>3
    <3> QED BY <1>6, <3>1
  <2>2. it[1..i] = One(minutes[i], it[(1..i) \ {i}])
    BY <1>15, <2>1
  <2>3. it[(1..i) \ {i}] \in At(i - 1) /\ HH[i] = At(i)
    OBVIOUS
  <2> HIDE DEF At, HH
  <2> QED BY <1>8, <2>1, <2>2, <2>3
<1>18. it[1..span] \in HH[span]
  <2> HIDE DEF HH
  <2> QED BY <1>16, <1>17, PrefixKept
<1>19. it[S] \in At(span)
  BY <1>3, <1>18
<1> HIDE DEF it
<1> QED BY <1>1, <1>19 DEF U

(* The minutes of a step, of every plan.                                   *)
LEMMA StepOfPlans ==
  ASSUME NEW g, Sound(g, {}), NEW from \in Nat, NEW span \in Nat \ {0},
         \A r \in DOMAIN g.plan : OnTime(g.plan[r], from) \/ OnTime(g.plan[r], from + span),
         TurnaroundAssumption
  PROVE  LET h == AdvancePlans(g, from + span, span)
         IN  /\ h \in Ground /\ Sound(h, {}) /\ h.turnaround_plans = g.turnaround_plans
             /\ DOMAIN h.plan = DOMAIN g.plan
             /\ \A r \in DOMAIN g.plan : OnTime(h.plan[r], from + span)
<1> DEFINE now == from + span
           plans == g.turnaround_plans
           n == Len(plans)
           S == DOMAIN plans
           Pick(s) == Max(s)
           through(h, r) == FoldLeft(LAMBDA k, m : Eager(LAMBDA x : AdvancePlan(x, r, m), k), h,
                                     [i \in 1..span |-> now - span + i])
           One(r, z) == Eager(LAMBDA x : through(x, r), z)
           It(w) == w = [s \in SUBSET S |->
                      IF s = {} THEN g ELSE LET x == Pick(s) IN One(plans[x], w[s \ {x}])]
           it == CHOOSE w : It(w)
<1>1. AdvancePlans(g, now, span) = it[S]
  BY Zenon DEF AdvancePlans, FoldLeft, MapThenFoldSet
<1>2. \A r, z : One(r, z) = Through(z, r, now, span)
  <2>1. \A r, z : through(z, r) = Through(z, r, now, span)
    BY DEF Through
  <2> HIDE DEF through
  <2> QED BY <2>1 DEF Eager
<1> DEFINE pick == [s \in SUBSET S |-> Pick(s)]
           U == {h \in Ground :
                   /\ Sound(h, {}) /\ h.turnaround_plans = g.turnaround_plans
                   /\ DOMAIN h.plan = DOMAIN g.plan
                   /\ \A q \in DOMAIN g.plan : OnTime(h.plan[q], from) \/ OnTime(h.plan[q], now)}
           F == [s \in SUBSET S |-> [k \in U |-> One(plans[Pick(s)], k)]]
           At(i) == {h \in U : \A j \in 1..i : OnTime(h.plan[plans[j]], now)}
           GG == [s \in SUBSET S |-> U]
           HH == [i \in 0..n |-> At(i)]
<1>3. /\ plans \in Seq(Aircraft) /\ S = 1..n /\ n \in Nat /\ DOMAIN g.plan = ToSet(plans)
      /\ g \in Ground /\ IsInjective(plans)
  <2>1. g \in Ground /\ IsInjective(plans) /\ DOMAIN g.plan = ToSet(plans)
    BY DEF Sound
  <2>2. plans \in Seq(Aircraft)
    BY <2>1 DEF Ground
  <2> HIDE DEF plans
  <2> QED BY <2>1, <2>2
<1>4. g \in U
  <2>1. g \in Ground /\ g.turnaround_plans = plans
    BY <1>3
  <2> QED BY <2>1
<1>5. \A s \in SUBSET S : s # {} => Pick(s) \in s
  BY <1>3, MaxPicks DEF Picks
<1>6. \A i \in S : Pick(1..i) = i
  BY <1>3, MaxPicks
<1>7. \A i \in S : plans[i] \in DOMAIN g.plan
  BY <1>3 DEF ToSet
<1>8. \A q \in DOMAIN g.plan : \E i \in S : q = plans[i]
  BY <1>3 DEF ToSet
<1>9. \A i, j \in S : plans[i] = plans[j] => i = j
  BY <1>3 DEF IsInjective
<1> HIDE DEF plans, Pick, One, n
<1>10. ASSUME NEW k \in U, NEW i \in S
       PROVE  /\ One(plans[i], k) \in U /\ OnTime(One(plans[i], k).plan[plans[i]], now)
              /\ \A q \in DOMAIN g.plan \ {plans[i]}, m \in Int :
                   OnTime(k.plan[q], m) => OnTime(One(plans[i], k).plan[q], m)
  <2> DEFINE h == Through(k, plans[i], now, span)
             r == plans[i]
  <2>1. h = One(plans[i], k)
    BY <1>2
  <2>2. r \in DOMAIN k.plan /\ Sound(k, {}) /\ (OnTime(k.plan[r], from) \/ OnTime(k.plan[r], from + span))
    BY <1>7
  <2>3. /\ h \in Ground /\ Sound(h, {}) /\ h.turnaround_plans = k.turnaround_plans
        /\ DOMAIN h.plan = DOMAIN k.plan
        /\ \A q \in DOMAIN k.plan \ {r}, m \in Int : OnTime(k.plan[q], m) => OnTime(h.plan[q], m)
        /\ OnTime(h.plan[r], now)
    <3> HIDE DEF now, U
    <3> QED BY <2>2, StepOfPlan DEF now
  <2>4. from \in Int /\ now \in Int
    OBVIOUS
  <2> HIDE DEF h, now
  <2>5. \A q \in DOMAIN g.plan : OnTime(h.plan[q], from) \/ OnTime(h.plan[q], now)
    BY <2>3, <2>4
  <2> QED BY <2>1, <2>3, <2>5
<1>11. Picks(S, pick)
  <2>1. IsFiniteSet(S)
    BY <1>3, FS_Interval
  <2> QED BY <1>5, <2>1 DEF Picks
<1> HIDE DEF U
<1>12. \A s \in SUBSET S : s # {} => \A k \in GG[s \ {pick[s]}] : F[s][k] \in GG[s]
  BY <1>5, <1>10
<1>13. PICK w : FoldOf(S, pick, g, F, w) /\ \A s \in SUBSET S : w[s] \in GG[s]
  <2>1. g \in GG[{}]
    BY <1>4
  <2> HIDE DEF F, GG, pick, S
  <2> QED BY <1>11, <1>12, <2>1, FoldWorks
<1> HIDE DEF S
<1>14. /\ w[{}] = g /\ w = [s \in SUBSET S |-> w[s]]
       /\ \A s \in SUBSET S : s # {} => w[s] = One(plans[Pick(s)], w[s \ {Pick(s)}])
  <2>1. \A s \in SUBSET S : s # {} => s \ {Pick(s)} \in SUBSET S
    OBVIOUS
  <2> QED BY <1>13, <2>1 DEF FoldOf
<1>15. It(w)
  BY <1>14
<1>16. It(it)
  <2> HIDE DEF It
  <2> QED BY <1>15
<1> HIDE DEF it, F
<1>17. /\ it[{}] = g
       /\ \A s \in SUBSET S : s # {} => it[s] = One(plans[Pick(s)], it[s \ {Pick(s)}])
  BY <1>16
<1> HIDE DEF It
<1>18. it[{}] \in HH[0]
  BY <1>3, <1>4, <1>17
<1>19. \A i \in 1..n : it[(1..i) \ {i}] \in HH[i - 1] => it[1..i] \in HH[i]
  <2> SUFFICES ASSUME NEW i \in 1..n, it[(1..i) \ {i}] \in HH[i - 1] PROVE it[1..i] \in HH[i]
    OBVIOUS
  <2>1. i \in S /\ 1..i \in SUBSET S /\ 1..i # {} /\ Pick(1..i) = i
    <3>1. i \in S /\ i \in 1..i /\ 1..i \subseteq S
      BY <1>3
    <3> QED BY <1>6, <3>1
  <2> DEFINE k == it[(1..i) \ {i}]
  <2>2. it[1..i] = One(plans[i], k)
    BY <1>17, <2>1
  <2>3. i - 1 \in 0..n /\ now \in Int
    BY <1>3
  <2>4. k \in At(i - 1) /\ HH[i] = At(i)
    <3> HIDE DEF At
    <3> QED BY <1>3, <2>3
  <2> HIDE DEF k, HH
  <2>5. /\ k \in U /\ One(plans[i], k) \in U /\ OnTime(One(plans[i], k).plan[plans[i]], now)
        /\ \A q \in DOMAIN g.plan \ {plans[i]}, m \in Int :
             OnTime(k.plan[q], m) => OnTime(One(plans[i], k).plan[q], m)
    BY <1>10, <2>1, <2>4
  <2>6. \A j \in 1..i : j # i => j \in S /\ j \in 1..(i - 1) /\ plans[j] \in DOMAIN g.plan \ {plans[i]}
    BY <1>3, <1>7, <1>9, <2>1
  <2>7. \A j \in 1..(i - 1) : OnTime(k.plan[plans[j]], now)
    BY <2>4
  <2> HIDE DEF now
  <2>8. \A j \in 1..i : OnTime(it[1..i].plan[plans[j]], now)
    BY <2>2, <2>3, <2>5, <2>6, <2>7
  <2> QED BY <2>2, <2>4, <2>5, <2>8
<1>20. it[1..n] \in HH[n]
  <2> HIDE DEF HH
  <2> QED BY <1>3, <1>18, <1>19, PrefixKept
<1>21. it[S] \in At(n)
  BY <1>3, <1>20
<1>22. \A r \in DOMAIN g.plan : OnTime(it[S].plan[r], now)
  BY <1>3, <1>8, <1>21
<1> HIDE DEF it
<1> QED BY <1>1, <1>21, <1>22 DEF U, plans

(* Vehicles that arrive and return: none that a task has is given to       *)
(* another.                                                                *)
LEMMA VehiclesMoved ==
  ASSUME NEW g, Sound(g, {}), NEW now \in Nat
  PROVE  LET h == [g EXCEPT !.vehicle = [v \in Vehicle |-> Moved(g.vehicle[v], now)],
                            !.pending_requests = <<>>]
         IN  /\ h \in Ground /\ Sound(h, {}) /\ h.plan = g.plan
             /\ h.turnaround_plans = g.turnaround_plans
<1> DEFINE h == [g EXCEPT !.vehicle = [v \in Vehicle |-> Moved(g.vehicle[v], now)],
                          !.pending_requests = <<>>]
<1>1. /\ g \in Ground /\ g.vehicle \in [Vehicle -> VehicleState]
      /\ DOMAIN g.task_vehicles \subseteq Aircraft \X Task
      /\ g.task_vehicles \in [DOMAIN g.task_vehicles -> Vehicle]
  BY InGround DEF Sound
<1>2. /\ h.vehicle = [v \in Vehicle |-> Moved(g.vehicle[v], now)]
      /\ h.plan = g.plan /\ h.turnaround_plans = g.turnaround_plans /\ h.pending_requests = <<>>
      /\ h.task_vehicles = g.task_vehicles
      /\ h = [g EXCEPT !.vehicle = h.vehicle, !.pending_requests = h.pending_requests]
  BY <1>1 DEF Ground
<1> HIDE DEF h
<1>3. ASSUME NEW v \in VehicleState
      PROVE  /\ Moved(v, now) \in VehicleState
             /\ v.status \in {"dispatched", "at_gate"} =>
                  Moved(v, now).status \in {"dispatched", "at_gate"} /\ Moved(v, now).serves = v.serves
  <2> DEFINE m == [v EXCEPT !.status = "at_gate"]
             a == [m EXCEPT !.arrives_at = NotYet]
  <2>1. m \in VehicleState /\ m.status = "at_gate" /\ m.serves = v.serves
    BY DEF VehicleState
  <2>2. a = [v EXCEPT !.status = "at_gate", !.arrives_at = NotYet]
    OBVIOUS
  <2>3. a \in VehicleState /\ a.status = "at_gate" /\ a.serves = v.serves
    <3> HIDE DEF m
    <3> QED BY <2>1 DEF VehicleState
  <2>4. Parked \in VehicleState
    BY DEF Parked, VehicleState
  <2>5. CASE v.status = "dispatched" /\ now >= v.arrives_at
    <3>1. Moved(v, now) = a
      <4> HIDE DEF a
      <4> QED BY <2>2, <2>5 DEF Moved
    <3> QED BY <2>3, <2>5, <3>1
  <2>6. CASE v.status = "returning" /\ now >= v.arrives_at
    BY <2>4, <2>6 DEF Moved
  <2>7. CASE ~(v.status = "dispatched" /\ now >= v.arrives_at) /\ ~(v.status = "returning" /\ now >= v.arrives_at)
    BY <2>7 DEF Moved
  <2> QED BY <2>5, <2>6, <2>7
<1>4. h.vehicle \in [Vehicle -> VehicleState]
  BY <1>1, <1>2, <1>3
<1>5. h \in Ground
  <2>1. <<>> \in Seq(Aircraft \X Served)
    OBVIOUS
  <2> QED BY <1>1, <1>2, <1>4, <2>1 DEF Ground
<1>6. Own(h, {})
  <2>1. Own(g, {})
    BY DEF Sound
  <2> SUFFICES ASSUME NEW o \in DOMAIN g.task_vehicles
               PROVE  /\ h.vehicle[g.task_vehicles[o]].serves = o
                      /\ h.vehicle[g.task_vehicles[o]].status \in {"dispatched", "at_gate"}
    <3>1. h.plan = g.plan /\ h.task_vehicles = g.task_vehicles
      BY <1>2
    <3> HIDE DEF h
    <3> QED BY <2>1, <3>1 DEF Own
  <2>2. /\ g.vehicle[g.task_vehicles[o]].serves = o
        /\ g.vehicle[g.task_vehicles[o]].status \in {"dispatched", "at_gate"}
    BY <2>1 DEF Own
  <2>3. g.task_vehicles[o] \in Vehicle
    BY <1>1
  <2> QED BY <1>1, <1>2, <1>3, <2>2, <2>3
<1> QED BY <1>2, <1>5, <1>6 DEF Sound, h

(* A request that waited gets a free vehicle, or waits on.                 *)
LEMMA RequestServed ==
  ASSUME NEW g, Sound(g, {}), NEW owner \in Aircraft \X Served, NEW now \in Nat, TurnaroundAssumption
  PROVE  LET h == Serve(g, owner, now)
         IN  /\ h \in Ground /\ Sound(h, {}) /\ h.plan = g.plan
             /\ h.turnaround_plans = g.turnaround_plans
<1> DEFINE free == Available(g, VEHICLE_TASK_MAP[owner[2]])
           v == CHOOSE x \in free : TRUE
           d == Dispatched(owner, now)
           a == [g EXCEPT !.vehicle[v] = d]
           b == [g EXCEPT !.pending_requests = Append(@, owner)]
<1>1. /\ g \in Ground /\ g.vehicle \in [Vehicle -> VehicleState]
      /\ DOMAIN g.task_vehicles \subseteq Aircraft \X Task
      /\ g.task_vehicles \in [DOMAIN g.task_vehicles -> Vehicle]
  BY InGround DEF Sound
<1>2. Serve(g, owner, now) = IF free = {} THEN b ELSE a
  BY DEF Serve
<1>3. CASE free # {}
  <2>1. v \in Vehicle /\ g.vehicle[v].status = "available"
    BY <1>3 DEF Available
  <2>2. d \in VehicleState
    <3>1. now + TransitMinutes \in Nat /\ owner \in Aircraft \X Task
      BY TaskGraph DEF TurnaroundAssumption
    <3> QED BY <3>1 DEF Dispatched, VehicleState
  <2> HIDE DEF v, d
  <2>3. /\ a.vehicle = [g.vehicle EXCEPT ![v] = d] /\ a.plan = g.plan
        /\ a.turnaround_plans = g.turnaround_plans /\ a.pending_requests = g.pending_requests
        /\ a.task_vehicles = g.task_vehicles /\ a = [g EXCEPT !.vehicle = a.vehicle]
    BY <1>1 DEF Ground
  <2> HIDE DEF a
  <2>4. a.vehicle \in [Vehicle -> VehicleState]
    BY <1>1, <2>1, <2>2, <2>3
  <2>5. a \in Ground
    BY <1>1, <2>3, <2>4 DEF Ground
  <2>6. Own(a, {})
    <3> SUFFICES ASSUME NEW o \in DOMAIN g.task_vehicles
                 PROVE  a.vehicle[g.task_vehicles[o]] = g.vehicle[g.task_vehicles[o]]
      BY <2>3 DEF Own, Sound
    <3>1. g.vehicle[g.task_vehicles[o]].status \in {"dispatched", "at_gate"} /\ g.task_vehicles[o] \in Vehicle
      BY <1>1 DEF Own, Sound
    <3> QED BY <1>1, <2>1, <2>3, <3>1
  <2>7. Sound(a, {})
    BY <2>3, <2>5, <2>6 DEF Sound
  <2> HIDE DEF free
  <2> QED BY <1>2, <1>3, <2>3, <2>5, <2>7
<1>4. CASE free = {}
  <2>1. /\ b.vehicle = g.vehicle /\ b.plan = g.plan /\ b.turnaround_plans = g.turnaround_plans
        /\ b.task_vehicles = g.task_vehicles /\ b.pending_requests = Append(g.pending_requests, owner)
        /\ b = [g EXCEPT !.pending_requests = b.pending_requests]
    BY <1>1 DEF Ground
  <2> HIDE DEF b
  <2>2. b \in Ground
    <3>1. g.pending_requests \in Seq(Aircraft \X Served)
      BY <1>1 DEF Ground
    <3>2. b.pending_requests \in Seq(Aircraft \X Served)
      BY <2>1, <3>1
    <3> QED BY <1>1, <2>1, <3>2 DEF Ground
  <2>3. Sound(b, {})
    <3>1. /\ Own(g, {}) /\ IsInjective(g.turnaround_plans)
          /\ DOMAIN g.plan = ToSet(g.turnaround_plans)
      BY DEF Sound
    <3>2. Own(b, {})
      BY <2>1, <3>1 DEF Own
    <3> QED BY <2>1, <2>2, <3>1, <3>2 DEF Sound
  <2> HIDE DEF free
  <2> QED BY <1>2, <1>4, <2>1, <2>2, <2>3
<1> QED BY <1>3, <1>4

(* The pool, after the plans.                                              *)
LEMMA PoolAdvanced ==
  ASSUME NEW g, Sound(g, {}), NEW now \in Nat, TurnaroundAssumption
  PROVE  LET h == AdvancePool(g, now) IN h \in Ground /\ Sound(h, {}) /\ h.plan = g.plan
<1> DEFINE base == [g EXCEPT !.vehicle = [v \in Vehicle |-> Moved(g.vehicle[v], now)],
                             !.pending_requests = <<>>]
           requested == g.pending_requests
           n == Len(requested)
           S == DOMAIN requested
           Pick(s) == Max(s)
           One(o, z) == Eager(LAMBDA x : Serve(x, o, now), z)
           It(w) == w = [s \in SUBSET S |->
                      IF s = {} THEN base ELSE LET x == Pick(s) IN One(requested[x], w[s \ {x}])]
           it == CHOOSE w : It(w)
<1>1. AdvancePool(g, now) = it[S]
  BY Zenon DEF AdvancePool, FoldLeft, MapThenFoldSet
<1>2. \A o, z : One(o, z) = Serve(z, o, now)
  BY DEF Eager
<1> DEFINE pick == [s \in SUBSET S |-> Pick(s)]
           U == {h \in Ground : Sound(h, {}) /\ h.plan = g.plan}
           F == [s \in SUBSET S |-> [k \in U |-> One(requested[Pick(s)], k)]]
           GG == [s \in SUBSET S |-> U]
<1>3. /\ requested \in Seq(Aircraft \X Served) /\ S = 1..n /\ n \in Nat
      /\ \A i \in S : requested[i] \in Aircraft \X Served
  BY DEF Sound, Ground
<1>4. base \in U
  <2>1. base \in Ground /\ Sound(base, {}) /\ base.plan = g.plan
    BY VehiclesMoved, Zenon
  <2> HIDE DEF base
  <2> QED BY <2>1
<1>5. \A s \in SUBSET S : s # {} => Pick(s) \in s
  BY <1>3, MaxPicks DEF Picks
<1> HIDE DEF base, requested, Pick, One, n
<1>6. \A k \in U, i \in S : One(requested[i], k) \in U
  <2> SUFFICES ASSUME NEW k \in U, NEW i \in S PROVE Serve(k, requested[i], now) \in U
    BY <1>2
  <2>1. requested[i] \in Aircraft \X Served
    BY <1>3
  <2> DEFINE h == Serve(k, requested[i], now)
  <2>2. h \in Ground /\ Sound(h, {}) /\ h.plan = k.plan
    BY <2>1, RequestServed
  <2> HIDE DEF h
  <2> QED BY <2>2 DEF h
<1>7. Picks(S, pick)
  <2>1. IsFiniteSet(S)
    BY <1>3, FS_Interval
  <2> QED BY <1>5, <2>1 DEF Picks
<1> HIDE DEF U
<1>8. \A s \in SUBSET S : s # {} => \A k \in GG[s \ {pick[s]}] : F[s][k] \in GG[s]
  BY <1>5, <1>6
<1>9. PICK w : FoldOf(S, pick, base, F, w) /\ \A s \in SUBSET S : w[s] \in GG[s]
  <2>1. base \in GG[{}]
    BY <1>4
  <2> HIDE DEF F, GG, pick, S
  <2> QED BY <1>7, <1>8, <2>1, FoldWorks
<1> HIDE DEF S
<1>10. /\ w[{}] = base /\ w = [s \in SUBSET S |-> w[s]]
       /\ \A s \in SUBSET S : s # {} => w[s] = One(requested[Pick(s)], w[s \ {Pick(s)}])
  <2>1. \A s \in SUBSET S : s # {} => s \ {Pick(s)} \in SUBSET S
    OBVIOUS
  <2> QED BY <1>9, <2>1 DEF FoldOf
<1>11. It(w)
  BY <1>10
<1>12. It(it)
  <2> HIDE DEF It
  <2> QED BY <1>11
<1> HIDE DEF it, F
<1>13. /\ it[{}] = base
       /\ \A s \in SUBSET S : s # {} => it[s] = One(requested[Pick(s)], it[s \ {Pick(s)}])
  BY <1>12
<1> HIDE DEF It
<1>14. it[{}] \in GG[{}]
  BY <1>4, <1>13
<1>15. \A s \in SUBSET S : s # {} /\ it[s \ {pick[s]}] \in GG[s \ {pick[s]}] => it[s] \in GG[s]
  <2> SUFFICES ASSUME NEW s \in SUBSET S, s # {}, it[s \ {pick[s]}] \in GG[s \ {pick[s]}]
               PROVE  it[s] \in GG[s]
    OBVIOUS
  <2>1. Pick(s) \in S /\ s \ {Pick(s)} \in SUBSET S /\ it[s \ {Pick(s)}] \in U
    BY <1>5
  <2>2. it[s] = One(requested[Pick(s)], it[s \ {Pick(s)}])
    BY <1>13
  <2>3. GG[s] = U
    OBVIOUS
  <2> QED BY <1>6, <2>1, <2>2, <2>3
<1>16. \A s \in SUBSET S : it[s] \in GG[s]
  <2> HIDE DEF GG, pick
  <2> QED BY <1>7, <1>14, <1>15, FoldKept
<1> QED BY <1>1, <1>16 DEF U

(* The plans without those that are done, in their order.                  *)
LEMMA Filtered ==
  ASSUME NEW done, NEW plans \in Seq(Aircraft), IsInjective(plans)
  PROVE  LET h == FoldLeft(LAMBDA s, r : IF r \in done THEN s ELSE Append(s, r), <<>>, plans)
         IN  h \in Seq(Aircraft) /\ IsInjective(h) /\ ToSet(h) = ToSet(plans) \ done
<1> DEFINE n == Len(plans)
           S == DOMAIN plans
           Pick(s) == Max(s)
           One(r, z) == IF r \in done THEN z ELSE Append(z, r)
           It(w) == w = [s \in SUBSET S |->
                      IF s = {} THEN <<>> ELSE LET x == Pick(s) IN One(plans[x], w[s \ {x}])]
           it == CHOOSE w : It(w)
<1>1. FoldLeft(LAMBDA s, r : IF r \in done THEN s ELSE Append(s, r), <<>>, plans) = it[S]
  BY Zenon DEF FoldLeft, MapThenFoldSet
<1> DEFINE pick == [s \in SUBSET S |-> Pick(s)]
           U == Seq(Aircraft)
           F == [s \in SUBSET S |-> [k \in U |-> One(plans[Pick(s)], k)]]
           Kept(i) == {plans[j] : j \in 1..i} \ done
           At(i) == {h \in U : IsInjective(h) /\ ToSet(h) = Kept(i)}
           GG == [s \in SUBSET S |-> U]
           HH == [i \in 0..n |-> At(i)]
<1>2. S = 1..n /\ n \in Nat /\ \A i \in S : plans[i] \in Aircraft
  OBVIOUS
<1>3. <<>> \in U
  OBVIOUS
<1>4. \A s \in SUBSET S : s # {} => Pick(s) \in s
  BY <1>2, MaxPicks DEF Picks
<1>5. \A i \in S : Pick(1..i) = i
  BY <1>2, MaxPicks
<1>6. \A i, j \in S : plans[i] = plans[j] => i = j
  BY DEF IsInjective
<1> HIDE DEF Pick, n
<1>7. \A k \in U, i \in S : One(plans[i], k) \in U
  BY <1>2
<1>8. \A i \in S : \A k \in At(i - 1) : One(plans[i], k) \in At(i)
  <2> SUFFICES ASSUME NEW i \in S, NEW k \in At(i - 1) PROVE One(plans[i], k) \in At(i)
    OBVIOUS
  <2>1. k \in Seq(Aircraft) /\ IsInjective(k) /\ ToSet(k) = Kept(i - 1)
    OBVIOUS
  <2>2. \A j \in 1..i : j \in 1..(i - 1) \/ j = i
    BY <1>2
  <2>3. \A j \in 1..(i - 1) : j \in S /\ j \in 1..i /\ plans[j] # plans[i]
    BY <1>2, <1>6
  <2>4. i \in 1..i
    BY <1>2
  <2>5. CASE plans[i] \in done
    <3>1. Kept(i) = Kept(i - 1)
      BY <2>2, <2>3, <2>5
    <3> HIDE DEF Kept
    <3> QED BY <2>1, <2>5, <3>1
  <2>6. CASE plans[i] \notin done
    <3>1. Kept(i) = Kept(i - 1) \cup {plans[i]} /\ plans[i] \notin Kept(i - 1)
      BY <2>2, <2>3, <2>4, <2>6
    <3> DEFINE e == plans[i]
               h == Append(k, e)
    <3>2. e \in Aircraft
      BY <1>2
    <3> HIDE DEF Kept, e
    <3>3. /\ h \in Seq(Aircraft) /\ Len(h) = Len(k) + 1 /\ DOMAIN h = 1..(Len(k) + 1)
          /\ DOMAIN k = 1..Len(k) /\ Len(k) \in Nat
          /\ \A j \in 1..Len(k) : h[j] = k[j]
          /\ h[Len(k) + 1] = e
      BY <2>1, <3>2
    <3> HIDE DEF h
    <3>4. \A j \in 1..(Len(k) + 1) : j \in 1..Len(k) \/ j = Len(k) + 1
      BY <3>3
    <3>5. \A j \in 1..Len(k) : j \in 1..(Len(k) + 1)
      BY <3>3
    <3>6. Len(k) + 1 \in 1..(Len(k) + 1)
      BY <3>3
    <3>7. ToSet(h) = ToSet(k) \cup {e}
      BY <3>3, <3>4, <3>5, <3>6 DEF ToSet
    <3>8. \A j \in 1..Len(k) : k[j] # e
      BY <2>1, <3>1, <3>3 DEF ToSet, e
    <3>9. IsInjective(h)
      BY <2>1, <3>3, <3>4, <3>8 DEF IsInjective
    <3>10. One(plans[i], k) = h
      BY <2>6 DEF h, e
    <3> HIDE DEF One
    <3> QED BY <2>1, <3>1, <3>3, <3>7, <3>9, <3>10 DEF e
  <2> QED BY <2>5, <2>6
<1> HIDE DEF One
<1>9. Picks(S, pick)
  <2>1. IsFiniteSet(S)
    BY <1>2, MaxPicks DEF Picks
  <2> QED BY <1>4, <2>1 DEF Picks
<1> HIDE DEF U
<1>10. \A s \in SUBSET S : s # {} => \A k \in GG[s \ {pick[s]}] : F[s][k] \in GG[s]
  BY <1>4, <1>7
<1>11. PICK w : FoldOf(S, pick, <<>>, F, w) /\ \A s \in SUBSET S : w[s] \in GG[s]
  <2>1. <<>> \in GG[{}]
    BY <1>3
  <2> HIDE DEF F, GG, pick, S
  <2> QED BY <1>9, <1>10, <2>1, FoldWorks
<1> HIDE DEF S
<1>12. /\ w[{}] = <<>> /\ w = [s \in SUBSET S |-> w[s]]
       /\ \A s \in SUBSET S : s # {} => w[s] = One(plans[Pick(s)], w[s \ {Pick(s)}])
  <2>1. \A s \in SUBSET S : s # {} => s \ {Pick(s)} \in SUBSET S
    OBVIOUS
  <2> QED BY <1>11, <2>1 DEF FoldOf
<1>13. It(w)
  BY <1>12
<1>14. It(it)
  <2> HIDE DEF It
  <2> QED BY <1>13
<1> HIDE DEF it, F
<1>15. /\ it[{}] = <<>>
       /\ \A s \in SUBSET S : s # {} => it[s] = One(plans[Pick(s)], it[s \ {Pick(s)}])
  BY <1>14
<1> HIDE DEF It
<1>16. it[{}] \in HH[0]
  <2>1. Kept(0) = {} /\ 0 \in 0..n
    BY <1>2
  <2>2. IsInjective(<<>>) /\ ToSet(<<>>) = {}
    BY DEF IsInjective, ToSet
  <2> HIDE DEF Kept
  <2> QED BY <1>3, <1>15, <2>1, <2>2
<1>17. \A i \in 1..n : it[(1..i) \ {i}] \in HH[i - 1] => it[1..i] \in HH[i]
  <2> SUFFICES ASSUME NEW i \in 1..n, it[(1..i) \ {i}] \in HH[i - 1] PROVE it[1..i] \in HH[i]
    OBVIOUS
  <2>1. i \in S /\ 1..i \in SUBSET S /\ 1..i # {} /\ Pick(1..i) = i
    <3>1. i \in S /\ i \in 1..i /\ 1..i \subseteq S
      BY <1>2
    <3> QED BY <1>5, <3>1
  <2>2. it[1..i] = One(plans[i], it[(1..i) \ {i}])
    BY <1>15, <2>1
  <2>3. i - 1 \in 0..n /\ i \in 0..n
    BY <1>2
  <2> HIDE DEF At
  <2> QED BY <1>8, <2>1, <2>2, <2>3
<1>18. it[1..n] \in HH[n]
  <2> HIDE DEF HH
  <2> QED BY <1>2, <1>16, <1>17, PrefixKept
<1>19. it[S] \in At(n)
  <2> HIDE DEF At
  <2> QED BY <1>2, <1>18
<1>20. Kept(n) = ToSet(plans) \ done
  BY <1>2 DEF ToSet, S
<1> HIDE DEF it, Kept
<1> QED BY <1>1, <1>19, <1>20 DEF U

(* The arrivals that are over take their complete plans along: no vehicle  *)
(* is theirs.                                                              *)
LEMMA PlansForgotten ==
  ASSUME NEW g, Sound(g, {}), NEW gone
  PROVE  LET h == Forgotten(g, gone)
         IN  /\ h \in Ground /\ Sound(h, {}) /\ DOMAIN h.plan \subseteq DOMAIN g.plan
             /\ \A r \in DOMAIN h.plan : h.plan[r] = g.plan[r]
<1> DEFINE h == Forgotten(g, gone)
           done == {r \in gone \cap DOMAIN g.plan : is_complete(g.plan[r])}
           left == FoldLeft(LAMBDA s, r : IF r \in done THEN s ELSE Append(s, r), <<>>, g.turnaround_plans)
<1>1. /\ g \in Ground /\ g.plan \in [DOMAIN g.plan -> PlanState] /\ DOMAIN g.plan \subseteq Aircraft
      /\ DOMAIN g.task_vehicles \subseteq Aircraft \X Task
      /\ g.turnaround_plans \in Seq(Aircraft) /\ IsInjective(g.turnaround_plans)
      /\ DOMAIN g.plan = ToSet(g.turnaround_plans)
  BY InGround DEF Sound, Ground
<1>2. left \in Seq(Aircraft) /\ IsInjective(left) /\ ToSet(left) = ToSet(g.turnaround_plans) \ done
  <2> HIDE DEF done
  <2> QED BY <1>1, Filtered
<1>3. h = [g EXCEPT !.plan = Restrict(g.plan, DOMAIN g.plan \ done), !.turnaround_plans = left]
  BY Zenon DEF Forgotten
<1> HIDE DEF h, left
<1>4. /\ h.plan = Restrict(g.plan, DOMAIN g.plan \ done) /\ h.turnaround_plans = left
      /\ h.vehicle = g.vehicle /\ h.pending_requests = g.pending_requests
      /\ h.task_vehicles = g.task_vehicles
      /\ h = [g EXCEPT !.plan = h.plan, !.turnaround_plans = h.turnaround_plans]
  <2> HIDE DEF done
  <2> QED BY <1>1, <1>3 DEF Ground
<1>5. /\ DOMAIN h.plan = DOMAIN g.plan \ done /\ h.plan \in [DOMAIN g.plan \ done -> PlanState]
      /\ \A r \in DOMAIN g.plan \ done : h.plan[r] = g.plan[r]
  <2> HIDE DEF done
  <2> QED BY <1>1, <1>4 DEF Restrict
<1>6. h \in Ground
  <2>1. h.plan \in UNION {[D -> PlanState] : D \in SUBSET Aircraft}
    <3> HIDE DEF done
    <3> QED BY <1>1, <1>5
  <2> QED BY <1>1, <1>2, <1>4, <2>1 DEF Ground
<1>7. Own(h, {})
  <2>1. Own(g, {})
    BY DEF Sound
  <2>2. h.vehicle = g.vehicle /\ h.task_vehicles = g.task_vehicles
    BY <1>4
  <2> SUFFICES ASSUME NEW o \in DOMAIN g.task_vehicles
               PROVE  o[1] \in DOMAIN h.plan /\ h.plan[o[1]].task[o[2]].status = "in_progress"
    <3> HIDE DEF h
    <3> QED BY <2>1, <2>2 DEF Own
  <2>3. o[1] \in DOMAIN g.plan /\ g.plan[o[1]].task[o[2]].status = "in_progress"
    BY <2>1 DEF Own
  <2>4. o[2] \in Task
    BY <1>1
  <2>5. o[1] \notin done
    BY <2>3, <2>4 DEF is_complete, Done
  <2> HIDE DEF done
  <2> QED BY <1>5, <2>3, <2>5
<1> HIDE DEF done
<1> QED BY <1>1, <1>2, <1>4, <1>5, <1>6, <1>7 DEF Sound, h

(* A new plan starts on time: what waits for nothing starts now.           *)
LEMMA NewPlanStarts ==
  ASSUME NEW r \in Aircraft, NEW now \in Nat, TurnaroundAssumption
  PROVE  LET s == Start(NewPlan(r, now), now)
         IN  /\ s \in PlanState /\ OnTime(s, now)
             /\ Startable(NewPlan(r, now)) \subseteq Task
             /\ \A t \in Startable(NewPlan(r, now)) : s.task[t].status = "in_progress"
<1> DEFINE p == NewPlan(r, now)
           c == Complete(p, now)
           s == Advanced(p, now)
           task == [t \in Task |-> [status |-> "pending", duration |-> duration_min[Body[r]][t],
                                    started_at |-> NotYet, completed_at |-> NotYet]]
<1>1. \A t \in Task : duration_min[Body[r]][t] \in Nat \ {0}
  <2>1. Body[r] = "narrow" \/ Body[r] = "wide"
    BY DEF TurnaroundAssumption
  <2>2. \A t \in Task : duration_min.narrow[t] \in Nat \ {0}
    BY DEF Task, duration_min
  <2>3. \A t \in Task : duration_min.wide[t] \in Nat \ {0}
    BY DEF Task, duration_min
  <2>4. duration_min["narrow"] = duration_min.narrow /\ duration_min["wide"] = duration_min.wide
    OBVIOUS
  <2> QED BY <2>1, <2>2, <2>3, <2>4
<1>2. /\ p.started_at = now /\ p.task = task /\ p = [started_at |-> now, task |-> task]
      /\ \A t \in Task : /\ p.task[t].status = "pending"
                         /\ p.task[t].duration = duration_min[Body[r]][t]
  BY DEF NewPlan
<1>3. p \in PlanState
  <2>1. \A t \in Task : task[t] \in TaskState
    <3> SUFFICES ASSUME NEW t \in Task PROVE task[t] \in TaskState
      OBVIOUS
    <3> DEFINE e == duration_min[Body[r]][t]
    <3>1. task[t] = [status |-> "pending", duration |-> e, started_at |-> NotYet, completed_at |-> NotYet]
      OBVIOUS
    <3>2. e \in Nat \ {0} /\ NotYet \in Int
      BY <1>1 DEF NotYet
    <3> HIDE DEF e, task
    <3> QED BY <3>1, <3>2 DEF TaskState
  <2>2. task \in [Task -> TaskState]
    BY <2>1
  <2> HIDE DEF task, p
  <2>3. now \in Int
    OBVIOUS
  <2> QED BY <1>2, <2>2, <2>3 DEF PlanState
<1> HIDE DEF p, task
<1>4. \A t \in Task : ~Over(p.task[t], now) /\ ~Done(p, t)
  BY <1>2 DEF Over, Done
<1>5. c = p
  <2>1. [t \in Task |-> p.task[t]] = p.task
    BY <1>3 DEF PlanState
  <2>2. c = [p EXCEPT !.task = [t \in Task |-> p.task[t]]]
    BY <1>4 DEF Complete
  <2> QED BY <1>3, <2>1, <2>2 DEF PlanState
<1>6. s = Start(p, now)
  BY <1>5 DEF Advanced
<1>7. /\ s \in PlanState /\ s.started_at = now
      /\ \A t \in Task : Done(s, t) <=> Done(p, t) \/ Over(p.task[t], now)
      /\ \A t \in Task : MayStart(c, t) <=> /\ p.task[t].status = "pending"
                                            /\ \A d \in starts_after[t] : Done(s, d)
      /\ \A t \in Task : MayStart(c, t) =>
           /\ s.task[t].status = "in_progress" /\ s.task[t].started_at = now
           /\ s.task[t].duration = p.task[t].duration
      /\ \A t \in Task : ~Over(p.task[t], now) /\ ~MayStart(c, t) => s.task[t] = p.task[t]
  BY <1>2, <1>3, AdvancedTasks
<1> HIDE DEF s, c
<1>8. \A t \in Task : ~Done(s, t) /\ starts_after[t] \subseteq Task
  BY <1>4, <1>7, TaskGraph
<1>9. \A t \in Task : MayStart(c, t) <=> starts_after[t] = {}
  BY <1>2, <1>7, <1>8
<1>10. OnTime(s, now)
  <2> SUFFICES ASSUME NEW t \in Task PROVE TaskOnTime(s, t, now)
    BY DEF OnTime
  <2>1. CASE MayStart(c, t)
    <3>1. s.task[t].status = "in_progress" /\ s.task[t].started_at = now /\ s.task[t].duration \in Nat \ {0}
      BY <1>1, <1>2, <1>7, <2>1
    <3>2. now < now + s.task[t].duration
      BY <3>1
    <3> QED BY <1>7, <1>8, <1>9, <2>1, <3>1, <3>2 DEF TaskOnTime
  <2>2. CASE ~MayStart(c, t)
    <3>1. s.task[t].status = "pending"
      BY <1>2, <1>4, <1>7, <2>2
    <3> QED BY <1>8, <1>9, <2>2, <3>1 DEF TaskOnTime
  <2> QED BY <2>1, <2>2
<1>11. \A t \in Startable(p) : t \in Task /\ MayStart(c, t)
  BY <1>5 DEF Startable
<1> QED BY <1>6, <1>7, <1>10, <1>11 DEF p

(* An arrival at its gate has a plan, and the others keep their time.      *)
LEMMA ArrivalPlanned ==
  ASSUME NEW g, Sound(g, {}), NEW r \in Aircraft \ DOMAIN g.plan, NEW now \in Nat, TurnaroundAssumption
  PROVE  LET h == AtGate(g, r, now)
         IN  /\ h \in Ground /\ Sound(h, {}) /\ DOMAIN h.plan = DOMAIN g.plan \cup {r}
             /\ \A q \in DOMAIN g.plan, n \in Int : OnTime(g.plan[q], n) => OnTime(h.plan[q], n)
             /\ OnTime(h.plan[r], now)
<1> DEFINE p == NewPlan(r, now)
           s == Start(p, now)
           started == Startable(p)
           a == [g EXCEPT !.turnaround_plans = IF r \in ToSet(@) THEN @ ELSE Append(@, r),
                          !.plan = With(@, r, s)]
           h == HandleVehicles(a, r, {}, started, now)
<1>1. AtGate(g, r, now) = h
  BY Zenon DEF AtGate
<1>2. /\ s \in PlanState /\ OnTime(s, now) /\ started \subseteq Task
      /\ \A t \in started : s.task[t].status = "in_progress"
  BY NewPlanStarts
<1> HIDE DEF s, started
<1>3. /\ g \in Ground /\ g.plan \in [DOMAIN g.plan -> PlanState] /\ DOMAIN g.plan \subseteq Aircraft
      /\ g.turnaround_plans \in Seq(Aircraft) /\ IsInjective(g.turnaround_plans)
      /\ DOMAIN g.plan = ToSet(g.turnaround_plans)
  BY InGround DEF Sound, Ground
<1>4. /\ a.turnaround_plans = Append(g.turnaround_plans, r) /\ a.plan = With(g.plan, r, s)
      /\ a.vehicle = g.vehicle /\ a.pending_requests = g.pending_requests
      /\ a.task_vehicles = g.task_vehicles
      /\ a = [g EXCEPT !.turnaround_plans = a.turnaround_plans, !.plan = a.plan]
  <2>1. r \notin ToSet(g.turnaround_plans)
    BY <1>3
  <2> QED BY <1>3, <2>1 DEF Ground
<1> HIDE DEF a
<1>5. /\ DOMAIN a.plan = DOMAIN g.plan \cup {r} /\ a.plan \in [DOMAIN g.plan \cup {r} -> PlanState]
      /\ a.plan[r] = s /\ \A q \in DOMAIN g.plan : a.plan[q] = g.plan[q]
  <2>1. a.plan = [x \in DOMAIN g.plan \cup {r} |-> IF x = r THEN s ELSE g.plan[x]]
    BY <1>4 DEF With
  <2>2. \A q \in DOMAIN g.plan : g.plan[q] \in PlanState /\ q # r
    BY <1>3
  <2> HIDE DEF h
  <2>3. \A q \in DOMAIN g.plan \cup {r} : a.plan[q] = IF q = r THEN s ELSE g.plan[q]
    BY <2>1
  <2>4. \A q \in DOMAIN g.plan \cup {r} : (IF q = r THEN s ELSE g.plan[q]) \in PlanState
    BY <1>2, <2>2
  <2>5. a.plan \in [DOMAIN g.plan \cup {r} -> PlanState]
    BY <2>1, <2>4
  <2> QED BY <2>1, <2>2, <2>3, <2>5
<1>6. /\ a.turnaround_plans \in Seq(Aircraft) /\ IsInjective(a.turnaround_plans)
      /\ ToSet(a.turnaround_plans) = DOMAIN g.plan \cup {r}
  <2> DEFINE k == g.turnaround_plans
             e == a.turnaround_plans
  <2>1. k \in Seq(Aircraft) /\ e = Append(k, r) /\ IsInjective(k) /\ ToSet(k) = DOMAIN g.plan
    BY <1>3, <1>4
  <2> HIDE DEF k, e
  <2>2. /\ e \in Seq(Aircraft) /\ DOMAIN e = 1..(Len(k) + 1) /\ DOMAIN k = 1..Len(k) /\ Len(k) \in Nat
        /\ \A j \in 1..Len(k) : e[j] = k[j]
        /\ e[Len(k) + 1] = r
    BY <2>1
  <2>3. \A j \in 1..(Len(k) + 1) : j \in 1..Len(k) \/ j = Len(k) + 1
    BY <2>2
  <2>4. \A j \in 1..Len(k) : j \in 1..(Len(k) + 1)
    BY <2>2
  <2>5. Len(k) + 1 \in 1..(Len(k) + 1)
    BY <2>2
  <2>6. ToSet(e) = ToSet(k) \cup {r}
    BY <2>2, <2>3, <2>4, <2>5 DEF ToSet
  <2>7. \A j \in 1..Len(k) : k[j] # r
    BY <2>1, <2>2 DEF ToSet
  <2>8. IsInjective(e)
    BY <2>1, <2>2, <2>3, <2>7 DEF IsInjective
  <2> QED BY <2>1, <2>2, <2>6, <2>8 DEF e
<1>7. a \in Ground
  <2>1. a.plan \in UNION {[D -> PlanState] : D \in SUBSET Aircraft}
    BY <1>3, <1>5
  <2> QED BY <1>3, <1>4, <1>6, <2>1 DEF Ground
<1>8. Own(a, {})
  <2>1. Own(g, {})
    BY DEF Sound
  <2>2. /\ a.vehicle = g.vehicle /\ a.task_vehicles = g.task_vehicles
        /\ \A q \in DOMAIN g.plan : q \in DOMAIN a.plan /\ a.plan[q] = g.plan[q]
    BY <1>4, <1>5
  <2> QED BY <2>1, <2>2 DEF Own
<1>9. Sound(a, {Owner(r, t) : t \in {}})
  <2>1. {Owner(r, t) : t \in {}} = {}
    OBVIOUS
  <2> QED BY <1>5, <1>6, <1>7, <1>8, <2>1 DEF Sound
<1>10. Sound(h, {}) /\ AllSlower(a, h)
  <2>1. r \in DOMAIN a.plan /\ \A t \in started : a.plan[r].task[t].status = "in_progress"
    BY <1>2, <1>5
  <2> QED BY <1>2, <1>9, <2>1, Handled
<1>11. h \in Ground /\ DOMAIN h.plan = DOMAIN g.plan \cup {r}
  BY <1>5, <1>10 DEF Sound, AllSlower
<1> HIDE DEF h
<1>12. \A q \in DOMAIN a.plan, n \in Int : OnTime(a.plan[q], n) => OnTime(h.plan[q], n)
  <2>1. \A q \in DOMAIN a.plan : a.plan[q] \in PlanState /\ h.plan[q] \in PlanState
    BY <1>5, <1>7, <1>11, InGround
  <2> QED BY <1>10, <2>1, SlowerOnTime DEF AllSlower
<1> QED BY <1>1, <1>2, <1>5, <1>10, <1>11, <1>12

(* Between two messages: the pool and the plans are sound, every plan is   *)
(* on time, and an aircraft still inbound has none.                        *)
TurnInv ==
  /\ Sound(ground, {}) /\ minute \in 0..LastTurnMinute
  /\ \A r \in DOMAIN ground.plan : OnTime(ground.plan[r], minute)
  /\ arrival \in [Aircraft -> {"inbound", "at_gate", "arrived"}]
  /\ \A r \in Aircraft : arrival[r] = "inbound" => r \notin DOMAIN ground.plan

(* The invariant of the turnaround holds at the start, ...                 *)
LEMMA TurnInvInit == ASSUME TurnaroundAssumption, TurnInit PROVE TurnInv
<1>1. /\ ground.turnaround_plans = <<>> /\ ground.plan = <<>> /\ ground.pending_requests = <<>>
      /\ ground.vehicle = [v \in Vehicle |-> Parked] /\ ground.task_vehicles = <<>>
      /\ ground = [turnaround_plans |-> <<>>, plan |-> <<>>,
                   vehicle |-> [v \in Vehicle |-> Parked],
                   pending_requests |-> <<>>, task_vehicles |-> <<>>]
  BY DEF TurnInit
<1>2. DOMAIN (<<>>) = {} /\ ToSet(<<>>) = {} /\ IsInjective(<<>>)
  BY DEF ToSet, IsInjective
<1>3. Parked \in VehicleState
  BY DEF Parked, VehicleState
<1>4. ground \in Ground
  <2>1. <<>> \in [{} -> PlanState] /\ <<>> \in [{} -> Vehicle]
    OBVIOUS
  <2>2. <<>> \in UNION {[D -> PlanState] : D \in SUBSET Aircraft}
    BY <2>1
  <2>3. <<>> \in UNION {[D -> Vehicle] : D \in SUBSET (Aircraft \X Task)}
    BY <2>1
  <2>4. <<>> \in Seq(Aircraft) /\ <<>> \in Seq(Aircraft \X Served)
    OBVIOUS
  <2> QED BY <1>1, <1>3, <2>2, <2>3, <2>4 DEF Ground
<1>5. Sound(ground, {})
  BY <1>1, <1>2, <1>4 DEF Sound, Own
<1>6. minute \in 0..LastTurnMinute
  BY DEF TurnInit, TurnaroundAssumption
<1>7. arrival \in [Aircraft -> {"inbound", "at_gate", "arrived"}]
  BY DEF TurnInit
<1> QED BY <1>1, <1>2, <1>5, <1>6, <1>7 DEF TurnInv

(* An equipment failure makes a task longer, or nothing fails.             *)
LEMMA FailureSlows ==
  ASSUME NEW g, Sound(g, {}), NEW failed \in Failure(g), TurnaroundAssumption
  PROVE  Sound(failed, {}) /\ AllSlower(g, failed)
<1>1. \A p : Failing(p) \subseteq Task
  BY DEF Failing
<1>2. FailureMinutes \subseteq Nat /\ g \in Ground
  BY DEF TurnaroundAssumption, Sound
<1>3. CASE failed = g
  BY <1>2, <1>3, NoSlower
<1>4. CASE failed # g
  <2>1. PICK r \in DOMAIN g.plan : \E t \in Failing(g.plan[r]), m \in FailureMinutes :
          failed = extend_task(g, r, t, m)
    BY <1>4 DEF Failure
  <2>2. PICK t \in Failing(g.plan[r]), m \in FailureMinutes : failed = extend_task(g, r, t, m)
    BY <2>1
  <2>3. t \in Task /\ m \in Nat
    BY <1>1, <1>2
  <2> QED BY <2>2, <2>3, Extended
<1> QED BY <1>3, <1>4

(* ... a tick of the clock keeps it, ...                                   *)
LEMMA TurnInvTick ==
  ASSUME TurnaroundAssumption, TurnInv, NEW span \in TickMinutes, TurnTick(span)
  PROVE  TurnInv'
<1> DEFINE now == minute + span
<1>1. /\ now <= LastTurnMinute /\ minute' = now /\ span \in Nat \ {0} /\ minute \in Nat
      /\ now \in Nat /\ LastTurnMinute \in Nat
  BY DEF TurnTick, TurnaroundAssumption, TurnInv
<1>2. PICK landed \in {{}} \cup {{r} : r \in {x \in Aircraft : arrival[x] = "inbound"}},
           arrived \in SUBSET {r \in Aircraft : MayArrive(r)} :
        /\ landed # {} => now \in ArrivalMinutes
        /\ arrival' = [r \in Aircraft |-> IF r \in landed THEN "at_gate"
                         ELSE IF r \in arrived THEN "arrived" ELSE arrival[r]]
        /\ \E g \in IF landed = {} THEN {Forgotten(ground, arrived)}
                    ELSE {AtGate(Forgotten(ground, arrived), r, now) : r \in landed} :
             \E failed \in Failure(g) :
               /\ equipment_failure_drawn' = equipment_failure_drawn \cup DOMAIN g.plan
               /\ extensions' = IF failed = g THEN extensions ELSE extensions + 1
               /\ ground' = Eager(LAMBDA x : AdvancePool(x, now), AdvancePlans(failed, now, span))
  BY Zenon DEF TurnTick
<1>3. PICK g \in IF landed = {} THEN {Forgotten(ground, arrived)}
                 ELSE {AtGate(Forgotten(ground, arrived), r, now) : r \in landed} :
        \E failed \in Failure(g) :
          ground' = Eager(LAMBDA x : AdvancePool(x, now), AdvancePlans(failed, now, span))
  BY <1>2
<1>4. PICK failed \in Failure(g) :
        ground' = Eager(LAMBDA x : AdvancePool(x, now), AdvancePlans(failed, now, span))
  BY <1>3
<1>5. ground' = AdvancePool(AdvancePlans(failed, now, span), now)
  BY <1>4 DEF Eager
<1> DEFINE f == Forgotten(ground, arrived)
<1>6. /\ Sound(ground, {}) /\ \A r \in DOMAIN ground.plan : OnTime(ground.plan[r], minute)
      /\ arrival \in [Aircraft -> {"inbound", "at_gate", "arrived"}]
      /\ \A r \in Aircraft : arrival[r] = "inbound" => r \notin DOMAIN ground.plan
  BY DEF TurnInv
<1>7. /\ f \in Ground /\ Sound(f, {}) /\ DOMAIN f.plan \subseteq DOMAIN ground.plan
      /\ \A r \in DOMAIN f.plan : f.plan[r] = ground.plan[r]
  BY <1>6, PlansForgotten
<1> HIDE DEF f
<1>8. \A r \in DOMAIN f.plan : OnTime(f.plan[r], minute)
  BY <1>6, <1>7
<1>9. /\ g \in Ground /\ Sound(g, {}) /\ DOMAIN g.plan \subseteq DOMAIN f.plan \cup landed
      /\ \A r \in DOMAIN g.plan : OnTime(g.plan[r], minute) \/ OnTime(g.plan[r], now)
  <2>1. CASE landed = {}
    <3>1. g = f
      BY <1>3, <2>1 DEF f
    <3> QED BY <1>7, <1>8, <3>1
  <2>2. CASE landed # {}
    <3>1. PICK r \in landed : g = AtGate(f, r, now)
      BY <1>3, <2>2 DEF f
    <3>2. r \in Aircraft /\ arrival[r] = "inbound"
      OBVIOUS
    <3>3. r \in Aircraft \ DOMAIN f.plan
      BY <1>6, <1>7, <3>2
    <3>4. /\ g \in Ground /\ Sound(g, {}) /\ DOMAIN g.plan = DOMAIN f.plan \cup {r}
          /\ \A q \in DOMAIN f.plan, n \in Int : OnTime(f.plan[q], n) => OnTime(g.plan[q], n)
          /\ OnTime(g.plan[r], now)
      BY <1>1, <1>7, <3>1, <3>3, ArrivalPlanned
    <3>5. minute \in Int
      BY <1>1
    <3> HIDE DEF now
    <3> QED BY <1>8, <3>4, <3>5
  <2> QED BY <2>1, <2>2
<1>10. /\ Sound(failed, {}) /\ AllSlower(g, failed)
  BY <1>9, FailureSlows
<1>11. /\ DOMAIN failed.plan = DOMAIN g.plan
       /\ \A r \in DOMAIN g.plan : OnTime(failed.plan[r], minute) \/ OnTime(failed.plan[r], now)
  <2>1. failed \in Ground /\ DOMAIN failed.plan = DOMAIN g.plan
    BY <1>10 DEF Sound, AllSlower
  <2>2. \A r \in DOMAIN g.plan : g.plan[r] \in PlanState /\ failed.plan[r] \in PlanState
    BY <1>9, <2>1, InGround
  <2>3. minute \in Int /\ now \in Int
    BY <1>1
  <2> HIDE DEF now
  <2>4. \A r \in DOMAIN g.plan, n \in Int : OnTime(g.plan[r], n) => OnTime(failed.plan[r], n)
    BY <1>10, <2>2, SlowerOnTime DEF AllSlower
  <2> QED BY <1>9, <2>1, <2>3, <2>4
<1> DEFINE k == AdvancePlans(failed, now, span)
<1>12. /\ k \in Ground /\ Sound(k, {}) /\ DOMAIN k.plan = DOMAIN failed.plan
       /\ \A r \in DOMAIN failed.plan : OnTime(k.plan[r], now)
  BY <1>1, <1>10, <1>11, StepOfPlans
<1>13. ground' \in Ground /\ Sound(ground', {}) /\ ground'.plan = k.plan
  <2> HIDE DEF k
  <2>1. ground' = AdvancePool(k, now)
    BY <1>5 DEF k
  <2> QED BY <1>1, <1>12, <2>1, PoolAdvanced
<1> HIDE DEF k, now
<1>14. \A r \in DOMAIN ground'.plan : OnTime(ground'.plan[r], now)
  BY <1>11, <1>12, <1>13
<1>15. \A r \in Aircraft : arrival'[r] = "inbound" => r \notin DOMAIN ground'.plan
  <2> SUFFICES ASSUME NEW r \in Aircraft, arrival'[r] = "inbound" PROVE r \notin DOMAIN ground'.plan
    OBVIOUS
  <2>1. r \notin landed /\ arrival[r] = "inbound"
    BY <1>2
  <2> QED BY <1>6, <1>7, <1>9, <1>11, <1>12, <1>13, <2>1
<1>16. arrival' \in [Aircraft -> {"inbound", "at_gate", "arrived"}]
  BY <1>2, <1>6
<1>17. minute' \in 0..LastTurnMinute
  BY <1>1
<1> QED BY <1>1, <1>13, <1>14, <1>15, <1>16, <1>17 DEF TurnInv

(* ... so does a flagged bag, ...                                          *)
LEMMA TurnInvNext == ASSUME TurnaroundAssumption, TurnInv, [TurnNext]_turnVars PROVE TurnInv'
<1>1. CASE \E span \in TickMinutes : TurnTick(span)
  BY <1>1, TurnInvTick
<1>2. ASSUME NEW r \in Aircraft, BaggageFlagged(r) PROVE TurnInv'
  <2>1. /\ r \in DOMAIN ground.plan /\ ground' = extend_task(ground, r, "baggage_offload", 5)
        /\ minute' = minute /\ arrival' = arrival
    BY <1>2 DEF BaggageFlagged, Planned
  <2>2. Sound(ground, {}) /\ "baggage_offload" \in Task /\ minute \in Int
    BY DEF TurnInv, Task, TurnaroundAssumption
  <2>3. Sound(ground', {}) /\ AllSlower(ground, ground')
    BY <2>1, <2>2, Extended
  <2>4. ground \in Ground /\ ground' \in Ground /\ DOMAIN ground'.plan = DOMAIN ground.plan
    BY <2>2, <2>3 DEF Sound, AllSlower
  <2>5. \A q \in DOMAIN ground.plan : ground.plan[q] \in PlanState /\ ground'.plan[q] \in PlanState
    BY <2>4, InGround
  <2>6. \A q \in DOMAIN ground.plan : OnTime(ground'.plan[q], minute)
    BY <2>2, <2>3, <2>5, SlowerOnTime DEF AllSlower, TurnInv
  <2> QED BY <2>1, <2>3, <2>4, <2>6 DEF TurnInv
<1>3. CASE UNCHANGED turnVars
  BY <1>3 DEF TurnInv, turnVars
<1> QED BY <1>1, <1>2, <1>3 DEF TurnNext

(* ... and it always holds.                                                *)
LEMMA TurnInvHolds == TurnaroundAssumption => (TurnSpec => []TurnInv)
<1>1. SUFFICES ASSUME TurnaroundAssumption PROVE TurnSpec => []TurnInv
  OBVIOUS
<1>2. TurnInit => TurnInv
  BY <1>1, TurnInvInit
<1>3. TurnInv /\ [TurnNext]_turnVars => TurnInv'
  BY <1>1, TurnInvNext
<1> QED BY <1>2, <1>3, PTL DEF TurnSpec

(* Every vehicle in task_vehicles is dispatched to that task and to no     *)
(* other, and goes with it when _handle_task_vehicles sees it finished.    *)
THEOREM OwnVehicleProved == TurnSpec => []OwnVehicle
<1>1. TurnInv => OwnVehicle
  <2> SUFFICES ASSUME TurnInv PROVE OwnVehicle
    OBVIOUS
  <2>1. Own(ground, {})
    BY DEF TurnInv, Sound
  <2>2. IsInjective(ground.task_vehicles)
    BY <2>1 DEF Own, IsInjective
  <2> QED BY <2>1, <2>2 DEF Own, OwnVehicle
<1> QED BY <1>1, TurnInvHolds, TurnaroundAssumption, PTL

(* A finite set of integers that is not empty has a maximum.               *)
LEMMA FiniteMax ==
  ASSUME NEW S, IsFiniteSet(S), S # {}, S \subseteq Int
  PROVE  Max(S) \in S /\ \A y \in S : Max(S) >= y
<1> DEFINE HasMax(s) == \E x \in s : \A y \in s : x >= y
           Bad == {s \in SUBSET S : s # {} /\ ~HasMax(s)}
           T == {Cardinality(s) : s \in Bad}
<1> SUFFICES ASSUME Bad # {} PROVE FALSE
  BY DEF Max
<1>1. \A s \in SUBSET S : IsFiniteSet(s) /\ Cardinality(s) \in Nat
  BY FS_Subset, FS_CardinalityType
<1>2. T \subseteq Nat /\ T # {}
  BY <1>1
<1>3. PICK n \in T : \A m \in T : n <= m
  <2> HIDE DEF T
  <2> QED BY <1>2, LeastNat
<1>4. PICK s \in Bad : n = Cardinality(s)
  OBVIOUS
<1>5. PICK x \in s : x \in Int
  OBVIOUS
<1> DEFINE p == s \ {x}
<1>6. p \in SUBSET S /\ Cardinality(p) = Cardinality(s) - 1
  BY <1>1, FS_RemoveElement
<1>7. p \notin Bad
  <2>1. Cardinality(s) \in Nat /\ ~(Cardinality(s) <= Cardinality(p))
    BY <1>1, <1>6
  <2>2. p \in Bad => Cardinality(p) \in T
    OBVIOUS
  <2> HIDE DEF T, Bad, p
  <2> QED BY <1>3, <1>4, <2>1, <2>2
<1>8. CASE p = {}
  BY <1>5, <1>8
<1>9. CASE p # {}
  <2>1. PICK y \in p : \A z \in p : y >= z
    BY <1>6, <1>7, <1>9
  <2>2. y \in Int /\ y \in s /\ \A z \in s : z \in Int
    OBVIOUS
  <2>3. x >= y \/ y >= x
    BY <1>5, <2>2
  <2>4. \A z \in s : z = x \/ z \in p
    OBVIOUS
  <2> HIDE DEF p
  <2>5. x >= y => \A z \in s : x >= z
    BY <1>5, <2>1, <2>2, <2>4
  <2>6. y >= x => \A z \in s : y >= z
    BY <1>5, <2>1, <2>2, <2>4
  <2> QED BY <1>5, <2>2, <2>3, <2>5, <2>6
<1> QED BY <1>8, <1>9

(* The values of a function on a finite set.                               *)
LEMMA FiniteImage ==
  ASSUME NEW S, IsFiniteSet(S), NEW f
  PROVE  IsFiniteSet({f[x] : x \in S})
<1> DEFINE T == {f[x] : x \in S}
           g == [x \in S |-> f[x]]
<1>1. g \in Surjection(S, T)
  BY DEF Surjection
<1> HIDE DEF g, T
<1>2. IsFiniteSet(T)
  BY <1>1, FS_Surjection
<1> QED BY <1>2 DEF T

(* The function of compute_critical_path.                                  *)
Finishes(p, f) ==
  f = [t \in Task |-> p.task[t].duration + Max({0} \cup {f[d] : d \in starts_after[t]})]
FinishOf(p) ==
  LET finish[t \in Task] == p.task[t].duration + Max({0} \cup {finish[d] : d \in starts_after[t]})
  IN  finish

(* The tasks wait for each other without a cycle, so the recursion of      *)
(* compute_critical_path has a value.                                      *)
LEMMA FinishExists == ASSUME NEW p PROVE \E f : Finishes(p, f)
<1> DEFINE D(t) == p.task[t].duration
           a == D("jetbridge_connect") + Max({0})
           b == D("fueling") + Max({0})
           c == D("deplaning") + Max({0} \cup {a})
           e == D("baggage_offload") + Max({0} \cup {a})
           g == D("catering") + Max({0} \cup {a})
           h == D("cleaning") + Max({0} \cup {c})
           i == D("baggage_loading") + Max({0} \cup {e})
           j == D("boarding") + Max({0} \cup {h, c})
           k == D("door_close") + Max({0} \cup {j, i, b, g})
           l == D("pushback") + Max({0} \cup {k})
           F(t) == CASE t = "jetbridge_connect" -> a [] t = "fueling" -> b
                     [] t = "deplaning" -> c [] t = "baggage_offload" -> e
                     [] t = "catering" -> g [] t = "cleaning" -> h
                     [] t = "baggage_loading" -> i [] t = "boarding" -> j
                     [] t = "door_close" -> k [] t = "pushback" -> l
           f == [t \in Task |-> F(t)]
           From(t) == {f[d] : d \in starts_after[t]}
<1>1. /\ f["jetbridge_connect"] = a /\ f["fueling"] = b /\ f["deplaning"] = c
      /\ f["baggage_offload"] = e /\ f["catering"] = g /\ f["cleaning"] = h
      /\ f["baggage_loading"] = i /\ f["boarding"] = j /\ f["door_close"] = k /\ f["pushback"] = l
  <2> HIDE DEF a, b, c, e, g, h, i, j, k, l
  <2> QED BY DEF Task
<1>2. f = [t \in Task |-> f[t]]
  <2> HIDE DEF F
  <2> QED OBVIOUS
<1> HIDE DEF f
<1>3. /\ From("jetbridge_connect") = {} /\ From("fueling") = {} /\ From("deplaning") = {a}
      /\ From("baggage_offload") = {a} /\ From("catering") = {a} /\ From("cleaning") = {c}
      /\ From("baggage_loading") = {e} /\ From("boarding") = {h, c}
      /\ From("door_close") = {j, i, b, g} /\ From("pushback") = {k}
  <2> HIDE DEF a, b, c, e, g, h, i, j, k, l
  <2>1. From("jetbridge_connect") = {} /\ From("fueling") = {}
    BY DEF starts_after
  <2>2. From("deplaning") = {a} /\ From("baggage_offload") = {a} /\ From("catering") = {a}
    BY <1>1 DEF starts_after
  <2>3. From("cleaning") = {c} /\ From("baggage_loading") = {e} /\ From("pushback") = {k}
    BY <1>1 DEF starts_after
  <2>4. From("boarding") = {h, c}
    BY <1>1 DEF starts_after
  <2>5. From("door_close") = {j, i, b, g}
    BY <1>1 DEF starts_after
  <2> QED BY <2>1, <2>2, <2>3, <2>4, <2>5
<1> HIDE DEF From
<1>4. {0} \cup {} = {0}
  OBVIOUS
<1>5. \A t \in Task : f[t] = D(t) + Max({0} \cup From(t))
  <2> SUFFICES ASSUME NEW t \in Task PROVE f[t] = D(t) + Max({0} \cup From(t))
    OBVIOUS
  <2>1. CASE t = "jetbridge_connect"
    BY <1>1, <1>3, <1>4, <2>1, Zenon
  <2>2. CASE t = "fueling"
    BY <1>1, <1>3, <1>4, <2>2, Zenon
  <2>3. CASE t = "deplaning"
    BY <1>1, <1>3, <2>3, Zenon
  <2>4. CASE t = "baggage_offload"
    BY <1>1, <1>3, <2>4, Zenon
  <2>5. CASE t = "catering"
    BY <1>1, <1>3, <2>5, Zenon
  <2>6. CASE t = "cleaning"
    BY <1>1, <1>3, <2>6, Zenon
  <2>7. CASE t = "baggage_loading"
    BY <1>1, <1>3, <2>7, Zenon
  <2>8. CASE t = "boarding"
    BY <1>1, <1>3, <2>8, Zenon
  <2>9. CASE t = "door_close"
    BY <1>1, <1>3, <2>9, Zenon
  <2>10. CASE t = "pushback"
    BY <1>1, <1>3, <2>10, Zenon
  <2> QED BY <2>1, <2>2, <2>3, <2>4, <2>5, <2>6, <2>7, <2>8, <2>9, <2>10 DEF Task
<1> HIDE DEF a, b, c, e, g, h, i, j, k, l
<1>6. f = [t \in Task |-> D(t) + Max({0} \cup From(t))]
  BY <1>2, <1>5
<1> QED BY <1>6, Zenon DEF Finishes, From

(* So the function is its own equation.                                    *)
LEMMA FinishIs == ASSUME NEW p PROVE Finishes(p, FinishOf(p))
<1>1. FinishOf(p) = CHOOSE f : Finishes(p, f)
  BY Zenon DEF Finishes, FinishOf
<1>2. \E f : Finishes(p, f)
  BY FinishExists
<1> QED BY <1>1, <1>2, Zenon

(* A task is over when the longest path to it is, and at that minute.      *)
OverInTime(p, m, t) ==
  /\ FinishOf(p)[t] \in Int
  /\ Done(p, t) <=> m >= p.started_at + FinishOf(p)[t]
  /\ Done(p, t) => p.task[t].completed_at = p.started_at + FinishOf(p)[t]

(* What holds of the tasks that a task waits for holds of the task: it     *)
(* starts when the last of them is completed, and is completed when its    *)
(* minutes are over.                                                       *)
LEMMA TaskOver ==
  ASSUME NEW p \in PlanState, NEW m \in Int, OnTime(p, m), Regular(p), NEW t \in Task,
         \A d \in starts_after[t] : OverInTime(p, m, d)
  PROVE  OverInTime(p, m, t)
<1> DEFINE f == FinishOf(p)
           S == {0} \cup {f[d] : d \in starts_after[t]}
           M == Max(S)
<1>1. f[t] = p.task[t].duration + M
  <2>1. f = [x \in Task |-> p.task[x].duration + Max({0} \cup {f[d] : d \in starts_after[x]})]
    BY FinishIs, Zenon DEF Finishes
  <2> HIDE DEF f
  <2> QED BY <2>1
<1> HIDE DEF f
<1>2. \A d \in starts_after[t] :
        /\ f[d] \in Int /\ (Done(p, d) <=> m >= p.started_at + f[d])
        /\ Done(p, d) => p.task[d].completed_at = p.started_at + f[d]
  BY DEF OverInTime, f
<1>3. /\ p.started_at \in Int /\ p.task[t].duration \in Nat \ {0} /\ p.task[t].started_at \in Int
      /\ p.task[t].completed_at \in Int /\ p.task[t].status \in {"pending", "in_progress", "completed"}
  BY DEF PlanState, TaskState
<1>4. IsFiniteSet(S) /\ S \subseteq Int /\ S # {}
  <2>1. IsFiniteSet(starts_after[t])
    BY TaskGraph, FS_Subset
  <2>2. IsFiniteSet({f[d] : d \in starts_after[t]})
    BY <2>1, FiniteImage
  <2>3. IsFiniteSet({0})
    BY FS_Singleton
  <2>4. IsFiniteSet(S)
    BY <2>2, <2>3, FS_Union
  <2> QED BY <1>2, <2>4
<1>5. M \in S /\ \A y \in S : M >= y
  <2> HIDE DEF S
  <2> QED BY <1>4, FiniteMax
<1>6. /\ M \in Int /\ M >= 0 /\ \A d \in starts_after[t] : M >= f[d]
      /\ M = 0 \/ \E d \in starts_after[t] : M = f[d]
  BY <1>4, <1>5
<1> HIDE DEF M
<1>7. f[t] \in Int /\ f[t] = p.task[t].duration + M
  BY <1>1, <1>3, <1>6
<1>8. TaskOnTime(p, t, m)
  BY DEF OnTime
<1>9. CASE p.task[t].status = "pending"
  <2>1. PICK d \in starts_after[t] : ~Done(p, d)
    BY <1>8, <1>9 DEF TaskOnTime
  <2>2. ~(m >= p.started_at + f[d]) /\ f[d] \in Int /\ M >= f[d]
    BY <1>2, <1>6, <2>1
  <2>3. ~(m >= p.started_at + f[t])
    BY <1>3, <1>6, <1>7, <2>2
  <2> QED BY <1>7, <1>9, <2>3 DEF OverInTime, Done, f
<1>10. CASE p.task[t].status # "pending"
  <2>1. /\ p.started_at <= p.task[t].started_at
        /\ \A d \in starts_after[t] : Done(p, d) /\ p.task[d].completed_at <= p.task[t].started_at
        /\ \/ p.task[t].started_at = p.started_at
           \/ \E d \in starts_after[t] : p.task[t].started_at = p.task[d].completed_at
    BY <1>8, <1>10 DEF TaskOnTime
  <2>2. \A d \in starts_after[t] : p.started_at + f[d] <= p.task[t].started_at
    BY <1>2, <2>1
  <2>3. p.started_at + M <= p.task[t].started_at
    <3>1. CASE M = 0
      BY <1>3, <2>1, <3>1
    <3>2. CASE M # 0
      BY <1>6, <2>2, <3>2
    <3> QED BY <3>1, <3>2
  <2>4. p.task[t].started_at <= p.started_at + M
    <3>1. CASE p.task[t].started_at = p.started_at
      BY <1>3, <1>6, <3>1
    <3>2. CASE p.task[t].started_at # p.started_at
      <4>1. PICK d \in starts_after[t] : p.task[t].started_at = p.task[d].completed_at
        BY <2>1, <3>2
      <4>2. p.task[t].started_at = p.started_at + f[d] /\ f[d] \in Int /\ M >= f[d]
        BY <1>2, <1>6, <2>1, <4>1
      <4> QED BY <1>3, <1>6, <4>2
    <3> QED BY <3>1, <3>2
  <2>5. p.task[t].started_at + p.task[t].duration = p.started_at + f[t]
    BY <1>3, <1>6, <1>7, <2>3, <2>4
  <2>6. CASE Done(p, t)
    <3>1. p.task[t].completed_at <= m /\ p.task[t].completed_at <= p.task[t].started_at + p.task[t].duration
      BY <1>8, <2>6 DEF TaskOnTime
    <3>2. p.task[t].completed_at >= p.task[t].started_at + p.task[t].duration
      BY <2>6 DEF Regular
    <3>3. p.task[t].completed_at = p.started_at + f[t]
      <4> DEFINE x == p.task[t].completed_at
                 y == p.task[t].started_at + p.task[t].duration
      <4>1. x \in Int /\ y \in Int /\ x <= y /\ x >= y
        BY <1>3, <3>1, <3>2
      <4>2. y = p.started_at + f[t]
        BY <2>5
      <4> HIDE DEF x, y
      <4>3. x = y
        BY <4>1
      <4> QED BY <4>2, <4>3 DEF x
    <3> QED BY <1>3, <1>7, <2>6, <3>1, <3>3 DEF OverInTime, f
  <2>7. CASE ~Done(p, t)
    <3>1. p.task[t].status = "in_progress"
      BY <1>3, <1>10, <2>7 DEF Done
    <3>2. m < p.task[t].started_at + p.task[t].duration
      BY <1>8, <3>1 DEF TaskOnTime
    <3> QED BY <1>3, <1>7, <2>5, <2>7, <3>2 DEF OverInTime, f
  <2> QED BY <2>6, <2>7
<1> QED BY <1>9, <1>10

(* Along the graph of the tasks: the plan is complete when its longest     *)
(* path is over.                                                           *)
LEMMA PlanOver ==
  ASSUME NEW p \in PlanState, NEW m \in Int, OnTime(p, m), Regular(p)
  PROVE  is_complete(p) <=> m >= p.started_at + compute_critical_path(p)
<1> DEFINE O(t) == OverInTime(p, m, t)
<1>1. \A t \in Task : (\A d \in starts_after[t] : O(d)) => O(t)
  BY TaskOver
<1> HIDE DEF O
<1>2. O("jetbridge_connect") /\ O("fueling")
  BY <1>1 DEF Task, starts_after
<1>3. O("deplaning") /\ O("baggage_offload") /\ O("catering")
  BY <1>1, <1>2 DEF Task, starts_after
<1>4. O("cleaning") /\ O("baggage_loading")
  BY <1>1, <1>3 DEF Task, starts_after
<1>5. O("boarding")
  BY <1>1, <1>3, <1>4 DEF Task, starts_after
<1>6. O("door_close")
  BY <1>1, <1>2, <1>3, <1>4, <1>5 DEF Task, starts_after
<1>7. O("pushback")
  BY <1>1, <1>6 DEF Task, starts_after
<1>8. \A t \in Task : O(t)
  BY <1>2, <1>3, <1>4, <1>5, <1>6, <1>7 DEF Task
<1> DEFINE f == FinishOf(p)
           S == {f[t] : t \in Task}
<1>9. compute_critical_path(p) = Max(S)
  BY Zenon DEF compute_critical_path, FinishOf
<1>10. \A t \in Task : f[t] \in Int /\ (Done(p, t) <=> m >= p.started_at + f[t])
  BY <1>8 DEF O, OverInTime
<1> HIDE DEF f
<1>11. IsFiniteSet(S) /\ S \subseteq Int /\ S # {}
  <2>1. IsFiniteSet(S)
    BY TaskGraph, FiniteImage
  <2> QED BY <1>10, <2>1 DEF Task
<1>12. Max(S) \in S /\ \A y \in S : Max(S) >= y
  <2> HIDE DEF S
  <2> QED BY <1>11, FiniteMax
<1> DEFINE M == Max(S)
<1>13. M \in Int /\ (\A t \in Task : M >= f[t]) /\ \E t \in Task : M = f[t]
  BY <1>11, <1>12
<1> HIDE DEF M
<1>14. (\A t \in Task : m >= p.started_at + f[t]) <=> m >= p.started_at + M
  <2>1. p.started_at \in Int
    BY DEF PlanState
  <2> QED BY <1>10, <1>13, <2>1
<1> QED BY <1>9, <1>10, <1>14 DEF is_complete, M

(* _advance_turnaround_plans completes every plan exactly when             *)
(* compute_critical_path says, whatever the steps of the clock and the     *)
(* delays, as long as no finished task is extended.                        *)
THEOREM CompletesOnTimeProved == TurnSpec => []CompletesOnTime
<1>1. TurnInv => CompletesOnTime
  <2> SUFFICES ASSUME TurnInv, NEW r \in DOMAIN ground.plan, Regular(ground.plan[r])
               PROVE  is_complete(ground.plan[r]) <=>
                        minute >= ground.plan[r].started_at + compute_critical_path(ground.plan[r])
    BY DEF CompletesOnTime
  <2>1. ground.plan[r] \in PlanState /\ minute \in Int /\ OnTime(ground.plan[r], minute)
    BY InGround, TurnaroundAssumption DEF TurnInv, Sound, TurnaroundAssumption
  <2> QED BY <2>1, PlanOver
<1> QED BY <1>1, TurnInvHolds, TurnaroundAssumption, PTL
===============================================================================
