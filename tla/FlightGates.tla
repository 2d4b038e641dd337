----------------------------- MODULE FlightGates -----------------------------
(***************************************************************************)
(* flight-service: the gates of the flights.  The consumer asks whether a  *)
(* gate is taken, looks for a free one and assigns it in separate queries, *)
(* and writes the status that makes the flight occupy it in yet another    *)
(* one; REST requests hold and release flights in between.  When a flight  *)
(* may move is decided in FlightStates; here every move may come at any    *)
(* tick.  Gate.status, which only the list of gates shows, is left out.    *)
(***************************************************************************)
EXTENDS FlightStates, Sequences

CONSTANTS
  Landings, Takeoffs,   \* flights
  Gate, TerminalOf,     \* gates are numbers, in the order of their names
  NoGate,
  Compatible,           \* the gates a flight's type and aircraft may use
  Seeded,               \* the gates the schedule gave out; flights share them
  OutboundOf, NoOutbound,
  GateRest,             \* the REST requests that may run at a time
  MaxGateCalls          \* bound: holds, releases, reassignments, restarts

GateFlight == Landings \cup Takeoffs

ASSUME GateAssumption ==
  /\ Landings \cap Takeoffs = {}
  /\ Gate \subseteq Nat /\ NoGate \notin Gate
  /\ TerminalOf \in [Gate -> {"T-A", "T-B", "T-C"}]
  /\ Compatible \in [GateFlight -> SUBSET Gate] /\ Seeded \in [GateFlight -> Gate]
  /\ OutboundOf \in [Landings -> Takeoffs \cup {NoOutbound}] /\ NoOutbound \notin Takeoffs
  /\ MaxGateCalls \in Nat

VARIABLES
  status,
  link,          \* the gate of a flight's ASSIGNED_TO relationship
  gate_id,       \* the gate its node remembers
  work,          \* the consumer: a tick, a ReassignGate, or idle
  rest,          \* where each request stands
  checked,       \* history: the flights that occupy their gate since a check
  gate_calls     \* bound

gateVars == <<status, link, gate_id, work, rest, checked, gate_calls>>

GateIdle == [pc |-> "idle"]

Occupying == {"boarding", "delayed", "scheduled", "landed", "taxiing", "at_gate"}
Occupants(g, f) == {h \in GateFlight \ {f} : link[h] = g /\ status[h] \in Occupying}
OccupiedUnlessTaxiing(g, f) ==   \* mutant of is_gate_occupied
  \E h \in Occupants(g, f) : status[h] # "taxiing"
is_gate_occupied(g, f) == Occupants(g, f) # {}

TERMINAL_FALLBACK ==
  [t \in {"T-A", "T-B", "T-C"} |->
     CASE t = "T-A" -> <<"T-A", "T-B", "T-C">>
       [] t = "T-B" -> <<"T-B", "T-A", "T-C">>
       [] t = "T-C" -> <<"T-C", "T-B", "T-A">>]

FreeGates(t, f) ==
  {g \in Compatible[f] : TerminalOf[g] = t /\ ~is_gate_occupied(g, f)}

GatesInit ==
  /\ status = [f \in GateFlight |-> "scheduled"]
  /\ link = Seeded /\ gate_id = Seeded
  /\ work = GateIdle /\ rest = [t \in GateRest |-> GateIdle]
  /\ checked = {} /\ gate_calls = 0
-----------------------------------------------------------------------------
(* A tick reads the flights, then processes them one after the other.      *)

GateTick ==
  /\ work = GateIdle
  /\ work' = [pc |-> "next", todo |-> {f \in GateFlight : status[f] \notin TERMINAL_STATES},
              seen |-> [f \in GateFlight |->
                 [status |-> status[f], gate |-> IF link[f] # NoGate THEN link[f] ELSE gate_id[f]]]]
  /\ UNCHANGED <<status, link, gate_id, rest, checked, gate_calls>>

GateTickEnds ==
  /\ work.pc = "next" /\ work.todo = {} /\ work' = GateIdle
  /\ UNCHANGED <<status, link, gate_id, rest, checked, gate_calls>>

(* What a tick may write for a flight, besides nothing. *)
GateMoves(f, s) ==
  CASE s = "scheduled" -> IF f \in Landings THEN {"approach"} ELSE {"boarding"}
    [] s = "delayed"   -> {"cancelled", IF f \in Landings THEN "approach" ELSE "boarding"}
    [] s = "boarding"  -> {"boarding", "departed", "delayed", "cancelled"}
    [] s = "approach"  -> {"landed", "delayed", "diverted"}
    [] s = "landed"    -> {"taxiing"}
    [] s = "taxiing"   -> {"at_gate"}
    [] s = "at_gate"   -> {"arrived"}
    [] OTHER           -> {}     \* departed, airborne: no gate any more

Step(pc, f, new) ==
  [pc |-> pc, todo |-> work.todo \ {f}, seen |-> work.seen, f |-> f, new |-> new]
NextFlight == [pc |-> "next", todo |-> work.todo, seen |-> work.seen]

(* ensure_gate_assigned before a departure boards and when an arrival      *)
(* lands; a gate is released before the status that ends the flight.       *)
StartsWith(f, s, new) ==
  CASE new = "landed" \/ (s = "scheduled" /\ f \in Takeoffs) -> "check"
    [] new \in {"departed", "cancelled", "arrived"} -> "release"
    [] new = "at_gate" /\ OutboundOf[f] # NoOutbound -> "paired"
    [] OTHER -> "write"

ProcessGate(f) ==
  /\ work.pc = "next" /\ f \in work.todo
  /\ LET s == work.seen[f].status
     IN  \/ \E new \in GateMoves(f, s) : work' = Step(StartsWith(f, s, new), f, new)
         \/ work' = [NextFlight EXCEPT !.todo = @ \ {f}]
         \/ s = "scheduled" /\ f \in Takeoffs /\ work' = Step("check", f, Stay)
  /\ UNCHANGED <<status, link, gate_id, rest, checked, gate_calls>>

AfterCheck == IF work.new = Stay THEN NextFlight ELSE [work EXCEPT !.pc = "write"]
Searching(terminals) ==
  [pc |-> "search", todo |-> work.todo, seen |-> work.seen, f |-> work.f, new |-> work.new,
   terminals |-> terminals]

CheckGate ==
  /\ work.pc = "check"
  /\ LET f == work.f
         g == work.seen[f].gate
     IN  IF g # NoGate /\ ~is_gate_occupied(g, f)
         THEN work' = AfterCheck /\ checked' = checked \cup {f}
         ELSE /\ work' = Searching(TERMINAL_FALLBACK[IF g = NoGate THEN "T-A" ELSE TerminalOf[g]])
              /\ checked' = checked \ {f}
  /\ UNCHANGED <<status, link, gate_id, rest, gate_calls>>

(* One terminal after the other; without a free gate the flight keeps what *)
(* it has.                                                                 *)
SearchGate ==
  /\ work.pc = "search"
  /\ LET free == FreeGates(Head(work.terminals), work.f)
         more == Tail(work.terminals)
     IN  work' = CASE free # {} -> [pc |-> "assign", todo |-> work.todo, seen |-> work.seen,
                                    f |-> work.f, new |-> work.new,
                                    gate |-> CHOOSE g \in free : \A h \in free : g <= h]
                   [] free = {} /\ more # <<>> -> Searching(more)
                   [] OTHER -> AfterCheck
  /\ UNCHANGED <<status, link, gate_id, rest, checked, gate_calls>>

(* assign_flight_to_gate asks once more and moves the link in one query.   *)
Assign ==
  /\ work.pc = "assign"
  /\ LET f == work.f
         g == work.gate
     IN  IF is_gate_occupied(g, f) THEN UNCHANGED <<link, gate_id, checked>>
         ELSE /\ link' = [link EXCEPT ![f] = g] /\ gate_id' = [gate_id EXCEPT ![f] = g]
              /\ checked' = IF (IF work.new = Stay THEN status[f] ELSE work.new) \in Occupying
                            THEN checked \cup {f} ELSE checked
  /\ work' = AfterCheck
  /\ UNCHANGED <<status, rest, gate_calls>>

release_gate ==
  /\ work.pc = "release"
  /\ LET f == work.f
     IN  /\ gate_id' = [gate_id EXCEPT ![f] = IF link[f] = NoGate THEN @ ELSE link[f]]
         /\ link' = [link EXCEPT ![f] = NoGate]
  /\ work' = [work EXCEPT !.pc = "write"]
  /\ UNCHANGED <<status, rest, checked, gate_calls>>

(* propagate_turnaround_delay reads the outbound flight and delays it.     *)
PairedDelay ==
  /\ work.pc \in {"paired", "delay"}
  /\ LET out == OutboundOf[work.f]
     IN  IF work.pc = "paired"
         THEN /\ \/ /\ Propagates(status[out]) /\ work' = [work EXCEPT !.pc = "delay"]
                 \/ work' = [work EXCEPT !.pc = "write"]
              /\ UNCHANGED status
         ELSE status' = [status EXCEPT ![out] = "delayed"] /\ work' = [work EXCEPT !.pc = "write"]
  /\ UNCHANGED <<link, gate_id, rest, checked, gate_calls>>

(* A flight that does not occupy its gate any more needs another check. *)
StillChecked(f, new) == IF new \in Occupying THEN checked ELSE checked \ {f}

WriteStatus ==
  /\ work.pc = "write"
  /\ status' = [status EXCEPT ![work.f] = work.new]
  /\ checked' = StillChecked(work.f, work.new)
  /\ work' = NextFlight
  /\ UNCHANGED <<link, gate_id, rest, gate_calls>>
-----------------------------------------------------------------------------
(* Commands, and the REST requests that change a status.                   *)

GateCall == gate_calls < MaxGateCalls /\ gate_calls' = gate_calls + 1

(* reassign_gate looks at the gate, then assigns it. *)
ReassignGate(f, g) ==
  /\ work = GateIdle /\ GateCall /\ ~is_gate_occupied(g, f)
  /\ work' = [pc |-> "assign", todo |-> {}, seen |-> <<>>, f |-> f, new |-> Stay, gate |-> g]
  /\ UNCHANGED <<status, link, gate_id, rest, checked>>

HoldCommand(f) ==
  /\ work = GateIdle /\ GateCall /\ validate_hold_precondition(status[f])
  /\ status' = [status EXCEPT ![f] = "delayed"]
  /\ UNCHANGED <<link, gate_id, work, rest, checked>>

(* A request checks the status and writes another one later.               *)
RestBegins(t, f) ==
  /\ rest[t] = GateIdle /\ GateCall
  /\ \/ /\ validate_hold_precondition(status[f])
        /\ rest' = [rest EXCEPT ![t] = [pc |-> "hold", f |-> f, new |-> "delayed"]]
     \/ /\ status[f] = "delayed"
        /\ rest' = [rest EXCEPT ![t] = [pc |-> "release", f |-> f,
                      new |-> IF f \in Landings THEN "approach" ELSE "boarding"]]
  /\ UNCHANGED <<status, link, gate_id, work, checked>>

RestWrites(t) ==
  /\ rest[t] # GateIdle
  /\ status' = [status EXCEPT ![rest[t].f] = rest[t].new]
  /\ checked' = StillChecked(rest[t].f, rest[t].new)
  /\ rest' = [rest EXCEPT ![t] = GateIdle]
  /\ UNCHANGED <<link, gate_id, work, gate_calls>>

(* A restart leaves the release or the assignment without its status.      *)
GateRestart ==
  /\ GateCall /\ work' = GateIdle /\ rest' = [t \in GateRest |-> GateIdle]
  /\ UNCHANGED <<status, link, gate_id, checked>>

GatesNext ==
  \/ GateTick \/ GateTickEnds \/ CheckGate \/ SearchGate \/ Assign \/ release_gate
  \/ PairedDelay \/ WriteStatus \/ GateRestart
  \/ \E f \in GateFlight : ProcessGate(f) \/ HoldCommand(f) \/ \E g \in Gate : ReassignGate(f, g)
  \/ \E t \in GateRest : RestWrites(t) \/ \E f \in GateFlight : RestBegins(t, f)

GatesSpec == GatesInit /\ [][GatesNext]_gateVars
-----------------------------------------------------------------------------
GateTypeOK ==
  /\ status \in [GateFlight -> Status]
  /\ link \in [GateFlight -> Gate \cup {NoGate}] /\ gate_id \in [GateFlight -> Gate]
  /\ checked \subseteq GateFlight

OnStand(f) == status[f] \in IF f \in Landings THEN {"landed", "taxiing", "at_gate"}
                                             ELSE {"boarding"}

(* Two flights on their stands have different gates, unless one of them    *)
(* came without a check, or its check found no gate: the three queries of  *)
(* an assignment, the requests and the restarts between them never put two *)
(* at one gate.                                                            *)
StandsAlone ==
  \A f, h \in checked :
    f # h /\ OnStand(f) /\ OnStand(h) /\ link[f] # NoGate => link[f] # link[h]
=============================================================================
