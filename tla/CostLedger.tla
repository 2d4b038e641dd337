----------------------------- MODULE CostLedger -----------------------------
(***************************************************************************)
(* cost-service: the inbox, the ledger, the checkpoint and the outbox that *)
(* one transaction writes for an event; the consumer that retries it and   *)
(* commits its offsets later; the summaries in memory; the worker that     *)
(* publishes the outbox; REST requests that change the rates.  Every       *)
(* record counts one: a total is the number of records it contains.        *)
(* cost.events has three partitions and the key of a fact is the id of its *)
(* record: the topic is a set of facts, in no order.                       *)
(***************************************************************************)
EXTENDS Integers, SequencesExt

CONSTANTS
  Event, Topic,
  Log,           \* what each topic holds; an event may be there twice
  Envelope,      \* of an event
  Flight, Direction,
  NoEvent,       \* what a change of the rates has instead of an event
  StartTime, DayLength, HourLength,
  KeptDays,      \* the days a checkpoint keeps besides the selected one
  PageSize,      \* the rows an outbox worker reads at a time
  MaxFaults,     \* bound: crashes, lost acknowledgements, failed deliveries
  MaxRates       \* bound: changes of the rates

EventType == {"SimClockTick", "FlightStatusChanged", "FlightCancelled",
              "IncidentCreated", "IncidentStatusChanged"}
NewStatus == {"boarding", "delayed", "departed", "at_gate", "arrived", "cancelled",
              "resolved", "other"}

(* What is charged: an item stands for the records of one category.  The   *)
(* facts of a commit are announced in this order.                          *)
Cost   == <<"gate_fee", "landing_fee", "ground_handling", "passenger_fee", "slot_revenue",
            "eu261_compensation", "holding_fuel", "staffing", "retail_revenue",
            "incident_direct", "incident_response">>
Carbon == <<"flight_carbon", "terminal_carbon">>
Order  == <<"rates">> \o Cost \o Carbon \o <<"processed">>
Item   == ToSet(Cost) \cup ToSet(Carbon)

ASSUME LedgerAssumption ==
  /\ Log \in [Topic -> Seq(Event)] /\ NoEvent \notin Event
  /\ Direction \in [Flight -> {"arrival", "departure"}]
  /\ Envelope \in [Event -> [type : EventType, status : NewStatus, flight : Flight,
                           delay : Nat, at : Nat, day : Nat, number : Nat]]
  /\ StartTime \in Nat /\ DayLength \in Nat \ {0} /\ HourLength \in Nat \ {0}
  /\ KeptDays \in Nat /\ PageSize \in Nat \ {0} /\ MaxFaults \in Nat /\ MaxRates \in Nat

VARIABLES
  revision, doc,     \* CostRuntime: its revision and its document
  inbox,             \* the CostInbox nodes
  ledger,            \* the CostRecord and CarbonRecord nodes
  outbox,            \* the CostOutbox rows
  published,         \* the facts that are on cost.events
  unconfirmed,       \* those that wait in the producer since a delivery failed
  position,          \* of the consumer, in each topic
  work,              \* what the consumer does
  memory,            \* cost_engine's totals and gate windows
  page,              \* the rows the worker has read and not deleted yet
  delivered,         \* whether it has published the first of them
  faults             \* bound

ledgerVars ==
  <<revision, doc, inbox, ledger, outbox, published, unconfirmed, position, work, memory,
    page, delivered, faults>>

Date(at) == at \div DayLength
Hour(at) == at \div HourLength
NoTime   == -1

Total(nodes, day) == Cardinality({n \in nodes : n.day = day})

(* publish_state *)
View(d) ==
  [day |-> d.sim_day, gate_starts |-> d.gate_starts,
   total |-> IF d.sim_day \in DOMAIN d.days THEN d.days[d.sim_day] ELSE 0]

Down == [pc |-> "down"]
Ready == [pc |-> "next"]

LedgerInit ==
  /\ revision = 0
  /\ doc = [sim_day |-> 1, clock_date |-> NoTime, last_staffing_hour |-> NoTime,
            gate_starts |-> <<>>, days |-> <<>>, rates |-> 0]
  /\ inbox = {} /\ ledger = {} /\ outbox = {}
  /\ published = {} /\ unconfirmed = {}
  /\ position = [t \in Topic |-> 0]
  /\ work = Down /\ memory = View(doc)
  /\ page = <<>> /\ delivered = FALSE /\ faults = 0
-----------------------------------------------------------------------------
(* What an event does to the document, and what it charges.                *)

At(e) == Envelope[e].at

Selected(e, d) ==
  IF Envelope[e].type = "SimClockTick"
  THEN [d EXCEPT !.sim_day = Envelope[e].day, !.clock_date = At(e)] ELSE d

UnshiftedDay(e, d) == d.sim_day   \* mutant of BillingDay
BillingDay(e, d) ==
  IF d.clock_date = NoTime THEN d.sim_day ELSE d.sim_day + Date(At(e)) - Date(d.clock_date)

Becomes(e, direction, status) ==
  /\ Envelope[e].type = "FlightStatusChanged" /\ Envelope[e].status = status
  /\ Direction[Envelope[e].flight] = direction

(* The windows of the gates: setdefault, and pop.                          *)
Opens(e)   == Becomes(e, "departure", "boarding") \/ Becomes(e, "arrival", "at_gate")
Closes(e)  == Becomes(e, "departure", "departed") \/ Becomes(e, "arrival", "arrived")
Cancels(e) ==
  \/ Envelope[e].type = "FlightCancelled"
  \/ Envelope[e].type = "FlightStatusChanged" /\ Envelope[e].status = "cancelled"

_gate_windows(e, starts) ==
  CASE Opens(e) -> starts @@ (Envelope[e].flight :> At(e))
    [] Closes(e) \/ Cancels(e) -> Restrict(starts, DOMAIN starts \ {Envelope[e].flight})
    [] OTHER -> starts

Occupied(e, starts) ==
  /\ Closes(e) /\ Envelope[e].flight \in DOMAIN starts
  /\ starts[Envelope[e].flight] < At(e)

on_flight_status_changed(e, d) ==
  (IF Occupied(e, d.gate_starts) THEN {"gate_fee"} ELSE {})
    \cup (IF Becomes(e, "arrival", "at_gate") THEN {"landing_fee", "ground_handling"} ELSE {})
    \cup (IF Becomes(e, "departure", "departed") THEN {"passenger_fee", "slot_revenue"} ELSE {})
    \cup (IF Envelope[e].status = "delayed" /\ Envelope[e].delay >= 180
          THEN {"eu261_compensation"} ELSE {})

on_flight_departed(e) ==
  IF Becomes(e, "departure", "departed") THEN {"flight_carbon"} ELSE {}

on_incident_resolved(e) ==
  IF Envelope[e].status = "resolved" THEN {"incident_response"} ELSE {}

(* holding is what the database says of flights that hold at this moment.  *)
NewHour(e, d) == Envelope[e].type = "SimClockTick" /\ Hour(At(e)) # d.last_staffing_hour
Each(minutes, e) == Envelope[e].number % minutes = 0
on_clock_tick(e, d, holding) ==
  (IF holding /\ Each(5, e) THEN {"holding_fuel"} ELSE {})
    \cup (IF NewHour(e, d) THEN {"staffing"} ELSE {})
    \cup (IF Each(10, e) THEN {"retail_revenue"} ELSE {})
terminal_emissions(e) == IF Each(10, e) THEN {"terminal_carbon"} ELSE {}

Items(e, d, holding) ==
  CASE Envelope[e].type = "SimClockTick"          -> on_clock_tick(e, d, holding)
                                                     \cup terminal_emissions(e)
    [] Envelope[e].type = "FlightStatusChanged"   -> on_flight_status_changed(e, d)
                                                     \cup on_flight_departed(e)
    [] Envelope[e].type = "FlightCancelled"       -> {"eu261_compensation"}
    [] Envelope[e].type = "IncidentCreated"       -> {"incident_direct"}
    [] Envelope[e].type = "IncidentStatusChanged" -> on_incident_resolved(e)

(* _restore_day: what the checkpoint does not keep is read from the ledger,*)
(* before the records of the event are written.                            *)
RestoredEmpty(days, touched) ==   \* mutant of Restored
  [d \in DOMAIN days \cup touched |-> IF d \in DOMAIN days THEN days[d] ELSE 0]
Restored(days, touched) ==
  [d \in DOMAIN days \cup touched |-> IF d \in DOMAIN days THEN days[d] ELSE Total(ledger, d)]

Added(days, records) == [d \in DOMAIN days |-> days[d] + Total(records, d)]

(* _trim_days: the selected day and the latest others.                     *)
Trimmed(days, day) ==
  LET others == DOMAIN days \ {day}
  IN  Restrict(days, {day} \cup {d \in others : Cardinality({x \in others : x > d}) < KeptDays})

Checkpoint(e, d, records) ==
  LET touched == {d.sim_day} \cup {n.day : n \in records}
  IN  [d EXCEPT !.last_staffing_hour = IF NewHour(e, d) THEN Hour(At(e)) ELSE @,
                !.gate_starts = _gate_windows(e, @),
                !.days = Trimmed(Added(Restored(@, touched), records), d.sim_day)]

(* The facts: CostRecorded and CarbonRecorded, FinancialEventProcessed.    *)
Fact(e, item, rates) ==
  [event |-> e, item |-> item, rates |-> rates, revision |-> revision + 1,
   position |-> CHOOSE i \in DOMAIN Order : Order[i] = item]
-----------------------------------------------------------------------------
(* ledger.process: one transaction, which writes everything or nothing.    *)

SeenButRetried(e) == e \in inbox /\ work = Ready   \* mutant of Seen
Seen(e) == e \in inbox

Apply(e, holding) ==
  LET d       == Selected(e, doc)
      items   == Items(e, d, holding)
      records == {[event |-> e, item |-> i, day |-> BillingDay(e, d), revision |-> revision + 1] :
                    i \in items}
  IN  /\ doc' = Checkpoint(e, d, records)
      /\ ledger' = ledger \cup records
      /\ outbox' = outbox \cup {Fact(e, i, d.rates) : i \in items \cup {"processed"}}
      /\ inbox' = inbox \cup {e}

Transaction(e) ==
  /\ revision' = revision + 1
  /\ IF Seen(e) THEN UNCHANGED <<doc, inbox, ledger, outbox>>
     ELSE \E holding \in BOOLEAN : Apply(e, holding)

Process(t) ==
  /\ work = Ready /\ position[t] < Len(Log[t])
  /\ Transaction(Log[t][position[t] + 1])
  /\ work' = [pc |-> "publish", topic |-> t, view |-> View(doc')]
  /\ UNCHANGED <<published, unconfirmed, position, memory, page, delivered, faults>>

(* The acknowledgement of the commit is lost: the driver, or the consumer, *)
(* tries the same event again.                                             *)
TryAgain ==
  /\ work.pc = "publish" /\ faults < MaxFaults /\ faults' = faults + 1
  /\ Transaction(Log[work.topic][position[work.topic] + 1])
  /\ work' = [work EXCEPT !.view = View(doc')]
  /\ UNCHANGED <<published, unconfirmed, position, memory, page, delivered>>

publish_state ==
  /\ work.pc = "publish" /\ work' = Ready
  /\ memory' = work.view
  /\ position' = [position EXCEPT ![work.topic] = @ + 1]
  /\ UNCHANGED <<revision, doc, inbox, ledger, outbox, published, unconfirmed, page, delivered, faults>>

(* rates.update, by a request or by the refresh of the fuel price.         *)
UpdateRates ==
  /\ work # Down /\ doc.rates < MaxRates
  /\ revision' = revision + 1
  /\ doc' = [doc EXCEPT !.rates = @ + 1]
  /\ outbox' = outbox \cup {Fact(NoEvent, "rates", doc.rates + 1)}
  /\ UNCHANGED <<inbox, ledger, published, unconfirmed, position, work, memory, page, delivered, faults>>
-----------------------------------------------------------------------------
(* The outbox worker.                                                      *)

Earlier(a, b) ==
  \/ a.revision < b.revision
  \/ a.revision = b.revision /\ a.position < b.position

Ranked(i, rows) ==
  CHOOSE r \in rows : Cardinality({x \in rows : Earlier(x, r)}) = i - 1

ReadPage ==
  /\ work # Down /\ page = <<>> /\ outbox # {}
  /\ page' = [i \in 1..Min({PageSize, Cardinality(outbox)}) |-> Ranked(i, outbox)]
  /\ UNCHANGED <<revision, doc, inbox, ledger, outbox, published, unconfirmed, position, work,
                 memory, delivered, faults>>

publish_confirmed ==
  /\ page # <<>> /\ ~delivered /\ delivered' = TRUE
  /\ published' = published \cup {Head(page)}
  /\ UNCHANGED <<revision, doc, inbox, ledger, outbox, unconfirmed, position, work, memory,
                 page, faults>>

KeepsRow ==   \* mutant of Delete
  /\ delivered /\ delivered' = FALSE /\ page' = Tail(page)
  /\ UNCHANGED <<revision, doc, inbox, ledger, outbox, published, unconfirmed, position, work,
                 memory, faults>>
Delete ==
  /\ delivered /\ delivered' = FALSE
  /\ outbox' = outbox \ {Head(page)} /\ page' = Tail(page)
  /\ UNCHANGED <<revision, doc, inbox, ledger, published, unconfirmed, position, work, memory,
                 faults>>

ForgetsFact ==   \* mutant of PageFails
  /\ page # <<>> /\ faults < MaxFaults /\ faults' = faults + 1
  /\ outbox' = outbox \ {Head(page)} /\ page' = <<>> /\ delivered' = FALSE
  /\ UNCHANGED <<revision, doc, inbox, ledger, published, unconfirmed, position, work, memory>>

(* The rows are read again after a delivery that fails, one that is not    *)
(* confirmed in time and stays with the producer, or a failed deletion.    *)
PageFails ==
  /\ page # <<>> /\ faults < MaxFaults /\ faults' = faults + 1
  /\ page' = <<>> /\ delivered' = FALSE
  /\ unconfirmed' \in {unconfirmed} \cup IF delivered THEN {} ELSE {unconfirmed \cup {Head(page)}}
  /\ UNCHANGED <<revision, doc, inbox, ledger, outbox, published, position, work, memory>>

(* The producer delivers such a fact after all, before or after the row    *)
(* that was read again, or gives it up.                                    *)
LateDelivery ==
  \E r \in unconfirmed :
    /\ unconfirmed' = unconfirmed \ {r}
    /\ published' \in {published, published \cup {r}}
    /\ UNCHANGED <<revision, doc, inbox, ledger, outbox, position, work, memory, page, delivered,
                   faults>>
-----------------------------------------------------------------------------
(* A crash at any point: offsets are committed after batches of any length,*)
(* so the consumer goes on at any message up to the one it was at.         *)

Crash ==
  /\ work # Down /\ faults < MaxFaults /\ faults' = faults + 1
  /\ work' = Down /\ page' = <<>> /\ delivered' = FALSE
  /\ \E committed \in [Topic -> UNION {0..position[t] : t \in Topic}] :
       (\A t \in Topic : committed[t] <= position[t]) /\ position' = committed
  /\ unconfirmed' = {}
  /\ UNCHANGED <<revision, doc, inbox, ledger, outbox, published, memory>>

(* ledger.initialize at the start.                                         *)
initialize ==
  /\ work = Down /\ work' = Ready
  /\ revision' = revision + 1
  /\ LET repaired == Restored(Restrict(doc.days, DOMAIN doc.days \ {doc.sim_day}), {doc.sim_day})
     IN  doc' = [doc EXCEPT !.days = Trimmed(repaired, doc.sim_day)]
  /\ memory' = View(doc')
  /\ UNCHANGED <<inbox, ledger, outbox, published, unconfirmed, position, page, delivered, faults>>

LedgerNext ==
  \/ initialize \/ Crash \/ publish_state \/ TryAgain \/ UpdateRates
  \/ ReadPage \/ publish_confirmed \/ Delete \/ PageFails \/ LateDelivery
  \/ \E t \in Topic : Process(t)

LedgerSpec == LedgerInit /\ [][LedgerNext]_ledgerVars

(* The worker reads again until the outbox is empty, and a service that    *)
(* stopped is started again.                                               *)
FairLedgerSpec ==
  /\ LedgerSpec
  /\ WF_ledgerVars(initialize) /\ WF_ledgerVars(ReadPage)
  /\ WF_ledgerVars(publish_confirmed) /\ WF_ledgerVars(Delete)
-----------------------------------------------------------------------------
(* The totals a checkpoint keeps, and those in memory, are the totals of   *)
(* the ledger: through retries, restarts, the eviction of days and their   *)
(* restoration, late events of another day, and a lost acknowledgement.    *)
TotalsMatchLedger ==
  /\ \A d \in DOMAIN doc.days : doc.days[d] = Total(ledger, d)
  /\ work = Ready => /\ memory = View(doc)
                    /\ memory.total = Total(ledger, doc.sim_day)

(* An event is charged once, with all its records and facts in one commit, *)
(* however often it is delivered.                                          *)
ChargedOnce ==
  /\ \A m, n \in ledger : m.event = n.event => m.revision = n.revision /\ m.day = n.day
  /\ \A n \in ledger : n.event \in inbox

(* sim-orchestrator counts the days from the start of the simulation.      *)
TrueDay(e) == 1 + Date(At(e)) - Date(StartTime)
ASSUME ClockTellsDay ==
  \A e \in Event : Envelope[e].type = "SimClockTick" => Envelope[e].day = TrueDay(e)

(* Once a tick has told the day, a record is billed on the day of its      *)
(* event, however late it comes and whatever day is selected by then: the  *)
(* topics are read in any order.  Before, everything is billed to day 1.   *)
BilledOnItsDay ==
  LET ticks == {r \in outbox \cup published :
                  r.event # NoEvent /\ Envelope[r.event].type = "SimClockTick"}
  IN  \A n \in ledger :
        n.day = IF \A r \in ticks : n.revision < r.revision THEN 1 ELSE TrueDay(n.event)

Announced(facts) == {<<r.event, r.item>> : r \in facts}

(* No fact is lost: a charge has its facts in the outbox until they are on *)
(* cost.events, through failed deliveries, deletions and crashes.          *)
FactsKept ==
  /\ \A e \in inbox : <<e, "processed">> \in Announced(outbox \cup published)
  /\ \A n \in ledger : <<n.event, n.item>> \in Announced(outbox \cup published)

(* Every event that was processed is announced on cost.events in the end,  *)
(* with all it charged: the worker takes one page of the oldest rows after *)
(* the other, through failed deliveries, deletions and crashes, and leaves *)
(* no row behind.                                                          *)
FactsArrive ==
  \A e \in Event :
    e \in inbox ~> /\ <<e, "processed">> \in Announced(published)
                   /\ \A n \in ledger : n.event = e => <<e, n.item>> \in Announced(published)
=============================================================================
