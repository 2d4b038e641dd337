# Verification of arthur-airport

TLA+ modules, TLC configurations and TLAPS proofs for the services of
arthur-airport: what state they keep, how they change it, and what must hold
whatever the interleaving of messages, requests, retries and crashes.

- [The system](#the-system): inventory
- [Modules](#modules): what is modelled and how it corresponds to the code
- [Runs](#runs), [bounds](#bounds), [fairness](#fairness)
- [Proofs](#proofs)
- [Findings](#findings)
- [Plan](#plan) and [what is not modelled](#what-is-not-modelled)

`tlc -config X.cfg M` runs a configuration, `tlapm M.tla` checks the proofs of
a `*_proofs` module. `PROJECT.json` lists the runs, the source lines behind each
definition, the hazards and the theorems.

## The system

A discrete-event simulation of an airport. Python services (one asyncio event
loop each) keep their domain in Neo4j and talk only through Kafka topics; a
Node gateway forwards REST and WebSocket traffic; a React dashboard shows it.
Time is simulated: `sim-orchestrator` publishes `SimClockTick`, and a service
acts on the time of the last tick it saw. The rules of the repository's README:
no direct HTTP between services, no wall clock, an event for every change, Neo4j
as the single source of truth.

| Component | State | Operations | Interacts with | What makes it correct |
|---|---|---|---|---|
| **incident-service** (`services/lifecycle.py`, `cascade.py`, `protocols.py`) | incidents and SPAWNED tree in Neo4j; active protocols, cascaded marks and queued cascades in memory | create, contain, resolve, tick TTR, fire delayed cascades, hourly draw, shorten TTR after a recommendation | REST, commands, weather, baggage and security events in; IncidentCreated / StatusChanged out | resolved is final; protocols and events match the incidents; the cascade is a forest, each incident cascades once; countdowns run out |
| **analysis-service: proposals** (`proposal_store.py`, `action_outbox.py`, `action_execution.py`, `approval_queue.py`) | ActionProposal and AnalysisOutbox nodes; an in-memory queue | create, approve, reject, dispatch, retry, settle by receipt | commands to flight-, passenger-, baggage- and incident-service; receipts back | guarded actions need a human; settled only by a receipt; every dispatched action is settled |
| **command receipts** (`_common/commands.py`, `command_store.py`, the owners' consumers) | CommandReceipt nodes, a bounded cache of them | execute a command once, answer every copy of it | command topics in, facts topics out | a repeated command mutates nothing and gets the same answer |
| **flight-service** (`kafka/consumer.py`, `state_machine.py`, `gate_resolver.py`, `runway_queue.py`, `turnaround_plan.py`, `ground_vehicles.py`) | flights, gates, runways in Neo4j; held flights, restrictions, runway queue, turnaround plans, vehicle pool in memory | per tick: slots, transitions, turnaround, vehicles; REST and commands: hold, release, reassign gate | ticks, weather, incidents, commands in; flight events out | a hold is not undone by the tick; a gate has one flight; restrictions end with their incident; vehicles return |
| **passenger-service** | passengers, security lanes, wheelchair requests | journey per tick, lanes, connections | ticks, flights, commands in; congestion out | no passenger is lost or counted twice; lanes match their queues |
| **baggage-service** | bags, conveyor and screening queues | conveyor per tick, screening, offload | ticks, flights, commands in; bag events out | every bag is loaded, offloaded or accounted for |
| **weather-service** | the category and its parameters | one step of a Markov chain per draw, METAR | ticks in, WeatherStateChanged out | one step of severity at a time; capacity follows the category |
| **sim-orchestrator** | the clock, the seeded schedule, snapshots | tick, pause, speed, reset, snapshot, scenario | ticks and injections out | time never goes back between resets; each boundary fires once |
| **analysis-service: detection** | sliding windows, recommendations, learned models | detect, recommend, rank, autonomous choice | every topic in, proposals out | thresholds and cooldowns |
| **cost-service** | ledger entries and outbox | value events, reverse, carbon | every topic in | an event is charged once |
| **planning-service** | scenario jobs, slot and network plans | run, cancel, compare | REST | a job ends; results are stored once |
| **api-gateway, dashboard, infra** | sockets, sessions | forward, authenticate, display | all | – |

Hard in this code, and the reason for the models: handlers that read, await and
write; REST requests and the consumer in one event loop; state in memory beside
Neo4j; messages delivered again after a crash, or lost by auto-commit; retries
that race the late answer; bounded caches that forget; cascades that create
further work in the middle of a handler. `PROJECT.json` lists each with its line
under `hazards`.

## Modules

| Module | Models | Role |
|---|---|---|
| `IncidentTables` | `CASCADE_RULES`, `TTR_RANGES`, `PROTOCOLS`, the recommendation tables | constant tables, all entries |
| `IncidentLifecycle` | incident-service | state machine |
| `MCIncidentLifecycle` | – | instances: which kinds occur, the shortest TTRs, the consumer's two inputs |
| `ActionLifecycle` | the promise of analysis-service SPEC.md | abstract specification |
| `ActionCommands` | proposal store, outbox, Kafka, owner, receipts | state machine, implements `ActionLifecycle` |
| `MCActionCommands` | – | instances: two proposals, their targets |
| `FlightStates` | `state_machine.py`, `decisions.py`, `commands.py` of flight-service | pure rules of a flight |
| `FlightHolds` | flight-service: ticks on a snapshot, holds, releases, cancellations | state machine over `FlightStates` |
| `RunwayQueue` | flight-service: the heaps of the runway, slots, wake separation | state machine |
| `Turnaround` | flight-service: plans, their tasks and the vehicle pool | state machine |
| `FlightGates` | flight-service: occupancy, choice and assignment of gates | state machine over `FlightStates` |
| `IncidentNews` | Incident nodes and their announcements, as the other services see them | state machine that the next three extend |
| `RunwayRestrictions` | flight-service: closures by incidents and weather; duplicate suppression | state machine with Kafka |
| `MCFlightService` | – | instances of the five modules of flight-service |
| `BaggageConveyor` | baggage-service | state machine |
| `PassengerJourney` | passenger-service | state machine |
| `CostLedger` | cost-service | state machine with Kafka |
| `SimClock` | sim-orchestrator | state machine |
| `MCCostLedger` | – | an instance of the ledger |
| `MCAirport` | – | instances of the four modules of baggage-, passenger-, cost-service and sim-orchestrator |
| `ActionCommands_proofs`; `IncidentLifecycle_proofs`, `IncidentCascades_proofs`; `FlightHolds_proofs`, `FlightResources_proofs` (gates, queue, restrictions, turnaround); `Journeys_proofs` (passengers, baggage); `CostLedger_proofs`; `SimClock_proofs` | – | theorems |

### IncidentLifecycle

A *task* is the Kafka consumer or a REST request; `task[t]` holds its program
counter and the local variables of its handler. Each action runs from one await
to the next, so `lifecycle.create_incident` is `CreateNode` (the query),
`Activate` (protocol), `Link` (the SPAWNED query), `Announce` (event) and
`Cascade` (`evaluate_cascades`, which either ends, queues the child or creates
it in the same task). `contain_incident` is `ContainRead`, `ContainWrite`,
`ContainNotify`; `resolve_incident` is `ResolveRead`, `ResolveWrite`,
`Deactivate`, `ResolveChildren`, `Notify`. The consumer takes a message when it
is idle (`OnTick`, `OnCommand`, `OnInject`, `OnDetection`, `OnWeatherChanged`,
`OnRecommendationApplied`); the loops over a tick's countdowns, due cascades and
draws are the stages `ttr`, `fire`, `draw`, over a recommendation's countdowns
`reduce`. `Fail` is a query that raises and ends the handler; `Restart` empties
the memory of the process and keeps Neo4j.

Abstracted: ids are numbers in order of creation; the text, timestamps,
estimated cost and delay of an incident; the alerts; the random draws are
choices; the position of a message in the batch is free, except that the tick
comes last. Each event's id is taken to be new (see hazards).

### ActionCommands

One owner and its proposals. `loop` is fixed at the start and says which of the
three ways of reading commands the owner has: `shared`
(`run_consumer_loop`: flight- and incident-service), `deferring`
(baggage-service keeps commands until the first tick) or `dedicated`
(passenger-service: one command at a time, retried in place, committed when
handled). `Raising[loop]` are the proposals whose command makes the owner's
handler raise each time. `status`, `decided`, `due` and `outbox` are
analysis-service's documents; `queue`, `uncommitted` and `events` Kafka; `pc`,
`cur`, `result`, `results`, `outgoing` the memory of `CommandReceipts.handle`;
`stored` the `CommandReceipt` nodes; `applied` counts how often the command
changed the owner's domain. Every `proposal_store` operation is one transaction
under one lock, hence one action; `handle` is `TakeCommand`, `Load`, `Execute`,
`Save`, `Reply` and, in the dedicated loop, `Commit`. `PublishUnconfirmed`,
`PublisherCrash`, `QueryFails`, `OwnerCrash` and `Lose` are the faults.

Abstracted: the contents of a command and of the domain (a command either
succeeds or is rejected, both possible at any execution); five minutes of
simulated time are one action, so that a retry may come at any distance from the
previous attempt; the order of commands in a topic, because batches and
partitions do not preserve it between commands of different keys.

`ActionLifecycle` says what this amounts to for a user: six transitions of a
proposal and one effect, no queue and no failure.
`Promise == INSTANCE ActionLifecycle WITH effects <- applied` maps it.

### flight-service

`FlightStates` has the rules that read nothing but their arguments:
`evaluate_transition`, the valid transitions, the doors' rules, who may hold or
release.

`FlightHolds`: `flight` is the Flight nodes, `held_flights` the memory of the
process, `tick` and `request` the program counters and locals of the
coroutines. A tick reads the active flights into a snapshot (`Tick`) and
processes one after the other; between the decision and its write, and between
two queries of a hold or release, any request may run. Commands hold flights in
the consumer itself; a request may hold and release. Delays propagate to the
next flight of the aircraft (`Pair`). What runways, gates, passengers and the
turnaround answer is chosen anew at each decision. `overdue` counts the ticks
that left a departure boarding after its doors' time, and starts again when the
flight is written to another status, its estimate is pushed or it is held; it is
there for the property only.

`RunwayQueue`: two heaps of items `[priority, flight]`; an item whose flight was
removed stays and is skipped when popped, so `queue` and `queued_flights` are
separate state. A tick asks `process_minute` for slots, processes the active
flights (which ask, leave, or declare PAN PAN), then counts holding minutes.
Only the consumer touches the queue, one message at a time, so a tick is one
action per stage.

`Turnaround`: `ground.plan` the plans with their ten tasks, `ground.vehicle` the
pool, `ground.pending_requests` its waiting list, `ground.task_vehicles` the
vehicles that tasks in progress have. A tick lets flights arrive, leave and break
equipment, then advances the plans minute by minute and the pool once;
`compute_critical_path` is a recursive function over the task graph.

`FlightGates`: the occupancy query, the search for a free gate over the
terminals and the assignment are separate queries of the consumer, the status
that makes a flight occupy its gate a fourth; requests hold and release flights
between them. When a flight may move is left to `FlightStates`; here every move
may come at any tick.

`RunwayRestrictions`: flight-service handles the announcements of `IncidentNews`
one by one (`Dispatch`; `handled` is its position in each incident's partition),
skips those it has seen (`seen`, of which the oldest are evicted beyond
`MaxSize`), and keeps the open incidents it knows and what the weather closes.
`WriteAgain` is a retry of the producer, which writes a message a second time. A
restart rebuilds the incidents from their nodes, or starts without when that
query fails, and continues anywhere in the partitions: auto-commit may be behind
or ahead of what was handled. The weather's closures are those of the last
category heard.

### Incidents seen by the other services

`IncidentNews` is what flight-, baggage- and passenger-service share with
incident-service: the nodes, which they read when they start, and the
announcements, keyed by the incident and therefore in one partition each (`log`).
`contain_incident` and `resolve_incident` are three steps each, with whatever other
requests do in between: `ReadStatus` checks the transition, `ChangeStatus` writes
the status although it may have changed since (`lifecycle.py:212-220`, 243-255),
`Announce` publishes it some awaits later (222, 265-271). `create_incident` writes
the node (175) and announces it after several awaits (193), so a resolution may
be announced before it. `Lose` is a task that fails, or a process that stops,
between the write and the announcement. Any number of requests may be under way
for one incident: `decided` and `unsent` count them. `IncidentLifecycle` has the
same handlers in detail; here only what another service can notice is left, and any
order of announcements its tasks could produce, and more, is possible.

Three things make the announcements of an incident tell something else than its
node, all of them possible in the code:

- the creation is announced behind the resolution (`Misordered`);
- `contained` is written over `resolved`, so that the node is open and its
  resolution announced (`Revived`; `IncidentContainRace` is this race in
  incident-service itself);
- an announcement is lost (`lost`).

What depends on such an incident is wrong until a restart: a runway or a zone
stays closed, or a checkpoint frozen, for an incident that is resolved, or they are
open although it is not. `Settled(i, position)` says that none of the three has
happened to `i` and that all that was written of it has been announced and heard;
`RestrictionsMatch`, `ConveyorMatches` and `SecurityMatches` require memory and
nodes to agree for the incidents that are settled. The exceptions are per
incident: others at the same place are not excused. And in the other direction
nothing may stay closed but for an incident that is open or not settled.

### baggage-service

`BaggageConveyor`: `bag` and `loaded_on` are Neo4j, `queue`, `offline` and the
turns of the round robins the conveyor in memory. A tick inducts the bags that
are due, moves every zone by its throughput (`Tick`) and leaves one handler per
bag that left a zone (`exits`), which write in any order: `LeavesInduction`,
`Flagged`, `Clear`, `LeavesSorting`, `LeavesMakeUp`, `LeavesBelt`. Flights are
announced in a partition each (`OnDeparted`, `OnAtGate`, `OnCancelled`), and so are
incidents, by `IncidentNews` (`OnFailure`); a restart takes the open failures,
active or contained, from the nodes. `RedirectBaggage` is the command. `ExitFails`, `TickFails` and `MessageFails` end a handler half-way;
`RestartBaggage` rebuilds the conveyor and may skip or repeat announcements. A
bag is removed from the first place it is found in only (`FirstPlace`), and the belt
of an arrival is any of `BeltsOf`: it follows from Python's `hash`, which differs from
process to process.

### passenger-service

`PassengerJourney`: `pax` is Neo4j, `main_queue`, `sa_queue` and the frozen
checkpoints the security lanes in memory, the wheelchairs and the queue for them
likewise. Breaches are the incidents of `IncidentNews` (`OnBreach`). A tick is a sequence of stages, one handler each, and ends at the
first that fails. Who is due in a stage is free: it depends on estimates,
walking times, open lanes and caps.

### cost-service

`CostLedger`: one transaction writes the inbox, the ledger, the checkpoint
document `doc` and the `outbox` for an event; `memory` is what the endpoints
show; `work` the consumer, which retries a failed event and stops at the end of
its topic; `page` the outbox worker's. Every record counts one, so that a total
is a number of records. Days beyond `KeptDays` are evicted from the document and
recomputed from the ledger when the clock comes back to them, which happens when
sim-orchestrator is restarted and its clock starts over. `cost.events` has three
partitions and each fact the id of its record as key, so `published` is a set
without an order; a delivery that is not confirmed within ten seconds stays with
the producer (`unconfirmed`) and may arrive later, or not at all
(`LateDelivery`). `POST /sim/reset` is outside this module: it deletes every node of
the graph (`sim.py:148`), the ledger, the inbox and the outbox included,
delivered or not, while `memory` shows the old totals until the next event.
Neither `TotalsMatchLedger` nor `FactsKept` says anything across it.

### sim-orchestrator

`SimClock`: the clock loop and the requests of one event loop. `loop` is where
`run_clock_loop` is, with the minutes left of its step; it gives way only where
it sleeps, seeds a day (`CheckDay`, `SeedFlights`, `SeedPassengers`) or collects
metrics (`Collected`, `CompleteRun`). `call` is where each request is: a reset
and the start of a scenario wipe the graph, set the clock and seed day 1; a
restored snapshot and a scenario that starts from one wipe it and load the file;
a snapshot exports it. Pause, resume, speed and stop await nothing. `graph` keeps
which task has seeded a day's flights, and which of these have their passengers
and bags. `RequestFails`, `BoundaryFails` and `Restart` are the faults; `history`
notes what the properties except: two tasks at work on the graph at once, a
failed query, a snapshot of a midnight, a run stopped while its metrics were
collected.

### Instances that share a run

`MCFlightService` and `MCAirport` choose a `part` at the start; the modules share
no variable but the incidents, so the run explores the sum of the parts, not their
product. The parts of `MCAirport` are `failure`, `failures`, `redirection` (baggage),
`departures`, `breach`, `breaches`, `arrivals` (passengers), `charges`, `rates`
(ledger), `requests` and `clock` (sim-orchestrator); `Parts` says which of them a
configuration has. `IncidentConsumer` has two inputs in the same way, by the
constraint `OneInput`: an injected incident with commands that contain or resolve
it, or two incidents that are looked for before they are created, with commands
that contain.
## Runs

| Run | Question | Answer |
|---|---|---|
| `IncidentConsumer` | Does the consumer alone keep protocols, events and the tree in step with Neo4j, one severe_weather incident exactly in low weather, and one incident of a kind per place? | yes; a child survives its parent only where a delayed cascade made it |
| `IncidentRest` | What survives REST racing the consumer at each await, with a crash or failed query? | the forest, one cascade per incident, every resolution announced |
| `IncidentLiveness` | Do countdowns run out and queued cascades fire? | yes, under the fairness below |
| `CommandOwners` | Does the pipeline implement `ActionLifecycle`, whichever loop the owner has, and although a ground delay always raises? | yes; effects repeat only through a fault between effect and receipt |
| `CommandLive` | Is a dispatched action settled in spite of two faults? | yes, at all three kinds of owner |
| `FlightService` | Do holds, slots, turnarounds, gates and restrictions survive stale snapshots, requests at every await, lazy removal, redelivery and restarts? | yes, with the exceptions the properties name |
| `Airport` | Do the conveyor, the lanes, the frozen checkpoints, the chairs, the ledger and the seeded days match what Neo4j and the clock say, through racing announcements, failures half-way and restarts? | yes, with the exceptions the properties name |
| `CostDelivery` | Do the facts of every processed event come to `cost.events`, through a fault anywhere? | yes, under the fairness below |
| `IncidentContainRace`, `CommandRebook`, `FlightEndedForGood`, `BaggageFlagged` | see [Findings](#findings) | violated |

What `FlightService` shows, part by part:

- holds: a node that carries a hold is delayed (`HoldsMatch`: what
  `get_manual_holds` relies on at a restart), memory and nodes agree between
  messages, a hold ends by release or cancellation only and a tick never revives
  an ended flight (`HoldsAndEndsLast`), boarding ends (`DoorsCloseInTime`);
- queue: a queued flight has its latest item in a heap (`QueuedHaveItems`),
  nobody of a direction is overtaken (`ServedInOrder`), a direction that waits is
  served whenever the runway is free (`NoDirectionStarves`);
- turnaround: a plan ends when its critical path says (`CompletesOnTime`), no two
  tasks share a vehicle (`OwnVehicle`);
- gates: two flights on their stands have different gates unless one came
  unchecked (`StandsAlone`);
- restrictions: the closed runways are those of the open incidents and the
  weather, but for incidents that are not settled (`RestrictionsMatch`).

What `Airport` and `CostDelivery` show: conveyor and bags
(`ConveyorMatches`, `BagsMoveForward`), checkpoints and passengers
(`SecurityMatches`, `JourneyForward`), wheelchairs (`ChairsCounted`), totals, single
charging, the day of a record, the survival of the facts and their arrival on
`cost.events`, in whatever order (`TotalsMatchLedger`, `ChargedOnce`,
`BilledOnItsDay`, `FactsKept`, `FactsArrive`), the day of the clock and its
flights, passengers and bags, each seeded once (`DayLoaded`), and the ends of
scenario runs (`RunsEndOnce`).

What they do not show:

- `StatusMovesForward` and `ProtocolsMatchIncidents` are about the consumer alone:
  they do not see the races of requests with `contain_incident`
  (`ResolvedIsFinal` does) and with the activation of a protocol (see Findings).
- `Settles` leaves out the commands whose handler raises each time
  (`CommandRebook` shows what becomes of one).
- `OwnVehicle` is about the vehicles that tasks have. One that a waiting request
  gets later is nobody's, and nothing returns it (see Findings).
- `StandsAlone` excuses a flight that came without a check, also after a restart.
- `TotalsMatchLedger` and `FactsKept` end at a `POST /sim/reset`, which wipes the
  ledger and the outbox.
- `DayLoaded` excepts two tasks at work on the graph at once, hence the reset that
  overlaps a seeding.

Every property of a passing run is paired in `PROJECT.json` with a mutant of the
model, a plausible bug, that breaks it under the same configuration; the mutants
stand before the definitions they replace.

### Bounds

- Incidents: `MaxRoots` 1 or 2 and `CASCADE_MAX_DEPTH` 2, 3 or the real 5, with
  `MaxIncidents` at least `MaxRoots * (depth + 1)`, so that no creation is ever
  cut off by the bound (assumption `BoundsAssumption`) and a second child of a
  parent would have room. A `runway_incursion` root has one child at once and
  two after delays; `security_breach` gives the deepest chain.
- A tick advances ten minutes (one in the liveness run) and TTRs are the
  shortest of their range: countdowns end after a few ticks and a delayed
  cascade can fall due before, with and after its parent's resolution.
- One REST task: two handlers in one event loop are enough for every race here
  (each involves two writers). One fault (`MaxFaults`) can fall anywhere.
- Commands: two proposals with one target, one guarded and one not, are the
  least number that can compete; `MaxResults` is 1, so that the receipt cache
  evicts at the second command (10 000 in the code); `MaxInFlight` 2 lets a retry
  overtake a receipt; one fault in the safety run, two with one proposal in the
  liveness run. The theorems remove these bounds.
- Holds: the arrival and the departure of one aircraft, both due at once, so
  that the delay of one reaches the other; a hold of 45 minutes (180 in
  `FlightEndedForGood`, where the cancellation of long delays takes part), ticks
  of 30 minutes up to minute 120, two calls of hold, release or command.
- Queue: two arrivals of the widest difference in wake (SUPER, LIGHT) and one
  departure, 120 movements an hour against 8 and 6, so that separation or
  capacity decides; PAN PAN after two minutes.
- Turnaround: a narrow and a wide body with one vehicle of each type, so that
  every request competes; one extension; ticks of two or nine minutes, less and
  more than a task; 58 minutes, the longest plan with its extension.
- Gates: two gates in two terminals, three calls. Restrictions: two incidents on
  one of two runways; the memory of event ids holds two (10 000 in flight-service), so
  that it evicts; one fault.
- Baggage: a bag each way, two belts, zones of one bag a minute, one fault, and one
  failure with one request to contain or resolve it, or one redirection; or two
  failures that share a unit, with no bag moving. Passengers: three who leave with
  one chair, two of them assisted; or one with a breach; or one who arrives; or two
  breaches of one checkpoint and nobody; one fault.
- Incidents seen by others: two requests that contain or resolve, the least with
  which `contained` can be written over `resolved` and with which two announcements
  can overtake each other; at most one incident loses an announcement. The theorems
  have any number of requests and losses.
- Ledger: days of four minutes, one of which is kept beside the selected one (7
  in the code), a page of two rows (100), one fault or one change of rates: the
  third day evicts the first, a restarted sim-orchestrator goes back to it, and a
  flight leaves its gate in between. (A `POST /sim/reset` goes back too, but wipes the
  ledger: it is not this case.) `CostDelivery` has the same instance without that
  return of the clock. Holding fuel and retail do not occur in the instance.
- Clock: days of four minutes, the third of which seeds the next day; a scenario
  of two minutes with metrics at every second; up to the second day. Either two
  requests, together or one after the other, with ticks of two minutes, so that a
  day ends inside a step; or one request, one fault and changes of the speed.

### Fairness

Incidents: every task that can run is run (one asyncio loop), and the consumer
sees ticks for ever (`SF`: `consume` returns whatever is in the topics, the tick
being dispatched last in every batch). Commands: the event loops run, the tick's
retry loop comes to every proposal, simulated time passes, Kafka delivers from
every partition eventually. Ledger (`CostDelivery`): the worker of the outbox reads
again until it finds it empty (`outbox.run` loops, and catches what a delivery
raises), a delivery or deletion that is tried again and again succeeds in the end,
and a stopped service is started again (`restart: unless-stopped`). Nothing obliges an operator to decide and nothing
obliges or forbids faults, which are bounded in number. The other runs about
flights, bags, passengers, the ledger and the clock check safety only and state no
fairness; their bounded clocks may stop, so they do not check deadlock.

## Proofs

### Commands

`ActionCommands_proofs`, for all proposals, targets, recommendations, loops,
cache sizes, and numbers of copies and faults; assumptions: `ProposalAssumption`
(advisory actions are guarded; whatever raises at a loop is a proposal:
`Raising \in [Loops -> SUBSET Proposal]`), `LoopAssumption`, `LimitAssumption`.

| Theorem | States |
|---|---|
| `Inductive` | `Spec => []IInv` |
| `TypeCorrect` | `[]TypeOK` |
| `AlwaysAuthorised` | `[]Authorised` |
| `AlwaysSettledByReceipt` | `[]SettledByReceipt` |
| `EffectsBounded` | `[]AtMostOnce` |
| `EffectsInTime` | `NoLateEffect` |
| `Implements` | `ImplementsActionLifecycle` |

None of the properties but `TypeOK` is inductive: a receipt agrees with the
stored one only if what `handle` is about to send does, and an effect falls into
its proposal's dispatch only if nothing of a command is left where it was not
dispatched. `IInv` adds: `TracesStarted` (whatever is left of a command, its
proposal was dispatched), `GuardedDecided`, `ReceiptsAgree` (cached, outgoing and
delivered receipts repeat the stored one), `SettledStored`, `StoredApplied`,
`HandlerKnows` (while executing and saving, no receipt is stored), `FaultsPay`
(`applied` exceeds the recorded execution by at most the number of faults) and
`OneActive` (one active proposal per target). Each conjunct has a lemma that one
step preserves it; the lemmas first reduce the many actions that cannot disturb
it to "unchanged".

The refinement follows step by step: `Create`, `Approve`, `Reject` and the first
`Dispatch` are the abstract ones, a repeated `Dispatch` is a stutter, `Settle` is
`Confirm` (needs `StoredApplied`) or `Fail`, `Execute` is `TakeEffect` (needs
`TracesStarted` and `SettledStored` to see that the proposal is still
dispatched) or a stutter, everything else stutters.

### Incidents

For any number of incidents, tasks, kinds, roots and faults, and any limit on
the depth; assumptions: `BoundsAssumption` (every root has room for its chain),
`InputAssumption` (kinds, TTRs and operations come from the tables) and, from
`IncidentTables`, that `NoTtr` is no integer.

| Module | Theorem | States |
|---|---|---|
| `IncidentLifecycle_proofs` | `Inductive` | `Spec => []TypeInv` |
| | `TypeCorrect` | `[]TypeOK` |
| `IncidentCascades_proofs` | `RightsNeverDuplicated` | `[]Claims` |
| | `ForestAlways` | `[]CascadeForest` |
| | `CascadeOnceAlways` | `[]CascadesOnce` |
| | `ResolutionsAlwaysAnnounced` | `[]ResolutionsAnnounced` |
| | `ForwardAlone` | `StatusMovesForward`, alone |
| | `ProtocolsMatchAlone` | `[]ProtocolsMatchIncidents`, alone |
| | `EventsMatchAlone` | `[]EventsMatchStatus`, alone |
| | `OrphansDelayedAlone` | `[]OrphansAreDelayed`, alone and `CASCADE_MAX_DEPTH <= 5` |
| | `OneOpenAlone` | `[]OneOpenPerPlace`, alone and `OnlyLooked` |

"Alone" is `Rest = {}` and `MaxFaults = 0` (for `ForwardAlone` only `Rest = {}`):
the consumer is the only task and no query fails. That is what the run
`IncidentConsumer` instantiates; with one REST request the
properties are false (`IncidentContainRace` and the notes under Findings).

`TypeOK` is not inductive: whether a task stores a well-formed incident depends
on what it was handed. `TypeInv` adds that every task works on incidents that
exist, and that only incidents with a cascade rule wait for a child.

`CascadeForest` and `CascadesOnce` need to know that nobody else is about to
make the same child. The proof follows the right to make the one child of an
incident: with the task that creates the incident (`Early`), with the one that
makes the child (`Making`), on the queue (`Queued`), on a due list (`Waiting`),
or used up (`HasChild`). `Claims` says that these exclude each other, that only
an incident below the limit has a right under way, and that a node not yet
linked has no parent yet; every step passes the right on, uses it up or, in a
crash or a failed query, loses it. `RightsShrink` and `QuietStep` dispose of the
steps that create no right.

`ForwardAlone` needs that what `contain_incident` read still holds where it
writes (`ReadHolds`): true because no other task exists.

For the other four, `EveryStepMoves` says that each step of the lone consumer is
one of sixteen moves (`Calmly`, `Creates`, ..., `TellsResolved`, `Stays`) of at
most one incident, and the invariants are proved of the moves. `AloneInv` has
them, among others: `ReadsHold` (what the task read of its incident and of the children it
announces still holds), `ChildrenTyped` (children have types that no root has and
no protocol protects, which is why one deactivation is enough for a whole
subtree), `ProtocolsHeld` (who holds a protocol, while its handler runs too) and
`EventsTold` (what has been told of each incident, by how far its handler is).

`OrphansAreDelayed` adds `OrphansInHand`: an unresolved child of a resolved
parent is of a delayed cascade or in the hands of the resolution. `Descendants`
is the query's `SPAWNED*1..5`, hence `CASCADE_MAX_DEPTH <= 5`, which the configured 5
(`config/airport.yaml:63`) satisfies: with a sixth level, which the configuration's
type allows (`airport_config.py:194`), a resolution would leave orphans. That
they are found needs `SpawnersCascade`, `LaterOnly` and `ParentAtHand`: a parent
of an immediate cascade is not resolved before its child is linked.

`OneOpenPerPlace` is about the incidents that are looked for before they are
created: `OnlyLooked` says that none is injected, none is resolved by hand, and
that no detected or drawn type is a child's or the weather's: the code detects
`security_congestion` and draws the four types of `BASE_PROBABILITIES`
(`consumer.py:58`), none of which is. Its
invariant joins `OneEach` (two unresolved incidents of one type and place are
one, except children), `LookedFirst` (a creation was looked for and nothing came
between), `SevereUncounted` (severe_weather has no countdown, so neither a tick
nor a recommendation resolves it) and `WeatherHeld`: incident and category agree,
or the consumer is about to raise the one, in low weather, or to clear it.

`ResolutionsAnnounced` needs no restriction on the requests: `Owing` says that
a resolved incident was announced or is owed by the task that resolved it, which
keeps it until it has published it.

### Flights

For any flights, gates, runways, aircraft, vehicles, schedules, rates, steps of the
clock and numbers of requests and faults; assumptions: `GateAssumption`,
`FlightAssumption`, `QueueAssumption`, `NewsAssumption`, `RestrictionAssumption`,
`TurnaroundAssumption`, which say what kind of thing each
constant is, and that paired flights are an arrival and a departure.

| Module | Theorem | States |
|---|---|---|
| `FlightHolds_proofs` | `HoldsMatchProved` | `[]HoldsMatch` |
| | `HoldsAndEndsLastProved` | `HoldsAndEndsLast` |
| | `DoorsCloseInTimeProved` | `[]DoorsCloseInTime` |
| `FlightResources_proofs` | `GatesTypeCorrect` | `[]GateTypeOK` |
| | `CheckedFlightsStandAlone` | `[]StandsAlone` |
| | `QueuedHaveItemsProved` | `[]QueuedHaveItems` |
| | `ServedInOrderProved` | `ServedInOrder` |
| | `NoDirectionStarvesProved` | `NoDirectionStarves` |
| | `RestrictionsMatchProved` | `[]RestrictionsMatch` |
| | `OwnVehicleProved` | `[]OwnVehicle` |
| | `CompletesOnTimeProved` | `[]CompletesOnTime` |

- Gates (`GInv`): occupancy, check, assignment and the status are four steps, so
  the invariant follows a gate from the check that found it free to the flight
  that stands on it: of the flights whose check found their gate free, no two own
  the same one (`OwnersApart`), the flight that is about to move there included.
- Holds (`HInv`): a hold is written with the status `delayed` in one query, and
  every update that writes another status clears it (`UpdateOK`), so
  `HeldAreDelayed` holds of the nodes and of the stale snapshot a tick works on.
  `TakeTurns` says who is at work when; `HoldsKnown`, what the memory of the
  process will be once the handlers at work have finished, is claimed only while
  nobody calls hold or release by REST; `EndsOnce` that no pending write of a tick
  revives an ended flight.
- Doors (`DoorInv`, without REST requests): the queries of a tick move an estimate
  only later than the snapshot has it and keep a flight boarding only with no less
  delay (`Onward`). Once a due departure has been processed (`Moved`), its estimate
  is pushed, or it leaves, or its delay has just been brought to 90 minutes or
  more; a departure with an overdue tick has that delay already, so the next one
  finds the doors closed. A restart in the middle of a tick forgets the queries
  that are left, not the count.
- Queue (`QInv`): a heap may hold an old item of a flight besides the one it asked
  with last, but then the flight is out of the queue, or asks now with the
  emergency of its last minute, which comes first (`ItemsOfFlights`). Hence a slot
  is always given for the latest request, and the least of a heap, which exists
  because heaps are finite sets ordered by natural numbers, overtakes nobody.
  `NoDirectionStarves` counts as waiting the flights that are queued and have an
  item (`Live`).
- Restrictions (`RInv`): what is announced of an incident was written once, and what
  is written is announced, still to be announced, or lost (`NewsIsTrue`); the filter
  remembers only what was handled (`SeenIsHandled`); an open incident that the
  memory does not know is still to come, was lost, or was resolved before by the
  announcements (`Revived` in the end), and one it knows although it is resolved has
  its resolution to come, lost it, or had it before its creation (`KnownInTime`);
  the closed runways are the union of the known incidents' and the weather's
  (`ClosedByAll`). `Settled` rules out everything but the agreement.
- Turnaround (`TurnInv`): the vehicles in `task_vehicles` are their tasks' own and
  those tasks in progress (`Own`; in the middle of a minute, but for the tasks just
  finished), the plans are those of the aircraft listed, and each plan is on time
  up to the minute of the clock (`OnTime`): a task starts when the plan does or in
  the minute in which the last of those it waits for is completed, is pending only
  while one of them is not, is in progress only until its minutes are over, and is
  completed no later. An extension keeps this (`SlowerOnTime`), whatever its cause, and so does
  a minute of the plan (`AdvancedOnTime`); a plan made in the middle of a longer step
  is past the minutes that follow (`AdvancedLate`).
  `CompletesOnTime` follows along the task graph: `compute_critical_path` is a
  recursive function, which exists because the ten tasks do not wait for each other
  in a circle (`FinishExists`), and a task is over when its longest path is
  (`TaskOver`), unless a finished one was extended (`Regular`).
  Plans, vehicles and requests are advanced by folds. `FoldExists` shows that the
  recursive function of a fold over a finite set exists, `FoldKept` that it keeps what
  its steps keep; both by the least cardinality at which they would fail, since the
  library's induction theorems cannot be used.

### Ledger

`CostLedger_proofs`, for any events, topics, lengths of a day, days kept, page
size and number of faults; assumptions: `LedgerAssumption` (the topics hold
events, the lengths are positive) and, for the days, `ClockTellsDay` (a tick
carries the day of its time, which sim-orchestrator computes from the same start).

| Theorem | States |
|---|---|
| `LedgerInductive` | `LedgerSpec => []LInv` |
| `TotalsAlwaysMatch` | `[]TotalsMatchLedger` |
| `AlwaysChargedOnce` | `[]ChargedOnce` |
| `FactsAlwaysKept` | `[]FactsKept` |
| `AlwaysBilledOnItsDay` | `[]BilledOnItsDay` |

`TotalsMatchLedger` also speaks of the summaries in memory, which follow the
checkpoint only while the consumer is ready. `LInv` adds `TotalsAgree` (the
document's totals at any time), `Shown` (the selected day is in the document,
the consumer that has committed will show exactly the document, and memory is
the document's view when it is ready), `DeliveredIsPublished` (what the worker
deletes is on the topic) and `WellFormed`. A commit adds one set of records to
one day: the lemmas on `Total` say that it changes that day by the number of new
records and no other.

That the facts come to `cost.events` in the end (`FactsArrive`) is liveness and only
model-checked. `BilledOnItsDay` rests on `BInv`: the document's date is the
selected day's (`ClockAgrees`), and a record is of day 1 if it was committed before
any tick, of its event's day otherwise.

### Passengers

`Journeys_proofs`, for any passengers, flights, checkpoints, incidents,
chairs and number of requests, losses and faults; assumptions: `NewsAssumption` and
`PassengerAssumption` (what kind of thing each constant is, finitely many passengers,
and that a flight is leaving or landing and no incident).

| Theorem | States |
|---|---|
| `JourneyForwardProved` | `JourneyForward` |
| `SecurityMatchesProved` | `[]SecurityMatches` |
| `ChairsCountedProved` | `[]ChairsCounted` |

- Lanes (`LanesInv`): who has joined a lane since the start of the process stands
  there once, in his own checkpoint's, and is `checked_in`, `security_queue` or
  `disrupted` (`Queuing`). So a lane moves only those to `airside` who have not
  passed before, except the disrupted that `JourneyForward` names. Each step does
  to a passenger's status one of the moves of `Moves`, which `OneMoves` says and
  the two other proofs use.
- Breaches (`BreachInv`): the frozen checkpoints are those of the breaches heard of,
  and each breach `Agrees` with the consumer at its position (below).
- Wheelchairs (`ChairsInv`): whoever stands in the queue or has a chair has checked
  in, hence never asks again; the counter is the number of those who have a chair
  (`Using`), by the cardinality lemmas of the library.

The lemmas on lines (`LinesJoined`, `LineCut`, `OnlyThose`, ...) say who is in a
joined, cut or filtered queue and that nobody is in it twice.

Passengers and baggage share the lemmas on the announcements of incidents.
`NewsInv` says of incident-service that whatever is decided, unsent or logged of an
incident, its node exists, and that a resolution on a node was announced, will be,
or is lost. `Agrees(i, p, K)` speaks of a consumer who is at position `p` and takes
the incidents of `K` to be open: an open one that is not in `K` has its creation to
come, is lost, or is resolved by what is written or announced; one in `K` that is
resolved has its resolution to come, lost it, or is `Misordered`. Neither
direction can be stated without the announcements still to come: a consumer is
behind by as many as it likes. `NewsSteps` shows what any step of
incident-service may do to that (`Evolves`), `StillAgrees` that `Agrees` survives it,
`HeardAgrees` that it survives one announcement heard, and `RestartAgrees` that it
holds of the open incidents at any position whatever, which is why a restart may
skip or repeat announcements. `KnownIsOpen` concludes for the settled incidents.

### Baggage

`Journeys_proofs`, for any bags, flights, terminals, zones, incidents and number of
requests, losses, faults and redirections; assumptions: `NewsAssumption` and `BaggageAssumption` (what kind of thing each
constant is, finitely many bags, the zones of the five kinds apart from each other,
an induction and screening units of its own for each terminal, at least one belt
for an arriving flight).

| Theorem | States |
|---|---|
| `ConveyorMatchesProved` | `[]ConveyorMatches` |
| `BagsMoveForwardProved` | `BagsMoveForward` |

Neither is inductive: while the bags that left a zone are being written, the nodes
lag behind the conveyor. `BagInv` says how far. A departing bag stands in one place
of the pipeline at most, or has just left one and stands in a zone that follows it
(`Single`, `After`, `ExitsOK`); of a bag that nothing has failed for, the scan is that
of its place, or of the zone it has left (`GoodOK`); an arriving bag whose flight's
news was not heard is in no queue (`NotYet`), so that the news puts it there once.
The zones that stand still are those of the failures heard of, and each failure
`Agrees` with the consumer (`OfflineInv`).
One lemma per message shows `CoreNext`: the invariant afterwards, and that no bag went
back (`Onward`).

The heart is the tick. `FlattenSeq` is recursive, and an induction theorem of the
library cannot be used; but a recursive function can be reasoned about by the
least number for which a claim would fail (`LeastPlace`, from the well-foundedness
of the naturals). So `FlattenJoins` says who is in a joined line and that who is in
one part once is in the line once, `Routes` that the round robin sends each bag to
one zone, `Inflows` what flows into a zone, and `AdvanceTick` what becomes of a bag in
a tick.

### Clock

`SimClock_proofs`, for any start, length of the day, speeds, scenario and number
of requests; assumption: `ClockAssumption` (the seeding minute lies within the
day, the start before it, steps are positive, and `Nothing` is no run).

| Theorem | States |
|---|---|
| `RunsEndOnceProved` | `[]RunsEndOnce` |
| `DayLoadedProved` | `[]DayLoaded` |

`RunInv`: the run whose metrics the loop collects or which it is about to complete
is still the active one, has injected what was due and has lasted long enough
(`RunInHand`), unless the history notes that it was stopped meanwhile; and run
numbers are given once (`RunNumbers`). `DayInv` describes the graph at every point of the loop and of
each request: one task at work on it (`OneAtWork`), who has seeded which day
(`GraphOK`), and where the day of the clock is behind or ahead of the time, which
a step that crosses midnight makes it for a few awaits (`DaysOK`). Like
`DayLoaded` itself, these except what `history` notes.

### Only model-checked

- Liveness and whatever speaks of `ENABLED`, which TLAPS 1.4.5 does not reason
  about: `CountdownElapses`, `PendingFires`, `Settles`, `FactsArrive`.
- `FlightServiceTypeOK`, the types of the instance that runs the five modules
  together; the types of each of the five are parts of the invariants above.

## Findings

Each is a run that TLC refutes; the trace is a scenario of the code.

- **`IncidentContainRace`**: `contain_incident` checks the status, awaits, and
  writes `contained`; a resolution in between is undone, against
  `VALID_TRANSITIONS` (`lifecycle.py:88`).
- **`CommandRebook`**: a `RebookPassengers` command for a passenger who exists
  raises on every attempt (`rebooking` is no valid status), and the command loop
  of passenger-service handles it again for ever
  (`passenger-service/kafka/consumer.py:650`, 403-416): the commands behind it
  are never settled, although the loop exists to "keep commands responsive"
  (`:387`).
- **`FlightEndedForGood`**: `release_flight` writes boarding or approach after
  its awaits (`flight-service/kafka/consumer.py:1515`); a flight that a tick
  cancels in between is revived, against "terminal state"
  (`state_machine.py:27`).
- **`BaggageFlagged`**: the status filter of `get_flight_baggage` belongs to its
  OPTIONAL MATCH and filters nothing (`baggage-service/db/neo4j.py:364`): a
  departure writes flagged bags into the hold, past the review of SPEC.md:55-59.

Noticed while modelling, not checked by a run of their own.

Incidents and commands:

- A resolution that finds the incident before `create_incident` activates its
  protocol leaves the protocol active (`lifecycle.py:183`).
- A queued cascade fires under a parent resolved meanwhile (`cascade.py:199`).
- A restart loses the active protocols and queued cascades and nothing rebuilds
  them (`incident-service/main.py:50`; "in-memory caches are always rebuildable
  from Neo4j", `README.md:157`).
- A contained incident leaves the TTR countdown and is never resolved by itself
  (`db/neo4j.py:224`; "Auto-resolve incidents after TTR elapses",
  incident SPEC.md:17).
- No handler resolves a `security_congestion` incident (`consumer.py:557`;
  SPEC.md:180-181 promises it).
- A recommendation never gives a TTR to an incident without one: the query leaves
  it out (`db/neo4j.py:230`; `lifecycle.py:322-323` describes that case).
- LIFR after IMC leaves severe_weather at medium (`consumer.py:514`;
  SPEC.md:114: "LIFR → critical").
- A fault between the mutation and the saved receipt repeats the mutation
  (`commands.py:157`): `EffectsBounded` is exact, one repetition per fault.
- flight-service reads `cmd.flight_id` of a `GroundDelayProgram`, which has none
  (`consumer.py:433`), raises and sends no receipt: the action is repeated every
  five minutes for ever.
- The shared loop drops a command that comes before the first tick
  (`commands.py:142`; analysis SPEC.md:23-25 says owners retain it).

- A resolution announced before its creation leaves a runway closed, zones stopped
  or a checkpoint frozen until the service restarts; `contained` written over
  `resolved` leaves the node open while the others have reopened (`lifecycle.py:193`,
  220). `RestrictionsMatch`, `ConveyorMatches` and `SecurityMatches` except both.

flight-service:

- A vehicle that a waiting request gets later (`ground_vehicles.py`, `advance`)
  is not entered in `task_vehicles`, so its task never releases it
  (`consumer.py:832`).
- Wake separation is kept within one call, not across ticks, and the alternation
  of poor weather ignores it (`runway_queue.py:210-213`).
- A PAN PAN re-enqueues the flight with priority (`consumer.py:705`), which does
  nothing for a flight that is queued already (`enqueue_arrival` returns early).
- Nothing resumes the flights that an incident has held when it is resolved; only
  the restrictions go (`consumer.py:1419`; SPEC.md, "If resolved: resume held
  flights").
- A stale tick and the propagation of delays also delay flights that have
  departed or arrived meanwhile.
- A plan that is not complete when its flight leaves stays in memory.
- Equipment may fail in the tick that makes the plan; a departure that boards
  before any plan exists is not gated by it.
- A hold by command ends only by REST or by the cancellation of long delays.

baggage-service:

- A repeated `at_gate` after a restart puts collected bags on the belt again.
- A handler whose query fails leaves its bag out of the queues until a restart.
- A redirected bag is never inducted again, although the comment expects it
  (`consumer.py:391`); the redirection checks no status.
- The transit between terminals (`conveyor.py:218`) cannot be entered: both ends
  derive from the same gate.
- Offloaded bags never reach a carousel (`offload.py:7-8` says they do).

passenger-service:

- A passenger whose flight is cancelled while he queues is drained to airside all
  the same.
- A failed write leaves drained passengers in `security_queue`, and enqueued ones
  `checked_in`, until a restart or for ever.
- Passengers who board after the departure was handled stay boarded.
- Chairs of no-shows are never returned; a restart forgets the chairs in use and
  the requests for them, which `wheelchair.py:19-20` promises to rebuild; a new
  request overtakes the queue.
- The passengers of a diverted arrival stay airborne.
- `connection_flight_id` is never set (`sim-orchestrator/services/passengers.py:135`),
  so no connection is ever handled.

cost-service:

- The facts on `cost.events` have no order, so a reader cannot take the last rates it
  saw to be those a record was charged with.
- A `POST /sim/reset` wipes the facts that are not delivered yet, and the totals in
  memory stay until the next event (`sim.py:148`).
- What comes before the first tick is billed to day 1.
- EU261 compensation is charged for every event with a delay of at least 180
  minutes and again on the cancellation.
- After a rewind the simulation's new event ids are charged again.

sim-orchestrator:

- `reset_to_start` also un-pauses (`clock.py:139`), so ticks go on while the reset
  seeds day 1 again (SPEC.md section 3: "before starting the simulation loop").
- A pause while the loop awaits a callback does not stop the rest of the step and
  its tick (`clock.py:115`: "no ticks are emitted while paused"); a snapshot
  resumes the clock although an operator paused it meanwhile (`debug.py:698`).
- A snapshot taken or restored at midnight, while the scenario engine awaits,
  leaves `sim_day` one off.
- A seeding that fails at 23:30 is logged and never repeated, and a day that has
  its flights but not its passengers counts as seeded (`seeder.py:29`).
- The export of a snapshot is not atomic with the seeding of the next day by the
  loop; a reset that overlaps the seeding may leave both or half of it.
- A run stopped while its metrics are collected lets the next run take them, and
  be completed early. Two requests that start a scenario both pass `is_active`:
  the second wipes the first's simulation before it is refused.
- A reset leaves the active run, which goes on by the new clock. A reset whose
  wipe fails leaves the clock paused (`sim.py:156`).
- No service handles `SnapshotRestored` (`debug.py:733`: "so all services rebuild
  in-memory state").

## Plan

1. `IncidentTables`, `IncidentLifecycle` and its two modules of proofs – done.
2. `ActionLifecycle`, `ActionCommands`, `ActionCommands_proofs` – done.
3. `FlightStates`, `FlightHolds`, `RunwayQueue`, `Turnaround`, `FlightGates`,
   `RunwayRestrictions` – done, except that gate incidents are left out.
4. `IncidentNews`, `BaggageConveyor`, `PassengerJourney`, `CostLedger`, their proofs (`Journeys_proofs`,
   `CostLedger_proofs`) – done.
5. `SimClock`, `SimClock_proofs` – done.
6. `WeatherMachine`: the chain with its triggers and forced states, composed with
   the weather of `IncidentLifecycle` and `RunwayRestrictions`.
7. The revisions of the proposal queue and the detectors; the planning jobs.

## What is not modelled

Besides the plan: the learned models and language generation, the numeric
engines of planning and cost, the seeding of schedules and passengers, METAR
texts, the dashboard, the gateway's forwarding, deployment. They hold no state
whose interleaving or failure a model checker would reach, or only data. Of the
modelled components:

- proposals: `proposal_store.fail` (reached only by an approved advisory
  proposal, which `create` never makes), `record_outcome`, `save_clock` and the
  merge of revisions;
- incident-service: the alerts, the idempotency set, the read-only endpoints;
- flight-service: the weather's delays of the gate windows, fuel and carbon,
  `Gate.status` (only displayed);
- baggage-service: the transit between terminals, overload figures, the cap of
  500 inductions a minute;
- passenger-service: the number of lanes, the forecast, zone densities, alerts,
  carousels, connections;
- sim-orchestrator: the random generators, the network of airports, the metrics
  and outcomes of a run, scenario files, settings, the debug endpoints that inject
  or edit entities;
- cost-service: amounts and formulas, overrides per airline, valuation, the
  migration of old ledgers, the wipe of a `POST /sim/reset`, the snapshot of the cost signals, which is sent from
  inside the transaction (`cost_engine.py:674`).
