------------------------------ MODULE SimClock ------------------------------
(***************************************************************************)
(* sim-orchestrator: the clock loop, the scenario engine that it drives,   *)
(* and the requests that pause, reset, save and restore the simulation, in *)
(* one event loop.  A task gives way only where it awaits a query or       *)
(* sleeps: the loop while it seeds a day, while the engine collects        *)
(* metrics, and between two ticks.  Of the graph this keeps the airport    *)
(* and, for each day, which task has seeded its flights, and which also    *)
(* their passengers and bags.                                              *)
(* Left out: the ticks sent, the settings, the network engine, the values  *)
(* of metrics, the outcomes of a run, the definitions of scenarios and     *)
(* their files.                                                            *)
(***************************************************************************)
EXTENDS Integers

CONSTANTS
  ClockRest,      \* requests that may be under way at the same time
  SIM_START_TIME,      \* SIM_START_TIME, in minutes after midnight
  DayMinutes,     \* the minutes of a day
  SeedingMinute,  \* 23:30
  ClockSteps,     \* the minutes of a tick at the valid speeds
  Offsets,        \* of the events of the scenario
  RunMinutes,     \* its duration
  SNAPSHOT_INTERVAL,
  Nothing,        \* no run, no snapshot
  LastTime,       \* bound: no tick begins that leads beyond
  MaxRequests,    \* bound: resets, restores, snapshots and scenarios
  MaxClockFaults  \* bound: failing queries and restarts

ClockLoop == "clock loop"

ASSUME ClockAssumption ==
  /\ DayMinutes \in Nat /\ SeedingMinute \in 1..(DayMinutes - 1)
  /\ SIM_START_TIME \in 1..(SeedingMinute - 1)
  /\ ClockSteps \subseteq Nat \ {0} /\ RunMinutes \in Nat /\ Offsets \subseteq 0..RunMinutes
  /\ SNAPSHOT_INTERVAL \in Nat \ {0} /\ ClockLoop \notin ClockRest
  /\ Nothing \notin [id : Nat, start : Nat, fired : SUBSET Offsets]   \* None is no run

VARIABLES
  sim_time, sim_day, paused,
  speed,          \* as the minutes of a tick
  loop,           \* where the clock loop is, and its locals
  call,           \* where each request is, and its locals
  graph,          \* Neo4j
  snapshot,       \* the last snapshot file
  active_run, past_results, runs,   \* ScenarioEngine; runs have numbers
  history,        \* what has happened to the clock and the graph
  requests, clock_faults            \* bounds

clockVars ==
  <<sim_time, sim_day, paused, speed, loop, call, graph, snapshot, active_run, past_results,
    runs, history, requests, clock_faults>>

Time    == <<sim_time, sim_day>>
Engine  == <<active_run, past_results, runs>>
Bounds  == <<requests, clock_faults>>
Empty   == [airport |-> FALSE, flights |-> {}, whole |-> {}]
Asleep  == [pc |-> "sleep", step |-> 0, left |-> 0, day |-> 0, offset |-> 0]
Started == [Asleep EXCEPT !.pc = "startup", !.day = 1]
Idle    == [pc |-> "idle", op |-> "none", saved |-> Nothing]

Today(m) == 1 + m \div DayMinutes
Midnight(m) == m % DayMinutes = 0
AtEndOfStep(m, left) == left = 0 /\ m % DayMinutes = SeedingMinute   \* mutant of AtSeeding
AtSeeding(m, left) == m % DayMinutes = SeedingMinute

Seeds(pc) == pc \in {"check", "flights", "passengers"}
(* The service is up and the loop has given way.                           *)
Awaits ==
  \/ loop.pc \in {"sleep", "metrics", "final"}
  \/ loop.step > 0 /\ Seeds(loop.pc)
(* At work on the graph.                                                   *)
AtWork == {r \in ClockRest : call[r].pc # "idle"} \cup (IF Seeds(loop.pc) THEN {ClockLoop} ELSE {})
Collides == IF AtWork = {} THEN {} ELSE {"spoilt"}

Note(facts) == history' = [f \in DOMAIN history |-> history[f] \/ f \in facts]
-----------------------------------------------------------------------------
ClockInit ==
  /\ sim_time = SIM_START_TIME /\ sim_day = 1 /\ paused = FALSE
  /\ speed \in ClockSteps
  /\ loop = Started /\ call = [r \in ClockRest |-> Idle]
  /\ graph = Empty /\ snapshot = Nothing
  /\ active_run = Nothing /\ past_results = {} /\ runs = 0
  /\ history = [skewed |-> FALSE, spoilt |-> FALSE, overtaken |-> FALSE]
  /\ requests = 0 /\ clock_faults = 0

reset_to_start ==
  /\ sim_time' = SIM_START_TIME /\ sim_day' = 1 /\ paused' = FALSE

start_run(at) ==
  /\ past_results' = past_results
  /\ IF active_run = Nothing
     THEN /\ runs' = runs + 1
          /\ active_run' = [id |-> runs + 1, start |-> at, fired |-> {}]
     ELSE UNCHANGED <<active_run, runs>>

Archive(run, status) == past_results \cup {[id |-> run.id, status |-> status, fired |-> run.fired]}

(* A task goes on at pc.                                                   *)
Goto(t, pc) ==
  IF t = ClockLoop THEN loop' = [loop EXCEPT !.pc = pc] /\ UNCHANGED call
                   ELSE call' = [call EXCEPT ![t].pc = pc] /\ UNCHANGED loop
Return(r) == call' = [call EXCEPT ![r] = Idle]
-----------------------------------------------------------------------------
(* seed_day.  Flights need the gates they are assigned to, and passengers  *)
(* and bags the flights: a query that finds none writes nothing.           *)
SeedingOf(t) == [day |-> IF t = ClockLoop THEN loop.day ELSE 1, by |-> t]
Reached(t, pc) == IF t = ClockLoop THEN loop.pc = pc ELSE call[t].pc = pc

(* What a task does when seed_day returns, before it awaits again.         *)
DayIsSeeded(t) ==
  \/ /\ t = ClockLoop
     /\ loop' = IF loop.step = 0 THEN Asleep ELSE [loop EXCEPT !.pc = "on_tick"]
     /\ UNCHANGED <<call, paused, speed, Engine>>
  \/ /\ t # ClockLoop /\ call[t].op = "reset"
     /\ paused' = FALSE /\ Return(t) /\ UNCHANGED <<loop, speed, Engine>>
  \/ /\ t # ClockLoop /\ call[t].op = "scenario"
     /\ speed' \in ClockSteps /\ start_run(sim_time)
     /\ paused' = FALSE /\ Return(t) /\ UNCHANGED loop

DayAlreadySeeded(t) == \E s \in graph.flights : s.day = SeedingOf(t).day
SkipDay(t) ==
  /\ Reached(t, "check") /\ DayAlreadySeeded(t) /\ DayIsSeeded(t)
  /\ UNCHANGED <<Time, graph, snapshot, history, Bounds>>
CheckDay(t) ==
  /\ Reached(t, "check") /\ ~DayAlreadySeeded(t) /\ Goto(t, "flights")
  /\ UNCHANGED <<Time, paused, speed, graph, snapshot, Engine, history, Bounds>>
SeedFlights(t) ==
  /\ Reached(t, "flights") /\ Goto(t, "passengers")
  /\ graph' = IF graph.airport THEN [graph EXCEPT !.flights = @ \cup {SeedingOf(t)}] ELSE graph
  /\ UNCHANGED <<Time, paused, speed, snapshot, Engine, history, Bounds>>
SeedPassengers(t) ==
  /\ Reached(t, "passengers") /\ DayIsSeeded(t)
  /\ graph' = [graph EXCEPT !.whole = @ \cup ({SeedingOf(t)} \cap graph.flights)]
  /\ UNCHANGED <<Time, snapshot, history, Bounds>>
SeedDay(t) == SkipDay(t) \/ CheckDay(t) \/ SeedFlights(t) \/ SeedPassengers(t)
-----------------------------------------------------------------------------
(* The loop.  Between NextTick and EndMinute it gives way only to seed a   *)
(* day or to collect metrics.                                              *)
Startup ==
  /\ loop.pc = "startup" /\ Goto(ClockLoop, "check")
  /\ graph' = [graph EXCEPT !.airport = TRUE]
  /\ UNCHANGED <<Time, paused, speed, snapshot, Engine, history, Bounds>>

NextTick ==
  /\ loop.pc = "sleep" /\ ~paused /\ sim_time + speed <= LastTime
  /\ loop' = [Asleep EXCEPT !.pc = "minute", !.step = speed, !.left = speed]
  /\ UNCHANGED <<Time, paused, speed, call, graph, snapshot, Engine, history, Bounds>>

Minute ==
  /\ loop.pc = "minute" /\ sim_time' = sim_time + 1
  /\ loop' = IF AtSeeding(sim_time', loop.left - 1)
             THEN [loop EXCEPT !.pc = "check", !.left = @ - 1, !.day = sim_day + 1]
             ELSE [loop EXCEPT !.pc = "on_tick", !.left = @ - 1]
  /\ Note(IF Seeds(loop'.pc) THEN Collides ELSE {})
  /\ UNCHANGED <<sim_day, paused, speed, call, graph, snapshot, Engine, Bounds>>

DueBefore(offset) == {e \in Offsets : e < offset}   \* mutant of Due
Due(offset) == {e \in Offsets : e <= offset}
WhenDue(offset) == IF offset >= RunMinutes THEN "final" ELSE "rollover"
OnTick ==
  /\ loop.pc = "on_tick"
  /\ \/ /\ active_run = Nothing /\ Goto(ClockLoop, "rollover") /\ UNCHANGED Engine
     \/ /\ active_run # Nothing
        /\ LET offset == sim_time - active_run.start IN
             /\ active_run' = [active_run EXCEPT !.fired = @ \cup Due(offset)]
             /\ loop' = [loop EXCEPT !.offset = offset,
                           !.pc = IF offset % SNAPSHOT_INTERVAL = 0 THEN "metrics"
                                  ELSE WhenDue(offset)]
        /\ UNCHANGED <<call, past_results, runs>>
  /\ UNCHANGED <<Time, paused, speed, graph, snapshot, history, Bounds>>

(* The metrics go to the run that is active by now; without one it raises. *)
Collected ==
  /\ loop.pc = "metrics"
  /\ Goto(ClockLoop, IF active_run = Nothing THEN "rollover" ELSE WhenDue(loop.offset))
  /\ UNCHANGED <<Time, paused, speed, graph, snapshot, Engine, history, Bounds>>

CompleteRun ==
  /\ loop.pc = "final" /\ Goto(ClockLoop, "rollover")
  /\ \/ active_run = Nothing /\ UNCHANGED Engine
     \/ /\ active_run # Nothing /\ past_results' = Archive(active_run, "completed")
        /\ active_run' = Nothing /\ UNCHANGED runs
  /\ UNCHANGED <<Time, paused, speed, graph, snapshot, history, Bounds>>

(* The day rolls over; the last minute of a step ends the tick.            *)
EndMinute ==
  /\ loop.pc = "rollover"
  /\ sim_day' = IF Midnight(sim_time) THEN sim_day + 1 ELSE sim_day
  /\ loop' = IF loop.left > 0 THEN [loop EXCEPT !.pc = "minute"] ELSE Asleep
  /\ UNCHANGED <<sim_time, paused, speed, call, graph, snapshot, Engine, history, Bounds>>

Loop == \/ Startup \/ NextTick \/ Minute \/ OnTick \/ Collected \/ CompleteRun \/ EndMinute
-----------------------------------------------------------------------------
(* Requests that await nothing.                                            *)
sim_pause ==
  /\ Awaits /\ ~paused /\ paused' = TRUE
  /\ UNCHANGED <<Time, speed, loop, call, graph, snapshot, Engine, history, Bounds>>
sim_resume ==
  /\ Awaits /\ paused /\ paused' = FALSE
  /\ UNCHANGED <<Time, speed, loop, call, graph, snapshot, Engine, history, Bounds>>
sim_speed ==
  /\ Awaits /\ speed' \in ClockSteps \ {speed}
  /\ UNCHANGED <<Time, paused, loop, call, graph, snapshot, Engine, history, Bounds>>
stop_run ==
  /\ Awaits /\ active_run # Nothing
  /\ past_results' = Archive(active_run, "stopped") /\ active_run' = Nothing
  /\ Note(IF loop.pc \in {"metrics", "final"} THEN {"overtaken"} ELSE {})
  /\ UNCHANGED <<Time, paused, speed, loop, call, graph, snapshot, runs, Bounds>>

(* Requests that await queries: each begins by pausing the clock.          *)
Begin(r, op, pc, saved) ==
  /\ call[r].pc = "idle" /\ requests < MaxRequests /\ requests' = requests + 1
  /\ paused' = TRUE /\ call' = [call EXCEPT ![r] = [pc |-> pc, op |-> op, saved |-> saved]]
  /\ Note(Collides)
  /\ UNCHANGED <<Time, speed, loop, graph, snapshot, Engine, clock_faults>>
BeginReset(r)    == Begin(r, "reset", "wipe", Nothing)
BeginRestore(r)  == snapshot # Nothing /\ Begin(r, "restore", "wipe", snapshot)
BeginScenario(r) == active_run = Nothing /\ Begin(r, "scenario", "wipe", Nothing)
BeginReplay(r)   ==
  active_run = Nothing /\ snapshot # Nothing /\ Begin(r, "replay", "wipe", snapshot)
BeginSnapshot(r) ==
  Begin(r, "snapshot", "export",
        [time |-> sim_time, day |-> sim_day, speed |-> speed, was_paused |-> paused])

FromFile(r) == call[r].op \in {"restore", "replay"}
Wipe(r) ==
  /\ call[r].pc = "wipe" /\ graph' = Empty
  /\ \/ /\ FromFile(r) /\ Goto(r, "load") /\ UNCHANGED <<Time, paused>>
     \/ /\ ~FromFile(r) /\ reset_to_start /\ Goto(r, "structure")
  /\ UNCHANGED <<speed, loop, snapshot, Engine, history, Bounds>>
SeedStructure(r) ==
  /\ call[r].pc = "structure" /\ Goto(r, "check")
  /\ graph' = [graph EXCEPT !.airport = TRUE]
  /\ UNCHANGED <<Time, paused, speed, snapshot, Engine, history, Bounds>>

(* restore_snapshot creates the nodes beside what others have written, and *)
(* its caller sets the clock.                                              *)
Load(r) ==
  LET file == call[r].saved IN
    /\ call[r].pc = "load"
    /\ graph' = [airport |-> graph.airport \/ file.graph.airport,
                 flights |-> graph.flights \cup file.graph.flights,
                 whole |-> graph.whole \cup file.graph.whole]
    /\ sim_time' = file.time /\ sim_day' = file.day
    /\ paused' = FALSE /\ Return(r)
    /\ IF call[r].op = "replay" THEN speed' \in ClockSteps /\ start_run(file.time)
                                ELSE speed' = file.speed /\ UNCHANGED Engine
    /\ Note(IF Midnight(file.time) THEN {"skewed"} ELSE {})
    /\ UNCHANGED <<loop, snapshot, Bounds>>

Unpaused(r) == IF call[r].saved.was_paused THEN paused ELSE FALSE
Export(r) ==
  LET now == call[r].saved IN
    /\ call[r].pc = "export" /\ paused' = Unpaused(r) /\ Return(r)
    /\ snapshot' = [time |-> now.time, day |-> now.day, speed |-> now.speed,
                    graph |-> graph]
    /\ UNCHANGED <<Time, speed, loop, graph, Engine, history, Bounds>>

(* A query fails: a reset leaves the clock as it is, the others let it go  *)
(* on; the loop logs it.                                                   *)
Faulty == clock_faults < MaxClockFaults /\ clock_faults' = clock_faults + 1
RequestFails(r) ==
  /\ call[r].pc # "idle" /\ Faulty /\ Return(r) /\ Note({"spoilt"})
  /\ paused' = CASE call[r].op = "reset" -> paused
                 [] call[r].op = "snapshot" -> Unpaused(r)
                 [] OTHER -> FALSE
  /\ graph' \in {graph} \cup (IF call[r].pc = "wipe" THEN {Empty} ELSE {})
  /\ UNCHANGED <<Time, speed, loop, snapshot, Engine, requests>>
BoundaryFails ==
  /\ loop.step > 0 /\ Seeds(loop.pc) /\ Faulty /\ Goto(ClockLoop, "on_tick") /\ Note({"spoilt"})
  /\ UNCHANGED <<Time, paused, speed, graph, snapshot, Engine, requests>>

Restart ==
  /\ Faulty
  /\ sim_time' = SIM_START_TIME /\ sim_day' = 1 /\ paused' = FALSE
  /\ speed' \in ClockSteps /\ loop' = Started /\ call' = [r \in ClockRest |-> Idle]
  /\ active_run' = Nothing /\ past_results' = {}
  /\ Note(Collides)
  /\ UNCHANGED <<graph, snapshot, runs, requests>>

Request(r) ==
  /\ Awaits
  /\ \/ BeginReset(r) \/ BeginRestore(r) \/ BeginScenario(r) \/ BeginReplay(r) \/ BeginSnapshot(r)
     \/ Wipe(r) \/ SeedStructure(r) \/ Load(r) \/ Export(r) \/ RequestFails(r) \/ SeedDay(r)

ClockNext ==
  \/ Loop \/ SeedDay(ClockLoop) \/ BoundaryFails \/ Restart
  \/ sim_pause \/ sim_resume \/ sim_speed \/ stop_run
  \/ \E r \in ClockRest : Request(r)

ClockSpec == ClockInit /\ [][ClockNext]_clockVars
-----------------------------------------------------------------------------
(* Whenever the clock is between two ticks and nobody is at work on the    *)
(* graph, sim_day is the day of sim_time, that day has its flights,        *)
(* passengers and bags, and no day was seeded twice: through steps over a  *)
(* boundary, resets, restored snapshots and restarts.  Excepted is what    *)
(* follows two that worked at once, a failed query, a crash in the middle, *)
(* and a restored snapshot of a midnight whose day had not rolled over.    *)
DayLoaded ==
  ~history.spoilt /\ ~history.skewed /\ loop.pc = "sleep" /\ AtWork = {}
    => /\ sim_day = Today(sim_time)
       /\ \E s \in graph.whole : s.day = sim_day
       /\ \A s, t \in graph.flights : s.day = t.day => s = t

(* A run ends once, and one that completes has injected all its events,    *)
(* whatever became of the clock -- unless a run was stopped while the loop *)
(* was collecting metrics for it, which then go to the next run.           *)
RunsEndOnce ==
  /\ \A r \in past_results :
       /\ r.status = "completed" /\ ~history.overtaken => r.fired = Offsets
       /\ active_run # Nothing => active_run.id # r.id
  /\ \A r, s \in past_results : r.id = s.id => r = s
=============================================================================
