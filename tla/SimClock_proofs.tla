--------------------------- MODULE SimClock_proofs ---------------------------
(***************************************************************************)
(* Proofs about SimClock, for any start, length of the day, speeds and     *)
(* scenario, and any number of requests.                                   *)
(***************************************************************************)
EXTENDS SimClock, TLAPS

Task     == ClockRest \cup {ClockLoop}
CallPcs  == {"idle", "wipe", "structure", "check", "flights", "passengers", "load", "export"}
LoopPcs  == {"startup", "check", "flights", "passengers", "sleep", "minute", "on_tick",
             "metrics", "final", "rollover"}
Ops      == {"none", "reset", "scenario", "restore", "replay", "snapshot"}
Seeding  == [day : Nat, by : Task]
Graph    == [airport : BOOLEAN, flights : SUBSET Seeding, whole : SUBSET Seeding]
File     == [time : Nat, day : Nat, speed : ClockSteps, graph : Graph]
Kept     == [time : Nat, day : Nat, speed : ClockSteps, was_paused : BOOLEAN]
Run      == [id : Nat, start : Nat, fired : SUBSET Offsets]
Result   == [id : Nat, status : {"completed", "stopped"}, fired : SUBSET Offsets]

Saved    == File \cup Kept \cup {Nothing}
Place    == [pc : CallPcs, op : Ops, saved : Saved]
Calls    == [ClockRest -> Place]
Loops    == [pc : LoopPcs, step : Nat, left : Int, day : Nat, offset : Int]
History  == [skewed : BOOLEAN, spoilt : BOOLEAN, overtaken : BOOLEAN]

CallsOK ==
  \A r \in ClockRest :
    /\ FromFile(r) => call[r].saved \in File
    /\ call[r].op = "snapshot" => call[r].saved \in Kept
    /\ call[r].pc = "wipe" => FromFile(r) \/ call[r].op \in {"reset", "scenario"}
    /\ call[r].pc = "load" => FromFile(r)
    /\ call[r].pc = "export" => call[r].op = "snapshot"
    /\ call[r].pc \in {"structure", "check", "flights", "passengers"} =>
         call[r].op \in {"reset", "scenario"}

Types ==
  /\ sim_time \in Nat /\ sim_day \in Nat /\ speed \in ClockSteps /\ paused \in BOOLEAN
  /\ loop \in Loops
  /\ call \in Calls
  /\ CallsOK
  /\ graph \in Graph /\ snapshot \in File \cup {Nothing}
  /\ active_run \in Run \cup {Nothing} /\ past_results \in SUBSET Result /\ runs \in Nat
  /\ history \in History

(* The loop collects metrics for a run, and completes it, only once it has *)
(* fired what was due; who takes the run away meanwhile leaves a note.     *)
AtRun == loop.pc \in {"metrics", "final"}
RunInHand ==
  AtRun /\ ~history.overtaken =>
    /\ active_run # Nothing /\ Due(loop.offset) \subseteq active_run.fired
    /\ loop.pc = "final" => loop.offset >= RunMinutes
RunNumbers ==
  /\ active_run # Nothing => active_run.id <= runs
  /\ \A r \in past_results : r.id <= runs
RunInv == Types /\ RunInHand /\ RunNumbers /\ RunsEndOnce

(* The loop is at a tick, or it has just started and seeds the first day.  *)
StepOK ==
  /\ loop.pc \in {"minute", "on_tick", "metrics", "final", "rollover"} => loop.step > 0
  /\ loop.pc = "startup" => loop.step = 0
Starting == loop.pc = "startup" \/ (Seeds(loop.pc) /\ loop.step = 0)
StartsAlone ==
  Starting => /\ \A r \in ClockRest : call[r].pc = "idle"
              /\ sim_time = SIM_START_TIME /\ sim_day = 1 /\ loop.day = 1

(* As long as nothing was spoilt: who is at work on the graph is alone,    *)
(* and knows how far the others have left it.                              *)
Tidy(g)      == g.flights = g.whole /\ \A s, u \in g.flights : s.day = u.day => s = u
Seeded(g, d) == \E s \in g.flights : s.day = d
OneAtWork    == \A s, t \in AtWork : s = t
FileTidy(file) == Tidy(file.graph) /\ file.graph.airport
WorkTidy(t) ==
  /\ Reached(t, "check") \/ Reached(t, "export") => graph.airport /\ Tidy(graph)
  /\ Reached(t, "flights") => graph.airport /\ Tidy(graph) /\ ~Seeded(graph, SeedingOf(t).day)
  /\ Reached(t, "passengers") =>
       /\ graph.airport /\ graph.flights = graph.whole \cup {SeedingOf(t)}
       /\ \A s, u \in graph.flights : s.day = u.day => s = u
  /\ Reached(t, "structure") => Tidy(graph)
  /\ Reached(t, "load") => graph = Empty
GraphOK ==
  /\ AtWork = {} => Tidy(graph) /\ (graph.airport \/ Starting)
  /\ \A t \in AtWork : WorkTidy(t)
  /\ \A r \in ClockRest : FromFile(r) => FileTidy(call[r].saved)
  /\ snapshot # Nothing => FileTidy(snapshot)

(* Unless a midnight was restored too, the graph covers a time of the      *)
(* clock: its day, and from SeedingMinute on also the next one.            *)
Covers(g, m) == Seeded(g, Today(m)) /\ (m % DayMinutes >= SeedingMinute => Seeded(g, Today(m) + 1))
Pending == Midnight(sim_time) /\ loop.pc \in {"on_tick", "metrics", "final", "rollover"}
OnDay(at) == ~Midnight(at.time) => at.day = Today(at.time)
FileDays(file) == Covers(file.graph, file.time) /\ OnDay(file)
WorkDays(t) ==
  /\ t = ClockLoop /\ ~Starting =>
       /\ Seeded(graph, Today(sim_time)) /\ sim_time % DayMinutes = SeedingMinute
       /\ loop.day = Today(sim_time) + 1
  /\ t \in ClockRest =>
       /\ call[t].pc = "export" =>
            /\ Covers(graph, sim_time)
            /\ Covers(graph, call[t].saved.time) /\ OnDay(call[t].saved)
       /\ call[t].pc \in {"structure", "check", "flights", "passengers"} =>
            sim_time \in 0..(SeedingMinute - 1)
DaysOK ==
  /\ sim_day = IF Pending THEN Today(sim_time) - 1 ELSE Today(sim_time)
  /\ AtWork = {} /\ ~Starting => Covers(graph, sim_time)
  /\ \A t \in AtWork : WorkDays(t)
  /\ \A r \in ClockRest : FromFile(r) => FileDays(call[r].saved)
  /\ snapshot # Nothing => FileDays(snapshot)

DayInv ==
  /\ Types /\ StepOK /\ StartsAlone
  /\ ~history.spoilt => OneAtWork /\ GraphOK
  /\ ~history.spoilt /\ ~history.skewed => DaysOK
-----------------------------------------------------------------------------
USE DEF ClockLoop

LEMMA Minutes ==
  /\ DayMinutes \in Nat /\ SeedingMinute \in Nat /\ SIM_START_TIME \in Nat /\ RunMinutes \in Nat
  /\ 0 < SIM_START_TIME /\ SIM_START_TIME < SeedingMinute /\ SeedingMinute < DayMinutes
<1>1. /\ DayMinutes \in Nat /\ SeedingMinute \in 1..(DayMinutes - 1)
      /\ SIM_START_TIME \in 1..(SeedingMinute - 1) /\ RunMinutes \in Nat
  BY ClockAssumption
<1> QED BY <1>1

LEMMA Noted ==
  ASSUME Types, NEW facts, Note(facts)
  PROVE  /\ history' \in History
         /\ history'.skewed <=> history.skewed \/ "skewed" \in facts
         /\ history'.spoilt <=> history.spoilt \/ "spoilt" \in facts
         /\ history'.overtaken <=> history.overtaken \/ "overtaken" \in facts
BY DEF Types, Note, History

(* The records of the loop. *)
LEMMA LoopRecords ==
  /\ Asleep \in Loops /\ Started \in Loops
  /\ Asleep.pc = "sleep" /\ Asleep.step = 0
  /\ Started.pc = "startup" /\ Started.step = 0 /\ Started.day = 1
<1>1. Asleep \in Loops /\ Asleep.pc = "sleep" /\ Asleep.step = 0
  BY DEF Asleep, Loops, LoopPcs
<1>2. \A l \in Loops : [l EXCEPT !.pc = "startup"] \in Loops /\ [l EXCEPT !.day = 1] \in Loops
  BY DEF Loops, LoopPcs
<1>3. Started = [[Asleep EXCEPT !.pc = "startup"] EXCEPT !.day = 1]
  BY DEF Started
<1>4. Started.pc = "startup" /\ Started.step = 0 /\ Started.day = 1
  BY DEF Started, Asleep
<1> QED BY <1>1, <1>2, <1>3, <1>4

LEMMA TypesInit == ClockInit => Types
<1> SUFFICES ASSUME ClockInit PROVE Types
  OBVIOUS
<1>0. sim_time = SIM_START_TIME
  BY DEF ClockInit
<1>1. sim_time \in Nat
  BY <1>0, Minutes
<1>2. sim_day \in Nat /\ speed \in ClockSteps /\ runs \in Nat
  BY DEF ClockInit
<1>3. loop \in Loops
  BY LoopRecords DEF ClockInit
<1>5. Idle \in Place
  BY DEF Idle, Place, CallPcs, Ops, Saved
<1>6. call = [r \in ClockRest |-> Idle]
  BY DEF ClockInit
<1>10. call \in Calls /\ CallsOK
  BY <1>5, <1>6 DEF Idle, Calls, CallsOK, FromFile
<1>7. graph \in Graph
  BY DEF ClockInit, Empty, Graph
<1>8. history \in History
  BY DEF ClockInit, History
<1>9. paused = FALSE /\ snapshot = Nothing /\ active_run = Nothing /\ past_results = {}
  BY DEF ClockInit
<1> QED BY <1>1, <1>2, <1>3, <1>7, <1>8, <1>9, <1>10 DEF Types

(* What a task does to its own place, and to the others'.                  *)
LEMMA GotoCall ==
  ASSUME Types, NEW r \in ClockRest, NEW pc \in CallPcs, Goto(r, pc)
  PROVE  /\ loop' = loop
         /\ call' \in Calls
         /\ call'[r].pc = pc /\ call'[r].op = call[r].op /\ call'[r].saved = call[r].saved
         /\ \A q \in ClockRest \ {r} : call'[q] = call[q]
<1>1. loop' = loop /\ call' = [call EXCEPT ![r].pc = pc]
  BY ClockAssumption DEF Goto
<1>2. call \in Calls
  BY DEF Types
<1> QED BY <1>1, <1>2 DEF Calls, Place

LEMMA ReturnCall ==
  ASSUME Types, NEW r \in ClockRest, Return(r)
  PROVE  /\ call' \in Calls
         /\ call'[r].pc = "idle" /\ call'[r].op = "none"
         /\ \A q \in ClockRest \ {r} : call'[q] = call[q]
<1>1. Idle \in Place /\ Idle.pc = "idle" /\ Idle.op = "none"
  BY DEF Idle, Place, CallPcs, Ops, Saved
<1>2. call' = [call EXCEPT ![r] = Idle] /\ call \in Calls
  BY DEF Return, Types
<1> QED BY <1>1, <1>2 DEF Calls

LEMMA GotoLoop ==
  ASSUME Types, NEW pc \in LoopPcs, Goto(ClockLoop, pc)
  PROVE  /\ call' = call
         /\ loop' \in Loops
         /\ loop'.pc = pc /\ loop'.step = loop.step /\ loop'.left = loop.left
         /\ loop'.day = loop.day /\ loop'.offset = loop.offset
BY DEF Goto, Types, Loops

LEMMA StartRun ==
  ASSUME Types, NEW at \in Nat, start_run(at)
  PROVE  /\ past_results' = past_results /\ runs' \in Nat /\ active_run' \in Run \cup {Nothing}
BY DEF start_run, Types, Run

LEMMA ArchiveTypes ==
  ASSUME Types, active_run # Nothing, NEW s \in {"completed", "stopped"}
  PROVE  Archive(active_run, s) \in SUBSET Result
<1>1. active_run \in Run /\ past_results \in SUBSET Result
  BY DEF Types
<1>2. [id |-> active_run.id, status |-> s, fired |-> active_run.fired] \in Result
  BY <1>1 DEF Run, Result
<1> QED BY <1>1, <1>2 DEF Archive

LEMMA CallMoves ==
  ASSUME Types, NEW r \in ClockRest, call' \in Calls,
         \A q \in ClockRest \ {r} : call'[q] = call[q],
         \/ call'[r].op = "none" /\ call'[r].pc = "idle"
         \/ /\ call'[r].op = call[r].op /\ call'[r].saved = call[r].saved
            /\ call'[r].pc # "wipe"
            /\ call'[r].pc = "load" => call[r].op \in {"restore", "replay"}
            /\ call'[r].pc = "export" => call[r].op = "snapshot"
            /\ call'[r].pc \in {"structure", "check", "flights", "passengers"} =>
                 call[r].op \in {"reset", "scenario"}
  PROVE  CallsOK'
BY DEF Types, CallsOK, FromFile

LEMMA CallsKept == ASSUME CallsOK, UNCHANGED call PROVE CallsOK'
BY DEF CallsOK, FromFile

(* A seeding task goes on, ends, or is at the end of a request. *)
LEMMA DayIsSeededTypes ==
  ASSUME Types, NEW t \in Task, DayIsSeeded(t)
  PROVE  /\ loop' \in Loops /\ call' \in Calls /\ CallsOK' /\ speed' \in ClockSteps
         /\ paused' \in BOOLEAN
         /\ active_run' \in Run \cup {Nothing} /\ past_results' \in SUBSET Result /\ runs' \in Nat
<1>1. CASE t = ClockLoop
  <2>1. /\ loop' = IF loop.step = 0 THEN Asleep ELSE [loop EXCEPT !.pc = "on_tick"]
        /\ UNCHANGED <<call, paused, speed, active_run, past_results, runs>>
    BY <1>1 DEF DayIsSeeded, Engine
  <2>2. [loop EXCEPT !.pc = "on_tick"] \in Loops
    BY DEF Types, Loops, LoopPcs
  <2>3. loop' \in Loops
    BY <2>1, <2>2, LoopRecords
  <2> QED BY <2>1, <2>3, CallsKept DEF Types
<1>2. CASE t # ClockLoop
  <2>1. /\ t \in ClockRest /\ Return(t) /\ UNCHANGED loop /\ paused' = FALSE
        /\ \/ UNCHANGED <<speed, active_run, past_results, runs>>
           \/ speed' \in ClockSteps /\ start_run(sim_time)
    BY <1>2 DEF DayIsSeeded, Engine, Task
  <2>2. call' \in Calls /\ CallsOK'
    BY <2>1, ReturnCall, CallMoves
  <2>3. speed' \in ClockSteps /\ loop' \in Loops
    BY <2>1 DEF Types
  <2>4. active_run' \in Run \cup {Nothing} /\ past_results' \in SUBSET Result /\ runs' \in Nat
    BY <2>1, StartRun DEF Types
  <2> QED BY <2>1, <2>2, <2>3, <2>4
<1> QED BY <1>1, <1>2

LEMMA SeedDayTypes ==
  ASSUME Types, NEW t \in Task, SeedDay(t)
  PROVE  Types'
<1>1. SeedingOf(t) \in Seeding
  BY DEF SeedingOf, Seeding, Types, Loops, Task
<1>2. CASE SkipDay(t)
  <2>1. DayIsSeeded(t) /\ UNCHANGED <<sim_time, sim_day, graph, snapshot, history>>
    BY <1>2 DEF SkipDay, Time
  <2> QED BY <2>1, DayIsSeededTypes DEF Types
<1>3. ASSUME NEW pc \in {"flights", "passengers"}, Goto(t, pc),
             Reached(t, "check") \/ Reached(t, "flights")
      PROVE  loop' \in Loops /\ call' \in Calls /\ CallsOK'
  <2>1. pc \in LoopPcs /\ pc \in CallPcs
    BY DEF LoopPcs, CallPcs
  <2>2. CASE t = ClockLoop
    BY <1>3, <2>1, <2>2, GotoLoop, CallsKept DEF Types
  <2>3. CASE t # ClockLoop
    <3>1. t \in ClockRest /\ call[t].op \in {"reset", "scenario"}
      BY <1>3, <2>3 DEF Task, Reached, Types, CallsOK
    <3>2. /\ loop' = loop /\ call' \in Calls
          /\ call'[t].pc = pc /\ call'[t].op = call[t].op /\ call'[t].saved = call[t].saved
          /\ \A q \in ClockRest \ {t} : call'[q] = call[q]
      BY <1>3, <2>1, <3>1, GotoCall
    <3>3. CallsOK'
      BY <3>1, <3>2, CallMoves
    <3> QED BY <3>2, <3>3 DEF Types
  <2> QED BY <2>2, <2>3
<1>4. CASE CheckDay(t)
  <2>1. /\ Reached(t, "check") /\ Goto(t, "flights")
        /\ UNCHANGED <<sim_time, sim_day, paused, speed, graph, snapshot, active_run, past_results, runs, history>>
    BY <1>4 DEF CheckDay, Time, Engine
  <2> QED BY <1>3, <2>1 DEF Types
<1>5. CASE SeedFlights(t)
  <2>1. /\ Reached(t, "flights") /\ Goto(t, "passengers")
        /\ UNCHANGED <<sim_time, sim_day, paused, speed, snapshot, active_run, past_results, runs, history>>
        /\ graph' = IF graph.airport THEN [graph EXCEPT !.flights = @ \cup {SeedingOf(t)}] ELSE graph
    BY <1>5 DEF SeedFlights, Time, Engine
  <2>2. graph' \in Graph
    BY <1>1, <2>1 DEF Types, Graph
  <2> QED BY <1>3, <2>1, <2>2 DEF Types
<1>6. CASE SeedPassengers(t)
  <2>1. /\ DayIsSeeded(t) /\ UNCHANGED <<sim_time, sim_day, snapshot, history>>
        /\ graph' = [graph EXCEPT !.whole = @ \cup ({SeedingOf(t)} \cap graph.flights)]
    BY <1>6 DEF SeedPassengers, Time
  <2>2. graph' \in Graph
    BY <1>1, <2>1 DEF Types, Graph
  <2> QED BY <2>1, <2>2, DayIsSeededTypes DEF Types
<1> QED BY <1>2, <1>4, <1>5, <1>6 DEF SeedDay

(* The loop.  What a step of it may change. *)
LEMMA LoopTypes ==
  ASSUME Types, Loop
  PROVE  Types'
<1>1. CASE Startup
  <2>1. /\ Goto(ClockLoop, "check") /\ graph' = [graph EXCEPT !.airport = TRUE]
        /\ UNCHANGED <<sim_time, sim_day, paused, speed, snapshot, active_run, past_results, runs, history>>
    BY <1>1 DEF Startup, Time, Engine
  <2>2. graph' \in Graph
    BY <2>1 DEF Types, Graph
  <2>3. loop' \in Loops /\ call' = call
    BY <2>1, GotoLoop DEF LoopPcs
  <2> QED BY <2>1, <2>2, <2>3, CallsKept DEF Types
<1>2. CASE NextTick
  <2>1. /\ loop' = [Asleep EXCEPT !.pc = "minute", !.step = speed, !.left = speed]
        /\ UNCHANGED <<sim_time, sim_day, paused, speed, call, graph, snapshot, active_run, past_results, runs, history>>
    BY <1>2 DEF NextTick, Time, Engine
  <2>2. speed \in Nat
    BY ClockAssumption DEF Types
  <2>3. \A l \in Loops : /\ [l EXCEPT !.pc = "minute"] \in Loops
                         /\ [l EXCEPT !.step = speed] \in Loops
                         /\ [l EXCEPT !.left = speed] \in Loops
    BY <2>2 DEF Loops, LoopPcs
  <2>4. loop' \in Loops
    BY <2>1, <2>3, LoopRecords
  <2> QED BY <2>1, <2>4, CallsKept DEF Types
<1>3. CASE Minute
  <2>1. /\ sim_time' = sim_time + 1
        /\ \/ loop' = [loop EXCEPT !.pc = "check", !.left = @ - 1, !.day = sim_day + 1]
           \/ loop' = [loop EXCEPT !.pc = "on_tick", !.left = @ - 1]
        /\ \E facts : Note(facts)
        /\ UNCHANGED <<sim_day, paused, speed, call, graph, snapshot, active_run, past_results, runs>>
    BY <1>3 DEF Minute, Engine
  <2>2. loop' \in Loops
    <3>0. loop \in Loops /\ sim_day + 1 \in Nat
      BY DEF Types
    <3>1. loop \in Loops /\ sim_day + 1 \in Nat /\ loop.left - 1 \in Int
      BY <3>0 DEF Loops
    <3>2. [loop EXCEPT !.pc = "check", !.left = @ - 1, !.day = sim_day + 1] \in Loops
      <4>1. \A n \in Int, d \in Nat : [loop EXCEPT !.pc = "check", !.left = n, !.day = d] \in Loops
        BY <3>1 DEF Loops, LoopPcs
      <4> QED BY <3>1, <4>1
    <3>3. [loop EXCEPT !.pc = "on_tick", !.left = @ - 1] \in Loops
      <4>1. \A n \in Int : [loop EXCEPT !.pc = "on_tick", !.left = n] \in Loops
        BY <3>1 DEF Loops, LoopPcs
      <4> QED BY <3>1, <4>1
    <3> QED BY <2>1, <3>2, <3>3
  <2>3. history' \in History
    BY <2>1, Noted
  <2>4. sim_time' \in Nat
    BY <2>1 DEF Types
  <2> QED BY <2>1, <2>2, <2>3, <2>4, CallsKept DEF Types
<1>4. CASE OnTick
  <2>1. UNCHANGED <<sim_time, sim_day, paused, speed, graph, snapshot, history, call, past_results, runs>>
    BY <1>4 DEF OnTick, Goto, Time, Engine
  <2>2. CASE active_run = Nothing
    <3>1. Goto(ClockLoop, "rollover") /\ UNCHANGED active_run
      BY <1>4, <2>2 DEF OnTick, Engine
    <3>2. loop' \in Loops
      BY <3>1, GotoLoop DEF LoopPcs
    <3> QED BY <2>1, <3>1, <3>2, CallsKept DEF Types
  <2>3. CASE active_run # Nothing
    <3> DEFINE offset == sim_time - active_run.start
    <3>1. /\ active_run' = [active_run EXCEPT !.fired = @ \cup Due(offset)]
          /\ \E pc \in {"metrics", "final", "rollover"} :
               loop' = [loop EXCEPT !.offset = offset, !.pc = pc]
      BY <1>4, <2>3 DEF OnTick, WhenDue
    <3>2. active_run \in Run
      BY <2>3 DEF Types
    <3>3. offset \in Int
      BY <3>2 DEF Types, Run
    <3>4. active_run' \in Run
      BY <3>1, <3>2 DEF Run, Due
    <3>5. loop' \in Loops
      <4>1. loop \in Loops
        BY DEF Types
      <4>2. \A pc \in {"metrics", "final", "rollover"} :
              [loop EXCEPT !.offset = offset, !.pc = pc] \in Loops
        BY <3>3, <4>1 DEF Loops, LoopPcs
      <4> QED BY <3>1, <4>2
    <3> QED BY <2>1, <3>4, <3>5, CallsKept DEF Types
  <2> QED BY <2>2, <2>3
<1>5. CASE Collected
  <2>1. /\ \E pc \in {"rollover", "final"} : Goto(ClockLoop, pc)
        /\ UNCHANGED <<sim_time, sim_day, paused, speed, graph, snapshot, active_run, past_results, runs, history>>
    BY <1>5 DEF Collected, WhenDue, Time, Engine
  <2>2. loop' \in Loops /\ call' = call
    BY <2>1, GotoLoop DEF LoopPcs
  <2> QED BY <2>1, <2>2, CallsKept DEF Types
<1>6. CASE CompleteRun
  <2>1. /\ Goto(ClockLoop, "rollover")
        /\ UNCHANGED <<sim_time, sim_day, paused, speed, graph, snapshot, runs, history>>
        /\ \/ UNCHANGED <<active_run, past_results>>
           \/ /\ active_run # Nothing /\ active_run' = Nothing
              /\ past_results' = Archive(active_run, "completed")
    BY <1>6 DEF CompleteRun, Time, Engine
  <2>2. loop' \in Loops /\ call' = call
    BY <2>1, GotoLoop DEF LoopPcs
  <2>3. past_results' \in SUBSET Result /\ active_run' \in Run \cup {Nothing}
    BY <2>1, ArchiveTypes DEF Types
  <2> QED BY <2>1, <2>2, <2>3, CallsKept DEF Types
<1>7. CASE EndMinute
  <2>1. /\ sim_day' \in {sim_day, sim_day + 1}
        /\ loop' \in {[loop EXCEPT !.pc = "minute"], Asleep}
        /\ UNCHANGED <<sim_time, paused, speed, call, graph, snapshot, active_run, past_results, runs, history>>
    BY <1>7 DEF EndMinute, Engine
  <2>2. [loop EXCEPT !.pc = "minute"] \in Loops
    BY DEF Types, Loops, LoopPcs
  <2>3. loop' \in Loops
    BY <2>1, <2>2, LoopRecords
  <2>4. sim_day' \in Nat
    BY <2>1 DEF Types
  <2> QED BY <2>1, <2>3, <2>4, CallsKept DEF Types
<1> QED BY <1>1, <1>2, <1>3, <1>4, <1>5, <1>6, <1>7 DEF Loop

LEMMA BeginTypes ==
  ASSUME Types, NEW r \in ClockRest, NEW op \in Ops, NEW pc \in {"wipe", "export"}, NEW saved \in Saved,
         Begin(r, op, pc, saved),
         op \in {"restore", "replay"} => saved \in File, op = "snapshot" => saved \in Kept,
         pc = IF op = "snapshot" THEN "export" ELSE "wipe", op # "none"
  PROVE  Types'
<1> DEFINE place == [pc |-> pc, op |-> op, saved |-> saved]
<1>1. /\ call' = [call EXCEPT ![r] = place] /\ Note(Collides)
      /\ UNCHANGED <<sim_time, sim_day, speed, loop, graph, snapshot, active_run, past_results, runs>>
      /\ paused' = TRUE
  BY DEF Begin, Time, Engine
<1>2. place \in Place
  BY DEF Place, CallPcs
<1> HIDE DEF place
<1>3. call' \in Calls /\ call'[r] = place /\ \A q \in ClockRest \ {r} : call'[q] = call[q]
  BY <1>1, <1>2 DEF Types, Calls
<1>4. place.pc = pc /\ place.op = op /\ place.saved = saved
  BY DEF place
<1>5. CallsOK'
  BY <1>3, <1>4 DEF Types, CallsOK, FromFile, Ops
<1>6. history' \in History
  BY <1>1, Noted
<1> QED BY <1>1, <1>3, <1>5, <1>6 DEF Types

LEMMA RequestTypes ==
  ASSUME Types, NEW r \in ClockRest, Request(r)
  PROVE  Types'
<1> DEFINE now == [time |-> sim_time, day |-> sim_day, speed |-> speed, was_paused |-> paused]
<1>1. CASE BeginReset(r) \/ BeginScenario(r)
  BY <1>1, BeginTypes DEF BeginReset, BeginScenario, Ops, Saved
<1>2. CASE BeginRestore(r) \/ BeginReplay(r)
  <2>1. snapshot \in File
    BY <1>2 DEF BeginRestore, BeginReplay, Types
  <2> QED BY <1>2, <2>1, BeginTypes DEF BeginRestore, BeginReplay, Ops, Saved
<1>3. CASE BeginSnapshot(r)
  <2>1. now \in Kept
    BY DEF Types, Kept
  <2> QED BY <1>3, <2>1, BeginTypes DEF BeginSnapshot, Ops, Saved
<1>4. CASE Wipe(r)
  <2>1. /\ call[r].pc = "wipe" /\ graph' = Empty
        /\ UNCHANGED <<speed, loop, snapshot, active_run, past_results, runs, history>>
        /\ \/ FromFile(r) /\ Goto(r, "load") /\ UNCHANGED <<sim_time, sim_day, paused>>
           \/ ~FromFile(r) /\ reset_to_start /\ Goto(r, "structure")
    BY <1>4 DEF Wipe, Engine, Time
  <2>2. graph' \in Graph
    BY <2>1 DEF Empty, Graph
  <2>3. CASE FromFile(r) /\ Goto(r, "load") /\ UNCHANGED <<sim_time, sim_day, paused>>
    <3>1. /\ call' \in Calls
          /\ call'[r].pc = "load" /\ call'[r].op = call[r].op /\ call'[r].saved = call[r].saved
          /\ \A q \in ClockRest \ {r} : call'[q] = call[q]
      BY <2>3, GotoCall DEF CallPcs
    <3>2. CallsOK'
      BY <2>3, <3>1, CallMoves DEF FromFile
    <3> QED BY <2>1, <2>2, <2>3, <3>1, <3>2 DEF Types
  <2>4. CASE ~FromFile(r) /\ reset_to_start /\ Goto(r, "structure")
    <3>1. /\ call' \in Calls
          /\ call'[r].pc = "structure" /\ call'[r].op = call[r].op /\ call'[r].saved = call[r].saved
          /\ \A q \in ClockRest \ {r} : call'[q] = call[q]
      BY <2>4, GotoCall DEF CallPcs
    <3>2. call[r].op \in {"reset", "scenario"}
      BY <2>1, <2>4 DEF Types, CallsOK
    <3>3. CallsOK'
      BY <3>1, <3>2, CallMoves
    <3>4. sim_time' \in Nat /\ sim_day' \in Nat /\ paused' \in BOOLEAN
      BY <2>4, Minutes DEF reset_to_start
    <3> QED BY <2>1, <2>2, <3>1, <3>3, <3>4 DEF Types
  <2> QED BY <2>1, <2>3, <2>4
<1>5. CASE SeedStructure(r)
  <2>1. /\ call[r].pc = "structure" /\ Goto(r, "check") /\ graph' = [graph EXCEPT !.airport = TRUE]
        /\ UNCHANGED <<sim_time, sim_day, paused, speed, snapshot, active_run, past_results, runs, history>>
    BY <1>5 DEF SeedStructure, Engine, Time
  <2>2. graph' \in Graph
    BY <2>1 DEF Types, Graph
  <2>3. /\ loop' = loop /\ call' \in Calls
        /\ call'[r].pc = "check" /\ call'[r].op = call[r].op /\ call'[r].saved = call[r].saved
        /\ \A q \in ClockRest \ {r} : call'[q] = call[q]
    BY <2>1, GotoCall DEF CallPcs
  <2>4. CallsOK'
    BY <2>1, <2>3, CallMoves DEF Types, CallsOK
  <2> QED BY <2>1, <2>2, <2>3, <2>4 DEF Types
<1>6. CASE Load(r)
  <2> DEFINE file == call[r].saved
  <2>1. /\ call[r].pc = "load" /\ sim_time' = file.time /\ sim_day' = file.day /\ paused' = FALSE
        /\ graph' = [airport |-> graph.airport \/ file.graph.airport,
                     flights |-> graph.flights \cup file.graph.flights,
                     whole |-> graph.whole \cup file.graph.whole]
        /\ Return(r) /\ UNCHANGED <<loop, snapshot>> /\ \E facts : Note(facts)
        /\ \/ speed' \in ClockSteps /\ start_run(file.time)
           \/ speed' = file.speed /\ UNCHANGED <<active_run, past_results, runs>>
    BY <1>6 DEF Load, Engine
  <2>2. file \in File
    BY <2>1 DEF Types, CallsOK
  <2>3. sim_time' \in Nat /\ sim_day' \in Nat /\ speed' \in ClockSteps
    BY <2>1, <2>2 DEF File
  <2>4. graph' \in Graph
    <3>1. file.graph \in Graph /\ graph \in Graph
      BY <2>2 DEF File, Types
    <3> QED BY <2>1, <3>1 DEF Graph
  <2>5. call' \in Calls /\ CallsOK'
    BY <2>1, ReturnCall, CallMoves
  <2>6. active_run' \in Run \cup {Nothing} /\ past_results' \in SUBSET Result /\ runs' \in Nat
    BY <2>1, <2>3, StartRun DEF Types
  <2>7. history' \in History
    BY <2>1, Noted
  <2> QED BY <2>1, <2>3, <2>4, <2>5, <2>6, <2>7 DEF Types
<1>7. CASE Export(r)
  <2>1. /\ call[r].pc = "export" /\ Return(r) /\ paused' \in {paused, FALSE}
        /\ snapshot' = [time |-> call[r].saved.time, day |-> call[r].saved.day,
                        speed |-> call[r].saved.speed, graph |-> graph]
        /\ UNCHANGED <<sim_time, sim_day, speed, loop, graph, active_run, past_results, runs, history>>
    BY <1>7 DEF Export, Unpaused, Engine, Time
  <2>2. call[r].saved \in Kept
    BY <2>1 DEF Types, CallsOK
  <2>3. snapshot' \in File
    BY <2>1, <2>2 DEF Types, Kept, File
  <2>4. call' \in Calls /\ CallsOK'
    BY <2>1, ReturnCall, CallMoves
  <2> QED BY <2>1, <2>3, <2>4 DEF Types
<1>8. CASE RequestFails(r)
  <2>1. /\ Return(r) /\ Note({"spoilt"}) /\ paused' \in {paused, FALSE} /\ graph' \in {graph, Empty}
        /\ UNCHANGED <<sim_time, sim_day, speed, loop, snapshot, active_run, past_results, runs>>
    BY <1>8 DEF RequestFails, Unpaused, Engine, Time
  <2>0. Empty \in Graph
    BY DEF Empty, Graph
  <2>2. graph' \in Graph
    BY <2>0, <2>1 DEF Types
  <2>3. call' \in Calls /\ CallsOK'
    BY <2>1, ReturnCall, CallMoves
  <2>4. history' \in History
    BY <2>1, Noted
  <2> QED BY <2>1, <2>2, <2>3, <2>4 DEF Types
<1>9. CASE SeedDay(r)
  BY <1>9, SeedDayTypes DEF Task
<1> QED BY <1>1, <1>2, <1>3, <1>4, <1>5, <1>6, <1>7, <1>8, <1>9 DEF Request

LEMMA TypesNext ==
  ASSUME Types, ClockNext
  PROVE  Types'
<1>1. CASE BoundaryFails
  <2>1. /\ Goto(ClockLoop, "on_tick") /\ Note({"spoilt"})
        /\ UNCHANGED <<sim_time, sim_day, paused, speed, graph, snapshot, active_run, past_results, runs>>
    BY <1>1 DEF BoundaryFails, Engine, Time
  <2>2. loop' \in Loops /\ call' = call /\ history' \in History
    BY <2>1, GotoLoop, Noted DEF LoopPcs
  <2> QED BY <2>1, <2>2, CallsKept DEF Types
<1>2. CASE Restart
  <2>1. /\ sim_time' = SIM_START_TIME /\ sim_day' = 1 /\ paused' = FALSE /\ speed' \in ClockSteps
        /\ loop' = Started /\ call' = [r \in ClockRest |-> Idle]
        /\ active_run' = Nothing /\ past_results' = {} /\ Note(Collides)
        /\ UNCHANGED <<graph, snapshot, runs>>
    BY <1>2 DEF Restart
  <2>2. loop' \in Loops /\ history' \in History /\ sim_time' \in Nat
    BY <2>1, LoopRecords, Noted, Minutes
  <2>3. Idle \in Place
    BY DEF Idle, Place, CallPcs, Ops, Saved
  <2>4. call' \in Calls /\ CallsOK'
    BY <2>1, <2>3 DEF Idle, Calls, CallsOK, FromFile
  <2> QED BY <2>1, <2>2, <2>4 DEF Types
<1>3. CASE sim_pause \/ sim_resume \/ sim_speed
  <2>1. /\ paused' \in BOOLEAN /\ speed' \in ClockSteps
        /\ UNCHANGED <<sim_time, sim_day, loop, call, graph, snapshot, active_run, past_results, runs, history>>
    BY <1>3 DEF sim_pause, sim_resume, sim_speed, Engine, Time, Types
  <2> QED BY <2>1, CallsKept DEF Types
<1>4. CASE stop_run
  <2>1. /\ active_run # Nothing /\ past_results' = Archive(active_run, "stopped") /\ active_run' = Nothing
        /\ \E facts : Note(facts)
        /\ UNCHANGED <<sim_time, sim_day, paused, speed, loop, call, graph, snapshot, runs>>
    BY <1>4 DEF stop_run, Time
  <2>2. past_results' \in SUBSET Result
    BY <2>1, ArchiveTypes
  <2>3. history' \in History
    BY <2>1, Noted
  <2> QED BY <2>1, <2>2, <2>3, CallsKept DEF Types
<1>5. CASE Loop
  BY <1>5, LoopTypes
<1>6. CASE SeedDay(ClockLoop)
  BY <1>6, SeedDayTypes DEF Task
<1> QED BY <1>1, <1>2, <1>3, <1>4, <1>5, <1>6, RequestTypes DEF ClockNext
-----------------------------------------------------------------------------
(* What a step may do to the run, and where it leaves the loop.            *)
RunStays   == UNCHANGED Engine /\ (loop' = loop \/ ~AtRun')
RunStarts  == (\E at \in Nat : start_run(at)) /\ loop' = loop

LEMMA OvertakenStays ==
  ASSUME Types, ClockNext
  PROVE  history.overtaken => history'.overtaken
<1>1. UNCHANGED history \/ \E facts : Note(facts)
  BY DEF ClockNext, Loop, Startup, NextTick, Minute, OnTick, Collected, CompleteRun, EndMinute,
         SeedDay, SkipDay, CheckDay, SeedFlights, SeedPassengers, BoundaryFails, Restart,
         sim_pause, sim_resume, sim_speed, stop_run, Request, BeginReset, BeginRestore, BeginScenario,
         BeginReplay, BeginSnapshot, Begin, Wipe, SeedStructure, Load, Export, RequestFails
<1> QED BY <1>1, Noted

LEMMA SeedDayRun ==
  ASSUME Types, NEW t \in Task, SeedDay(t)
  PROVE  RunStays \/ RunStarts
<1>1. CASE DayIsSeeded(t)
  <2>1. CASE t = ClockLoop
    <3>1. UNCHANGED Engine /\ loop' = IF loop.step = 0 THEN Asleep ELSE [loop EXCEPT !.pc = "on_tick"]
      BY <1>1, <2>1 DEF DayIsSeeded
    <3>2. [loop EXCEPT !.pc = "on_tick"].pc = "on_tick"
      BY DEF Types, Loops
    <3> QED BY <3>1, <3>2, LoopRecords DEF RunStays, AtRun
  <2>2. CASE t # ClockLoop
    BY <1>1, <2>2 DEF DayIsSeeded, RunStays, RunStarts, Types
  <2> QED BY <2>1, <2>2
<1>2. ASSUME NEW pc \in {"flights", "passengers"}, Goto(t, pc), UNCHANGED Engine
      PROVE  RunStays
  BY <1>2 DEF Goto, Types, Loops, RunStays, AtRun
<1> QED BY <1>1, <1>2 DEF SeedDay, SkipDay, CheckDay, SeedFlights, SeedPassengers

LEMMA RequestRun ==
  ASSUME Types, NEW r \in ClockRest, Request(r)
  PROVE  RunStays \/ RunStarts
<1>1. r # ClockLoop
  BY ClockAssumption
<1>2. CASE BeginReset(r) \/ BeginRestore(r) \/ BeginScenario(r) \/ BeginReplay(r) \/ BeginSnapshot(r)
  BY <1>2 DEF BeginReset, BeginRestore, BeginScenario, BeginReplay, BeginSnapshot, Begin, RunStays
<1>3. CASE Wipe(r) \/ Export(r) \/ RequestFails(r)
  BY <1>3 DEF Wipe, Export, RequestFails, RunStays
<1>4. CASE SeedStructure(r)
  BY <1>1, <1>4 DEF SeedStructure, Goto, RunStays
<1>5. CASE Load(r)
  <2>1. call[r].saved.time \in Nat
    BY <1>5 DEF Load, Types, CallsOK, File
  <2> QED BY <1>5, <2>1 DEF Load, RunStays, RunStarts
<1>6. CASE SeedDay(r)
  BY <1>6, SeedDayRun DEF Task
<1> QED BY <1>2, <1>3, <1>4, <1>5, <1>6 DEF Request

LEMMA RunSteps ==
  ASSUME Types, ClockNext
  PROVE  RunStays \/ RunStarts \/ OnTick \/ Collected \/ CompleteRun \/ stop_run \/ Restart
<1>1. CASE Startup \/ NextTick \/ Minute \/ EndMinute \/ BoundaryFails
  <2>1. loop'.pc \in {"check", "minute", "on_tick", "sleep"} /\ UNCHANGED Engine
    <3>1. loop \in Loops
      BY DEF Types
    <3>2. CASE Startup \/ BoundaryFails
      BY <3>1, <3>2 DEF Startup, BoundaryFails, Goto, Loops
    <3>3. CASE NextTick
      BY <3>3 DEF NextTick, Asleep
    <3>4. CASE Minute
      BY <3>1, <3>4 DEF Minute, Loops
    <3>5. CASE EndMinute
      BY <3>1, <3>5, LoopRecords DEF EndMinute, Loops
    <3> QED BY <1>1, <3>2, <3>3, <3>4, <3>5
  <2> QED BY <2>1 DEF RunStays, AtRun
<1>2. CASE sim_pause \/ sim_resume \/ sim_speed
  BY <1>2 DEF sim_pause, sim_resume, sim_speed, RunStays
<1>3. CASE SeedDay(ClockLoop)
  BY <1>3, SeedDayRun DEF Task
<1>4. CASE \E r \in ClockRest : Request(r)
  BY <1>4, RequestRun
<1> QED BY <1>1, <1>2, <1>3, <1>4 DEF ClockNext, Loop

(* A run that is archived is the active one, whose number is not used yet. *)
LEMMA ArchiveEndsOnce ==
  ASSUME RunInv, active_run # Nothing, NEW s \in {"completed", "stopped"},
         past_results' = Archive(active_run, s), active_run' = Nothing, runs' = runs,
         history.overtaken => history'.overtaken,
         s = "completed" /\ ~history'.overtaken => active_run.fired = Offsets
  PROVE  RunNumbers' /\ RunsEndOnce'
<1> DEFINE ended == [id |-> active_run.id, status |-> s, fired |-> active_run.fired]
<1>1. past_results' = past_results \cup {ended}
  BY DEF Archive
<1>2. ended.id = active_run.id /\ ended.status = s /\ ended.fired = active_run.fired
  OBVIOUS
<1> HIDE DEF ended
<1> QED BY <1>1, <1>2 DEF RunInv, RunNumbers, RunsEndOnce

LEMMA RunNext ==
  ASSUME RunInv, ClockNext
  PROVE  RunInv'
<1>1. Types /\ Types' /\ (history.overtaken => history'.overtaken)
  BY TypesNext, OvertakenStays DEF RunInv
<1>2. CASE RunStays
  BY <1>1, <1>2 DEF RunStays, RunInv, RunInHand, RunNumbers, RunsEndOnce, AtRun, Engine
<1>3. CASE RunStarts
  <2>1. CASE active_run # Nothing
    BY <1>1, <1>3, <2>1 DEF RunStarts, start_run, RunInv, RunInHand, RunNumbers, RunsEndOnce, AtRun
  <2>2. CASE active_run = Nothing
    <3>1. /\ runs' = runs + 1 /\ active_run'.id = runs + 1 /\ past_results' = past_results /\ loop' = loop
      BY <1>3, <2>2 DEF RunStarts, start_run
    <3>2. \A r \in past_results : r.id \in Nat /\ r.id <= runs
      BY <1>1 DEF RunInv, RunNumbers, Types, Result
    <3>3. RunNumbers' /\ RunsEndOnce'
      BY <1>1, <3>1, <3>2 DEF RunInv, RunNumbers, RunsEndOnce, Types
    <3>4. RunInHand'
      BY <1>1, <2>2, <3>1 DEF RunInv, RunInHand, AtRun
    <3> QED BY <1>1, <3>3, <3>4 DEF RunInv
  <2> QED BY <2>1, <2>2
<1>4. CASE OnTick
  <2>1. CASE active_run = Nothing
    BY <1>1, <1>4, <2>1 DEF OnTick, Goto, Types, Loops, RunInv, RunInHand, RunNumbers, RunsEndOnce, AtRun, Engine
  <2>2. CASE active_run # Nothing
    <3> DEFINE offset == sim_time - active_run.start
    <3>1. /\ active_run' = [active_run EXCEPT !.fired = @ \cup Due(offset)]
          /\ loop' = [loop EXCEPT !.offset = offset,
                        !.pc = IF offset % SNAPSHOT_INTERVAL = 0 THEN "metrics" ELSE WhenDue(offset)]
          /\ UNCHANGED <<past_results, runs, history>>
      BY <1>4, <2>2 DEF OnTick
    <3>2. active_run \in Run
      BY <1>1, <2>2 DEF Types
    <3>3. active_run'.id = active_run.id /\ active_run'.fired = active_run.fired \cup Due(offset)
      BY <3>1, <3>2 DEF Run
    <3>4. active_run' # Nothing
      <4>1. active_run' \in Run
        BY <3>1, <3>2 DEF Run, Due
      <4> QED BY <4>1, ClockAssumption DEF Run
    <3>5. loop'.offset = offset /\ (loop'.pc = "final" => offset >= RunMinutes)
      BY <1>1, <3>1 DEF Types, Loops, WhenDue
    <3> HIDE DEF offset
    <3>6. RunInHand'
      BY <3>3, <3>4, <3>5 DEF RunInHand, AtRun, Due
    <3>7. RunNumbers' /\ RunsEndOnce'
      BY <2>2, <3>1, <3>3 DEF RunInv, RunNumbers, RunsEndOnce
    <3> QED BY <1>1, <3>6, <3>7 DEF RunInv
  <2> QED BY <2>1, <2>2
<1>5. CASE Collected
  <2>1. /\ loop.pc = "metrics" /\ UNCHANGED <<active_run, past_results, runs, history>>
        /\ loop' = [loop EXCEPT !.pc = IF active_run = Nothing THEN "rollover" ELSE WhenDue(loop.offset)]
    BY <1>5 DEF Collected, Goto, Engine
  <2>2. loop'.offset = loop.offset /\ (loop'.pc = "final" => loop.offset >= RunMinutes)
    BY <1>1, <2>1 DEF Types, Loops, WhenDue
  <2>3. RunInHand'
    BY <2>1, <2>2 DEF RunInv, RunInHand, AtRun
  <2>4. RunNumbers' /\ RunsEndOnce'
    BY <2>1 DEF RunInv, RunNumbers, RunsEndOnce
  <2> QED BY <1>1, <2>3, <2>4 DEF RunInv
<1>6. CASE CompleteRun
  <2>1. loop.pc = "final" /\ loop'.pc = "rollover" /\ UNCHANGED <<runs, history>>
    BY <1>1, <1>6 DEF CompleteRun, Goto, Types, Loops, Engine
  <2>2. RunInHand'
    BY <2>1 DEF RunInHand, AtRun
  <2>3. CASE active_run = Nothing
    BY <1>1, <1>6, <2>1, <2>2, <2>3 DEF CompleteRun, Engine, RunInv, RunNumbers, RunsEndOnce
  <2>4. CASE active_run # Nothing
    <3>1. past_results' = Archive(active_run, "completed") /\ active_run' = Nothing
      BY <1>6, <2>4 DEF CompleteRun
    <3>2. ~history.overtaken => active_run.fired = Offsets
      <4>1. SUFFICES ASSUME ~history.overtaken PROVE active_run.fired = Offsets
        OBVIOUS
      <4>2. Due(loop.offset) \subseteq active_run.fired /\ loop.offset >= RunMinutes
        BY <2>1, <4>1 DEF RunInv, RunInHand, AtRun
      <4>0. Offsets \subseteq 0..RunMinutes /\ RunMinutes \in Nat
        BY ClockAssumption
      <4>3. loop.offset \in Int /\ RunMinutes \in Nat /\ \A e \in Offsets : e \in Nat /\ e <= RunMinutes
        BY <1>1, <4>0 DEF Types, Loops
      <4>4. Due(loop.offset) = Offsets
        BY <4>2, <4>3 DEF Due
      <4>5. active_run.fired \in SUBSET Offsets
        BY <1>1, <2>4 DEF Types, Run
      <4> QED BY <4>2, <4>4, <4>5
    <3>3. RunNumbers' /\ RunsEndOnce'
      BY <2>1, <2>4, <3>1, <3>2, ArchiveEndsOnce
    <3> QED BY <1>1, <2>2, <3>3 DEF RunInv
  <2> QED BY <2>3, <2>4
<1>7. CASE stop_run
  <2>1. /\ active_run # Nothing /\ past_results' = Archive(active_run, "stopped") /\ active_run' = Nothing
        /\ UNCHANGED <<loop, runs>> /\ Note(IF loop.pc \in {"metrics", "final"} THEN {"overtaken"} ELSE {})
    BY <1>7 DEF stop_run
  <2>2. RunNumbers' /\ RunsEndOnce'
    BY <1>1, <2>1, ArchiveEndsOnce
  <2>3. AtRun => history'.overtaken
    BY <1>1, <2>1, Noted DEF AtRun
  <2>4. RunInHand'
    BY <2>1, <2>3 DEF RunInHand, AtRun
  <2> QED BY <1>1, <2>2, <2>4 DEF RunInv
<1>8. CASE Restart
  <2>1. loop' = Started /\ active_run' = Nothing /\ past_results' = {}
    BY <1>8 DEF Restart
  <2> QED BY <1>1, <2>1, LoopRecords DEF RunInv, RunInHand, RunNumbers, RunsEndOnce, AtRun
<1> QED BY <1>1, <1>2, <1>3, <1>4, <1>5, <1>6, <1>7, <1>8, RunSteps

LEMMA RunInvAlways == ClockSpec => []RunInv
<1>1. ClockInit => RunInv
  <2> SUFFICES ASSUME ClockInit PROVE RunInv
    OBVIOUS
  <2>1. active_run = Nothing /\ past_results = {} /\ loop = Started
    BY DEF ClockInit
  <2> QED BY <2>1, TypesInit, LoopRecords DEF RunInv, RunInHand, RunNumbers, RunsEndOnce, AtRun
<1>2. RunInv /\ UNCHANGED clockVars => RunInv'
  BY DEF clockVars, RunInv, Types, CallsOK, FromFile, RunInHand, RunNumbers, RunsEndOnce, AtRun
<1>3. RunInv /\ [ClockNext]_clockVars => RunInv'
  BY <1>2, RunNext
<1> QED BY <1>1, <1>3, PTL DEF ClockSpec

(* A run ends once, and a completed one has injected all its events, for   *)
(* any offsets of its events, any speed of the clock and any requests      *)
(* between two awaits of the loop, unless it was stopped while the loop    *)
(* collected its metrics.                                                  *)
THEOREM RunsEndOnceProved == ClockSpec => []RunsEndOnce
<1>1. RunInv => RunsEndOnce
  BY DEF RunInv
<1> QED BY <1>1, RunInvAlways, PTL
-----------------------------------------------------------------------------
(* The minute after m: either in the same day, or the first of the next.   *)
LEMMA DivisionOf ==
  ASSUME NEW D \in Nat, D > 0, NEW m \in Nat
  PROVE  m \div D \in Nat /\ m % D \in 0..(D - 1) /\ m = (m \div D) * D + (m % D)
OBVIOUS

LEMMA QuotientIs ==
  ASSUME NEW D \in Nat, D > 0, NEW m \in Nat, NEW k \in Nat, NEW r \in 0..(D - 1), m = k * D + r
  PROVE  m \div D = k /\ m % D = r
OBVIOUS

LEMMA NextMinute ==
  ASSUME NEW m \in Nat
  PROVE  /\ Today(m) \in Nat /\ m % DayMinutes \in Nat /\ m % DayMinutes < DayMinutes
         /\ \/ /\ m % DayMinutes = DayMinutes - 1
               /\ (m + 1) % DayMinutes = 0 /\ Today(m + 1) = Today(m) + 1
            \/ /\ m % DayMinutes # DayMinutes - 1
               /\ (m + 1) % DayMinutes = (m % DayMinutes) + 1 /\ Today(m + 1) = Today(m)
<1> DEFINE D == DayMinutes
           q == m \div D
           r == m % D
<1>0. D \in Nat /\ D > 0
  BY Minutes
<1>1. q \in Nat /\ r \in 0..(D - 1) /\ m = q * D + r
  BY <1>0, DivisionOf
<1>2. q = m \div DayMinutes /\ r = m % DayMinutes /\ D = DayMinutes
  OBVIOUS
<1> HIDE DEF D, q, r
<1>3. CASE r = D - 1
  <2>1. m + 1 = (q + 1) * D + 0
    BY <1>0, <1>1, <1>3
  <2>2. (m + 1) \div D = q + 1 /\ (m + 1) % D = 0
    BY <1>0, <1>1, <2>1, QuotientIs
  <2> QED BY <1>0, <1>1, <1>2, <1>3, <2>2 DEF Today
<1>4. CASE r # D - 1
  <2>1. m + 1 = q * D + (r + 1)
    BY <1>0, <1>1, <1>4
  <2>2. (m + 1) \div D = q /\ (m + 1) % D = r + 1
    BY <1>0, <1>1, <1>4, <2>1, QuotientIs
  <2> QED BY <1>0, <1>1, <1>2, <1>4, <2>2 DEF Today
<1> QED BY <1>3, <1>4

LEMMA FirstDay ==
  /\ \A m \in 0..(DayMinutes - 1) : Today(m) = 1 /\ m % DayMinutes = m
  /\ \A m \in 0..(SeedingMinute - 1) : Today(m) = 1 /\ ~(m % DayMinutes >= SeedingMinute)
  /\ SIM_START_TIME \in 0..(SeedingMinute - 1) /\ ~Midnight(SIM_START_TIME)
<1>1. ASSUME NEW m \in 0..(DayMinutes - 1) PROVE m \div DayMinutes = 0 /\ m % DayMinutes = m
  <2>1. m \in Nat /\ m < DayMinutes /\ DayMinutes \in Nat
    BY Minutes
  <2> QED BY <2>1, QuotientIs, m = 0 * DayMinutes + m
<1>2. /\ SIM_START_TIME \in 0..(SeedingMinute - 1) /\ SIM_START_TIME # 0
      /\ \A m \in 0..(SeedingMinute - 1) : m \in 0..(DayMinutes - 1) /\ ~(m >= SeedingMinute)
  BY Minutes
<1> QED BY <1>1, <1>2 DEF Today, Midnight

LEMMA SeedingIsLate == ASSUME NEW m, m % DayMinutes = SeedingMinute PROVE m % DayMinutes # 0
<1>1. SeedingMinute # 0
  BY Minutes
<1> QED BY <1>1

(* How a clock that covers a minute covers the next one.                   *)
LEMMA CoversNext ==
  ASSUME NEW m \in Nat, NEW g, Covers(g, m), (m + 1) % DayMinutes # SeedingMinute
  PROVE  Covers(g, m + 1)
<1>1. CASE m % DayMinutes = DayMinutes - 1
  BY <1>1, Minutes, NextMinute DEF Covers
<1>2. CASE m % DayMinutes # DayMinutes - 1
  BY <1>2, Minutes, NextMinute DEF Covers
<1> QED BY <1>1, <1>2

LEMMA FactsStay ==
  ASSUME Types, ClockNext
  PROVE  /\ history.spoilt => history'.spoilt
         /\ history.skewed => history'.skewed
<1>1. UNCHANGED history \/ \E facts : Note(facts)
  BY DEF ClockNext, Loop, Startup, NextTick, Minute, OnTick, Collected, CompleteRun, EndMinute,
         SeedDay, SkipDay, CheckDay, SeedFlights, SeedPassengers, BoundaryFails, Restart,
         sim_pause, sim_resume, sim_speed, stop_run, Request, BeginReset, BeginRestore, BeginScenario,
         BeginReplay, BeginSnapshot, Begin, Wipe, SeedStructure, Load, Export, RequestFails
<1> QED BY <1>1, Noted

LEMMA WhoWorks ==
  /\ AtWork \subseteq Task /\ AtWork' \subseteq Task
  /\ \A r \in ClockRest : /\ r \in AtWork <=> call[r].pc # "idle"
                          /\ r \in AtWork' <=> call'[r].pc # "idle"
  /\ ClockLoop \in AtWork <=> Seeds(loop.pc)
  /\ ClockLoop \in AtWork' <=> Seeds(loop'.pc)
  /\ ClockLoop \notin ClockRest
BY ClockAssumption DEF AtWork, Task
(* A request never runs while the service starts.                          *)
LEMMA RequestsWait == Awaits => ~Starting
BY DEF Awaits, Starting, Seeds

LEMMA SeedingLoop ==
  ASSUME Types, NEW t \in Task, SeedDay(t)
  PROVE  t \in AtWork /\ (t = ClockLoop => Seeds(loop.pc))
<1>1. Reached(t, "check") \/ Reached(t, "flights") \/ Reached(t, "passengers")
  BY DEF SeedDay, SkipDay, CheckDay, SeedFlights, SeedPassengers
<1> QED BY <1>1, WhoWorks DEF Reached, Seeds, Task

LEMMA StartsNext ==
  ASSUME Types, StepOK, StartsAlone, ClockNext
  PROVE  StepOK' /\ StartsAlone'
<1>0. loop \in Loops
  BY DEF Types
<1>1. CASE Startup
  <2>1. /\ loop.pc = "startup" /\ loop' = [loop EXCEPT !.pc = "check"] /\ UNCHANGED <<call, sim_time, sim_day>>
    BY <1>1 DEF Startup, Goto, Time
  <2>2. loop'.pc = "check" /\ loop'.step = loop.step /\ loop'.day = loop.day
    BY <1>0, <2>1 DEF Loops
  <2> QED BY <2>1, <2>2 DEF StepOK, StartsAlone, Starting, Seeds
<1>2. CASE NextTick
  <2>1. loop'.pc = "minute" /\ loop'.step = speed
    BY <1>2 DEF NextTick, Asleep
  <2>2. speed > 0
    <3>1. speed \in ClockSteps /\ ClockSteps \subseteq Nat \ {0}
      BY ClockAssumption DEF Types
    <3> QED BY <3>1
  <2> QED BY <2>1, <2>2 DEF StepOK, StartsAlone, Starting, Seeds
<1>3. CASE Minute
  <2>1. /\ loop'.step = loop.step /\ loop'.pc \in {"check", "on_tick"} /\ loop.step > 0
    BY <1>0, <1>3 DEF Minute, Loops, StepOK
  <2> QED BY <2>1 DEF StepOK, StartsAlone, Starting, Seeds
<1>4. CASE OnTick \/ Collected \/ CompleteRun
  <2>1. /\ loop'.step = loop.step /\ loop'.pc \in {"metrics", "final", "rollover"} /\ loop.step > 0
    <3>1. CASE OnTick
      BY <1>0, <3>1 DEF OnTick, Goto, WhenDue, Loops, StepOK
    <3>2. CASE Collected
      BY <1>0, <3>2 DEF Collected, Goto, WhenDue, Loops, StepOK
    <3>3. CASE CompleteRun
      BY <1>0, <3>3 DEF CompleteRun, Goto, Loops, StepOK
    <3> QED BY <1>4, <3>1, <3>2, <3>3
  <2> QED BY <2>1 DEF StepOK, StartsAlone, Starting, Seeds
<1>5. CASE EndMinute
  <2>1. \/ loop'.step = loop.step /\ loop'.pc = "minute" /\ loop.step > 0
        \/ loop' = Asleep
    BY <1>0, <1>5 DEF EndMinute, Loops, StepOK
  <2> QED BY <2>1, LoopRecords DEF StepOK, StartsAlone, Starting, Seeds
<1>6. CASE BoundaryFails
  <2>1. loop'.step = loop.step /\ loop'.pc = "on_tick" /\ loop.step > 0
    BY <1>0, <1>6 DEF BoundaryFails, Goto, Loops
  <2> QED BY <2>1 DEF StepOK, StartsAlone, Starting, Seeds
<1>7. CASE Restart
  <2>1. /\ loop' = Started /\ call' = [r \in ClockRest |-> Idle] /\ sim_time' = SIM_START_TIME /\ sim_day' = 1
    BY <1>7 DEF Restart
  <2> QED BY <2>1, LoopRecords DEF StepOK, StartsAlone, Starting, Seeds, Idle
<1>8. CASE SeedDay(ClockLoop)
  <2>0. Seeds(loop.pc)
    BY <1>8, SeedingLoop DEF Task
  <2>1. UNCHANGED <<call, sim_time, sim_day>>
    BY <1>8 DEF SeedDay, SkipDay, CheckDay, SeedFlights, SeedPassengers, DayIsSeeded, Goto, Time
  <2>2. \/ loop' = Asleep
        \/ loop'.pc = "on_tick" /\ loop.step > 0 /\ loop'.step = loop.step
        \/ Seeds(loop'.pc) /\ loop'.step = loop.step /\ loop'.day = loop.day
    <3>1. CASE DayIsSeeded(ClockLoop)
      <4>1. loop' = IF loop.step = 0 THEN Asleep ELSE [loop EXCEPT !.pc = "on_tick"]
        BY <3>1 DEF DayIsSeeded
      <4> QED BY <1>0, <4>1 DEF Loops
    <3>2. ASSUME NEW pc \in {"flights", "passengers"}, Goto(ClockLoop, pc)
          PROVE  Seeds(loop'.pc) /\ loop'.step = loop.step /\ loop'.day = loop.day
      BY <3>2, <1>0 DEF Goto, Loops, Seeds
    <3> QED BY <1>8, <3>1, <3>2 DEF SeedDay, SkipDay, CheckDay, SeedFlights, SeedPassengers
  <2> QED BY <2>0, <2>1, <2>2, LoopRecords DEF StepOK, StartsAlone, Starting, Seeds
<1>9. CASE \E r \in ClockRest : Request(r)
  <2>1. PICK r \in ClockRest : Request(r)
    BY <1>9
  <2>2. loop' = loop
    BY <2>1, ClockAssumption
    DEF Request, SeedDay, SkipDay, CheckDay, SeedFlights, SeedPassengers, DayIsSeeded, Goto,
        BeginReset, BeginRestore, BeginScenario, BeginReplay, BeginSnapshot, Begin, Wipe,
        SeedStructure, Load, Export, RequestFails
  <2>3. ~Starting
    BY <2>1, RequestsWait DEF Request
  <2> QED BY <2>2, <2>3 DEF StepOK, StartsAlone, Starting, Seeds
<1>10. CASE sim_pause \/ sim_resume \/ sim_speed \/ stop_run
  <2>1. loop' = loop /\ Awaits
    BY <1>10 DEF sim_pause, sim_resume, sim_speed, stop_run
  <2> QED BY <2>1, RequestsWait DEF StepOK, StartsAlone, Starting, Seeds
<1> QED BY <1>1, <1>2, <1>3, <1>4, <1>5, <1>6, <1>7, <1>8, <1>9, <1>10 DEF ClockNext, Loop
(* Seeding: a task goes on to the next query, or is back from seed_day.    *)
FilesKept == \A r \in ClockRest : FromFile(r)' => FromFile(r) /\ call'[r].saved = call[r].saved

LEMMA SeedGoesOn ==
  ASSUME Types, OneAtWork, NEW t \in AtWork, NEW pc \in {"structure", "check", "flights", "passengers", "load"},
         Goto(t, pc), t = ClockLoop => pc # "structure" /\ pc # "load"
  PROVE  /\ AtWork' = {t} /\ FilesKept
         /\ \A q : Reached(t, q)' <=> q = pc
         /\ SeedingOf(t)' = SeedingOf(t)
         /\ t = ClockLoop => UNCHANGED call /\ loop'.step = loop.step /\ loop'.day = loop.day
         /\ t # ClockLoop => /\ loop' = loop /\ ~Seeds(loop.pc)
                             /\ call'[t].pc = pc /\ call'[t].op = call[t].op /\ call'[t].saved = call[t].saved
<1>0. t \in Task /\ (\A q \in ClockRest \ {t} : call[q].pc = "idle") /\ (t # ClockLoop => ~Seeds(loop.pc))
  BY WhoWorks DEF OneAtWork
<1>1. CASE t = ClockLoop
  <2>1. call' = call /\ loop'.pc = pc /\ loop'.step = loop.step /\ loop'.day = loop.day
    BY <1>1, GotoLoop DEF LoopPcs
  <2>2. Seeds(loop'.pc)
    BY <1>1, <2>1 DEF Seeds
  <2>3. \A q \in ClockRest : q \notin AtWork'
    BY <1>0, <1>1, <2>1, WhoWorks
  <2>4. AtWork' = {t}
    <3>1. t \in AtWork'
      BY <1>1, <2>2, WhoWorks
    <3>2. \A q \in AtWork' : q = t
      BY <1>1, <2>3, WhoWorks DEF Task
    <3> QED BY <3>1, <3>2
  <2> QED BY <1>1, <2>1, <2>4 DEF FilesKept, FromFile, Reached, SeedingOf
<1>2. CASE t # ClockLoop
  <2>1. t \in ClockRest
    BY <1>0, <1>2 DEF Task
  <2>2. /\ loop' = loop /\ call'[t].pc = pc /\ call'[t].op = call[t].op /\ call'[t].saved = call[t].saved
        /\ \A q \in ClockRest \ {t} : call'[q] = call[q]
    BY <2>1, GotoCall DEF CallPcs
  <2>3. AtWork' = {t}
    BY <1>0, <1>2, <2>1, <2>2, WhoWorks DEF Task
  <2> QED BY <1>0, <1>2, <2>1, <2>2, <2>3 DEF FilesKept, FromFile, Reached, SeedingOf
<1> QED BY <1>1, <1>2

LEMMA RequestEnds ==
  ASSUME Types, OneAtWork, NEW r \in ClockRest, r \in AtWork, Return(r), loop' = loop
  PROVE  AtWork' = {} /\ FilesKept /\ ~Seeds(loop.pc)
<1>1. (\A q \in ClockRest \ {r} : call[q].pc = "idle") /\ ~Seeds(loop.pc) /\ r # ClockLoop
  BY WhoWorks DEF OneAtWork
<1>2. /\ call'[r].pc = "idle" /\ call'[r].op = "none"
      /\ \A q \in ClockRest \ {r} : call'[q] = call[q]
  BY ReturnCall
<1>3. AtWork' = {}
  BY <1>1, <1>2, WhoWorks DEF Task
<1> QED BY <1>1, <1>2, <1>3 DEF FilesKept, FromFile

LEMMA SeedEnds ==
  ASSUME Types, OneAtWork, NEW t \in AtWork, DayIsSeeded(t)
  PROVE  /\ AtWork' = {} /\ FilesKept
         /\ t = ClockLoop => loop'.pc \in {"sleep", "on_tick"}
         /\ t # ClockLoop => loop' = loop /\ ~Seeds(loop.pc)
<1>1. CASE t = ClockLoop
  <2>0. \A q \in ClockRest : q # t /\ (call[q].pc # "idle" => q \in AtWork)
    BY <1>1, WhoWorks
  <2>1. call' = call /\ loop' = IF loop.step = 0 THEN Asleep ELSE [loop EXCEPT !.pc = "on_tick"]
    BY <1>1 DEF DayIsSeeded
  <2>2. loop'.pc \in {"sleep", "on_tick"}
    BY <2>1, LoopRecords DEF Types, Loops
  <2>3. AtWork' = {}
    <3>1. \A q \in ClockRest : q \notin AtWork'
      BY <2>0, <2>1, WhoWorks DEF OneAtWork
    <3> QED BY <2>2, <3>1, WhoWorks DEF Task, Seeds
  <2> QED BY <1>1, <2>1, <2>2, <2>3 DEF FilesKept, FromFile
<1>2. CASE t # ClockLoop
  <2>1. t \in ClockRest /\ Return(t) /\ loop' = loop
    BY <1>2, WhoWorks DEF DayIsSeeded, Task
  <2> QED BY <1>2, <2>1, RequestEnds
<1> QED BY <1>1, <1>2

(* Files stay tidy where they are only taken over. *)
LEMMA FilesTidy ==
  ASSUME GraphOK, FilesKept, UNCHANGED snapshot
  PROVE  /\ \A r \in ClockRest : FromFile(r)' => FileTidy(call[r].saved)'
         /\ snapshot' # Nothing => FileTidy(snapshot)'
BY DEF GraphOK, FilesKept, FileTidy, Tidy

LEMMA GraphNobody ==
  ASSUME AtWork' = {}, Tidy(graph'), graph'.airport \/ Starting',
         \A r \in ClockRest : FromFile(r)' => FileTidy(call[r].saved)',
         snapshot' # Nothing => FileTidy(snapshot)'
  PROVE  OneAtWork' /\ GraphOK'
BY DEF OneAtWork, GraphOK, Tidy

LEMMA GraphOne ==
  ASSUME NEW t \in Task, AtWork' = {t}, WorkTidy(t)',
         \A r \in ClockRest : FromFile(r)' => FileTidy(call[r].saved)',
         snapshot' # Nothing => FileTidy(snapshot)'
  PROVE  OneAtWork' /\ GraphOK'
BY DEF OneAtWork, GraphOK

LEMMA SeedDayGraph ==
  ASSUME Types, OneAtWork, GraphOK, NEW t \in Task, SeedDay(t)
  PROVE  OneAtWork' /\ GraphOK'
<1>0. t \in AtWork /\ WorkTidy(t) /\ graph \in Graph
  BY SeedingLoop DEF GraphOK, Types
<1>1. CASE SkipDay(t)
  <2>1. Reached(t, "check") /\ DayIsSeeded(t) /\ UNCHANGED <<graph, snapshot>>
    BY <1>1 DEF SkipDay
  <2>2. graph.airport /\ Tidy(graph)
    BY <1>0, <2>1 DEF WorkTidy
  <2>3. AtWork' = {} /\ FilesKept
    BY <1>0, <2>1, SeedEnds
  <2> QED BY <2>1, <2>2, <2>3, FilesTidy, GraphNobody
<1>2. CASE CheckDay(t)
  <2>1. Reached(t, "check") /\ ~DayAlreadySeeded(t) /\ Goto(t, "flights") /\ UNCHANGED <<graph, snapshot>>
    BY <1>2 DEF CheckDay
  <2>2. graph.airport /\ Tidy(graph) /\ ~Seeded(graph, SeedingOf(t).day)
    BY <1>0, <2>1 DEF WorkTidy, DayAlreadySeeded, Seeded
  <2>3. AtWork' = {t} /\ FilesKept /\ (\A q : Reached(t, q)' <=> q = "flights") /\ SeedingOf(t)' = SeedingOf(t)
    BY <1>0, <2>1, SeedGoesOn
  <2>4. WorkTidy(t)'
    BY <2>1, <2>2, <2>3 DEF WorkTidy, Tidy, Seeded
  <2> QED BY <2>1, <2>3, <2>4, FilesTidy, GraphOne
<1>3. CASE SeedFlights(t)
  <2>1. /\ Reached(t, "flights") /\ Goto(t, "passengers") /\ UNCHANGED snapshot
        /\ graph' = IF graph.airport THEN [graph EXCEPT !.flights = @ \cup {SeedingOf(t)}] ELSE graph
    BY <1>3 DEF SeedFlights
  <2>2. graph.airport /\ Tidy(graph) /\ ~Seeded(graph, SeedingOf(t).day)
    BY <1>0, <2>1 DEF WorkTidy
  <2>3. AtWork' = {t} /\ FilesKept /\ (\A q : Reached(t, q)' <=> q = "passengers") /\ SeedingOf(t)' = SeedingOf(t)
    BY <1>0, <2>1, SeedGoesOn
  <2>4. graph'.airport /\ graph'.flights = graph.flights \cup {SeedingOf(t)} /\ graph'.whole = graph.flights
    BY <1>0, <2>1, <2>2 DEF Graph, Tidy
  <2>5. \A s, u \in graph'.flights : s.day = u.day => s = u
    BY <2>2, <2>4 DEF Tidy, Seeded
  <2>6. WorkTidy(t)'
    BY <2>3, <2>4, <2>5 DEF WorkTidy
  <2> QED BY <2>1, <2>3, <2>6, FilesTidy, GraphOne
<1>4. CASE SeedPassengers(t)
  <2>1. /\ Reached(t, "passengers") /\ DayIsSeeded(t) /\ UNCHANGED snapshot
        /\ graph' = [graph EXCEPT !.whole = @ \cup ({SeedingOf(t)} \cap graph.flights)]
    BY <1>4 DEF SeedPassengers
  <2>2. /\ graph.airport /\ graph.flights = graph.whole \cup {SeedingOf(t)}
        /\ \A s, u \in graph.flights : s.day = u.day => s = u
    BY <1>0, <2>1 DEF WorkTidy
  <2>3. AtWork' = {} /\ FilesKept
    BY <1>0, <2>1, SeedEnds
  <2>4. graph'.airport /\ graph'.flights = graph.flights /\ graph'.whole = graph.flights
    BY <1>0, <2>1, <2>2 DEF Graph
  <2>5. Tidy(graph')
    BY <2>2, <2>4 DEF Tidy
  <2> QED BY <2>1, <2>3, <2>4, <2>5, FilesTidy, GraphNobody
<1> QED BY <1>1, <1>2, <1>3, <1>4 DEF SeedDay
(* Steps that leave the graph, the requests and a seeding loop alone.      *)
Fixed(pc) == pc = "startup" \/ Seeds(pc)
Quiet == UNCHANGED <<call, graph, snapshot>> /\ (loop' = loop \/ (~Fixed(loop.pc) /\ ~Fixed(loop'.pc)))

LEMMA QuietWork ==
  ASSUME Quiet
  PROVE  /\ AtWork' = AtWork /\ (Starting' <=> Starting)
         /\ \A t \in AtWork : \A q : q # "idle" => (Reached(t, q)' <=> Reached(t, q)) \/ (t = ClockLoop /\ ~Fixed(q))
         /\ \A t \in AtWork : SeedingOf(t)' = SeedingOf(t)
<1>1. CASE loop' = loop
  BY <1>1 DEF Quiet, AtWork, Starting, Reached, SeedingOf
<1>2. CASE ~Fixed(loop.pc) /\ ~Fixed(loop'.pc)
  <2>1. ~Seeds(loop.pc) /\ ~Seeds(loop'.pc) /\ loop.pc # "startup" /\ loop'.pc # "startup"
    BY <1>2 DEF Fixed
  <2>2. AtWork' = AtWork
    BY <2>1 DEF Quiet, AtWork
  <2>3. ClockLoop \notin AtWork
    BY <2>1, WhoWorks
  <2> QED BY <2>1, <2>2, <2>3 DEF Quiet, Starting, Reached, SeedingOf
<1> QED BY <1>1, <1>2 DEF Quiet

LEMMA QuietGraph ==
  ASSUME Quiet, OneAtWork, GraphOK
  PROVE  OneAtWork' /\ GraphOK'
<1>1. /\ AtWork' = AtWork /\ (Starting' <=> Starting) /\ UNCHANGED <<call, graph, snapshot>>
      /\ \A t \in AtWork : SeedingOf(t)' = SeedingOf(t)
  BY QuietWork DEF Quiet
<1>2. ASSUME NEW t \in AtWork PROVE WorkTidy(t)'
  <2>1. WorkTidy(t)
    BY DEF GraphOK
  <2>2. /\ Reached(t, "check")' <=> Reached(t, "check")
        /\ Reached(t, "flights")' <=> Reached(t, "flights")
        /\ Reached(t, "passengers")' <=> Reached(t, "passengers")
    BY QuietWork DEF Fixed, Seeds
  <2>3. t = ClockLoop => Seeds(loop.pc) /\ loop' = loop
    BY WhoWorks DEF Quiet, Fixed
  <2>4. /\ Reached(t, "structure")' <=> Reached(t, "structure")
        /\ Reached(t, "export")' <=> Reached(t, "export")
        /\ Reached(t, "load")' <=> Reached(t, "load")
    BY <1>1, <2>3 DEF Reached
  <2> QED BY <1>1, <2>1, <2>2, <2>4 DEF WorkTidy, Tidy, Seeded
<1> QED BY <1>1, <1>2 DEF OneAtWork, GraphOK, FileTidy, Tidy, FromFile

LEMMA QuietSteps ==
  ASSUME Types,
         \/ NextTick \/ OnTick \/ Collected \/ CompleteRun \/ EndMinute
         \/ sim_pause \/ sim_resume \/ sim_speed \/ stop_run
         \/ Minute /\ ~Seeds(loop'.pc)
  PROVE  Quiet
<1>0. loop \in Loops
  BY DEF Types
<1>1. CASE NextTick
  BY <1>1 DEF NextTick, Asleep, Quiet, Fixed, Seeds
<1>2. CASE OnTick
  BY <1>0, <1>2 DEF OnTick, Goto, WhenDue, Loops, Quiet, Fixed, Seeds
<1>3. CASE Collected
  BY <1>0, <1>3 DEF Collected, Goto, WhenDue, Loops, Quiet, Fixed, Seeds
<1>4. CASE CompleteRun
  BY <1>0, <1>4 DEF CompleteRun, Goto, Loops, Quiet, Fixed, Seeds
<1>5. CASE EndMinute
  BY <1>0, <1>5, LoopRecords DEF EndMinute, Loops, Quiet, Fixed, Seeds
<1>6. CASE sim_pause \/ sim_resume \/ sim_speed \/ stop_run
  BY <1>6 DEF sim_pause, sim_resume, sim_speed, stop_run, Quiet
<1>7. CASE Minute /\ ~Seeds(loop'.pc)
  <2>1. /\ loop.pc = "minute" /\ loop'.pc \in {"check", "on_tick"} /\ ~Seeds(loop'.pc)
        /\ UNCHANGED <<call, graph, snapshot>>
    BY <1>0, <1>7 DEF Minute, Loops
  <2> QED BY <2>1 DEF Quiet, Fixed, Seeds
<1> QED BY <1>1, <1>2, <1>3, <1>4, <1>5, <1>6, <1>7

(* A task begins, or the service starts again, without a note only where   *)
(* nobody was at work.                                                     *)
LEMMA NobodyAtWork == ASSUME Types, Note(Collides), ~history'.spoilt PROVE AtWork = {}
BY Noted DEF Collides

LEMMA SpoilingNotes ==
  ASSUME Types, BoundaryFails \/ (\E r \in ClockRest : RequestFails(r))
  PROVE  history'.spoilt
<1>1. Note({"spoilt"})
  BY DEF BoundaryFails, RequestFails
<1> QED BY <1>1, Noted

LEMMA MinuteSeeds ==
  ASSUME Types, Minute, Seeds(loop'.pc), ~history'.spoilt
  PROVE  /\ AtWork = {} /\ AtWork' = {ClockLoop}
         /\ loop.pc = "minute" /\ loop'.pc = "check" /\ loop'.step = loop.step
         /\ loop'.day = sim_day + 1 /\ (sim_time + 1) % DayMinutes = SeedingMinute
         /\ sim_time' = sim_time + 1 /\ UNCHANGED <<sim_day, call, graph, snapshot>>
<1>1. /\ loop.pc = "minute" /\ sim_time' = sim_time + 1 /\ UNCHANGED <<sim_day, call, graph, snapshot>>
      /\ loop' = IF AtSeeding(sim_time', loop.left - 1)
                 THEN [loop EXCEPT !.pc = "check", !.left = @ - 1, !.day = sim_day + 1]
                 ELSE [loop EXCEPT !.pc = "on_tick", !.left = @ - 1]
      /\ Note(Collides)
  BY DEF Minute
<1>2. /\ loop'.pc = "check" /\ loop'.step = loop.step /\ loop'.day = sim_day + 1
      /\ AtSeeding(sim_time', loop.left - 1)
  BY <1>1 DEF Types, Loops, Seeds
<1>3. AtWork = {}
  BY <1>1, NobodyAtWork
<1>4. AtWork' = {ClockLoop}
  <2>1. Seeds(loop'.pc) /\ call' = call
    BY <1>1
  <2> QED BY <1>3, <2>1 DEF AtWork
<1> QED BY <1>1, <1>2, <1>3, <1>4 DEF AtSeeding
(* A request that begins has the graph for itself.                         *)
LEMMA BeginAlone ==
  ASSUME Types, NEW r \in ClockRest, NEW op \in Ops, NEW pc \in {"wipe", "export"}, NEW saved \in Saved,
         Begin(r, op, pc, saved), ~history'.spoilt
  PROVE  /\ AtWork = {} /\ AtWork' = {r} /\ UNCHANGED <<sim_time, sim_day, loop, graph, snapshot>>
         /\ call'[r].pc = pc /\ call'[r].op = op /\ call'[r].saved = saved
         /\ \A q \in ClockRest \ {r} : call'[q] = call[q]
<1>1. /\ call' = [call EXCEPT ![r] = [pc |-> pc, op |-> op, saved |-> saved]] /\ Note(Collides)
      /\ UNCHANGED <<sim_time, sim_day, loop, graph, snapshot>>
  BY DEF Begin, Time
<1>2. /\ call'[r].pc = pc /\ call'[r].op = op /\ call'[r].saved = saved
      /\ \A q \in ClockRest \ {r} : call'[q] = call[q]
  BY <1>1 DEF Types, Calls
<1>3. AtWork = {}
  BY <1>1, NobodyAtWork
<1>4. r \in AtWork'
  <2>1. call'[r].pc # "idle"
    BY <1>2
  <2> QED BY <2>1, WhoWorks
<1>5. \A q \in AtWork' : q = r
  <2>1. ~Seeds(loop.pc) /\ \A q \in ClockRest : call[q].pc = "idle"
    BY <1>3, WhoWorks
  <2>2. ~Seeds(loop'.pc) /\ \A q \in ClockRest \ {r} : call'[q].pc = "idle"
    BY <1>1, <1>2, <2>1
  <2>3. ClockLoop \notin AtWork' /\ \A q \in ClockRest \ {r} : q \notin AtWork'
    BY <2>2, WhoWorks
  <2> QED BY <2>3, WhoWorks DEF Task
<1> QED BY <1>1, <1>2, <1>3, <1>4, <1>5

BeginsWith(r, op, pc, saved) ==
  /\ op \in Ops /\ pc \in {"wipe", "export"} /\ saved \in Saved /\ Begin(r, op, pc, saved)
  /\ op \in {"restore", "replay"} => pc = "wipe" /\ snapshot # Nothing /\ saved = snapshot
  /\ pc = "export" => saved \in Kept /\ saved.time = sim_time /\ saved.day = sim_day

LEMMA Beginnings ==
  ASSUME Types, NEW r \in ClockRest,
         BeginReset(r) \/ BeginRestore(r) \/ BeginScenario(r) \/ BeginReplay(r) \/ BeginSnapshot(r)
  PROVE  \E op, pc, saved : BeginsWith(r, op, pc, saved)
<1>0. snapshot \in Saved /\ Nothing \in Saved
  BY DEF Types, Saved
<1>1. CASE BeginReset(r)
  BY <1>0, <1>1 DEF BeginReset, BeginsWith, Ops
<1>2. CASE BeginRestore(r)
  BY <1>0, <1>2 DEF BeginRestore, BeginsWith, Ops
<1>3. CASE BeginScenario(r)
  BY <1>0, <1>3 DEF BeginScenario, BeginsWith, Ops
<1>4. CASE BeginReplay(r)
  BY <1>0, <1>4 DEF BeginReplay, BeginsWith, Ops
<1>5. CASE BeginSnapshot(r)
  <2> DEFINE saved == [time |-> sim_time, day |-> sim_day, speed |-> speed, was_paused |-> paused]
  <2>1. saved \in Kept /\ saved.time = sim_time /\ saved.day = sim_day
    BY DEF Types, Kept
  <2>2. Begin(r, "snapshot", "export", saved) /\ saved \in Saved
    BY <1>5, <2>1 DEF BeginSnapshot, Saved
  <2> HIDE DEF saved
  <2>3. BeginsWith(r, "snapshot", "export", saved)
    BY <2>1, <2>2 DEF BeginsWith, Ops
  <2> QED BY <2>3
<1> QED BY <1>1, <1>2, <1>3, <1>4, <1>5

LEMMA BeginGraph ==
  ASSUME Types, OneAtWork, GraphOK, ~Starting, ~history'.spoilt,
         NEW r \in ClockRest, NEW op, NEW pc, NEW saved, BeginsWith(r, op, pc, saved)
  PROVE  OneAtWork' /\ GraphOK'
<1>1. /\ AtWork = {} /\ AtWork' = {r} /\ UNCHANGED <<graph, snapshot>>
      /\ call'[r].pc = pc /\ call'[r].op = op /\ call'[r].saved = saved
      /\ \A q \in ClockRest \ {r} : call'[q] = call[q]
  BY BeginAlone DEF BeginsWith
<1>2. Tidy(graph) /\ graph.airport
  BY <1>1 DEF GraphOK
<1>3. call'[r].pc = pc /\ call'[r].op = op /\ call'[r].saved = saved /\ r # ClockLoop /\ pc \in {"wipe", "export"}
  BY <1>1, ClockAssumption DEF BeginsWith
<1>4. WorkTidy(r)'
  BY <1>1, <1>2, <1>3 DEF WorkTidy, Reached, Tidy
<1>5. ASSUME NEW q \in ClockRest, FromFile(q)' PROVE FileTidy(call[q].saved)'
  <2>1. CASE q = r
    BY <1>1, <1>3, <1>5, <2>1 DEF FromFile, GraphOK, BeginsWith, FileTidy, Tidy
  <2>2. CASE q # r
    BY <1>1, <1>5, <2>2 DEF FromFile, GraphOK, FileTidy, Tidy
  <2> QED BY <2>1, <2>2
<1>6. snapshot' # Nothing => FileTidy(snapshot)'
  BY <1>1 DEF GraphOK, FileTidy, Tidy
<1> QED BY <1>1, <1>4, <1>5, <1>6, GraphOne DEF Task

LEMMA RequestGraph ==
  ASSUME Types, OneAtWork, GraphOK, ~history'.spoilt, NEW r \in ClockRest, Request(r)
  PROVE  OneAtWork' /\ GraphOK'
<1>0. ~Starting /\ r \in Task /\ r # ClockLoop /\ graph \in Graph
  BY RequestsWait, ClockAssumption DEF Request, Task, Types
<1>1. CASE BeginReset(r) \/ BeginRestore(r) \/ BeginScenario(r) \/ BeginReplay(r) \/ BeginSnapshot(r)
  BY <1>0, <1>1, Beginnings, BeginGraph
<1>2. CASE Wipe(r)
  <2>1. PICK pc \in {"load", "structure"} : Goto(r, pc) /\ graph' = Empty /\ UNCHANGED snapshot /\ call[r].pc = "wipe"
    BY <1>2 DEF Wipe
  <2>2. AtWork' = {r} /\ FilesKept /\ (\A q : Reached(r, q)' <=> q = pc)
    BY <1>0, <2>1, WhoWorks, SeedGoesOn
  <2>3. Tidy(graph')
    BY <2>1 DEF Empty, Tidy
  <2>4. WorkTidy(r)'
    BY <2>1, <2>2, <2>3 DEF WorkTidy, Tidy
  <2> QED BY <1>0, <2>1, <2>2, <2>4, FilesTidy, GraphOne
<1>3. CASE SeedStructure(r)
  <2>1. Goto(r, "check") /\ graph' = [graph EXCEPT !.airport = TRUE] /\ UNCHANGED snapshot /\ call[r].pc = "structure"
    BY <1>3 DEF SeedStructure
  <2>2. r \in AtWork /\ Reached(r, "structure")
    BY <1>0, <2>1, WhoWorks DEF Reached
  <2>3. AtWork' = {r} /\ FilesKept /\ (\A q : Reached(r, q)' <=> q = "check")
    BY <2>1, <2>2, <1>0, SeedGoesOn
  <2>4. Tidy(graph)
    BY <2>2 DEF GraphOK, WorkTidy
  <2>5. graph'.airport /\ Tidy(graph')
    BY <1>0, <2>1, <2>4 DEF Tidy, Graph
  <2>6. WorkTidy(r)'
    BY <2>3, <2>5 DEF WorkTidy, Tidy
  <2> QED BY <1>0, <2>1, <2>3, <2>6, FilesTidy, GraphOne
<1>4. CASE Load(r)
  <2>1. /\ call[r].pc = "load" /\ Return(r) /\ UNCHANGED <<loop, snapshot>>
        /\ graph' = [airport |-> graph.airport \/ call[r].saved.graph.airport,
                     flights |-> graph.flights \cup call[r].saved.graph.flights,
                     whole |-> graph.whole \cup call[r].saved.graph.whole]
    BY <1>4 DEF Load
  <2>2. r \in AtWork /\ Reached(r, "load") /\ FromFile(r)
    BY <1>0, <2>1, WhoWorks DEF Reached, Types, CallsOK
  <2>3. graph = Empty /\ FileTidy(call[r].saved)
    BY <2>2 DEF GraphOK, WorkTidy
  <2>4. AtWork' = {} /\ FilesKept
    BY <2>1, <2>2, RequestEnds
  <2>5. graph'.airport /\ Tidy(graph')
    BY <2>1, <2>3 DEF Empty, FileTidy, Tidy
  <2> QED BY <2>1, <2>4, <2>5, FilesTidy, GraphNobody
<1>5. CASE Export(r)
  <2>1. /\ call[r].pc = "export" /\ Return(r) /\ UNCHANGED <<loop, graph>> /\ snapshot'.graph = graph
    BY <1>5 DEF Export
  <2>2. r \in AtWork /\ Reached(r, "export")
    BY <1>0, <2>1, WhoWorks DEF Reached
  <2>3. graph.airport /\ Tidy(graph)
    BY <2>2 DEF GraphOK, WorkTidy
  <2>4. AtWork' = {} /\ FilesKept
    BY <2>1, <2>2, RequestEnds
  <2>5. FileTidy(snapshot)'
    BY <2>1, <2>3 DEF FileTidy, Tidy
  <2>6. \A q \in ClockRest : FromFile(q)' => FileTidy(call[q].saved)'
    BY <2>4 DEF FilesKept, GraphOK, FileTidy, Tidy
  <2>7. Tidy(graph')
    BY <2>1, <2>3 DEF Tidy
  <2> QED BY <2>1, <2>3, <2>4, <2>5, <2>6, <2>7, GraphNobody
<1>6. CASE RequestFails(r)
  BY <1>6, SpoilingNotes
<1>7. CASE SeedDay(r)
  BY <1>0, <1>7, SeedDayGraph
<1> QED BY <1>1, <1>2, <1>3, <1>4, <1>5, <1>6, <1>7 DEF Request

LEMMA GraphNext ==
  ASSUME Types, StepOK, StartsAlone, OneAtWork, GraphOK, ~history'.spoilt, ClockNext
  PROVE  OneAtWork' /\ GraphOK'
<1>1. CASE NextTick \/ OnTick \/ Collected \/ CompleteRun \/ EndMinute
           \/ sim_pause \/ sim_resume \/ sim_speed \/ stop_run \/ (Minute /\ ~Seeds(loop'.pc))
  BY <1>1, QuietSteps, QuietGraph
<1>2. CASE Minute /\ Seeds(loop'.pc)
  <2>1. /\ AtWork = {} /\ AtWork' = {ClockLoop} /\ loop.pc = "minute" /\ loop'.pc = "check"
        /\ UNCHANGED <<call, graph, snapshot>>
    BY <1>2, MinuteSeeds
  <2>2. graph.airport /\ Tidy(graph)
    BY <2>1 DEF GraphOK, Starting, Seeds
  <2>3. WorkTidy(ClockLoop)'
    BY <2>1, <2>2 DEF WorkTidy, Reached, Tidy
  <2>4. FilesKept
    BY <2>1 DEF FilesKept, FromFile
  <2> QED BY <2>1, <2>3, <2>4, FilesTidy, GraphOne DEF Task
<1>3. CASE Startup
  <2>1. /\ loop.pc = "startup" /\ Goto(ClockLoop, "check")
        /\ graph' = [graph EXCEPT !.airport = TRUE] /\ UNCHANGED snapshot
    BY <1>3 DEF Startup
  <2>2. call' = call /\ loop'.pc = "check"
    BY <2>1, GotoLoop DEF LoopPcs
  <2>3. AtWork = {} /\ AtWork' = {ClockLoop}
    <3>1. \A q \in ClockRest : call[q].pc = "idle"
      BY <2>1 DEF StartsAlone, Starting
    <3> QED BY <2>1, <2>2, <3>1 DEF AtWork, Seeds
  <2>4. graph'.airport /\ Tidy(graph')
    BY <2>1, <2>3 DEF GraphOK, Tidy, Types, Graph
  <2>5. WorkTidy(ClockLoop)'
    BY <2>2, <2>4 DEF WorkTidy, Reached, Tidy
  <2>6. FilesKept
    BY <2>2 DEF FilesKept, FromFile
  <2> QED BY <2>1, <2>3, <2>5, <2>6, FilesTidy, GraphOne DEF Task
<1>4. CASE SeedDay(ClockLoop)
  BY <1>4, SeedDayGraph DEF Task
<1>5. CASE BoundaryFails
  BY <1>5, SpoilingNotes
<1>6. CASE Restart
  <2>1. /\ loop' = Started /\ call' = [r \in ClockRest |-> Idle] /\ Note(Collides) /\ UNCHANGED <<graph, snapshot>>
    BY <1>6 DEF Restart
  <2>2. AtWork = {}
    BY <2>1, NobodyAtWork
  <2>3. AtWork' = {} /\ Starting'
    BY <2>1, LoopRecords DEF AtWork, Starting, Seeds, Idle
  <2>4. \A q \in ClockRest : ~FromFile(q)'
    BY <2>1 DEF FromFile, Idle
  <2>5. Tidy(graph') /\ (snapshot' # Nothing => FileTidy(snapshot)')
    BY <2>1, <2>2 DEF GraphOK, Tidy, FileTidy
  <2> QED BY <2>3, <2>4, <2>5, GraphNobody
<1>7. CASE \E r \in ClockRest : Request(r)
  BY <1>7, RequestGraph
<1> QED BY <1>1, <1>2, <1>3, <1>4, <1>5, <1>6, <1>7 DEF ClockNext, Loop
-----------------------------------------------------------------------------
(* The day of the clock and of the files.                                  *)
DayOfTime == sim_day = IF Pending THEN Today(sim_time) - 1 ELSE Today(sim_time)

LEMMA FilesDays ==
  ASSUME DaysOK, FilesKept, UNCHANGED snapshot
  PROVE  /\ \A r \in ClockRest : FromFile(r)' => FileDays(call[r].saved)'
         /\ snapshot' # Nothing => FileDays(snapshot)'
BY DEF DaysOK, FilesKept, FileDays, OnDay

LEMMA DaysNobody ==
  ASSUME DayOfTime', AtWork' = {}, Covers(graph', sim_time') \/ Starting',
         \A r \in ClockRest : FromFile(r)' => FileDays(call[r].saved)',
         snapshot' # Nothing => FileDays(snapshot)'
  PROVE  DaysOK'
BY DEF DaysOK, DayOfTime

LEMMA DaysOne ==
  ASSUME DayOfTime', NEW t, AtWork' = {t}, WorkDays(t)',
         \A r \in ClockRest : FromFile(r)' => FileDays(call[r].saved)',
         snapshot' # Nothing => FileDays(snapshot)'
  PROVE  DaysOK'
BY DEF DaysOK, DayOfTime

(* The clock stands, or goes on a minute that is not the seeding one.      *)
LEMMA QuietDays ==
  ASSUME Types, Quiet, DaysOK, DayOfTime',
         \/ sim_time' = sim_time
         \/ sim_time' = sim_time + 1 /\ sim_time' % DayMinutes # SeedingMinute /\ ~Fixed(loop.pc)
  PROVE  DaysOK'
<1>1. /\ AtWork' = AtWork /\ (Starting' <=> Starting) /\ UNCHANGED <<call, graph, snapshot>>
      /\ sim_time \in Nat
  BY QuietWork DEF Quiet, Types
<1>2. ASSUME NEW g, Covers(g, sim_time) PROVE Covers(g, sim_time')
  BY <1>1, <1>2, CoversNext
<1>3. AtWork' = {} /\ ~Starting' => Covers(graph', sim_time')
  BY <1>1, <1>2 DEF DaysOK
<1>4. ASSUME NEW t \in AtWork' PROVE WorkDays(t)'
  <2>1. t \in AtWork /\ WorkDays(t)
    BY <1>1 DEF DaysOK
  <2>2. CASE t = ClockLoop
    <3>1. Fixed(loop.pc)
      BY <2>1, <2>2, WhoWorks DEF Fixed
    <3>2. loop' = loop /\ sim_time' = sim_time
      BY <3>1 DEF Quiet
    <3> QED BY <1>1, <2>1, <2>2, <3>2, WhoWorks DEF WorkDays
  <2>3. CASE t # ClockLoop
    <3>1. t \in ClockRest /\ call' = call /\ graph' = graph
      BY <1>1, <2>1, <2>3, WhoWorks DEF Task
    <3>2. call[t].pc = "export" =>
            /\ Covers(graph, sim_time')
            /\ Covers(graph, call[t].saved.time) /\ OnDay(call[t].saved)
      BY <1>2, <2>1, <3>1 DEF WorkDays
    <3>3. sim_time \in 0..(SeedingMinute - 1) => sim_time' \in 0..(SeedingMinute - 1)
      <4> SUFFICES ASSUME sim_time \in 0..(SeedingMinute - 1), sim_time' # sim_time
                   PROVE  sim_time' \in 0..(SeedingMinute - 1)
        OBVIOUS
      <4>1. sim_time' = sim_time + 1 /\ sim_time' % DayMinutes # SeedingMinute
        OBVIOUS
      <4>2. sim_time' \in 0..(DayMinutes - 1)
        BY <4>1, Minutes
      <4>3. sim_time' % DayMinutes = sim_time'
        BY <4>2, FirstDay
      <4> QED BY <4>1, <4>3, Minutes
    <3> QED BY <2>1, <2>3, <3>1, <3>2, <3>3 DEF WorkDays, OnDay
  <2> QED BY <2>2, <2>3
<1>5. /\ \A r \in ClockRest : FromFile(r)' => FileDays(call[r].saved)'
      /\ snapshot' # Nothing => FileDays(snapshot)'
  BY <1>1, FilesDays DEF FilesKept, FromFile
<1> QED BY <1>1, <1>3, <1>4, <1>5 DEF DaysOK, DayOfTime

LEMMA QuietDayOfTime ==
  ASSUME Types, DayOfTime,
         \/ NextTick \/ OnTick \/ Collected \/ CompleteRun \/ EndMinute
         \/ sim_pause \/ sim_resume \/ sim_speed \/ stop_run
  PROVE  DayOfTime' /\ sim_time' = sim_time
<1>0. loop \in Loops /\ sim_time \in Nat /\ Today(sim_time) \in Nat
  BY NextMinute DEF Types
<1>1. CASE NextTick
  BY <1>1 DEF NextTick, Asleep, DayOfTime, Pending, Time
<1>2. CASE OnTick
  BY <1>0, <1>2 DEF OnTick, Goto, WhenDue, Loops, DayOfTime, Pending, Time
<1>3. CASE Collected
  BY <1>0, <1>3 DEF Collected, Goto, WhenDue, Loops, DayOfTime, Pending, Time
<1>4. CASE CompleteRun
  BY <1>0, <1>4 DEF CompleteRun, Goto, Loops, DayOfTime, Pending, Time
<1>5. CASE EndMinute
  <2>1. /\ loop.pc = "rollover" /\ loop'.pc \in {"minute", "sleep"} /\ sim_time' = sim_time
        /\ sim_day' = IF Midnight(sim_time) THEN sim_day + 1 ELSE sim_day
    BY <1>0, <1>5, LoopRecords DEF EndMinute, Loops
  <2> QED BY <1>0, <2>1 DEF DayOfTime, Pending
<1>6. CASE sim_pause \/ sim_resume \/ sim_speed \/ stop_run
  BY <1>6 DEF sim_pause, sim_resume, sim_speed, stop_run, DayOfTime, Pending, Time
<1> QED BY <1>1, <1>2, <1>3, <1>4, <1>5, <1>6

LEMMA MinuteDayOfTime ==
  ASSUME Types, DayOfTime, Minute
  PROVE  /\ DayOfTime' /\ sim_time' = sim_time + 1 /\ ~Fixed(loop.pc)
         /\ ~Seeds(loop'.pc) => sim_time' % DayMinutes # SeedingMinute
<1>1. /\ loop.pc = "minute" /\ sim_time' = sim_time + 1 /\ sim_day' = sim_day /\ sim_time \in Nat
      /\ loop' = IF AtSeeding(sim_time', loop.left - 1)
                 THEN [loop EXCEPT !.pc = "check", !.left = @ - 1, !.day = sim_day + 1]
                 ELSE [loop EXCEPT !.pc = "on_tick", !.left = @ - 1]
  BY DEF Minute, Types
<1>2. loop'.pc = IF AtSeeding(sim_time', loop.left - 1) THEN "check" ELSE "on_tick"
  BY <1>1 DEF Types, Loops
<1>3. ~Seeds(loop'.pc) => sim_time' % DayMinutes # SeedingMinute
  BY <1>2 DEF AtSeeding, Seeds
<1>4. sim_day = Today(sim_time)
  BY <1>1 DEF DayOfTime, Pending
<1>5. DayOfTime'
  <2>1. CASE sim_time % DayMinutes = DayMinutes - 1
    <3>1. sim_time' % DayMinutes = 0 /\ Today(sim_time') = sim_day' + 1
      BY <1>1, <1>4, <2>1, Minutes, NextMinute
    <3>2. loop'.pc = "on_tick" /\ Today(sim_time) \in Nat
      BY <1>1, <1>2, <3>1, Minutes, NextMinute DEF AtSeeding
    <3> QED BY <1>1, <1>4, <3>1, <3>2 DEF DayOfTime, Pending, Midnight
  <2>2. CASE sim_time % DayMinutes # DayMinutes - 1
    <3>1. sim_time' % DayMinutes # 0 /\ Today(sim_time') = sim_day'
      BY <1>1, <1>4, <2>2, Minutes, NextMinute
    <3> QED BY <3>1 DEF DayOfTime, Pending, Midnight
  <2> QED BY <2>1, <2>2
<1> QED BY <1>1, <1>3, <1>5 DEF Fixed, Seeds
(* What a task that has seeded its day leaves: the day of the clock, and   *)
(* the next one, if the clock was at the boundary.                         *)
LEMMA SeededCovers ==
  ASSUME Types, StartsAlone, NEW t \in AtWork, t \in Task, WorkDays(t), NEW g,
         call[t].pc \in {"check", "passengers"} \/ t = ClockLoop,
         Seeded(g, SeedingOf(t).day), \A d : Seeded(graph, d) => Seeded(g, d)
  PROVE  Covers(g, sim_time)
<1>1. CASE t = ClockLoop
  <2>1. SeedingOf(t).day = loop.day /\ Seeds(loop.pc)
    BY <1>1, WhoWorks DEF SeedingOf
  <2>2. CASE Starting
    <3>1. sim_time = SIM_START_TIME /\ loop.day = 1
      BY <2>2 DEF StartsAlone
    <3>2. Today(sim_time) = 1 /\ ~(sim_time % DayMinutes >= SeedingMinute)
      BY <3>1, FirstDay
    <3> QED BY <2>1, <3>1, <3>2 DEF Covers
  <2>3. CASE ~Starting
    BY <1>1, <2>1, <2>3 DEF WorkDays, Covers
  <2> QED BY <2>2, <2>3
<1>2. CASE t # ClockLoop
  <2>1. t \in ClockRest /\ SeedingOf(t).day = 1 /\ sim_time \in 0..(SeedingMinute - 1)
    BY <1>2, WhoWorks DEF SeedingOf, WorkDays, Task
  <2>2. Today(sim_time) = 1 /\ ~(sim_time % DayMinutes >= SeedingMinute)
    BY <2>1, FirstDay
  <2> QED BY <2>1, <2>2 DEF Covers
<1> QED BY <1>1, <1>2

LEMMA SeedDayOfTime ==
  ASSUME Types, DayOfTime, NEW t \in AtWork, WorkDays(t), UNCHANGED <<sim_time, sim_day>>,
         loop' = loop \/ (t = ClockLoop /\ loop'.pc \in {"check", "flights", "passengers", "sleep"})
         \/ (t = ClockLoop /\ ~Starting /\ loop'.pc = "on_tick")
  PROVE  DayOfTime'
<1>1. CASE loop' = loop
  BY <1>1 DEF DayOfTime, Pending
<1>2. CASE t = ClockLoop /\ loop' # loop
  <2>1. ~Pending
    BY <1>2, WhoWorks DEF Seeds, Pending
  <2>2. CASE loop'.pc \in {"check", "flights", "passengers", "sleep"}
    BY <2>1, <2>2 DEF DayOfTime, Pending
  <2>3. CASE ~Starting
    <3>0. sim_time % DayMinutes = SeedingMinute /\ sim_time' = sim_time
      BY <1>2, <2>3 DEF WorkDays
    <3>1. sim_time % DayMinutes # 0
      BY <3>0, SeedingIsLate
    <3> QED BY <2>1, <3>0, <3>1 DEF DayOfTime, Pending, Midnight
  <2> QED BY <1>2, <2>2, <2>3
<1> QED BY <1>1, <1>2

LEMMA SeedEndDays ==
  ASSUME Types, StartsAlone, OneAtWork, DaysOK, NEW t \in AtWork, t \in Task, DayIsSeeded(t),
         call[t].pc \in {"check", "passengers"} \/ t = ClockLoop,
         UNCHANGED <<sim_time, sim_day, snapshot>>,
         Seeded(graph', SeedingOf(t).day), \A d : Seeded(graph, d) => Seeded(graph', d)
  PROVE  DaysOK'
<1>1. /\ AtWork' = {} /\ FilesKept
      /\ t # ClockLoop => loop' = loop
  BY SeedEnds
<1>2. WorkDays(t) /\ DayOfTime
  BY DEF DaysOK, DayOfTime
<1>3. Covers(graph', sim_time')
  <2>1. Covers(graph', sim_time)
    BY <1>2, SeededCovers
  <2> QED BY <2>1
<1>4. t = ClockLoop => loop'.pc = "sleep" \/ (loop'.pc = "on_tick" /\ ~Starting)
  <2>1. t = ClockLoop => loop' = IF loop.step = 0 THEN Asleep ELSE [loop EXCEPT !.pc = "on_tick"]
    BY DEF DayIsSeeded
  <2>2. t = ClockLoop => Seeds(loop.pc)
    BY WhoWorks
  <2> QED BY <2>1, <2>2, LoopRecords DEF Types, Loops, Starting, Seeds
<1>5. DayOfTime'
  BY <1>1, <1>2, <1>4, SeedDayOfTime
<1> QED BY <1>1, <1>3, <1>5, FilesDays, DaysNobody

LEMMA SeedOnDays ==
  ASSUME Types, OneAtWork, DaysOK, NEW t \in AtWork, NEW pc \in {"flights", "passengers"}, Goto(t, pc),
         Reached(t, "check") \/ Reached(t, "flights"),
         UNCHANGED <<sim_time, sim_day, snapshot>>, \A d : Seeded(graph, d) => Seeded(graph', d)
  PROVE  DaysOK'
<1>1. /\ AtWork' = {t} /\ FilesKept
      /\ t = ClockLoop => UNCHANGED call /\ loop'.step = loop.step /\ loop'.day = loop.day
      /\ t # ClockLoop => /\ loop' = loop
                          /\ call'[t].pc = pc /\ call'[t].op = call[t].op /\ call'[t].saved = call[t].saved
      /\ Reached(t, pc)'
  BY SeedGoesOn
<1>2. WorkDays(t) /\ DayOfTime
  BY DEF DaysOK, DayOfTime
<1>3. t = ClockLoop => loop'.pc = pc /\ Seeds(loop.pc) /\ Seeds(loop'.pc)
  BY <1>1, WhoWorks DEF Reached, Seeds
<1>4. DayOfTime'
  BY <1>1, <1>2, <1>3, SeedDayOfTime
<1>5. WorkDays(t)'
  <2>1. CASE t = ClockLoop
    <3>1. Starting' <=> Starting
      BY <1>1, <1>3, <2>1 DEF Starting, Seeds
    <3> QED BY <1>1, <1>2, <2>1, <3>1, WhoWorks DEF WorkDays
  <2>2. CASE t # ClockLoop
    <3>1. call[t].pc \in {"check", "flights"}
      BY <2>2 DEF Reached
    <3> QED BY <1>1, <1>2, <2>2, <3>1 DEF WorkDays
  <2> QED BY <2>1, <2>2
<1> QED BY <1>1, <1>4, <1>5, FilesDays, DaysOne

LEMMA SeedDayDays ==
  ASSUME Types, StartsAlone, OneAtWork, GraphOK, DaysOK, NEW t \in Task, SeedDay(t)
  PROVE  DaysOK'
<1>0. t \in AtWork /\ graph \in Graph /\ WorkTidy(t)
  BY SeedingLoop DEF Types, GraphOK
<1>1. CASE SkipDay(t)
  <2>1. Reached(t, "check") /\ DayIsSeeded(t) /\ UNCHANGED <<sim_time, sim_day, graph, snapshot>>
        /\ Seeded(graph, SeedingOf(t).day)
    BY <1>1 DEF SkipDay, Time, DayAlreadySeeded, Seeded
  <2>2. call[t].pc = "check" \/ t = ClockLoop
    BY <2>1 DEF Reached
  <2> QED BY <1>0, <2>1, <2>2, SeedEndDays
<1>2. CASE CheckDay(t)
  <2>1. Reached(t, "check") /\ Goto(t, "flights") /\ UNCHANGED <<sim_time, sim_day, graph, snapshot>>
    BY <1>2 DEF CheckDay, Time
  <2> QED BY <1>0, <2>1, SeedOnDays
<1>3. CASE SeedFlights(t)
  <2>1. /\ Reached(t, "flights") /\ Goto(t, "passengers") /\ UNCHANGED <<sim_time, sim_day, snapshot>>
        /\ graph' = IF graph.airport THEN [graph EXCEPT !.flights = @ \cup {SeedingOf(t)}] ELSE graph
    BY <1>3 DEF SeedFlights, Time
  <2>2. \A d : Seeded(graph, d) => Seeded(graph', d)
    BY <1>0, <2>1 DEF Graph, Seeded
  <2> QED BY <1>0, <2>1, <2>2, SeedOnDays
<1>4. CASE SeedPassengers(t)
  <2>1. /\ Reached(t, "passengers") /\ DayIsSeeded(t) /\ UNCHANGED <<sim_time, sim_day, snapshot>>
        /\ graph' = [graph EXCEPT !.whole = @ \cup ({SeedingOf(t)} \cap graph.flights)]
    BY <1>4 DEF SeedPassengers, Time
  <2>2. graph'.flights = graph.flights /\ SeedingOf(t) \in graph.flights
    BY <1>0, <2>1 DEF Graph, WorkTidy
  <2>3. call[t].pc = "passengers" \/ t = ClockLoop
    BY <2>1 DEF Reached
  <2>4. Seeded(graph', SeedingOf(t).day) /\ \A d : Seeded(graph, d) => Seeded(graph', d)
    BY <2>2 DEF Seeded
  <2> QED BY <1>0, <2>1, <2>3, <2>4, SeedEndDays
<1> QED BY <1>1, <1>2, <1>3, <1>4 DEF SeedDay
LEMMA BeginDays ==
  ASSUME Types, ~Starting, DaysOK, ~history'.spoilt,
         NEW r \in ClockRest, NEW op, NEW pc, NEW saved, BeginsWith(r, op, pc, saved)
  PROVE  DaysOK'
<1>1. /\ AtWork = {} /\ AtWork' = {r} /\ UNCHANGED <<sim_time, sim_day, loop, graph, snapshot>>
      /\ call'[r].pc = pc /\ call'[r].op = op /\ call'[r].saved = saved
      /\ \A q \in ClockRest \ {r} : call'[q] = call[q]
  BY BeginAlone DEF BeginsWith
<1>2. Covers(graph, sim_time) /\ DayOfTime
  BY <1>1 DEF DaysOK, DayOfTime
<1>3. DayOfTime'
  BY <1>1, <1>2 DEF DayOfTime, Pending
<1>4. pc = "export" => saved.time = sim_time /\ OnDay(saved)
  BY <1>2 DEF BeginsWith, OnDay, DayOfTime, Pending
<1>5. r # ClockLoop /\ pc \in {"wipe", "export"}
  BY ClockAssumption DEF BeginsWith
<1>6. WorkDays(r)'
  BY <1>1, <1>2, <1>4, <1>5 DEF WorkDays, OnDay
<1>7. ASSUME NEW q \in ClockRest, FromFile(q)' PROVE FileDays(call[q].saved)'
  <2>1. CASE q = r
    BY <1>1, <1>7, <2>1 DEF FromFile, DaysOK, BeginsWith, FileDays, OnDay
  <2>2. CASE q # r
    BY <1>1, <1>7, <2>2 DEF FromFile, DaysOK, FileDays, OnDay
  <2> QED BY <2>1, <2>2
<1>8. snapshot' # Nothing => FileDays(snapshot)'
  BY <1>1 DEF DaysOK, FileDays, OnDay
<1> QED BY <1>1, <1>3, <1>6, <1>7, <1>8, DaysOne

LEMMA RequestDays ==
  ASSUME Types, StartsAlone, OneAtWork, GraphOK, DaysOK, ~history'.spoilt, ~history'.skewed,
         NEW r \in ClockRest, Request(r)
  PROVE  DaysOK'
<1>0. ~Starting /\ r \in Task /\ r # ClockLoop /\ graph \in Graph /\ DayOfTime
  BY RequestsWait, ClockAssumption DEF Request, Task, Types, DaysOK, DayOfTime
<1>1. CASE BeginReset(r) \/ BeginRestore(r) \/ BeginScenario(r) \/ BeginReplay(r) \/ BeginSnapshot(r)
  BY <1>0, <1>1, Beginnings, BeginDays
<1>2. CASE Wipe(r)
  <2>1. /\ r \in AtWork /\ UNCHANGED snapshot
        /\ \/ Goto(r, "load") /\ UNCHANGED <<sim_time, sim_day>>
           \/ Goto(r, "structure") /\ sim_time' = SIM_START_TIME /\ sim_day' = 1
    BY <1>2, WhoWorks DEF Wipe, Time, reset_to_start
  <2>2. CASE Goto(r, "load") /\ UNCHANGED <<sim_time, sim_day>>
    <3>1. AtWork' = {r} /\ FilesKept /\ call'[r].pc = "load" /\ loop' = loop
      BY <1>0, <2>1, <2>2, SeedGoesOn
    <3>2. DayOfTime' /\ WorkDays(r)'
      BY <1>0, <2>2, <3>1 DEF DayOfTime, Pending, WorkDays
    <3> QED BY <2>1, <3>1, <3>2, FilesDays, DaysOne
  <2>3. CASE Goto(r, "structure") /\ sim_time' = SIM_START_TIME /\ sim_day' = 1
    <3>1. AtWork' = {r} /\ FilesKept /\ call'[r].pc = "structure" /\ loop' = loop
      BY <1>0, <2>1, <2>3, SeedGoesOn
    <3>2. DayOfTime'
      BY <2>3, FirstDay DEF DayOfTime, Pending
    <3>3. WorkDays(r)'
      BY <1>0, <2>3, <3>1, FirstDay DEF WorkDays
    <3> QED BY <2>1, <3>1, <3>2, <3>3, FilesDays, DaysOne
  <2> QED BY <2>1, <2>2, <2>3
<1>3. CASE SeedStructure(r)
  <2>1. Goto(r, "check") /\ UNCHANGED <<sim_time, sim_day, snapshot>> /\ call[r].pc = "structure"
    BY <1>3 DEF SeedStructure, Time
  <2>2. r \in AtWork
    BY <2>1, WhoWorks
  <2>3. AtWork' = {r} /\ FilesKept /\ call'[r].pc = "check" /\ loop' = loop
    BY <2>1, <2>2, <1>0, SeedGoesOn
  <2>4. DayOfTime'
    BY <1>0, <2>1, <2>3 DEF DayOfTime, Pending
  <2>5. WorkDays(r)'
    BY <1>0, <2>1, <2>2, <2>3 DEF DaysOK, WorkDays
  <2> QED BY <2>1, <2>3, <2>4, <2>5, FilesDays, DaysOne
<1>4. CASE Load(r)
  <2> DEFINE file == call[r].saved
  <2>1. /\ call[r].pc = "load" /\ Return(r) /\ UNCHANGED <<loop, snapshot>>
        /\ sim_time' = file.time /\ sim_day' = file.day
        /\ graph' = [airport |-> graph.airport \/ file.graph.airport,
                     flights |-> graph.flights \cup file.graph.flights,
                     whole |-> graph.whole \cup file.graph.whole]
        /\ Note(IF Midnight(file.time) THEN {"skewed"} ELSE {})
    BY <1>4 DEF Load
  <2>2. r \in AtWork /\ Reached(r, "load") /\ FromFile(r)
    BY <1>0, <2>1, WhoWorks DEF Reached, Types, CallsOK
  <2>3. graph = Empty /\ FileDays(file)
    BY <2>2 DEF GraphOK, WorkTidy, DaysOK
  <2>4. ~Midnight(file.time)
    BY <2>1, Noted
  <2>5. AtWork' = {} /\ FilesKept
    BY <2>1, <2>2, RequestEnds
  <2>6. graph'.flights = file.graph.flights
    BY <2>1, <2>3 DEF Empty
  <2>7. Covers(file.graph, file.time) /\ file.day = Today(file.time)
    BY <2>3, <2>4 DEF FileDays, OnDay
  <2>8. Covers(graph', sim_time')
    BY <2>1, <2>6, <2>7 DEF Covers, Seeded
  <2>9. DayOfTime'
    BY <2>1, <2>4, <2>7 DEF DayOfTime, Pending
  <2> QED BY <2>1, <2>5, <2>8, <2>9, FilesDays, DaysNobody
<1>5. CASE Export(r)
  <2>1. /\ call[r].pc = "export" /\ Return(r) /\ UNCHANGED <<sim_time, sim_day, loop, graph>>
        /\ snapshot'.time = call[r].saved.time /\ snapshot'.day = call[r].saved.day
        /\ snapshot'.graph = graph
    BY <1>5 DEF Export, Time
  <2>2. r \in AtWork /\ WorkDays(r)
    BY <2>1, WhoWorks DEF DaysOK
  <2>3. Covers(graph, sim_time) /\ Covers(graph, call[r].saved.time) /\ OnDay(call[r].saved)
    BY <2>1, <2>2 DEF WorkDays
  <2>4. AtWork' = {} /\ FilesKept
    BY <2>1, <2>2, RequestEnds
  <2>5. FileDays(snapshot)'
    BY <2>1, <2>3 DEF FileDays, OnDay
  <2>6. \A q \in ClockRest : FromFile(q)' => FileDays(call[q].saved)'
    BY <2>4 DEF FilesKept, DaysOK, FileDays, OnDay
  <2>7. DayOfTime' /\ Covers(graph', sim_time')
    BY <1>0, <2>1, <2>3 DEF DayOfTime, Pending
  <2> QED BY <2>4, <2>5, <2>6, <2>7, DaysNobody
<1>6. CASE RequestFails(r)
  BY <1>6, SpoilingNotes
<1>7. CASE SeedDay(r)
  BY <1>0, <1>7, SeedDayDays
<1> QED BY <1>1, <1>2, <1>3, <1>4, <1>5, <1>6, <1>7 DEF Request

LEMMA DaysNext ==
  ASSUME Types, StepOK, StartsAlone, OneAtWork, GraphOK, DaysOK, ~history'.spoilt, ~history'.skewed,
         ClockNext
  PROVE  DaysOK'
<1>0. DayOfTime
  BY DEF DaysOK, DayOfTime
<1>1. CASE NextTick \/ OnTick \/ Collected \/ CompleteRun \/ EndMinute
           \/ sim_pause \/ sim_resume \/ sim_speed \/ stop_run
  BY <1>0, <1>1, QuietSteps, QuietDayOfTime, QuietDays
<1>2. CASE Minute /\ ~Seeds(loop'.pc)
  BY <1>0, <1>2, QuietSteps, MinuteDayOfTime, QuietDays
<1>3. CASE Minute /\ Seeds(loop'.pc)
  <2>1. /\ AtWork = {} /\ AtWork' = {ClockLoop} /\ loop.pc = "minute" /\ loop'.pc = "check"
        /\ loop'.step = loop.step /\ loop'.day = sim_day + 1
        /\ (sim_time + 1) % DayMinutes = SeedingMinute
        /\ sim_time' = sim_time + 1 /\ UNCHANGED <<sim_day, call, graph, snapshot>>
    BY <1>3, MinuteSeeds
  <2>2. DayOfTime'
    BY <1>0, <1>3, MinuteDayOfTime
  <2>3. Covers(graph, sim_time) /\ sim_day = Today(sim_time)
    BY <1>0, <2>1 DEF DaysOK, Starting, Seeds, DayOfTime, Pending
  <2>4. Today(sim_time + 1) = Today(sim_time)
    <3>1. sim_time \in Nat
      BY DEF Types
    <3>2. (sim_time + 1) % DayMinutes # 0
      BY <2>1, SeedingIsLate
    <3> QED BY <3>1, <3>2, NextMinute
  <2>5. WorkDays(ClockLoop)'
    BY <2>1, <2>3, <2>4, ClockAssumption DEF WorkDays, Covers
  <2>6. FilesKept
    BY <2>1 DEF FilesKept, FromFile
  <2> QED BY <2>1, <2>2, <2>5, <2>6, FilesDays, DaysOne
<1>4. CASE Startup
  <2>1. /\ loop.pc = "startup" /\ Goto(ClockLoop, "check") /\ UNCHANGED <<sim_time, sim_day, snapshot>>
    BY <1>4 DEF Startup, Time
  <2>2. call' = call /\ loop'.pc = "check" /\ loop'.step = 0
    BY <2>1, GotoLoop DEF LoopPcs, StepOK
  <2>3. AtWork' = {ClockLoop}
    <3>1. \A q \in ClockRest : call[q].pc = "idle"
      BY <2>1 DEF StartsAlone, Starting
    <3> QED BY <2>1, <2>2, <3>1 DEF AtWork, Seeds
  <2>4. DayOfTime'
    BY <1>0, <2>1, <2>2 DEF DayOfTime, Pending
  <2>5. WorkDays(ClockLoop)'
    BY <2>2, ClockAssumption DEF WorkDays, Starting, Seeds
  <2>6. FilesKept
    BY <2>2 DEF FilesKept, FromFile
  <2> QED BY <2>1, <2>3, <2>4, <2>5, <2>6, FilesDays, DaysOne
<1>5. CASE SeedDay(ClockLoop)
  BY <1>5, SeedDayDays DEF Task
<1>6. CASE BoundaryFails
  BY <1>6, SpoilingNotes
<1>7. CASE Restart
  <2>1. /\ loop' = Started /\ call' = [r \in ClockRest |-> Idle] /\ UNCHANGED snapshot
        /\ sim_time' = SIM_START_TIME /\ sim_day' = 1
    BY <1>7 DEF Restart
  <2>2. AtWork' = {} /\ Starting'
    BY <2>1, LoopRecords DEF AtWork, Starting, Seeds, Idle
  <2>3. \A q \in ClockRest : ~FromFile(q)'
    BY <2>1 DEF FromFile, Idle
  <2>4. snapshot' # Nothing => FileDays(snapshot)'
    BY <2>1 DEF DaysOK, FileDays, OnDay
  <2>5. DayOfTime'
    BY <2>1, FirstDay DEF DayOfTime, Pending
  <2> QED BY <2>2, <2>3, <2>4, <2>5, DaysNobody
<1>8. CASE \E r \in ClockRest : Request(r)
  BY <1>8, RequestDays
<1> QED BY <1>1, <1>2, <1>3, <1>4, <1>5, <1>6, <1>7, <1>8 DEF ClockNext, Loop

LEMMA DayInvAlways == ClockSpec => []DayInv
<1>1. ClockInit => DayInv
  <2> SUFFICES ASSUME ClockInit PROVE DayInv
    OBVIOUS
  <2>1. /\ sim_time = SIM_START_TIME /\ sim_day = 1 /\ loop = Started
        /\ call = [r \in ClockRest |-> Idle] /\ graph = Empty /\ snapshot = Nothing
    BY DEF ClockInit
  <2>2. StepOK /\ StartsAlone /\ Starting /\ AtWork = {}
    BY <2>1, LoopRecords DEF StepOK, StartsAlone, Starting, AtWork, Seeds, Idle
  <2>3. \A r \in ClockRest : ~FromFile(r)
    BY <2>1 DEF FromFile, Idle
  <2>4. OneAtWork /\ GraphOK
    BY <2>1, <2>2, <2>3 DEF OneAtWork, GraphOK, Tidy, Empty
  <2>5. DaysOK
    BY <2>1, <2>2, <2>3, FirstDay DEF DaysOK, Pending
  <2> QED BY <2>2, <2>4, <2>5, TypesInit DEF DayInv
<1>2. DayInv /\ ClockNext => DayInv'
  BY TypesNext, StartsNext, FactsStay, GraphNext, DaysNext DEF DayInv
<1>3. DayInv /\ UNCHANGED clockVars => DayInv'
  <2> SUFFICES ASSUME DayInv, UNCHANGED clockVars PROVE DayInv'
    OBVIOUS
  <2>1. UNCHANGED <<sim_time, sim_day, paused, speed, loop, call, graph, snapshot, active_run,
                    past_results, runs, history>>
    BY DEF clockVars
  <2>2. Types' /\ StepOK' /\ StartsAlone'
    BY <2>1 DEF DayInv, Types, CallsOK, FromFile, StepOK, StartsAlone, Starting
  <2>3. AtWork' = AtWork /\ (Starting' <=> Starting) /\ OneAtWork' = OneAtWork
    BY <2>1 DEF AtWork, Starting, OneAtWork
  <2>4. GraphOK => GraphOK'
    <3>1. ASSUME NEW t \in AtWork, WorkTidy(t) PROVE WorkTidy(t)'
      BY <2>1, <3>1 DEF WorkTidy, Reached, Tidy, Seeded, SeedingOf
    <3> QED BY <2>1, <2>3, <3>1 DEF GraphOK, Tidy, FileTidy, FromFile
  <2>5. DaysOK => DaysOK'
    BY <2>1, <2>3 DEF DaysOK, WorkDays, Pending, FileDays, OnDay, FromFile
  <2> QED BY <2>1, <2>2, <2>3, <2>4, <2>5 DEF DayInv
<1>4. DayInv /\ [ClockNext]_clockVars => DayInv'
  BY <1>2, <1>3
<1> QED BY <1>1, <1>4, PTL DEF ClockSpec

(* Between two ticks, with nobody at work on the graph, the clock's day is *)
(* the day of its time, and that day is seeded, wholly and once: for any   *)
(* start, seeding minute, day length and speeds, and any requests, resets, *)
(* restores and restarts, except after those that the notes name.          *)
THEOREM DayLoadedProved == ClockSpec => []DayLoaded
<1>1. DayInv => DayLoaded
  <2> SUFFICES ASSUME DayInv, ~history.spoilt, ~history.skewed, loop.pc = "sleep", AtWork = {}
               PROVE  /\ sim_day = Today(sim_time)
                      /\ \E s \in graph.whole : s.day = sim_day
                      /\ \A s, t \in graph.flights : s.day = t.day => s = t
    BY DEF DayLoaded
  <2>1. Tidy(graph)
    BY DEF DayInv, GraphOK
  <2>2. sim_day = Today(sim_time)
    BY DEF DayInv, DaysOK, Pending
  <2>3. Covers(graph, sim_time)
    BY DEF DayInv, DaysOK, Starting, Seeds
  <2> QED BY <2>1, <2>2, <2>3 DEF Tidy, Covers, Seeded
<1> QED BY <1>1, DayInvAlways, PTL
=============================================================================
