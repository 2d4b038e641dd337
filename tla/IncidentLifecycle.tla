------------------------- MODULE IncidentLifecycle -------------------------
(***************************************************************************)
(* incident-service: creation of an incident and its cascade, containment, *)
(* resolution, the TTR countdown and the delayed cascades.                 *)
(*                                                                         *)
(* One asyncio event loop runs the Kafka consumer, which handles one       *)
(* message at a time, and the REST requests.  A coroutine gives up the     *)
(* loop at every await, so a handler is a sequence of steps, each ending   *)
(* where its next query takes effect in Neo4j or where it resumes from     *)
(* one; the steps of different tasks interleave.                           *)
(***************************************************************************)
EXTENDS IncidentTables, Sequences, FiniteSets

CONSTANTS
  MaxIncidents,       \* bound: incident ids are 1..MaxIncidents
  MaxRoots,           \* bound: incidents created other than by a cascade
  MaxFaults,          \* bound: crashes and failed queries
  CASCADE_MAX_DEPTH,
  Consumer, Rest,     \* the consumer's task and the REST requests' tasks
  RestOps,            \* the REST operations in use: inject, contain, resolve
  CommandOps,         \* the commands in use: contain, resolve
  Injected,           \* kinds of incident a request or an event injects
  Detected,           \* kinds created only when none is open there already
  Drawn,              \* kinds the hourly draw may produce
  Actions,            \* action types of applied recommendations
  WeatherChanges,     \* whether weather-service is part of the run
  Deltas,             \* minutes a tick may advance
  TtrSample           \* the TTRs drawn for a type, within TTR_RANGES

Incident == 1..MaxIncidents
Task     == {Consumer} \cup Rest
None     == 0

Airfield == "KART-airfield"
Location == {Airfield} \cup { k.location : k \in Injected \cup Detected \cup Drawn }
Category == <<"CAVOK", "VMC", "IMC", "LIFR">>   \* in order of severity
Low      == {"IMC", "LIFR"}

(* What a creator passes to create_incident: type, severity, location. *)
Kind(type, sev, loc) == [type |-> type, severity |-> sev, location |-> loc]
NoKind == Kind("none", "none", "none")

ASSUME BoundsAssumption ==
  /\ MaxIncidents \in Nat /\ MaxRoots \in Nat /\ MaxFaults \in Nat
  /\ CASCADE_MAX_DEPTH \in Nat \ {0}
  /\ MaxRoots * (CASCADE_MAX_DEPTH + 1) <= MaxIncidents

ASSUME TaskAssumption == Consumer \notin Rest

ASSUME InputAssumption ==
  /\ Injected \cup Detected \cup Drawn
       \subseteq [type : Type, severity : Severity, location : Location]
  /\ IsFiniteSet(Drawn)
  /\ Deltas \subseteq Nat \ {0}
  /\ RestOps \subseteq {"inject", "contain", "resolve"}
  /\ CommandOps \subseteq {"contain", "resolve"}
  /\ Actions \subseteq ActionType
  /\ WeatherChanges \in BOOLEAN
  /\ TtrSample \in [Type -> SUBSET (Nat \cup {NoTtr})]
  /\ \A ty \in Type : TtrSample[ty] # {} /\ TtrSample[ty] \subseteq TTR_RANGES[ty]
-----------------------------------------------------------------------------
VARIABLES
  (* Neo4j *)
  made,         \* number of incident nodes; their ids are 1..made
  info,         \* what create_incident_node stores and nothing changes
  status,       \* "none" until the node exists
  ttr,          \* ttr_remaining
  spawned,      \* the SPAWNED relationships
  (* memory of the process *)
  protocols,    \* ProtocolManager._active, as pairs of protocol and incident
  cascaded,     \* _cascaded_incidents
  pending,      \* _pending_cascades, as pairs of parent and minutes left
  category,     \* the category of the last WeatherStateChanged
  task,         \* where each task stands
  (* Kafka *)
  emitted,      \* the events published about each incident, in order
  (* bounds *)
  roots, faults

db     == <<made, info, status, ttr, spawned>>
memory == <<protocols, cascaded, pending, category>>
bounds == <<roots, faults>>
vars   == <<db, memory, task, emitted, bounds>>

Made == 1..made

(***************************************************************************)
(* A task: its next step, the incident it works on, what it is to create   *)
(* and under which parent, the children it still has to announce, and, for *)
(* a tick or a recommendation, the loop it is in (stage), the countdowns   *)
(* still to write, the delayed cascades and the draws still to fire.  age  *)
(* is how many minutes ago the simulated time the task works with was      *)
(* current: a REST request keeps the time of its arrival.                  *)
(***************************************************************************)
Idle == [pc |-> "idle", inc |-> None, kind |-> NoKind, parent |-> None,
         kids |-> {}, stage |-> "none", todo |-> {}, due |-> {}, draws |-> {},
         age |-> 0]

Init ==
  /\ made = 0
  /\ info = [i \in Incident |-> [kind |-> NoKind, depth |-> 0]]
  /\ status = [i \in Incident |-> "none"]
  /\ ttr = [i \in Incident |-> NoTtr]
  /\ spawned = {}
  /\ protocols = {} /\ cascaded = {} /\ pending = {}
  /\ category = "CAVOK"
  /\ task = [t \in Task |-> Idle]
  /\ emitted = [i \in Incident |-> <<>>]
  /\ roots = 0 /\ faults = 0

(* Control of a task. *)
At(t, l)   == task[t].pc = l
Goto(t, l) == task' = [task EXCEPT ![t].pc = l]

Creating(tk, kind, parent) ==
  [tk EXCEPT !.pc = "create", !.kind = kind, !.parent = parent, !.inc = None]

(* The task returns to the loop it is in, or ends when it is in none. *)
Returned(tk) ==
  IF tk.stage = "none" THEN Idle
  ELSE [tk EXCEPT !.pc = "next", !.inc = None, !.kind = NoKind, !.parent = None, !.kids = {}]

Return(t) == task' = [task EXCEPT ![t] = Returned(@)]

Emit(i, event) == emitted' = [emitted EXCEPT ![i] = Append(@, event)]

(* A root creation uses up one unit of the bound on roots. *)
SpendRoot == roots < MaxRoots /\ roots' = roots + 1

ChildKind(p) == Kind(CASCADE_RULES[info[p].kind.type].child,
                     CASCADE_RULES[info[p].kind.type].severity,
                     info[p].kind.location)

OpenButContained(type, loc) ==                              \* mutant of Open
  { i \in Made : /\ status[i] = "active"
                 /\ info[i].kind.type = type /\ info[i].kind.location = loc }

Open(type, loc) ==
  { i \in Made : /\ status[i] \in {"active", "contained"}
                 /\ info[i].kind.type = type /\ info[i].kind.location = loc }
-----------------------------------------------------------------------------
(* create_incident *)

DepthOfParent(p) == IF p = None THEN 0 ELSE info[p].depth    \* mutant of DepthUnder

DepthUnder(p) == IF p = None THEN 0 ELSE info[p].depth + 1

(* The node is written, active, with a TTR drawn from the type's range. *)
CreateNode(t) ==
  /\ At(t, "create") /\ made < MaxIncidents
  /\ LET i == made + 1
         k == task[t].kind
         p == task[t].parent
     IN /\ made' = i
        /\ status' = [status EXCEPT ![i] = "active"]
        /\ \E x \in TtrSample[k.type] : ttr' = [ttr EXCEPT ![i] = x]
        /\ info' = [info EXCEPT ![i] =
                      [kind |-> k, depth |-> DepthUnder(p)]]
        /\ task' = [task EXCEPT ![t].inc = i, ![t].pc = "activate"]
  /\ UNCHANGED <<spawned, memory, emitted, bounds>>

(* The task resumes and activates the incident's protocol, if it has one. *)
ProtocolFor(i) == ProtocolOf(info[i].kind.type, info[i].kind.severity)

ActivateUnguarded(t) ==                                     \* mutant of Activate
  /\ At(t, "activate")
  /\ protocols' = protocols \cup {<<ProtocolFor(task[t].inc), task[t].inc>>}
  /\ Goto(t, IF task[t].parent = None THEN "announce" ELSE "link")
  /\ UNCHANGED <<db, cascaded, pending, category, emitted, bounds>>

Activate(t) ==
  /\ At(t, "activate")
  /\ LET i == task[t].inc
     IN protocols' = IF ProtocolFor(i) = NoProtocol THEN protocols
                     ELSE protocols \cup {<<ProtocolFor(i), i>>}
  /\ Goto(t, IF task[t].parent = None THEN "announce" ELSE "link")
  /\ UNCHANGED <<db, cascaded, pending, category, emitted, bounds>>

(* The SPAWNED relationship of a cascade child. *)
Link(t) ==
  /\ At(t, "link")
  /\ spawned' = spawned \cup {<<task[t].parent, task[t].inc>>}
  /\ Goto(t, "announce")
  /\ UNCHANGED <<made, info, status, ttr, memory, emitted, bounds>>

(* The callback publishes IncidentCreated, then awaits the broadcast. *)
Announce(t) ==
  /\ At(t, "announce")
  /\ Emit(task[t].inc, "created")
  /\ Goto(t, "cascade")
  /\ UNCHANGED <<db, memory, bounds>>

(* evaluate_cascades: past the depth limit nothing happens, not even the   *)
(* mark; otherwise an incident cascades at most once, and its rule creates *)
(* the child at once or queues it.                                         *)
Triggers(i) ==
  /\ info[i].kind.type \in DOMAIN CASCADE_RULES
  /\ SEVERITY_RANK[info[i].kind.severity]
       >= SEVERITY_RANK[CASCADE_RULES[info[i].kind.type].min]

BelowLimit(i) == info[i].depth < CASCADE_MAX_DEPTH

Cascade(t) ==
  /\ At(t, "cascade")
  /\ LET i     == task[t].inc
         may   == BelowLimit(i) /\ i \notin cascaded
         delay == CASCADE_RULES[info[i].kind.type].delay
     IN /\ cascaded' = IF BelowLimit(i) THEN cascaded \cup {i} ELSE cascaded
        /\ \/ /\ ~(may /\ Triggers(i))
              /\ Return(t) /\ UNCHANGED pending
           \/ /\ may /\ Triggers(i) /\ delay = 0
              /\ task' = [task EXCEPT ![t] = Creating(@, ChildKind(i), i)]
              /\ UNCHANGED pending
           \/ /\ may /\ Triggers(i) /\ delay > 0
              /\ pending' = pending \cup {<<i, delay - task[t].age>>}
              /\ Return(t)
  /\ UNCHANGED <<db, protocols, category, emitted, bounds>>
-----------------------------------------------------------------------------
(* contain_incident *)

ContainReadAnyOpen(t) ==                                    \* mutant of ContainRead
  /\ At(t, "containRead")
  /\ IF status[task[t].inc] # "contained" THEN Goto(t, "containWrite") ELSE Return(t)
  /\ UNCHANGED <<db, memory, emitted, bounds>>

ContainRead(t) ==
  /\ At(t, "containRead")
  /\ IF status[task[t].inc] = "active" THEN Goto(t, "containWrite") ELSE Return(t)
  /\ UNCHANGED <<db, memory, emitted, bounds>>

ContainWrite(t) ==
  /\ At(t, "containWrite")
  /\ status' = [status EXCEPT ![task[t].inc] = "contained"]
  /\ Goto(t, "containNotify")
  /\ UNCHANGED <<made, info, ttr, spawned, memory, emitted, bounds>>

ContainNotify(t) ==
  /\ At(t, "containNotify")
  /\ Emit(task[t].inc, "contained")
  /\ Return(t)
  /\ UNCHANGED <<db, memory, bounds>>
-----------------------------------------------------------------------------
(* resolve_incident *)

ResolveRead(t) ==
  /\ At(t, "resolveRead")
  /\ IF status[task[t].inc] = "resolved" THEN Return(t) ELSE Goto(t, "resolveWrite")
  /\ UNCHANGED <<db, memory, emitted, bounds>>

ResolveWrite(t) ==
  /\ At(t, "resolveWrite")
  /\ status' = [status EXCEPT ![task[t].inc] = "resolved"]
  /\ Goto(t, "deactivate")
  /\ UNCHANGED <<made, info, ttr, spawned, memory, emitted, bounds>>

DeactivateForgotten(t) ==                                   \* mutant of Deactivate
  /\ At(t, "deactivate") /\ Goto(t, "children")
  /\ UNCHANGED <<db, memory, emitted, bounds>>

Deactivate(t) ==
  /\ At(t, "deactivate")
  /\ protocols' = protocols \ {<<ProtocolFor(task[t].inc), task[t].inc>>}
  /\ Goto(t, "children")
  /\ UNCHANGED <<db, cascaded, pending, category, emitted, bounds>>

(* MATCH (root)-[:SPAWNED*1..5]->(child) *)
Children(S) == { c \in Made : \E p \in S : <<p, c>> \in spawned }

DirectChildren(i) == Children({i})                          \* mutant of Descendants

Descendants(i) ==
  LET d1 == Children({i})
      d2 == Children(d1)
      d3 == Children(d2)
      d4 == Children(d3)
      d5 == Children(d4)
  IN  d1 \cup d2 \cup d3 \cup d4 \cup d5

ResolveChildren(t) ==
  /\ At(t, "children")
  /\ LET kids == { c \in Descendants(task[t].inc) : status[c] # "resolved" }
     IN /\ status' = [i \in Incident |-> IF i \in kids THEN "resolved" ELSE status[i]]
        /\ task' = [task EXCEPT ![t].kids = kids, ![t].pc = "notify"]
  /\ UNCHANGED <<made, info, ttr, spawned, memory, emitted, bounds>>

(* The resolved children are announced one at a time, then the incident. *)
NotifyRootOnly(t) ==                                        \* mutant of Notify
  /\ At(t, "notify")
  /\ Emit(task[t].inc, "resolved")
  /\ Return(t)
  /\ UNCHANGED <<db, memory, bounds>>

Notify(t) ==
  /\ At(t, "notify")
  /\ \/ \E c \in task[t].kids :
          /\ Emit(c, "resolved")
          /\ task' = [task EXCEPT ![t].kids = @ \ {c}]
     \/ /\ task[t].kids = {}
        /\ Emit(task[t].inc, "resolved")
        /\ Return(t)
  /\ UNCHANGED <<db, memory, bounds>>
-----------------------------------------------------------------------------
(* Containment and resolution begin by reading the incident. *)
FirstStep == [contain |-> "containRead", resolve |-> "resolveRead"]

(* The REST requests.  Each keeps the simulated time at which it arrived.  *)

RestInject(t) ==
  /\ "inject" \in RestOps /\ t \in Rest /\ At(t, "idle")
  /\ SpendRoot
  /\ \E k \in Injected : task' = [task EXCEPT ![t] = Creating(@, k, None)]
  /\ UNCHANGED <<db, memory, emitted, faults>>

RestOperate(t) ==
  /\ t \in Rest /\ At(t, "idle")
  /\ \E i \in Made, op \in RestOps \ {"inject"} :
       task' = [task EXCEPT ![t].pc = FirstStep[op], ![t].inc = i]
  /\ UNCHANGED <<db, memory, emitted, bounds>>
-----------------------------------------------------------------------------
(* The consumer takes its next message when it is idle. *)

Ready == At(Consumer, "idle")

(* A ContainIncident or ResolveIncident command.  Its precondition is read *)
(* again, unchanged, by the operation itself.                              *)
OnCommand ==
  /\ Ready
  /\ \E i \in Made, op \in CommandOps :
       task' = [task EXCEPT ![Consumer].pc = FirstStep[op], ![Consumer].inc = i]
  /\ UNCHANGED <<db, memory, emitted, bounds>>

(* InjectIncident, and BaggageFlagged when a flagged bag catches fire. *)
OnInject ==
  /\ Ready /\ SpendRoot
  /\ \E k \in Injected : task' = [task EXCEPT ![Consumer] = Creating(@, k, None)]
  /\ UNCHANGED <<db, memory, emitted, faults>>

(* SecurityCongestionDetected: created unless one is open there. *)
OnDetection ==
  /\ Ready /\ SpendRoot
  /\ \E k \in Detected :
       task' = [task EXCEPT ![Consumer].pc = "find", ![Consumer].kind = k]
  /\ UNCHANGED <<db, memory, emitted, faults>>

Find(t) ==
  /\ At(t, "find")
  /\ LET k == task[t].kind
     IN IF Open(k.type, k.location) # {} THEN Return(t)
        ELSE task' = [task EXCEPT ![t] = Creating(@, k, None)]
  /\ UNCHANGED <<db, memory, emitted, bounds>>

(* WeatherStateChanged: weather-service moves by one step of severity. *)
OnWeatherChanged ==
  /\ Ready /\ WeatherChanges
  /\ \E m, n \in 1..4 :
       /\ Category[m] = category /\ (n = m + 1 \/ n + 1 = m)
       /\ category' = Category[n]
       /\ \/ /\ Category[n] \in Low
             /\ SpendRoot
             /\ task' = [task EXCEPT ![Consumer].pc = "find",
                           ![Consumer].kind =
                             Kind("severe_weather",
                                  IF Category[n] = "LIFR" THEN "critical" ELSE "medium",
                                  Airfield)]
          \/ /\ Category[n] \notin Low /\ Category[m] \in Low
             /\ task' = [task EXCEPT ![Consumer].pc = "findWeather"]
             /\ UNCHANGED roots
          \/ /\ Category[n] \notin Low /\ Category[m] \notin Low
             /\ UNCHANGED <<task, roots>>
  /\ UNCHANGED <<db, protocols, cascaded, pending, emitted, faults>>

(* The weather improved: one open incident of the airfield is resolved. *)
FindWeather(t) ==
  /\ At(t, "findWeather")
  /\ LET open == Open("severe_weather", Airfield)
     IN \/ open = {} /\ Return(t)
        \/ \E i \in open :
             task' = [task EXCEPT ![t].pc = "resolveRead", ![t].inc = i]
  /\ UNCHANGED <<db, memory, emitted, bounds>>

Countdowns == { i \in Made : status[i] = "active" /\ ttr[i] # NoTtr }

MaxDelay == 5    \* the longest delay of CASCADE_RULES

Older(tk, d) == IF tk.pc = "idle" THEN tk
                ELSE [tk EXCEPT !.age = IF @ + d > MaxDelay THEN MaxDelay ELSE @ + d]

(* SimClockTick: the clock moves on by d minutes and the active incidents  *)
(* that have a countdown are listed; the loop writes the counts it read    *)
(* then.                                                                   *)
OnTick ==
  /\ Ready
  /\ \E d \in Deltas :
       /\ pending' = { <<e[1], IF e[2] > d THEN e[2] - d ELSE 0>> : e \in pending }
       /\ task' = [t \in Task |->
            IF t = Consumer
            THEN [Idle EXCEPT !.pc = "next", !.stage = "ttr",
                              !.todo = { <<i, ttr[i] - d>> : i \in Countdowns }]
            ELSE Older(task[t], d)]
  /\ UNCHANGED <<db, protocols, cascaded, category, emitted, bounds>>

(* AutonomousActionApplied: the same list, cut to the types the action     *)
(* concerns, with what the reduction leaves of each count.                 *)
OnRecommendationApplied ==
  /\ Ready
  /\ \E a \in Actions :
       task' = [task EXCEPT ![Consumer].pc = "next", ![Consumer].stage = "reduce",
                  ![Consumer].todo =
                    { <<i, ReducedTtr(ttr[i], a)>> :
                        i \in { j \in Countdowns : /\ info[j].kind.type \in ACTION_INCIDENT_MAP[a]
                                                   /\ ttr[j] > 0 } }]
  /\ UNCHANGED <<db, memory, emitted, bounds>>

(* One turn of the loop of tick_ttr or apply_recommendation_ttr_reduction. *)
NextCountdownBelow(t) ==                                    \* mutant of NextCountdown
  /\ At(t, "next") /\ task[t].stage \in {"ttr", "reduce"}
  /\ \E e \in task[t].todo :
       /\ ttr' = [ttr EXCEPT ![e[1]] = IF e[2] < 0 THEN 0 ELSE e[2]]
       /\ task' = [task EXCEPT ![t] =
                     [@ EXCEPT !.todo = @ \ {e},
                               !.pc   = IF ttr'[e[1]] < 0 THEN "resolveRead" ELSE "next",
                               !.inc  = IF ttr'[e[1]] < 0 THEN e[1] ELSE None]]
  /\ UNCHANGED <<made, info, status, spawned, memory, emitted, bounds>>

Counted(tk, e) ==
  [tk EXCEPT !.todo = @ \ {e},
             !.pc   = IF e[2] <= 0 THEN "resolveRead" ELSE "next",
             !.inc  = IF e[2] <= 0 THEN e[1] ELSE None]

NextCountdown(t) ==
  /\ At(t, "next") /\ task[t].stage \in {"ttr", "reduce"}
  /\ \E e \in task[t].todo :
       /\ ttr' = [ttr EXCEPT ![e[1]] = e[2]]
       /\ task' = [task EXCEPT ![t] = Counted(@, e)]
  /\ UNCHANGED <<made, info, status, spawned, memory, emitted, bounds>>

EndReduce(t) ==
  /\ At(t, "next") /\ task[t].stage = "reduce" /\ task[t].todo = {}
  /\ task' = [task EXCEPT ![t] = Idle]
  /\ UNCHANGED <<db, memory, emitted, bounds>>

(* fire_pending_cascades: the due ones leave the list before any is fired. *)
Due == { e \in pending : e[2] <= 0 }

StillPendingAll  == pending                                 \* mutant of StillPending
StillPendingNone == {}                                      \* mutant of StillPending

StillPending == pending \ Due

TakeDue(t) ==
  /\ At(t, "next") /\ task[t].stage = "ttr" /\ task[t].todo = {}
  /\ pending' = StillPending
  /\ task' = [task EXCEPT ![t].stage = "fire", ![t].due = { e[1] : e \in Due }]
  /\ UNCHANGED <<db, protocols, cascaded, category, emitted, bounds>>

Fired(tk, p) == [Creating(tk, ChildKind(p), p) EXCEPT !.due = @ \ {p}]

FireDue(t) ==
  /\ At(t, "next") /\ task[t].stage = "fire"
  /\ \E p \in task[t].due : task' = [task EXCEPT ![t] = Fired(@, p)]
  /\ UNCHANGED <<db, memory, emitted, bounds>>

(* The hourly draw: any of the drawn kinds may come up. *)
Draw(t) ==
  /\ At(t, "next") /\ task[t].stage = "fire" /\ task[t].due = {}
  /\ \E K \in SUBSET Drawn :
       /\ roots + Cardinality(K) <= MaxRoots
       /\ roots' = roots + Cardinality(K)
       /\ task' = [task EXCEPT ![t].stage = "draw", ![t].draws = K]
  /\ UNCHANGED <<db, memory, emitted, faults>>

NextDraw(t) ==
  /\ At(t, "next") /\ task[t].stage = "draw"
  /\ \/ \E k \in task[t].draws :
          task' = [task EXCEPT ![t].draws = @ \ {k}, ![t].kind = k, ![t].pc = "find"]
     \/ /\ task[t].draws = {}
        /\ task' = [task EXCEPT ![t] = Idle]
  /\ UNCHANGED <<db, memory, emitted, bounds>>
-----------------------------------------------------------------------------
(* Faults: a query fails and the exception ends the task; the process      *)
(* crashes, its memory is empty at the next start and nothing rebuilds it. *)

Fail(t) ==
  /\ faults < MaxFaults /\ ~At(t, "idle")
  /\ faults' = faults + 1
  /\ task' = [task EXCEPT ![t] = Idle]
  /\ UNCHANGED <<db, memory, emitted, roots>>

Restart ==
  /\ faults < MaxFaults
  /\ faults' = faults + 1
  /\ protocols' = {} /\ cascaded' = {} /\ pending' = {}
  /\ category' = "CAVOK"
  /\ task' = [t \in Task |-> Idle]
  /\ UNCHANGED <<db, emitted, roots>>

Step(t) ==
  \/ CreateNode(t) \/ Activate(t) \/ Link(t) \/ Announce(t) \/ Cascade(t)
  \/ ContainRead(t) \/ ContainWrite(t) \/ ContainNotify(t)
  \/ ResolveRead(t) \/ ResolveWrite(t) \/ Deactivate(t) \/ ResolveChildren(t) \/ Notify(t)
  \/ Find(t) \/ FindWeather(t)
  \/ NextCountdown(t) \/ EndReduce(t) \/ TakeDue(t) \/ FireDue(t) \/ Draw(t) \/ NextDraw(t)

Request(t) == RestInject(t) \/ RestOperate(t)

Message == \/ OnCommand \/ OnInject \/ OnDetection \/ OnWeatherChanged
           \/ OnTick \/ OnRecommendationApplied

Next ==
  \/ \E t \in Task : Step(t) \/ Fail(t)
  \/ \E t \in Rest : Request(t)
  \/ Message \/ Restart

Spec == Init /\ [][Next]_vars

(***************************************************************************)
(* The event loop runs every task that can run.  Kafka delivers the ticks  *)
(* for ever and every batch the consumer polls ends with the latest tick   *)
(* it holds, so between two ticks only finitely many messages are handled. *)
(***************************************************************************)
Fairness ==
  /\ \A t \in Task : WF_vars(Step(t))
  /\ SF_vars(OnTick)

FairSpec == Spec /\ Fairness
-----------------------------------------------------------------------------
(* Properties *)

Pc == {"idle", "create", "activate", "link", "announce", "cascade",
       "containRead", "containWrite", "containNotify",
       "resolveRead", "resolveWrite", "deactivate", "children", "notify",
       "find", "findWeather", "next"}

Status == {"active", "contained", "resolved"}
Event  == {"created", "contained", "resolved"}
Stage  == {"none", "ttr", "reduce", "fire", "draw"}
Ttr    == Int \cup {NoTtr}
KindOf == [type : Type, severity : Severity, location : Location]

TaskState ==
  [pc : Pc, inc : 0..MaxIncidents, kind : KindOf \cup {NoKind}, parent : 0..MaxIncidents,
   kids : SUBSET Incident, stage : Stage, todo : SUBSET (Incident \X Int),
   due : SUBSET Incident, draws : SUBSET Drawn, age : 0..MaxDelay]

NodesTyped ==
  /\ made \in 0..MaxIncidents
  /\ info \in [Incident -> [kind : KindOf \cup {NoKind}, depth : Nat]]
  /\ status \in [Incident -> Status \cup {"none"}]
  /\ \A i \in Incident : /\ (status[i] = "none") <=> (i \notin Made)
                         /\ (info[i].kind = NoKind) <=> (i \notin Made)
  /\ ttr \in [Incident -> Ttr]
  /\ spawned \in SUBSET (Incident \X Incident)

MemoryTyped ==
  /\ protocols \in SUBSET (Protocol \X Incident)
  /\ cascaded \in SUBSET Incident
  /\ pending \in SUBSET (Incident \X Int)
  /\ category \in {Category[n] : n \in 1..4}

CountsTyped ==
  /\ emitted \in [Incident -> Seq(Event)]
  /\ roots \in 0..MaxRoots
  /\ faults \in 0..MaxFaults

(* Every variable has its type; exactly the made incidents have a status    *)
(* and a kind; a protocol is only held by an incident whose type and        *)
(* severity activate one (the `if protocol:` of create_incident).           *)
TypeOK == NodesTyped /\ MemoryTyped /\ CountsTyped /\ task \in [Task -> TaskState]

Quiet == \A t \in Task : At(t, "idle")

(* The SPAWNED relationships form a forest that grows downwards: a child is *)
(* made after its parent, one level below it, under that parent only, and   *)
(* no deeper than CASCADE_MAX_DEPTH -- whatever the interleaving of the     *)
(* tick, the messages, the requests, the crashes and the failed queries.    *)
CascadeForest ==
  /\ \A e \in spawned : /\ e[1] < e[2] /\ e[2] <= made
                        /\ info[e[2]].depth = info[e[1]].depth + 1
  /\ \A e, f \in spawned : e[2] = f[2] => e = f
  /\ \A i \in Made : info[i].depth <= CASCADE_MAX_DEPTH

(* An incident cascades at most once: no parent has two children, even when *)
(* a delayed cascade, a crash and a restart come between the queueing and   *)
(* the firing, and evaluate_cascades never meets an incident it has marked. *)
CascadesOnce ==
  /\ \A e, f \in spawned : e[1] = f[1] => e = f
  /\ \A t \in Task : At(t, "cascade") => task[t].inc \notin cascaded

(* VALID_TRANSITIONS: resolved is final, contained leads only to resolved.  *)
(* So while the consumer works alone; ResolvedIsFinal shows REST breaking it. *)
StatusMovesForward ==
  [][\A i \in Incident : /\ status[i] = "resolved"  => status'[i] = "resolved"
                         /\ status[i] = "contained" => status'[i] # "active"]_vars

(* ProtocolManager holds exactly the protocols of the unresolved incidents  *)
(* whenever no handler runs: no protocol outlives its incident, also when   *)
(* the incident is resolved through an ancestor (whose handler deactivates  *)
(* only its own protocol), and none is missing.                             *)
ProtocolsMatchIncidents ==
  Quiet => protocols = { <<ProtocolFor(i), i>> :
                           i \in { j \in Made : /\ status[j] # "resolved"
                                                /\ ProtocolFor(j) # NoProtocol } }

(* What subscribers were last told of an incident is what Neo4j holds, each *)
(* incident was announced before anything else was said of it, and its      *)
(* resolution was said once -- for the children of a resolved incident too. *)
LastEvent(i) == IF emitted[i] = <<>> THEN "nothing" ELSE emitted[i][Len(emitted[i])]

EventsMatchStatus ==
  Quiet => \A i \in Made :
    /\ LastEvent(i) = (IF status[i] = "active" THEN "created" ELSE status[i])
    /\ emitted[i][1] = "created"
    /\ \A m, n \in DOMAIN emitted[i] : emitted[i][m] = emitted[i][n] => m = n

(* Every resolution that reached Neo4j is announced to the subscribers once *)
(* the requests are served, whichever of several racing requests made it,   *)
(* as long as no task is cut short by a crash or a failed query.            *)
ResolutionsAnnounced ==
  Quiet /\ faults = 0 => \A i \in Made : status[i] = "resolved" =>
             \E n \in DOMAIN emitted[i] : emitted[i][n] = "resolved"

(* Resolving an incident resolves its subtree: a child survives its parent  *)
(* only where a delayed cascade made it after the parent was resolved.      *)
OrphansAreDelayed ==
  Quiet => \A e \in spawned :
    status[e[1]] = "resolved" /\ status[e[2]] # "resolved"
      => CASCADE_RULES[info[e[1]].kind.type].delay > 0

Unresolved(type, loc) ==
  { i \in Made : /\ status[i] # "resolved"
                 /\ info[i].kind.type = type /\ info[i].kind.location = loc }

(* Weather changes, detections and draws look for an open incident of their *)
(* type and place first, so that there are never two.  And the airfield has *)
(* an open severe_weather incident exactly while the weather is low, where  *)
(* nobody resolves it by hand.                                              *)
OneOpenPerPlace ==
  Quiet =>
    /\ \A k \in Detected \cup Drawn : Cardinality(Unresolved(k.type, k.location)) <= 1
    /\ Cardinality(Unresolved("severe_weather", Airfield)) = (IF category \in Low THEN 1 ELSE 0)

(* An active incident with a countdown is eventually resolved or contained. *)
CountdownElapses ==
  \A i \in Incident : (status[i] = "active" /\ ttr[i] # NoTtr) ~> (status[i] # "active")

(* A queued cascade eventually makes its child.                             *)
PendingFires ==
  \A i \in Incident : (\E e \in pending : e[1] = i) ~> (\E e \in spawned : e[1] = i)
-----------------------------------------------------------------------------
(* What the documentation says and the code does not do (README, Findings). *)

(* VALID_TRANSITIONS: "resolved" has no successor.  A request that read     *)
(* `active' before another resolved the incident writes `contained' after.  *)
ResolvedIsFinal ==
  [][\A i \in Incident : status[i] = "resolved" => status'[i] = "resolved"]_vars
=============================================================================
