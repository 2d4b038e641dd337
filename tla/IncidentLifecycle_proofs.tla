---------------------- MODULE IncidentLifecycle_proofs ----------------------
(***************************************************************************)
(* What IncidentLifecycle guarantees for any number of incidents, requests,*)
(* kinds, crashes and failed queries.                                      *)
(*                                                                         *)
(* TypeOK is not inductive: that a task creates a well-formed incident, or *)
(* resolves one that exists, depends on what it was handed when it began.  *)
(* TypeInv adds what every task, and every queued cascade, refers to.      *)
(***************************************************************************)
EXTENDS IncidentLifecycle, TLAPS, FiniteSetTheorems

(* The incidents that have a cascade rule: only they may become a parent.  *)
Cascading == { i \in Made : info[i].kind.type \in DOMAIN CASCADE_RULES }

(* The steps that work on an incident. *)
Working == {"activate", "link", "announce", "cascade",
            "containRead", "containWrite", "containNotify",
            "resolveRead", "resolveWrite", "deactivate", "children", "notify"}

TaskOK(tk) ==
  /\ tk.kids \subseteq Made
  /\ tk.due \subseteq Cascading
  /\ \A e \in tk.todo : e[1] \in Made
  /\ tk.pc \in {"create", "find"} => tk.kind \in KindOf
  /\ tk.pc \in Working => tk.inc \in Made
  /\ tk.parent \in Made \cup {None}
  /\ tk.pc = "link" => tk.parent \in Made

TasksOK == task \in [Task -> TaskState] /\ \A t \in Task : TaskOK(task[t])

PendingOK == \A e \in pending : e[1] \in Cascading

TypeInv == NodesTyped /\ MemoryTyped /\ CountsTyped /\ TasksOK /\ PendingOK
-----------------------------------------------------------------------------
(* The constant tables. *)

LEMMA RulesTyped ==
  \A ty \in DOMAIN CASCADE_RULES :
    /\ ty \in Type
    /\ CASCADE_RULES[ty].child \in Type
    /\ CASCADE_RULES[ty].severity \in Severity
    /\ CASCADE_RULES[ty].delay \in Nat
  BY DEF CASCADE_RULES, Rule, Type, TTR_RANGES, Severity

LEMMA RangesTyped == \A ty \in Type : TTR_RANGES[ty] \subseteq Ttr
  BY DEF Type, TTR_RANGES, Ttr

LEMMA ReducedTyped ==
  ASSUME NEW n \in Int, NEW a \in ActionType
  PROVE  ReducedTtr(n, a) \in Int
<1>1. REDUCTION_PERCENT[a] \in Int
  BY DEF ActionType, ACTION_INCIDENT_MAP, REDUCTION_PERCENT
<1>2. n * REDUCTION_PERCENT[a] \in Int
  BY <1>1
<1>3. (n * REDUCTION_PERCENT[a]) \div 100 \in Int
  BY <1>2
<1> QED
  BY <1>3 DEF ReducedTtr

LEMMA ProtocolTyped ==
  ASSUME NEW ty, NEW sev, ProtocolOf(ty, sev) # NoProtocol
  PROVE  ProtocolOf(ty, sev) \in Protocol
  BY DEF ProtocolOf, Protocol, NoProtocol

(* "none" is no type, so that NoKind is told from every kind. *)
LEMMA NoKindIsNoKind == NoKind \notin KindOf
<1>1. "none" \notin Type
  BY DEF Type, TTR_RANGES
<1> QED
  BY <1>1 DEF NoKind, Kind, KindOf

LEMMA MadeInIncident ==
  ASSUME NodesTyped
  PROVE  made \in Nat /\ Made \subseteq Incident
  BY BoundsAssumption DEF NodesTyped, Made, Incident

LEMMA MadeHasKind ==
  ASSUME NodesTyped, NEW i \in Made
  PROVE  /\ info[i] \in [kind : KindOf, depth : Nat]
         /\ info[i].kind \in KindOf
         /\ info[i].depth \in Nat
<1>1. i \in Incident
  BY MadeInIncident
<1>2. info[i].kind # NoKind
  BY <1>1 DEF NodesTyped
<1>3. info[i] \in [kind : KindOf \cup {NoKind}, depth : Nat]
  BY <1>1 DEF NodesTyped
<1> QED
  BY <1>2, <1>3

LEMMA ChildTyped ==
  ASSUME NodesTyped, NEW p \in Cascading
  PROVE  ChildKind(p) \in KindOf
<1>1. info[p].kind \in KindOf
  BY MadeHasKind DEF Cascading
<1> QED
  BY <1>1, RulesTyped DEF Cascading, ChildKind, Kind, KindOf
-----------------------------------------------------------------------------
LEMMA InitTypeInv == Init => TypeInv
<1> SUFFICES ASSUME Init PROVE TypeInv
  OBVIOUS
<1> USE DEF Init
<1>1. NodesTyped
  BY BoundsAssumption DEF NodesTyped, Made, Ttr, Status
<1>2. MemoryTyped
  BY DEF MemoryTyped, Category
<1>3. CountsTyped
  BY BoundsAssumption DEF CountsTyped
<1>4. Idle \in TaskState /\ TaskOK(Idle)
  BY BoundsAssumption DEF Idle, TaskState, TaskOK, Pc, Stage, None, MaxDelay, Working
<1>5. TasksOK /\ PendingOK
  BY <1>4 DEF TasksOK, PendingOK
<1> QED
  BY <1>1, <1>2, <1>3, <1>5 DEF TypeInv
-----------------------------------------------------------------------------
(* What the changes of the tasks have in common: a task is replaced by one  *)
(* that refers to what exists, while the nodes keep their kinds.            *)

LEMMA TaskReplaced ==
  ASSUME TasksOK, NEW t \in Task, NEW tk, tk \in TaskState, TaskOK(tk),
         task' = [task EXCEPT ![t] = tk], UNCHANGED <<made, info>>
  PROVE  TasksOK'
<1>1. task' \in [Task -> TaskState]
  BY DEF TasksOK
<1>2. \A u \in Task : TaskOK(task'[u])
  BY DEF TasksOK
<1>3. \A u \in Task : TaskOK(task[u])'
  BY <1>2 DEF TaskOK, Made, Cascading
<1> QED
  BY <1>1, <1>3 DEF TasksOK

LEMMA TasksSame ==
  ASSUME TasksOK, UNCHANGED <<made, info, task>>
  PROVE  TasksOK'
  BY DEF TasksOK, TaskOK, Made, Cascading

LEMMA IdleOK == Idle \in TaskState /\ TaskOK(Idle)
  BY BoundsAssumption DEF Idle, TaskState, TaskOK, Pc, Stage, None, MaxDelay, Working

LEMMA TaskTyped ==
  ASSUME TasksOK, NEW t \in Task
  PROVE  task[t] \in TaskState /\ TaskOK(task[t])
  BY DEF TasksOK

LEMMA GotoStep ==
  ASSUME TasksOK, NEW t \in Task, NEW l \in Pc, l \notin {"create", "find"},
         l \in Working => task[t].inc \in Made,
         l = "link" => task[t].parent \in Made,
         Goto(t, l), UNCHANGED <<made, info>>
  PROVE  TasksOK'
<1> DEFINE tk == [task[t] EXCEPT !.pc = l]
<1>1. task[t] \in TaskState /\ TaskOK(task[t])
  BY TaskTyped
<1>2. tk \in TaskState
  BY <1>1 DEF TaskState
<1>3. TaskOK(tk)
  BY <1>1 DEF TaskOK, TaskState
<1>4. task' = [task EXCEPT ![t] = tk]
  BY DEF Goto
<1> HIDE DEF tk
<1> QED
  BY <1>2, <1>3, <1>4, TaskReplaced

LEMMA ReturnedOK ==
  ASSUME NEW tk \in TaskState, TaskOK(tk)
  PROVE  Returned(tk) \in TaskState /\ TaskOK(Returned(tk))
<1>1. CASE tk.stage = "none"
  BY <1>1, IdleOK DEF Returned
<1>2. CASE tk.stage # "none"
  <2> DEFINE r == [tk EXCEPT !.pc = "next", !.inc = None, !.kind = NoKind,
                             !.parent = None, !.kids = {}]
  <2>0. /\ "next" \in Pc /\ None \in 0..MaxIncidents
        /\ NoKind \in KindOf \cup {NoKind} /\ {} \in SUBSET Incident
    BY BoundsAssumption DEF Pc, None
  <2>1. r \in TaskState
    BY <2>0 DEF TaskState
  <2>2. TaskOK(r)
    BY DEF TaskOK, TaskState, Working
  <2> QED
    BY <1>2, <2>1, <2>2 DEF Returned
<1> QED
  BY <1>1, <1>2

LEMMA ReturnStep ==
  ASSUME TasksOK, NEW t \in Task, Return(t), UNCHANGED <<made, info>>
  PROVE  TasksOK'
<1>1. Returned(task[t]) \in TaskState /\ TaskOK(Returned(task[t]))
  BY TaskTyped, ReturnedOK
<1>2. task' = [task EXCEPT ![t] = Returned(task[t])]
  BY DEF Return
<1> QED
  BY <1>1, <1>2, TaskReplaced

(* A task that begins a creation, from wherever it stands.                 *)
LEMMA CreatingOK ==
  ASSUME NEW tk \in TaskState, TaskOK(tk), NEW k \in KindOf, NEW p \in Made \cup {None},
         Made \subseteq Incident
  PROVE  Creating(tk, k, p) \in TaskState /\ TaskOK(Creating(tk, k, p))
<1>1. /\ p \in 0..MaxIncidents /\ None \in 0..MaxIncidents
      /\ "create" \in Pc /\ k \in KindOf \cup {NoKind}
  BY BoundsAssumption DEF Incident, None, Pc
<1>2. Creating(tk, k, p) \in TaskState
  BY <1>1 DEF Creating, TaskState
<1>3. TaskOK(Creating(tk, k, p))
  BY DEF Creating, TaskOK, TaskState, Working
<1> QED
  BY <1>2, <1>3
-----------------------------------------------------------------------------
(* What a step leaves alone keeps its type. *)

LEMMA NodesSame ==
  ASSUME NodesTyped, UNCHANGED db PROVE NodesTyped'
  BY DEF NodesTyped, db, Made

LEMMA MemorySame ==
  ASSUME MemoryTyped, UNCHANGED memory PROVE MemoryTyped'
  BY DEF MemoryTyped, memory

LEMMA CountsSame ==
  ASSUME CountsTyped, UNCHANGED <<emitted, bounds>> PROVE CountsTyped'
  BY DEF CountsTyped, bounds

LEMMA PendingSame ==
  ASSUME PendingOK, UNCHANGED <<made, info, pending>> PROVE PendingOK'
  BY DEF PendingOK, Cascading, Made

(* A step that only moves its task on. *)
LEMMA OnlyTask ==
  ASSUME TypeInv, TasksOK', UNCHANGED <<db, memory, emitted, bounds>>
  PROVE  TypeInv'
<1>1. UNCHANGED <<made, info, pending>>
  BY DEF db, memory
<1> QED
  BY <1>1, NodesSame, MemorySame, CountsSame, PendingSame DEF TypeInv

LEMMA EmitTyped ==
  ASSUME CountsTyped, NEW i \in Incident, NEW event \in Event, Emit(i, event),
         UNCHANGED bounds
  PROVE  CountsTyped'
<1>1. Append(emitted[i], event) \in Seq(Event)
  BY DEF CountsTyped
<1>2. emitted' \in [Incident -> Seq(Event)]
  BY <1>1 DEF CountsTyped, Emit
<1> QED
  BY <1>2 DEF CountsTyped, bounds

(* The incident a working task refers to. *)
LEMMA WorksOnMade ==
  ASSUME NodesTyped, TasksOK, NEW t \in Task, task[t].pc \in Working
  PROVE  task[t].inc \in Made /\ task[t].inc \in Incident
  BY MadeInIncident, TaskTyped DEF TaskOK
-----------------------------------------------------------------------------
(* create_incident *)

LEMMA CreateNodeStep ==
  ASSUME TypeInv, NEW t \in Task, CreateNode(t)
  PROVE  TypeInv'
<1> DEFINE i == made + 1
           k == task[t].kind
           tk == [task[t] EXCEPT !.inc = i, !.pc = "activate"]
<1>1. /\ NodesTyped /\ MemoryTyped /\ CountsTyped /\ TasksOK /\ PendingOK
      /\ task[t].pc = "create" /\ made < MaxIncidents
      /\ made' = i
      /\ status' = [status EXCEPT ![i] = "active"]
      /\ \E x \in TtrSample[k.type] : ttr' = [ttr EXCEPT ![i] = x]
      /\ info' = [info EXCEPT ![i] = [kind |-> k, depth |-> DepthUnder(task[t].parent)]]
      /\ task' = [task EXCEPT ![t] = tk]
      /\ UNCHANGED <<spawned, memory, emitted, bounds>>
  BY DEF TypeInv, CreateNode, At, TasksOK
<1>2. /\ made \in Nat /\ i \in Incident /\ i \notin Made
      /\ Made' = Made \cup {i}
      /\ Made \subseteq Incident
  BY <1>1, BoundsAssumption DEF NodesTyped, Made, Incident
<1>3. task[t] \in TaskState /\ TaskOK(task[t])
  BY <1>1, TaskTyped
<1>4. k \in KindOf /\ task[t].parent \in Made \cup {None}
  BY <1>1, <1>3 DEF TaskOK
<1>5. DepthUnder(task[t].parent) \in Nat
  BY <1>1, <1>4, MadeHasKind DEF DepthUnder
<1>6. NodesTyped'
  <2>1. made' \in 0..MaxIncidents
    BY <1>1, <1>2, BoundsAssumption
  <2>2. /\ info' \in [Incident -> [kind : KindOf \cup {NoKind}, depth : Nat]]
        /\ info'[i].kind = k
        /\ \A j \in Incident \ {i} : info'[j] = info[j]
    BY <1>1, <1>2, <1>4, <1>5 DEF NodesTyped
  <2>3. /\ status' \in [Incident -> Status \cup {"none"}]
        /\ status'[i] = "active"
        /\ \A j \in Incident \ {i} : status'[j] = status[j]
    BY <1>1, <1>2 DEF NodesTyped, Status
  <2>4. k # NoKind
    BY <1>4, NoKindIsNoKind
  <2>5. \A j \in Incident : /\ (status'[j] = "none") <=> (j \notin Made')
                            /\ (info'[j].kind = NoKind) <=> (j \notin Made')
    BY <1>1, <1>2, <2>2, <2>3, <2>4 DEF NodesTyped
  <2>6. ttr' \in [Incident -> Ttr]
    <3>1. TtrSample[k.type] \subseteq Ttr
      BY <1>4, RangesTyped, InputAssumption DEF KindOf
    <3> QED
      BY <1>1, <1>2, <3>1 DEF NodesTyped
  <2>7. spawned' \in SUBSET (Incident \X Incident)
    BY <1>1 DEF NodesTyped
  <2> QED
    BY <2>1, <2>2, <2>3, <2>5, <2>6, <2>7 DEF NodesTyped
<1>7. MemoryTyped' /\ CountsTyped'
  BY <1>1, MemorySame, CountsSame
<1>8. \A j \in Made : info'[j] = info[j]
  BY <1>1, <1>2 DEF NodesTyped
<1>9. Cascading \subseteq Cascading'
  BY <1>2, <1>8 DEF Cascading
<1>10. TasksOK'
  <2>1. tk \in TaskState
    <3>1. i \in 0..MaxIncidents /\ "activate" \in Pc
      BY <1>1, <1>2 DEF Incident, Pc
    <3> QED
      BY <1>3, <3>1 DEF TaskState
  <2>2. task' \in [Task -> TaskState]
    BY <1>1, <2>1 DEF TasksOK
  <2>3. ASSUME NEW u \in Task, u # t
        PROVE  TaskOK(task[u])'
    <3>1. TaskOK(task[u]) /\ task'[u] = task[u]
      BY <1>1, <2>3 DEF TasksOK
    <3> QED
      BY <1>2, <1>9, <3>1 DEF TaskOK
  <2>4. TaskOK(task[t])'
    <3>1. task'[t] = tk
      BY <1>1 DEF TasksOK
    <3>2. /\ task'[t].kids = task[t].kids /\ task'[t].due = task[t].due
          /\ task'[t].todo = task[t].todo /\ task'[t].parent = task[t].parent
          /\ task'[t].pc = "activate" /\ task'[t].inc = i
      BY <1>3, <3>1 DEF TaskState
    <3> QED
      BY <1>2, <1>3, <1>4, <1>9, <3>2 DEF TaskOK
  <2> QED
    BY <2>2, <2>3, <2>4 DEF TasksOK
<1>11. PendingOK'
  BY <1>1, <1>9 DEF PendingOK, memory
<1> QED
  BY <1>6, <1>7, <1>10, <1>11 DEF TypeInv

LEMMA ActivateStep ==
  ASSUME TypeInv, NEW t \in Task, Activate(t)
  PROVE  TypeInv'
<1> DEFINE i == task[t].inc
<1>1. /\ NodesTyped /\ MemoryTyped /\ CountsTyped /\ TasksOK /\ PendingOK
      /\ task[t].pc = "activate"
      /\ protocols' = IF ProtocolFor(i) = NoProtocol THEN protocols
                      ELSE protocols \cup {<<ProtocolFor(i), i>>}
      /\ Goto(t, IF task[t].parent = None THEN "announce" ELSE "link")
      /\ UNCHANGED <<db, cascaded, pending, category, emitted, bounds>>
  BY DEF TypeInv, Activate, At
<1>2. UNCHANGED <<made, info>>
  BY <1>1 DEF db
<1>3. i \in Made /\ i \in Incident
  BY <1>1, WorksOnMade DEF Working
<1>4. TasksOK'
  <2>1. "announce" \in Pc /\ "link" \in Pc
    BY DEF Pc
  <2>2. task[t].parent \in Made \cup {None}
    BY <1>1, TaskTyped DEF TaskOK
  <2> QED
    BY <1>1, <1>2, <1>3, <2>1, <2>2, GotoStep
<1>5. MemoryTyped'
  <2>1. protocols' \in SUBSET (Protocol \X Incident)
    BY <1>1, <1>3, ProtocolTyped DEF MemoryTyped, ProtocolFor
  <2> QED
    BY <1>1, <2>1 DEF MemoryTyped
<1> QED
  BY <1>1, <1>2, <1>4, <1>5, NodesSame, CountsSame, PendingSame DEF TypeInv

LEMMA LinkStep ==
  ASSUME TypeInv, NEW t \in Task, Link(t)
  PROVE  TypeInv'
<1>1. /\ NodesTyped /\ MemoryTyped /\ CountsTyped /\ TasksOK /\ PendingOK
      /\ task[t].pc = "link"
      /\ spawned' = spawned \cup {<<task[t].parent, task[t].inc>>}
      /\ Goto(t, "announce")
      /\ UNCHANGED <<made, info, status, ttr, memory, emitted, bounds>>
  BY DEF TypeInv, Link, At
<1>2. task[t].inc \in Made /\ task[t].inc \in Incident
  BY <1>1, WorksOnMade DEF Working
<1>3. TasksOK'
  BY <1>1, <1>2, GotoStep DEF Pc
<1>4. PendingOK'
  BY <1>1, PendingSame DEF memory
<1>5. task[t].parent \in Incident
  BY <1>1, TaskTyped, MadeInIncident DEF TaskOK
<1>6. NodesTyped'
  BY <1>1, <1>2, <1>5 DEF NodesTyped, Made
<1> QED
  BY <1>1, <1>3, <1>4, <1>6, MemorySame, CountsSame DEF TypeInv

LEMMA AnnounceStep ==
  ASSUME TypeInv, NEW t \in Task, Announce(t)
  PROVE  TypeInv'
<1>1. /\ NodesTyped /\ MemoryTyped /\ CountsTyped /\ TasksOK /\ PendingOK
      /\ task[t].pc = "announce"
      /\ Emit(task[t].inc, "created")
      /\ Goto(t, "cascade")
      /\ UNCHANGED <<db, memory, bounds>>
  BY DEF TypeInv, Announce, At
<1>2. UNCHANGED <<made, info, pending>>
  BY <1>1 DEF db, memory
<1>3. task[t].inc \in Made /\ task[t].inc \in Incident
  BY <1>1, WorksOnMade DEF Working
<1>4. TasksOK'
  BY <1>1, <1>2, <1>3, GotoStep DEF Pc
<1>5. CountsTyped'
  BY <1>1, <1>3, EmitTyped DEF Event
<1> QED
  BY <1>1, <1>2, <1>4, <1>5, NodesSame, MemorySame, PendingSame DEF TypeInv

LEMMA CascadeStep ==
  ASSUME TypeInv, NEW t \in Task, Cascade(t)
  PROVE  TypeInv'
<1> DEFINE i == task[t].inc
           delay == CASCADE_RULES[info[i].kind.type].delay
<1>1. /\ NodesTyped /\ MemoryTyped /\ CountsTyped /\ TasksOK /\ PendingOK
      /\ task[t].pc = "cascade"
      /\ cascaded' = IF BelowLimit(i) THEN cascaded \cup {i} ELSE cascaded
      /\ \/ Return(t) /\ UNCHANGED pending
         \/ /\ Triggers(i)
            /\ task' = [task EXCEPT ![t] = Creating(task[t], ChildKind(i), i)]
            /\ UNCHANGED pending
         \/ /\ Triggers(i)
            /\ pending' = pending \cup {<<i, delay - task[t].age>>}
            /\ Return(t)
      /\ UNCHANGED <<db, protocols, category, emitted, bounds>>
  BY DEF TypeInv, Cascade, At
<1>2. UNCHANGED <<made, info>>
  BY <1>1 DEF db
<1>3. i \in Made /\ i \in Incident
  BY <1>1, WorksOnMade DEF Working
<1>4. Triggers(i) => i \in Cascading
  BY <1>3 DEF Triggers, Cascading
<1>5. TasksOK'
  <2>1. CASE Return(t)
    BY <1>1, <1>2, <2>1, ReturnStep
  <2>2. CASE /\ Triggers(i)
             /\ task' = [task EXCEPT ![t] = Creating(task[t], ChildKind(i), i)]
    <3>1. ChildKind(i) \in KindOf
      BY <1>1, <1>4, <2>2, ChildTyped
    <3>2. /\ Creating(task[t], ChildKind(i), i) \in TaskState
          /\ TaskOK(Creating(task[t], ChildKind(i), i))
      BY <1>1, <1>3, <3>1, MadeInIncident, TaskTyped, CreatingOK
    <3> QED
      BY <1>1, <1>2, <2>2, <3>2, TaskReplaced
  <2> QED
    BY <1>1, <2>1, <2>2
<1>6. /\ \A e \in pending' : e \in pending \/ (e[1] = i /\ Triggers(i))
      /\ pending' \in SUBSET (Incident \X Int)
  <2>1. CASE UNCHANGED pending
    BY <1>1, <2>1 DEF MemoryTyped
  <2>2. CASE Triggers(i) /\ pending' = pending \cup {<<i, delay - task[t].age>>}
    <3>1. delay \in Nat
      BY <2>2, RulesTyped DEF Triggers
    <3>2. task[t].age \in Int
      BY <1>1, TaskTyped DEF TaskState, MaxDelay
    <3>3. delay - task[t].age \in Int
      BY <3>1, <3>2
    <3> HIDE DEF delay
    <3> QED
      BY <1>1, <1>3, <2>2, <3>3 DEF MemoryTyped
  <2> QED
    BY <1>1, <2>1, <2>2
<1>7. MemoryTyped'
  BY <1>1, <1>3, <1>6 DEF MemoryTyped
<1>8. PendingOK'
  BY <1>1, <1>2, <1>4, <1>6 DEF PendingOK, Cascading, Made
<1> QED
  BY <1>1, <1>5, <1>7, <1>8, NodesSame, CountsSame DEF TypeInv
-----------------------------------------------------------------------------
(* contain_incident and resolve_incident *)

(* A write of the status of an incident that exists.                       *)
LEMMA StatusWritten ==
  ASSUME NodesTyped, NEW i \in Made, NEW st \in Status,
         status' = [status EXCEPT ![i] = st], UNCHANGED <<made, info, ttr, spawned>>
  PROVE  NodesTyped'
<1>1. i \in Incident /\ st # "none"
  BY MadeInIncident DEF Status
<1>2. status' \in [Incident -> Status \cup {"none"}]
  BY <1>1 DEF NodesTyped
<1>3. \A j \in Incident : (status'[j] = "none") <=> (j \notin Made)
  BY <1>1 DEF NodesTyped
<1> QED
  BY <1>2, <1>3 DEF NodesTyped, Made

LEMMA ContainReadStep ==
  ASSUME TypeInv, NEW t \in Task, ContainRead(t)
  PROVE  TypeInv'
<1>1. /\ NodesTyped /\ TasksOK /\ task[t].pc = "containRead"
      /\ Goto(t, "containWrite") \/ Return(t)
      /\ UNCHANGED <<db, memory, emitted, bounds>>
  BY DEF TypeInv, ContainRead, At
<1>2. UNCHANGED <<made, info>>
  BY <1>1 DEF db
<1>3. task[t].inc \in Made
  BY <1>1, WorksOnMade DEF Working
<1>4. TasksOK'
  BY <1>1, <1>2, <1>3, GotoStep, ReturnStep DEF Pc
<1> QED
  BY <1>1, <1>4, OnlyTask

LEMMA ContainWriteStep ==
  ASSUME TypeInv, NEW t \in Task, ContainWrite(t)
  PROVE  TypeInv'
<1>1. /\ NodesTyped /\ MemoryTyped /\ CountsTyped /\ TasksOK /\ PendingOK
      /\ task[t].pc = "containWrite"
      /\ status' = [status EXCEPT ![task[t].inc] = "contained"]
      /\ Goto(t, "containNotify")
      /\ UNCHANGED <<made, info, ttr, spawned, memory, emitted, bounds>>
  BY DEF TypeInv, ContainWrite, At
<1>2. task[t].inc \in Made
  BY <1>1, WorksOnMade DEF Working
<1>3. TasksOK'
  BY <1>1, <1>2, GotoStep DEF Pc
<1>4. NodesTyped'
  BY <1>1, <1>2, StatusWritten DEF Status
<1>5. PendingOK'
  BY <1>1, PendingSame DEF memory
<1> QED
  BY <1>1, <1>3, <1>4, <1>5, MemorySame, CountsSame DEF TypeInv

LEMMA ContainNotifyStep ==
  ASSUME TypeInv, NEW t \in Task, ContainNotify(t)
  PROVE  TypeInv'
<1>1. /\ NodesTyped /\ MemoryTyped /\ CountsTyped /\ TasksOK /\ PendingOK
      /\ task[t].pc = "containNotify"
      /\ Emit(task[t].inc, "contained")
      /\ Return(t)
      /\ UNCHANGED <<db, memory, bounds>>
  BY DEF TypeInv, ContainNotify, At
<1>2. UNCHANGED <<made, info, pending>>
  BY <1>1 DEF db, memory
<1>3. task[t].inc \in Incident
  BY <1>1, WorksOnMade DEF Working
<1>4. TasksOK'
  BY <1>1, <1>2, ReturnStep
<1>5. CountsTyped'
  BY <1>1, <1>3, EmitTyped DEF Event
<1> QED
  BY <1>1, <1>2, <1>4, <1>5, NodesSame, MemorySame, PendingSame DEF TypeInv

LEMMA ResolveReadStep ==
  ASSUME TypeInv, NEW t \in Task, ResolveRead(t)
  PROVE  TypeInv'
<1>1. /\ NodesTyped /\ TasksOK /\ task[t].pc = "resolveRead"
      /\ Goto(t, "resolveWrite") \/ Return(t)
      /\ UNCHANGED <<db, memory, emitted, bounds>>
  BY DEF TypeInv, ResolveRead, At
<1>2. UNCHANGED <<made, info>>
  BY <1>1 DEF db
<1>3. task[t].inc \in Made
  BY <1>1, WorksOnMade DEF Working
<1>4. TasksOK'
  BY <1>1, <1>2, <1>3, GotoStep, ReturnStep DEF Pc
<1> QED
  BY <1>1, <1>4, OnlyTask

LEMMA ResolveWriteStep ==
  ASSUME TypeInv, NEW t \in Task, ResolveWrite(t)
  PROVE  TypeInv'
<1>1. /\ NodesTyped /\ MemoryTyped /\ CountsTyped /\ TasksOK /\ PendingOK
      /\ task[t].pc = "resolveWrite"
      /\ status' = [status EXCEPT ![task[t].inc] = "resolved"]
      /\ Goto(t, "deactivate")
      /\ UNCHANGED <<made, info, ttr, spawned, memory, emitted, bounds>>
  BY DEF TypeInv, ResolveWrite, At
<1>2. task[t].inc \in Made
  BY <1>1, WorksOnMade DEF Working
<1>3. TasksOK'
  BY <1>1, <1>2, GotoStep DEF Pc
<1>4. NodesTyped'
  BY <1>1, <1>2, StatusWritten DEF Status
<1>5. PendingOK'
  BY <1>1, PendingSame DEF memory
<1> QED
  BY <1>1, <1>3, <1>4, <1>5, MemorySame, CountsSame DEF TypeInv

LEMMA DeactivateStep ==
  ASSUME TypeInv, NEW t \in Task, Deactivate(t)
  PROVE  TypeInv'
<1>1. /\ NodesTyped /\ MemoryTyped /\ CountsTyped /\ TasksOK /\ PendingOK
      /\ task[t].pc = "deactivate"
      /\ protocols' \subseteq protocols
      /\ Goto(t, "children")
      /\ UNCHANGED <<db, cascaded, pending, category, emitted, bounds>>
  BY DEF TypeInv, Deactivate, At
<1>2. UNCHANGED <<made, info>>
  BY <1>1 DEF db
<1>3. task[t].inc \in Made
  BY <1>1, WorksOnMade DEF Working
<1>4. TasksOK'
  BY <1>1, <1>2, <1>3, GotoStep DEF Pc
<1>5. MemoryTyped'
  BY <1>1 DEF MemoryTyped
<1> QED
  BY <1>1, <1>2, <1>4, <1>5, NodesSame, CountsSame, PendingSame DEF TypeInv

LEMMA ResolveChildrenStep ==
  ASSUME TypeInv, NEW t \in Task, ResolveChildren(t)
  PROVE  TypeInv'
<1> DEFINE kids == { c \in Descendants(task[t].inc) : status[c] # "resolved" }
           tk   == [task[t] EXCEPT !.kids = kids, !.pc = "notify"]
<1>1. /\ NodesTyped /\ MemoryTyped /\ CountsTyped /\ TasksOK /\ PendingOK
      /\ task[t].pc = "children"
      /\ status' = [i \in Incident |-> IF i \in kids THEN "resolved" ELSE status[i]]
      /\ task' = [task EXCEPT ![t] = tk]
      /\ UNCHANGED <<made, info, ttr, spawned, memory, emitted, bounds>>
  BY DEF TypeInv, ResolveChildren, At
<1>2. task[t] \in TaskState /\ TaskOK(task[t]) /\ task[t].inc \in Made
  BY <1>1, WorksOnMade, TaskTyped DEF Working
<1>3. kids \subseteq Made /\ Made \subseteq Incident
  BY <1>1, MadeInIncident DEF Descendants, Children
<1> HIDE DEF kids
<1>4. TasksOK'
  <2>1. tk \in TaskState
    <3>1. "notify" \in Pc /\ kids \in SUBSET Incident
      BY <1>3 DEF Pc
    <3> QED
      BY <1>2, <3>1 DEF TaskState
  <2>2. TaskOK(tk)
    BY <1>2, <1>3 DEF TaskOK, TaskState
  <2> QED
    BY <1>1, <2>1, <2>2, TaskReplaced
<1>5. NodesTyped'
  <2>1. status' \in [Incident -> Status \cup {"none"}]
    BY <1>1 DEF NodesTyped, Status
  <2>2. \A j \in Incident : (status'[j] = "none") <=> (j \notin Made)
    BY <1>1, <1>3 DEF NodesTyped
  <2> QED
    BY <1>1, <2>1, <2>2 DEF NodesTyped, Made
<1>6. PendingOK'
  BY <1>1, PendingSame DEF memory
<1> QED
  BY <1>1, <1>4, <1>5, <1>6, MemorySame, CountsSame DEF TypeInv

LEMMA NotifyStep ==
  ASSUME TypeInv, NEW t \in Task, Notify(t)
  PROVE  TypeInv'
<1>1. /\ NodesTyped /\ MemoryTyped /\ CountsTyped /\ TasksOK /\ PendingOK
      /\ task[t].pc = "notify"
      /\ \/ \E c \in task[t].kids :
              /\ Emit(c, "resolved")
              /\ task' = [task EXCEPT ![t].kids = @ \ {c}]
         \/ Emit(task[t].inc, "resolved") /\ Return(t)
      /\ UNCHANGED <<db, memory, bounds>>
  BY DEF TypeInv, Notify, At
<1>2. UNCHANGED <<made, info, pending>>
  BY <1>1 DEF db, memory
<1>3. TasksOK' /\ CountsTyped'
  <2>1. ASSUME NEW c \in task[t].kids, Emit(c, "resolved"),
               task' = [task EXCEPT ![t].kids = @ \ {c}]
        PROVE  TasksOK' /\ CountsTyped'
    <3> DEFINE tk == [task[t] EXCEPT !.kids = task[t].kids \ {c}]
    <3>1. task[t] \in TaskState /\ TaskOK(task[t])
      BY <1>1, TaskTyped
    <3>2. c \in Incident
      BY <1>1, <3>1, MadeInIncident DEF TaskOK
    <3>3. tk \in TaskState
      BY <3>1 DEF TaskState
    <3>4. TaskOK(tk)
      BY <3>1 DEF TaskOK, TaskState
    <3>5. task' = [task EXCEPT ![t] = tk]
      BY <2>1
    <3> HIDE DEF tk
    <3>6. TasksOK'
      BY <1>1, <1>2, <3>3, <3>4, <3>5, TaskReplaced
    <3>7. CountsTyped'
      BY <1>1, <2>1, <3>2, EmitTyped DEF Event
    <3> QED
      BY <3>6, <3>7
  <2>2. ASSUME Emit(task[t].inc, "resolved"), Return(t)
        PROVE  TasksOK' /\ CountsTyped'
    <3>1. task[t].inc \in Incident
      BY <1>1, WorksOnMade DEF Working
    <3> QED
      BY <1>1, <1>2, <2>2, <3>1, ReturnStep, EmitTyped DEF Event
  <2> QED
    BY <1>1, <2>1, <2>2
<1> QED
  BY <1>1, <1>2, <1>3, NodesSame, MemorySame, PendingSame DEF TypeInv
-----------------------------------------------------------------------------
(* Finding, and the loops of a tick and of a recommendation. *)

(* A task that goes to look whether an incident of a kind is open.         *)
LEMMA FindingOK ==
  ASSUME NEW tk \in TaskState, TaskOK(tk), NEW k \in KindOf
  PROVE  LET f == [tk EXCEPT !.pc = "find", !.kind = k]
         IN  f \in TaskState /\ TaskOK(f)
<1> DEFINE f == [tk EXCEPT !.pc = "find", !.kind = k]
<1>1. "find" \in Pc /\ k \in KindOf \cup {NoKind}
  BY DEF Pc
<1>2. f \in TaskState
  BY <1>1 DEF TaskState
<1>3. TaskOK(f)
  BY DEF TaskOK, TaskState, Working
<1> QED
  BY <1>2, <1>3

(* A task that goes to work on an incident that exists.                    *)
LEMMA OperatingOK ==
  ASSUME NodesTyped, NEW tk \in TaskState, TaskOK(tk), NEW i \in Made,
         NEW l \in {"containRead", "resolveRead"}
  PROVE  LET o == [tk EXCEPT !.pc = l, !.inc = i]
         IN  o \in TaskState /\ TaskOK(o)
<1> DEFINE o == [tk EXCEPT !.pc = l, !.inc = i]
<1>1. l \in Pc /\ i \in 0..MaxIncidents
  BY MadeInIncident DEF Pc, Incident
<1>2. o \in TaskState
  BY <1>1 DEF TaskState
<1>3. TaskOK(o)
  BY DEF TaskOK, TaskState, Working
<1> QED
  BY <1>2, <1>3

LEMMA BecomesIdle ==
  ASSUME TasksOK, NEW t \in Task, task' = [task EXCEPT ![t] = Idle],
         UNCHANGED <<made, info>>
  PROVE  TasksOK'
  BY IdleOK, TaskReplaced

LEMMA FindStep ==
  ASSUME TypeInv, NEW t \in Task, Find(t)
  PROVE  TypeInv'
<1> DEFINE k == task[t].kind
<1>1. /\ NodesTyped /\ TasksOK /\ task[t].pc = "find"
      /\ \/ Return(t)
         \/ task' = [task EXCEPT ![t] = Creating(task[t], k, None)]
      /\ UNCHANGED <<db, memory, emitted, bounds>>
  BY DEF TypeInv, Find, At
<1>2. UNCHANGED <<made, info>>
  BY <1>1 DEF db
<1>3. task[t] \in TaskState /\ TaskOK(task[t])
  BY <1>1, TaskTyped
<1>4. k \in KindOf
  BY <1>1, <1>3 DEF TaskOK
<1>5. Creating(task[t], k, None) \in TaskState /\ TaskOK(Creating(task[t], k, None))
  BY <1>1, <1>3, <1>4, MadeInIncident, CreatingOK
<1>6. TasksOK'
  BY <1>1, <1>2, <1>5, ReturnStep, TaskReplaced
<1> QED
  BY <1>1, <1>6, OnlyTask

LEMMA FindWeatherStep ==
  ASSUME TypeInv, NEW t \in Task, FindWeather(t)
  PROVE  TypeInv'
<1>1. /\ NodesTyped /\ TasksOK
      /\ \/ Return(t)
         \/ \E i \in Made : task' = [task EXCEPT ![t].pc = "resolveRead", ![t].inc = i]
      /\ UNCHANGED <<db, memory, emitted, bounds>>
  BY DEF TypeInv, FindWeather, Open
<1>2. UNCHANGED <<made, info>>
  BY <1>1 DEF db
<1>3. task[t] \in TaskState /\ TaskOK(task[t])
  BY <1>1, TaskTyped
<1>4. ASSUME NEW i \in Made, task' = [task EXCEPT ![t].pc = "resolveRead", ![t].inc = i]
      PROVE  TasksOK'
  <2> DEFINE tk == [task[t] EXCEPT !.pc = "resolveRead", !.inc = i]
  <2>1. tk \in TaskState /\ TaskOK(tk)
    BY <1>1, <1>3, OperatingOK
  <2>2. task' = [task EXCEPT ![t] = tk]
    BY <1>4 DEF TasksOK
  <2> HIDE DEF tk
  <2> QED
    BY <1>1, <1>2, <2>1, <2>2, TaskReplaced
<1>5. TasksOK'
  BY <1>1, <1>2, <1>4, ReturnStep
<1> QED
  BY <1>1, <1>5, OnlyTask

LEMMA NextCountdownStep ==
  ASSUME TypeInv, NEW t \in Task, NextCountdown(t)
  PROVE  TypeInv'
<1>1. /\ NodesTyped /\ MemoryTyped /\ CountsTyped /\ TasksOK /\ PendingOK
      /\ task[t].pc = "next"
      /\ UNCHANGED <<made, info, status, spawned, memory, emitted, bounds>>
  BY DEF TypeInv, NextCountdown, At
<1>2. PICK e \in task[t].todo :
        /\ ttr' = [ttr EXCEPT ![e[1]] = e[2]]
        /\ task' = [task EXCEPT ![t] = Counted(task[t], e)]
  BY DEF NextCountdown
<1>3. /\ task[t] \in TaskState /\ TaskOK(task[t])
      /\ e[1] \in Made /\ e[1] \in Incident /\ e[2] \in Int
  BY <1>1, TaskTyped, MadeInIncident DEF TaskOK, TaskState
<1> DEFINE tk == Counted(task[t], e)
<1>4. tk \in TaskState
  <2>1. /\ "resolveRead" \in Pc /\ "next" \in Pc
        /\ e[1] \in 0..MaxIncidents /\ None \in 0..MaxIncidents
    BY <1>3, BoundsAssumption DEF Pc, Incident, None
  <2> QED
    BY <1>3, <2>1 DEF TaskState, Counted
<1>5. TaskOK(tk)
  BY <1>3 DEF TaskOK, TaskState, Working, Counted
<1>6. TasksOK'
  <2>1. task' = [task EXCEPT ![t] = tk]
    BY <1>2
  <2> HIDE DEF tk
  <2> QED
    BY <1>1, <1>4, <1>5, <2>1, TaskReplaced
<1>7. NodesTyped'
  BY <1>1, <1>2, <1>3 DEF NodesTyped, Made, Ttr
<1>8. PendingOK'
  BY <1>1, PendingSame DEF memory
<1> QED
  BY <1>1, <1>6, <1>7, <1>8, MemorySame, CountsSame DEF TypeInv

LEMMA EndReduceStep ==
  ASSUME TypeInv, NEW t \in Task, EndReduce(t)
  PROVE  TypeInv'
<1>1. TasksOK /\ UNCHANGED <<made, info>>
  BY DEF TypeInv, EndReduce, db
<1>2. TasksOK'
  BY <1>1, BecomesIdle DEF EndReduce
<1> QED
  BY <1>2, OnlyTask DEF EndReduce

LEMMA TakeDueStep ==
  ASSUME TypeInv, NEW t \in Task, TakeDue(t)
  PROVE  TypeInv'
<1> DEFINE D  == { e[1] : e \in Due }
           tk == [task[t] EXCEPT !.stage = "fire", !.due = D]
<1>1. /\ NodesTyped /\ MemoryTyped /\ CountsTyped /\ TasksOK /\ PendingOK
      /\ task[t].pc = "next"
      /\ pending' \subseteq pending
      /\ task' = [task EXCEPT ![t] = tk]
      /\ UNCHANGED <<db, protocols, cascaded, category, emitted, bounds>>
  BY DEF TypeInv, TakeDue, At, StillPending
<1>2. UNCHANGED <<made, info>>
  BY <1>1 DEF db
<1>3. D \subseteq Cascading /\ D \subseteq Incident
  BY <1>1, MadeInIncident DEF Due, PendingOK, Cascading
<1> HIDE DEF D
<1>4. task[t] \in TaskState /\ TaskOK(task[t])
  BY <1>1, TaskTyped
<1>5. tk \in TaskState
  BY <1>3, <1>4 DEF TaskState, Stage
<1>6. TaskOK(tk)
  BY <1>1, <1>3, <1>4 DEF TaskOK, TaskState
<1>7. TasksOK'
  BY <1>1, <1>2, <1>5, <1>6, TaskReplaced
<1>8. MemoryTyped'
  BY <1>1 DEF MemoryTyped
<1>9. PendingOK'
  BY <1>1, <1>2 DEF PendingOK, Cascading, Made
<1> QED
  BY <1>1, <1>7, <1>8, <1>9, NodesSame, CountsSame DEF TypeInv

LEMMA FireDueStep ==
  ASSUME TypeInv, NEW t \in Task, FireDue(t)
  PROVE  TypeInv'
<1>1. NodesTyped /\ TasksOK /\ UNCHANGED <<made, info>>
  BY DEF TypeInv, FireDue, db
<1>2. PICK p \in task[t].due : task' = [task EXCEPT ![t] = Fired(task[t], p)]
  BY DEF FireDue
<1>3. task[t] \in TaskState /\ TaskOK(task[t]) /\ p \in Cascading /\ p \in Made
  BY <1>1, TaskTyped DEF TaskOK, Cascading
<1> DEFINE c  == Creating(task[t], ChildKind(p), p)
           tk == Fired(task[t], p)
<1>4. c \in TaskState /\ TaskOK(c)
  BY <1>1, <1>3, ChildTyped, MadeInIncident, CreatingOK
<1>5. tk = [c EXCEPT !.due = c.due \ {p}]
  BY DEF Fired
<1> HIDE DEF c, tk
<1>6. tk \in TaskState
  BY <1>4, <1>5 DEF TaskState
<1>7. TaskOK(tk)
  BY <1>4, <1>5 DEF TaskOK, TaskState
<1>8. TasksOK'
  BY <1>1, <1>2, <1>6, <1>7, TaskReplaced DEF tk
<1> QED
  BY <1>8, OnlyTask DEF FireDue

LEMMA DrawStep ==
  ASSUME TypeInv, NEW t \in Task, Draw(t)
  PROVE  TypeInv'
<1>1. /\ NodesTyped /\ MemoryTyped /\ CountsTyped /\ TasksOK /\ PendingOK
      /\ task[t].pc = "next"
      /\ UNCHANGED <<db, memory, emitted, faults>>
  BY DEF TypeInv, Draw, At
<1>2. PICK K \in SUBSET Drawn :
        /\ roots + Cardinality(K) <= MaxRoots
        /\ roots' = roots + Cardinality(K)
        /\ task' = [task EXCEPT ![t].stage = "draw", ![t].draws = K]
  BY DEF Draw
<1>3. Cardinality(K) \in Nat
  BY InputAssumption, FS_Subset, FS_CardinalityType
<1>4. CountsTyped'
  BY <1>1, <1>2, <1>3, BoundsAssumption DEF CountsTyped
<1> DEFINE tk == [task[t] EXCEPT !.stage = "draw", !.draws = K]
<1>5. task[t] \in TaskState /\ TaskOK(task[t])
  BY <1>1, TaskTyped
<1>6. tk \in TaskState
  BY <1>5 DEF TaskState, Stage
<1>7. TaskOK(tk)
  BY <1>1, <1>5 DEF TaskOK, TaskState
<1>8. task' = [task EXCEPT ![t] = tk] /\ UNCHANGED <<made, info, pending>>
  BY <1>1, <1>2 DEF db, memory
<1> HIDE DEF tk
<1>9. TasksOK'
  BY <1>1, <1>6, <1>7, <1>8, TaskReplaced
<1> QED
  BY <1>1, <1>4, <1>8, <1>9, NodesSame, MemorySame, PendingSame DEF TypeInv

LEMMA NextDrawStep ==
  ASSUME TypeInv, NEW t \in Task, NextDraw(t)
  PROVE  TypeInv'
<1>1. /\ NodesTyped /\ TasksOK /\ UNCHANGED <<made, info>>
  BY DEF TypeInv, NextDraw, db
<1>2. \/ \E k \in task[t].draws :
           task' = [task EXCEPT ![t].draws = @ \ {k}, ![t].kind = k, ![t].pc = "find"]
      \/ task' = [task EXCEPT ![t] = Idle]
  BY DEF NextDraw
<1>3. ASSUME NEW k \in task[t].draws,
             task' = [task EXCEPT ![t].draws = @ \ {k}, ![t].kind = k, ![t].pc = "find"]
      PROVE  TasksOK'
  <2> DEFINE d  == [task[t] EXCEPT !.draws = @ \ {k}]
             tk == [d EXCEPT !.pc = "find", !.kind = k]
  <2>1. task[t] \in TaskState /\ TaskOK(task[t])
    BY <1>1, TaskTyped
  <2>2. k \in KindOf
    BY <2>1, InputAssumption DEF TaskState, KindOf
  <2>3. d \in TaskState
    BY <2>1 DEF TaskState
  <2>4. TaskOK(d)
    BY <2>1 DEF TaskOK, TaskState
  <2>5. task' = [task EXCEPT ![t] = tk]
    BY <1>3, <2>1 DEF TaskState
  <2> HIDE DEF d
  <2>6. tk \in TaskState /\ TaskOK(tk)
    BY <2>2, <2>3, <2>4, FindingOK
  <2> HIDE DEF tk
  <2> QED
    BY <1>1, <2>5, <2>6, TaskReplaced
<1>4. TasksOK'
  BY <1>1, <1>2, <1>3, BecomesIdle
<1> QED
  BY <1>4, OnlyTask DEF NextDraw
-----------------------------------------------------------------------------
(* Requests, messages and faults. *)

(* A root creation spends one unit of the bound. *)
LEMMA RootSpent ==
  ASSUME CountsTyped, SpendRoot, UNCHANGED <<emitted, faults>>
  PROVE  CountsTyped'
  BY BoundsAssumption DEF CountsTyped, SpendRoot

(* The task t leaves the nodes and its memory alone, and may spend a root. *)
LEMMA OnlyTaskAndRoots ==
  ASSUME TypeInv, TasksOK', CountsTyped', UNCHANGED <<db, memory>>
  PROVE  TypeInv'
<1>1. UNCHANGED <<made, info, pending>>
  BY DEF db, memory
<1> QED
  BY <1>1, NodesSame, MemorySame, PendingSame DEF TypeInv

LEMMA InputTyped ==
  /\ Injected \subseteq KindOf /\ Detected \subseteq KindOf /\ Drawn \subseteq KindOf
  BY InputAssumption DEF KindOf

LEMMA InjectStep ==
  ASSUME TypeInv, NEW t \in Task, NEW k \in Injected, SpendRoot,
         task' = [task EXCEPT ![t] = Creating(task[t], k, None)],
         UNCHANGED <<db, memory, emitted, faults>>
  PROVE  TypeInv'
<1>1. NodesTyped /\ TasksOK /\ CountsTyped /\ UNCHANGED <<made, info>>
  BY DEF TypeInv, db
<1>2. task[t] \in TaskState /\ TaskOK(task[t])
  BY <1>1, TaskTyped
<1>3. k \in KindOf
  BY InputTyped
<1>4. Creating(task[t], k, None) \in TaskState /\ TaskOK(Creating(task[t], k, None))
  BY <1>1, <1>2, <1>3, MadeInIncident, CreatingOK
<1>5. TasksOK'
  BY <1>1, <1>4, TaskReplaced
<1> QED
  BY <1>1, <1>5, RootSpent, OnlyTaskAndRoots

LEMMA OperateStep ==
  ASSUME TypeInv, NEW t \in Task, NEW i \in Made, NEW op \in {"contain", "resolve"},
         task' = [task EXCEPT ![t].pc = FirstStep[op], ![t].inc = i],
         UNCHANGED <<db, memory, emitted, bounds>>
  PROVE  TypeInv'
<1> DEFINE tk == [task[t] EXCEPT !.pc = FirstStep[op], !.inc = i]
<1>1. NodesTyped /\ TasksOK /\ UNCHANGED <<made, info>>
  BY DEF TypeInv, db
<1>2. task[t] \in TaskState /\ TaskOK(task[t])
  BY <1>1, TaskTyped
<1>3. FirstStep[op] \in {"containRead", "resolveRead"}
  BY DEF FirstStep
<1>4. tk \in TaskState /\ TaskOK(tk)
  BY <1>1, <1>2, <1>3, OperatingOK
<1>5. task' = [task EXCEPT ![t] = tk]
  OBVIOUS
<1> HIDE DEF tk
<1>6. TasksOK'
  BY <1>1, <1>4, <1>5, TaskReplaced
<1> QED
  BY <1>6, OnlyTask

(* The task t goes to look for a kind, having spent a root. *)
LEMMA LookStep ==
  ASSUME TasksOK, NEW t \in Task, NEW k \in KindOf,
         task' = [task EXCEPT ![t].pc = "find", ![t].kind = k],
         UNCHANGED <<made, info>>
  PROVE  TasksOK'
<1> DEFINE tk == [task[t] EXCEPT !.pc = "find", !.kind = k]
<1>1. tk \in TaskState /\ TaskOK(tk)
  BY TaskTyped, FindingOK
<1>2. task' = [task EXCEPT ![t] = tk]
  OBVIOUS
<1> HIDE DEF tk
<1> QED
  BY <1>1, <1>2, TaskReplaced

LEMMA OnDetectionStep ==
  ASSUME TypeInv, OnDetection
  PROVE  TypeInv'
<1>1. /\ NodesTyped /\ TasksOK /\ CountsTyped
      /\ SpendRoot
      /\ \E k \in Detected :
           task' = [task EXCEPT ![Consumer].pc = "find", ![Consumer].kind = k]
      /\ UNCHANGED <<db, memory, emitted, faults>>
  BY DEF TypeInv, OnDetection
<1>2. UNCHANGED <<made, info>>
  BY <1>1 DEF db
<1>3. TasksOK'
  BY <1>1, <1>2, InputTyped, LookStep DEF Task
<1> QED
  BY <1>1, <1>3, RootSpent, OnlyTaskAndRoots

LEMMA OnWeatherChangedStep ==
  ASSUME TypeInv, OnWeatherChanged
  PROVE  TypeInv'
<1>1. /\ NodesTyped /\ MemoryTyped /\ CountsTyped /\ TasksOK /\ PendingOK
      /\ UNCHANGED <<db, protocols, cascaded, pending, emitted, faults>>
  BY DEF TypeInv, OnWeatherChanged
<1>2. UNCHANGED <<made, info>> /\ Consumer \in Task
  BY <1>1 DEF db, Task
<1>3. PICK m \in 1..4, n \in 1..4 :
        /\ category' = Category[n]
        /\ \/ /\ SpendRoot
              /\ task' = [task EXCEPT ![Consumer].pc = "find",
                            ![Consumer].kind =
                              Kind("severe_weather",
                                   IF Category[n] = "LIFR" THEN "critical" ELSE "medium",
                                   Airfield)]
           \/ /\ task' = [task EXCEPT ![Consumer].pc = "findWeather"]
              /\ UNCHANGED roots
           \/ UNCHANGED <<task, roots>>
  BY DEF OnWeatherChanged
<1>4. MemoryTyped'
  BY <1>1, <1>3 DEF MemoryTyped
<1>5. PendingOK'
  BY <1>1, <1>2, PendingSame
<1>6. Kind("severe_weather", IF Category[n] = "LIFR" THEN "critical" ELSE "medium", Airfield)
        \in KindOf
  <2>1. "severe_weather" \in Type
    BY DEF Type, TTR_RANGES
  <2>2. "critical" \in Severity /\ "medium" \in Severity
    BY DEF Severity
  <2>3. Airfield \in Location
    BY DEF Location
  <2> QED
    BY <2>1, <2>2, <2>3 DEF Kind, KindOf
<1>7. TasksOK' /\ CountsTyped'
  <2>1. CASE /\ SpendRoot
             /\ task' = [task EXCEPT ![Consumer].pc = "find",
                           ![Consumer].kind =
                             Kind("severe_weather",
                                  IF Category[n] = "LIFR" THEN "critical" ELSE "medium",
                                  Airfield)]
    <3>1. TasksOK'
      BY <1>1, <1>2, <1>6, <2>1, LookStep
    <3> QED
      BY <1>1, <2>1, <3>1, RootSpent
  <2>2. CASE task' = [task EXCEPT ![Consumer].pc = "findWeather"] /\ UNCHANGED roots
    <3>1. TasksOK'
      BY <1>1, <1>2, <2>2, GotoStep DEF Goto, Pc, Working
    <3>2. CountsTyped'
      BY <1>1, <2>2 DEF CountsTyped
    <3> QED
      BY <3>1, <3>2
  <2>3. CASE UNCHANGED <<task, roots>>
    <3>1. CountsTyped'
      BY <1>1, <2>3 DEF CountsTyped
    <3> QED
      BY <1>1, <1>2, <2>3, <3>1, TasksSame
  <2> QED
    BY <1>3, <2>1, <2>2, <2>3
<1> QED
  BY <1>1, <1>4, <1>5, <1>7, NodesSame DEF TypeInv

LEMMA OlderOK ==
  ASSUME NEW tk \in TaskState, TaskOK(tk), NEW d \in Nat
  PROVE  Older(tk, d) \in TaskState /\ TaskOK(Older(tk, d))
<1>1. tk.age + d \in Nat /\ tk.age \in Nat
  BY DEF TaskState, MaxDelay
<1> DEFINE a == IF tk.age + d > MaxDelay THEN MaxDelay ELSE tk.age + d
           o == [tk EXCEPT !.age = a]
<1>2. a \in 0..MaxDelay
  BY <1>1 DEF MaxDelay
<1>3. Older(tk, d) = IF tk.pc = "idle" THEN tk ELSE o
  BY DEF Older
<1> HIDE DEF a
<1>4. o \in TaskState
  BY <1>2 DEF TaskState
<1>5. TaskOK(o)
  BY DEF TaskOK, TaskState
<1> QED
  BY <1>3, <1>4, <1>5

LEMMA OnTickStep ==
  ASSUME TypeInv, OnTick
  PROVE  TypeInv'
<1>1. /\ NodesTyped /\ MemoryTyped /\ CountsTyped /\ TasksOK /\ PendingOK
      /\ UNCHANGED <<db, protocols, cascaded, category, emitted, bounds>>
  BY DEF TypeInv, OnTick
<1>2. UNCHANGED <<made, info>>
  BY <1>1 DEF db
<1>3. PICK d \in Deltas :
       /\ pending' = { <<e[1], IF e[2] > d THEN e[2] - d ELSE 0>> : e \in pending }
       /\ task' = [t \in Task |->
            IF t = Consumer
            THEN [Idle EXCEPT !.pc = "next", !.stage = "ttr",
                              !.todo = { <<i, ttr[i] - d>> : i \in Countdowns }]
            ELSE Older(task[t], d)]
  BY DEF OnTick
<1>4. d \in Nat
  BY InputAssumption
<1> DEFINE todo == { <<i, ttr[i] - d>> : i \in Countdowns }
           tk   == [Idle EXCEPT !.pc = "next", !.stage = "ttr", !.todo = todo]
<1>5. todo \in SUBSET (Incident \X Int) /\ \A e \in todo : e[1] \in Made
  <2>1. \A i \in Countdowns : i \in Made /\ i \in Incident /\ ttr[i] \in Int
    BY <1>1, MadeInIncident DEF Countdowns, NodesTyped, Ttr
  <2> QED
    BY <1>4, <2>1
<1> HIDE DEF todo
<1>6. tk \in TaskState /\ TaskOK(tk)
  <2>1. tk \in TaskState
    <3>1. "next" \in Pc /\ "ttr" \in Stage
      BY DEF Pc, Stage
    <3> QED
      BY <1>5, <3>1, IdleOK DEF TaskState
  <2>2. TaskOK(tk)
    BY <1>5, IdleOK DEF TaskOK, Idle, Working
  <2> QED
    BY <2>1, <2>2
<1>7. \A t \in Task : Older(task[t], d) \in TaskState /\ TaskOK(Older(task[t], d))
  BY <1>1, <1>4, TaskTyped, OlderOK
<1>8. TasksOK'
  <2>1. task' = [t \in Task |-> IF t = Consumer THEN tk ELSE Older(task[t], d)]
    BY <1>3 DEF todo
  <2> HIDE DEF tk
  <2>2. task' \in [Task -> TaskState]
    BY <1>6, <1>7, <2>1
  <2>3. \A t \in Task : TaskOK(task'[t])
    BY <1>6, <1>7, <2>1
  <2>4. \A t \in Task : TaskOK(task[t])'
    BY <1>2, <2>3 DEF TaskOK, Made, Cascading
  <2> QED
    BY <2>2, <2>4 DEF TasksOK
<1>9. pending' \in SUBSET (Incident \X Int) /\ \A e \in pending' : e[1] \in Cascading
  <2>1. \A e \in pending : e[1] \in Incident /\ e[2] \in Int /\ e[1] \in Cascading
    BY <1>1 DEF MemoryTyped, PendingOK
  <2>2. ASSUME NEW e \in pending
        PROVE  /\ (IF e[2] > d THEN e[2] - d ELSE 0) \in Int
               /\ e[1] \in Incident /\ e[1] \in Cascading
    BY <1>4, <2>1
  <2>3. ASSUME NEW f \in pending'
        PROVE  f \in Incident \X Int /\ f[1] \in Cascading
    <3>1. PICK e \in pending : f = <<e[1], IF e[2] > d THEN e[2] - d ELSE 0>>
      BY <1>3
    <3> QED
      BY <2>2, <3>1
  <2> QED
    BY <2>3
<1>10. MemoryTyped'
  BY <1>1, <1>9 DEF MemoryTyped
<1>11. PendingOK'
  BY <1>2, <1>9 DEF PendingOK, Cascading, Made
<1> QED
  BY <1>1, <1>8, <1>10, <1>11, NodesSame, CountsSame DEF TypeInv

LEMMA OnRecommendationAppliedStep ==
  ASSUME TypeInv, OnRecommendationApplied
  PROVE  TypeInv'
<1>1. /\ NodesTyped /\ TasksOK
      /\ UNCHANGED <<db, memory, emitted, bounds>>
  BY DEF TypeInv, OnRecommendationApplied
<1>2. UNCHANGED <<made, info>> /\ Consumer \in Task
  BY <1>1 DEF db, Task
<1>3. PICK a \in Actions :
        task' = [task EXCEPT ![Consumer].pc = "next", ![Consumer].stage = "reduce",
                   ![Consumer].todo =
                     { <<i, ReducedTtr(ttr[i], a)>> :
                        i \in { j \in Countdowns : /\ info[j].kind.type \in ACTION_INCIDENT_MAP[a]
                                                   /\ ttr[j] > 0 } }]
  BY DEF OnRecommendationApplied
<1>4. a \in ActionType
  BY InputAssumption
<1> DEFINE J    == { j \in Countdowns : /\ info[j].kind.type \in ACTION_INCIDENT_MAP[a]
                                        /\ ttr[j] > 0 }
           todo == { <<i, ReducedTtr(ttr[i], a)>> : i \in J }
           tk   == [task[Consumer] EXCEPT !.pc = "next", !.stage = "reduce", !.todo = todo]
<1>5. todo \in SUBSET (Incident \X Int) /\ \A e \in todo : e[1] \in Made
  <2>1. \A i \in J : i \in Made /\ i \in Incident /\ ttr[i] \in Int
    BY <1>1, MadeInIncident DEF Countdowns, NodesTyped, Ttr
  <2> HIDE DEF J
  <2>2. \A i \in J : ReducedTtr(ttr[i], a) \in Int
    BY <1>4, <2>1, ReducedTyped
  <2> QED
    BY <2>1, <2>2
<1>6. task' = [task EXCEPT ![Consumer] = tk]
  BY <1>3
<1> HIDE DEF todo
<1>7. task[Consumer] \in TaskState /\ TaskOK(task[Consumer])
  BY <1>1, <1>2, TaskTyped
<1>8. tk \in TaskState
  <2>1. "next" \in Pc /\ "reduce" \in Stage
    BY DEF Pc, Stage
  <2> QED
    BY <1>5, <1>7, <2>1 DEF TaskState
<1>9. TaskOK(tk)
  BY <1>5, <1>7 DEF TaskOK, TaskState, Working
<1> HIDE DEF tk
<1>10. TasksOK'
  BY <1>1, <1>2, <1>6, <1>8, <1>9, TaskReplaced
<1> QED
  BY <1>1, <1>10, OnlyTask

LEMMA FailStep ==
  ASSUME TypeInv, NEW t \in Task, Fail(t)
  PROVE  TypeInv'
<1>1. /\ TasksOK /\ CountsTyped /\ faults < MaxFaults /\ faults' = faults + 1
      /\ task' = [task EXCEPT ![t] = Idle]
      /\ UNCHANGED <<db, memory, emitted, roots>>
  BY DEF TypeInv, Fail
<1>2. CountsTyped'
  BY <1>1, BoundsAssumption DEF CountsTyped
<1>3. TasksOK'
  BY <1>1, BecomesIdle DEF db
<1> QED
  BY <1>1, <1>2, <1>3, OnlyTaskAndRoots

LEMMA RestartStep ==
  ASSUME TypeInv, Restart
  PROVE  TypeInv'
<1>1. /\ NodesTyped /\ CountsTyped /\ faults < MaxFaults /\ faults' = faults + 1
      /\ protocols' = {} /\ cascaded' = {} /\ pending' = {} /\ category' = "CAVOK"
      /\ task' = [t \in Task |-> Idle]
      /\ UNCHANGED <<db, emitted, roots>>
  BY DEF TypeInv, Restart
<1>2. CountsTyped'
  BY <1>1, BoundsAssumption DEF CountsTyped
<1>3. MemoryTyped' /\ PendingOK'
  BY <1>1 DEF MemoryTyped, PendingOK, Category
<1>4. TasksOK'
  <2>1. task' \in [Task -> TaskState] /\ \A t \in Task : TaskOK(task'[t])
    BY <1>1, IdleOK
  <2>2. \A t \in Task : TaskOK(task[t])'
    BY <1>1, <2>1 DEF TaskOK, Made, Cascading, db
  <2> QED
    BY <2>1, <2>2 DEF TasksOK
<1> QED
  BY <1>1, <1>2, <1>3, <1>4, NodesSame DEF TypeInv
-----------------------------------------------------------------------------
LEMMA StepStep ==
  ASSUME TypeInv, NEW t \in Task, Step(t)
  PROVE  TypeInv'
  BY CreateNodeStep, ActivateStep, LinkStep, AnnounceStep, CascadeStep,
     ContainReadStep, ContainWriteStep, ContainNotifyStep,
     ResolveReadStep, ResolveWriteStep, DeactivateStep, ResolveChildrenStep, NotifyStep,
     FindStep, FindWeatherStep, NextCountdownStep, EndReduceStep, TakeDueStep,
     FireDueStep, DrawStep, NextDrawStep
     DEF Step

LEMMA RequestStep ==
  ASSUME TypeInv, NEW t \in Rest, Request(t)
  PROVE  TypeInv'
<1>1. t \in Task
  BY DEF Task
<1>2. CASE RestInject(t)
  BY <1>1, <1>2, InjectStep DEF RestInject
<1>3. CASE RestOperate(t)
  <2>1. RestOps \ {"inject"} \subseteq {"contain", "resolve"}
    BY InputAssumption
  <2> QED
    BY <1>1, <1>3, <2>1, OperateStep DEF RestOperate
<1> QED
  BY <1>2, <1>3 DEF Request

LEMMA MessageStep ==
  ASSUME TypeInv, Message
  PROVE  TypeInv'
<1>1. Consumer \in Task
  BY DEF Task
<1>2. CASE OnCommand
  <2>1. CommandOps \subseteq {"contain", "resolve"}
    BY InputAssumption
  <2> QED
    BY <1>1, <1>2, <2>1, OperateStep DEF OnCommand
<1>3. CASE OnInject
  BY <1>1, <1>3, InjectStep DEF OnInject
<1> QED
  BY <1>2, <1>3, OnDetectionStep, OnWeatherChangedStep, OnTickStep,
     OnRecommendationAppliedStep DEF Message

LEMMA NextTypeInv == TypeInv /\ [Next]_vars => TypeInv'
<1> SUFFICES ASSUME TypeInv, [Next]_vars PROVE TypeInv'
  OBVIOUS
<1>1. CASE UNCHANGED vars
  <2>1. UNCHANGED <<db, memory, task, emitted, bounds>>
    BY <1>1 DEF vars
  <2>2. TasksOK'
    BY <2>1, TasksSame DEF TypeInv, db
  <2> QED
    BY <2>1, <2>2, OnlyTask
<1>2. CASE \E t \in Task : Step(t) \/ Fail(t)
  BY <1>2, StepStep, FailStep
<1>3. CASE \E t \in Rest : Request(t)
  BY <1>3, RequestStep
<1>4. CASE Message \/ Restart
  BY <1>4, MessageStep, RestartStep
<1> QED
  BY <1>1, <1>2, <1>3, <1>4 DEF Next

(* Every reachable state is well-formed and every task, and every queued    *)
(* cascade, refers to incidents that exist.                                 *)
THEOREM Inductive == Spec => []TypeInv
<1>1. Init => TypeInv
  BY InitTypeInv
<1>2. TypeInv /\ [Next]_vars => TypeInv'
  BY NextTypeInv
<1> QED
  BY <1>1, <1>2, PTL DEF Spec

(* incident-service never stores a node without a status or a kind, counts  *)
(* nothing but integers down and never activates the absent protocol.       *)
THEOREM TypeCorrect == Spec => []TypeOK
<1>1. TypeInv => TypeOK
  BY DEF TypeInv, TypeOK, TasksOK
<1> QED
  BY <1>1, Inductive, PTL
=============================================================================
