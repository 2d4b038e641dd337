----------------------- MODULE IncidentCascades_proofs -----------------------
(***************************************************************************)
(* The cascades of incident-service form a forest, and an incident         *)
(* cascades at most once: for any number of incidents, requests, crashes   *)
(* and failed queries, and any limit on the depth.                         *)
(*                                                                         *)
(* The argument follows the right to make the one child of an incident.    *)
(* It is created with the incident, in the hands of the task that creates  *)
(* it (Early); evaluate_cascades turns it into the making of the child     *)
(* (Making) or queues it (Queued); a tick takes it off the queue (Waiting) *)
(* and makes the child; the SPAWNED relationship uses it up (HasChild).  A *)
(* crash or a failed query may destroy it; nothing ever duplicates it.     *)
(*                                                                         *)
(* While the consumer works alone and nothing fails, every step is one of  *)
(* a few moves of one incident, and what the consumer read still holds     *)
(* when it writes.  So protocols, events and orphans match the statuses,   *)
(* and what is looked for before it is created is never there twice.       *)
(*                                                                         *)
(* With any requests at work, a resolution in Neo4j is announced already   *)
(* or owed by the task that made it.                                       *)
(***************************************************************************)
EXTENDS IncidentLifecycle_proofs, SequenceTheorems

FreshPc == {"activate", "link"}
EarlyPc == {"activate", "link", "announce", "cascade"}
MakePc  == {"create", "activate", "link"}

Early(t, i)    == task[t].pc \in EarlyPc /\ task[t].inc = i
Making(t, p)   == task[t].pc \in MakePc /\ task[t].parent = p
Waiting(t, p)  == p \in task[t].due
Queued(p)      == \E e \in pending : e[1] = p
HasChild(p)    == \E e \in spawned : e[1] = p

EarlyOnce ==
  \A t \in Task, p \in Made : Early(t, p) =>
    /\ p \notin cascaded /\ ~HasChild(p) /\ ~Queued(p)
    /\ \A u \in Task : ~Making(u, p) /\ ~Waiting(u, p) /\ (Early(u, p) => u = t)

MakingOnce ==
  \A t \in Task, p \in Made : Making(t, p) =>
    /\ BelowLimit(p) /\ ~HasChild(p) /\ ~Queued(p)
    /\ \A u \in Task : ~Waiting(u, p) /\ (Making(u, p) => u = t)

WaitingOnce ==
  \A t \in Task, p \in Made : Waiting(t, p) =>
    /\ BelowLimit(p) /\ ~HasChild(p) /\ ~Queued(p)
    /\ \A u \in Task : Waiting(u, p) => u = t

QueuedOnce ==
  \A e \in pending : /\ BelowLimit(e[1]) /\ ~HasChild(e[1])
                     /\ \A f \in pending : f[1] = e[1] => f = e

ChildOnce == \A e, f \in spawned : e[1] = f[1] => e = f

(* A node just created: not yet linked, and where its parent puts it.      *)
FreshNodes ==
  \A t \in Task : task[t].pc \in FreshPc =>
    /\ \A e \in spawned : e[2] # task[t].inc
    /\ task[t].parent # None =>
         /\ task[t].parent < task[t].inc
         /\ info[task[t].inc].depth = info[task[t].parent].depth + 1

Claims == /\ EarlyOnce /\ MakingOnce /\ WaitingOnce /\ QueuedOnce /\ ChildOnce
          /\ FreshNodes /\ cascaded \subseteq Made /\ CascadeForest
-----------------------------------------------------------------------------
LEMMA InitClaims == Init => Claims
<1> SUFFICES ASSUME Init PROVE Claims
  OBVIOUS
<1> USE DEF Init
<1>1. /\ Made = {} /\ pending = {} /\ spawned = {} /\ cascaded = {}
      /\ \A t \in Task : task[t].pc = "idle"
  BY DEF Made, Idle
<1>2. EarlyOnce /\ MakingOnce /\ WaitingOnce /\ QueuedOnce /\ ChildOnce
  BY <1>1 DEF EarlyOnce, MakingOnce, WaitingOnce, QueuedOnce, ChildOnce
<1>3. FreshNodes /\ CascadeForest
  BY <1>1 DEF FreshNodes, FreshPc, CascadeForest
<1> QED
  BY <1>1, <1>2, <1>3 DEF Claims

(* Rights that only shrink, over nodes that stay: the claims are kept. *)
LEMMA RightsShrink ==
  ASSUME Claims, UNCHANGED <<made, info, spawned>>,
         \A t \in Task, p \in Made : Early(t, p)' => Early(t, p) /\ p \notin cascaded',
         \A t \in Task, p \in Made : Making(t, p)' => Making(t, p),
         \A t \in Task, p \in Made : Waiting(t, p)' => Waiting(t, p),
         \A t \in Task : task'[t].pc \in FreshPc =>
           /\ task[t].pc \in FreshPc
           /\ task'[t].inc = task[t].inc /\ task'[t].parent = task[t].parent,
         pending' \subseteq pending, cascaded' \subseteq Made
  PROVE  Claims'
<1>1. Made' = Made /\ CascadeForest'
  BY DEF Claims, CascadeForest, Made
<1>2. \A p : /\ BelowLimit(p)' <=> BelowLimit(p)
             /\ HasChild(p)' <=> HasChild(p)
             /\ Queued(p)' => Queued(p)
  BY DEF BelowLimit, HasChild, Queued
<1>3. EarlyOnce'
  BY <1>1, <1>2 DEF Claims, EarlyOnce
<1>4. MakingOnce'
  BY <1>1, <1>2 DEF Claims, MakingOnce
<1>5. WaitingOnce'
  BY <1>1, <1>2 DEF Claims, WaitingOnce
<1>6. QueuedOnce' /\ ChildOnce'
  BY <1>2 DEF Claims, QueuedOnce, ChildOnce
<1>7. FreshNodes'
  BY DEF Claims, FreshNodes
<1> QED
  BY <1>1, <1>3, <1>4, <1>5, <1>6, <1>7 DEF Claims

(* A task replaced by one that works under no right of a creation. *)
LEMMA QuietStep ==
  ASSUME TypeInv, Claims, NEW t \in Task, NEW tk, task' = [task EXCEPT ![t] = tk],
         tk.due \subseteq task[t].due,
         tk.pc \notin EarlyPc, tk.pc \in MakePc => tk.parent = None,
         UNCHANGED <<made, info, spawned, cascaded, pending>>
  PROVE  Claims'
<1>1. /\ task \in [Task -> TaskState] /\ None \notin Made /\ cascaded \subseteq Made
      /\ FreshPc \subseteq EarlyPc
  BY DEF TypeInv, TasksOK, Claims, None, Made, FreshPc, EarlyPc
<1>2. \A u \in Task : task'[u] = IF u = t THEN tk ELSE task[u]
  BY <1>1
<1>3. \A u \in Task, p \in Made : Early(u, p)' => Early(u, p) /\ p \notin cascaded'
  BY <1>1, <1>2 DEF Early, Claims, EarlyOnce
<1>4. \A u \in Task, p \in Made : Making(u, p)' => Making(u, p)
  BY <1>1, <1>2 DEF Making
<1>5. \A u \in Task, p \in Made : Waiting(u, p)' => Waiting(u, p)
  BY <1>2 DEF Waiting
<1>6. \A u \in Task : task'[u].pc \in FreshPc =>
        /\ task[u].pc \in FreshPc
        /\ task'[u].inc = task[u].inc /\ task'[u].parent = task[u].parent
  BY <1>1, <1>2
<1> QED
  BY <1>1, <1>3, <1>4, <1>5, <1>6, RightsShrink

LEMMA SameClaims ==
  ASSUME Claims, UNCHANGED <<made, info, spawned, cascaded, pending, task>>
  PROVE  Claims'
<1>1. Made' = Made /\ CascadeForest'
  BY DEF Claims, CascadeForest, Made
<1>2. \A t \in Task, p \in Made : Early(t, p)' => Early(t, p) /\ p \notin cascaded'
  BY DEF Early, Claims, EarlyOnce
<1>3. \A t \in Task, p \in Made : Making(t, p)' => Making(t, p)
  BY DEF Making
<1>4. \A t \in Task, p \in Made : Waiting(t, p)' => Waiting(t, p)
  BY DEF Waiting
<1> QED
  BY <1>2, <1>3, <1>4, RightsShrink DEF Claims

LEMMA QuietGoto ==
  ASSUME TypeInv, Claims, NEW t \in Task, NEW l, l \notin EarlyPc, l \notin MakePc,
         Goto(t, l), UNCHANGED <<made, info, spawned, cascaded, pending>>
  PROVE  Claims'
<1> DEFINE tk == [task[t] EXCEPT !.pc = l]
<1>1. task[t] \in TaskState
  BY DEF TypeInv, TasksOK
<1>2. tk.due = task[t].due /\ tk.pc = l
  BY <1>1 DEF TaskState
<1>3. task' = [task EXCEPT ![t] = tk]
  BY DEF Goto
<1> HIDE DEF tk
<1> QED
  BY <1>2, <1>3, QuietStep

LEMMA QuietIdle ==
  ASSUME TypeInv, Claims, NEW t \in Task, task' = [task EXCEPT ![t] = Idle],
         UNCHANGED <<made, info, spawned, cascaded, pending>>
  PROVE  Claims'
<1>1. Idle.due = {} /\ Idle.pc \notin EarlyPc /\ Idle.pc \notin MakePc
  BY DEF Idle, EarlyPc, MakePc
<1> QED
  BY <1>1, QuietStep

LEMMA ReturnedRights ==
  ASSUME NEW tk \in TaskState
  PROVE  /\ Returned(tk).due \subseteq tk.due
         /\ Returned(tk).pc \in {"idle", "next"}
  BY DEF Returned, Idle, TaskState

LEMMA QuietReturn ==
  ASSUME TypeInv, Claims, NEW t \in Task, Return(t),
         UNCHANGED <<made, info, spawned, cascaded, pending>>
  PROVE  Claims'
<1>1. task[t] \in TaskState
  BY DEF TypeInv, TasksOK
<1>2. /\ Returned(task[t]).due \subseteq task[t].due
      /\ Returned(task[t]).pc \notin EarlyPc /\ Returned(task[t]).pc \notin MakePc
  BY <1>1, ReturnedRights DEF EarlyPc, MakePc
<1>3. task' = [task EXCEPT ![t] = Returned(task[t])]
  BY DEF Return
<1> QED
  BY <1>2, <1>3, QuietStep

(* The creation of a root, in the hands of a task. *)
LEMMA QuietCreating ==
  ASSUME TypeInv, Claims, NEW t \in Task, NEW k,
         task' = [task EXCEPT ![t] = Creating(task[t], k, None)],
         UNCHANGED <<made, info, spawned, cascaded, pending>>
  PROVE  Claims'
<1> DEFINE tk == Creating(task[t], k, None)
<1>1. task[t] \in TaskState
  BY DEF TypeInv, TasksOK
<1>2. tk.due = task[t].due /\ tk.parent = None /\ tk.pc \notin EarlyPc
  BY <1>1 DEF Creating, TaskState, EarlyPc
<1> HIDE DEF tk
<1> QED
  BY <1>2, QuietStep DEF tk
-----------------------------------------------------------------------------
(* The steps that carry a right on. *)

(* The node takes over the right of its own, and keeps that of its parent. *)
LEMMA CreateNodeClaims ==
  ASSUME TypeInv, Claims, NEW t \in Task, CreateNode(t)
  PROVE  Claims'
<1>0. PICK i \in Incident : i = made + 1
  BY BoundsAssumption DEF CreateNode, TypeInv, NodesTyped, Incident
<1> DEFINE q == task[t].parent
           tk == [task[t] EXCEPT !.inc = i, !.pc = "activate"]
<1>1. /\ task[t].pc = "create" /\ made < MaxIncidents /\ made' = i
      /\ info' = [info EXCEPT ![i] = [kind |-> task[t].kind, depth |-> DepthUnder(q)]]
      /\ task' = [task EXCEPT ![t] = tk]
      /\ UNCHANGED <<spawned, cascaded, pending>>
  BY <1>0 DEF CreateNode, At, TypeInv, TasksOK, memory
<1>2. /\ NodesTyped /\ TasksOK /\ PendingOK
      /\ made \in Nat /\ i \notin Made /\ Made' = Made \cup {i}
      /\ Made \subseteq Incident
  BY <1>0, <1>1, BoundsAssumption DEF TypeInv, NodesTyped, Made, Incident
<1>3. task[t] \in TaskState /\ q \in Made \cup {None}
  BY <1>2, TaskTyped DEF TaskOK
<1>4. /\ \A u \in Task \ {t} : task'[u] = task[u]
      /\ task'[t].pc = "activate" /\ task'[t].inc = i /\ task'[t].parent = q
      /\ task'[t].due = task[t].due
  BY <1>1, <1>2, <1>3 DEF TasksOK, TaskState
<1>5. /\ \A p \in Made : info'[p] = info[p]
      /\ info'[i].depth = DepthUnder(q)
  BY <1>1, <1>2 DEF NodesTyped
(* Who refers to the new node: only the task that makes it. *)
<1>6. /\ \A u \in Task : /\ task[u].pc \in EarlyPc => task[u].inc \in Made
                         /\ task[u].due \subseteq Made
                         /\ task[u].parent \in Made \cup {None}
      /\ \A e \in pending : e[1] \in Made
      /\ \A e \in spawned : e[1] \in Made /\ e[2] \in Made
      /\ cascaded \subseteq Made /\ None \notin Made /\ i # None
  <2>1. \A e \in spawned : e[1] \in Nat /\ e[2] \in Nat /\ 1 <= e[1] /\ e[1] < e[2] /\ e[2] <= made
    BY <1>2 DEF Claims, CascadeForest, NodesTyped, Incident
  <2>2. \A e \in spawned : e[1] \in Made /\ e[2] \in Made
    BY <1>2, <2>1 DEF Made
  <2>3. None \notin Made /\ i # None
    BY <1>2 DEF None, Made, Incident
  <2> QED
    BY <1>2, <2>2, <2>3, TaskTyped
       DEF TaskOK, Cascading, PendingOK, Claims, EarlyPc, Working
<1>7. \A u \in Task : /\ Early(u, i)' => u = t
                      /\ ~Making(u, i)' /\ ~Waiting(u, i)'
  BY <1>2, <1>3, <1>4, <1>6 DEF Early, Making, Waiting
<1>8. ~HasChild(i)' /\ ~Queued(i)' /\ i \notin cascaded'
  BY <1>1, <1>2, <1>6 DEF HasChild, Queued
(* The other nodes: their rights are where they were. *)
<1>9. \A u \in Task, p \in Made :
        /\ Early(u, p)' => Early(u, p)
        /\ Making(u, p)' <=> Making(u, p)
        /\ Waiting(u, p)' <=> Waiting(u, p)
  BY <1>1, <1>2, <1>4 DEF Early, Making, Waiting, MakePc
<1>10. \A p \in Made : /\ BelowLimit(p)' <=> BelowLimit(p)
                       /\ HasChild(p)' <=> HasChild(p)
                       /\ Queued(p)' <=> Queued(p)
                       /\ p \in cascaded' <=> p \in cascaded
  BY <1>1, <1>5 DEF BelowLimit, HasChild, Queued
<1>11. EarlyOnce'
  BY <1>2, <1>7, <1>8, <1>9, <1>10 DEF Claims, EarlyOnce
<1>12. MakingOnce'
  BY <1>2, <1>7, <1>9, <1>10 DEF Claims, MakingOnce
<1>13. WaitingOnce'
  BY <1>2, <1>7, <1>9, <1>10 DEF Claims, WaitingOnce
<1>14. QueuedOnce' /\ ChildOnce'
  BY <1>1, <1>6, <1>10 DEF Claims, QueuedOnce, ChildOnce
<1>15. FreshNodes'
  <2>1. ASSUME NEW u \in Task, u # t, task'[u].pc \in FreshPc
        PROVE  /\ task[u].pc \in FreshPc /\ task'[u] = task[u]
               /\ task[u].inc \in Made
               /\ task[u].parent # None => task[u].parent \in Made
    BY <1>4, <1>6, <2>1 DEF FreshPc, EarlyPc
  <2>2. ASSUME q # None
        PROVE  q < i /\ info'[i].depth = info'[q].depth + 1
    BY <1>2, <1>3, <1>5, <2>2 DEF DepthUnder, Made
  <2>3. \A e \in spawned : e[2] # i
    BY <1>2, <1>6
  <2>4. ASSUME NEW u \in Task, u # t, task'[u].pc \in FreshPc
        PROVE  /\ \A e \in spawned' : e[2] # task'[u].inc
               /\ task'[u].parent # None =>
                    /\ task'[u].parent < task'[u].inc
                    /\ info'[task'[u].inc].depth = info'[task'[u].parent].depth + 1
    BY <1>1, <1>5, <2>1, <2>4 DEF Claims, FreshNodes
  <2> QED
    BY <1>1, <1>4, <2>2, <2>3, <2>4 DEF FreshNodes
<1>16. CascadeForest'
  <2>1. \A e \in spawned' : /\ e[1] < e[2] /\ e[2] <= made'
                            /\ info'[e[2]].depth = info'[e[1]].depth + 1
    <3>1. \A e \in spawned : e[2] <= made' /\ e[2] \in Nat
      BY <1>1, <1>2, <1>6 DEF Made
    <3> QED
      BY <1>1, <1>5, <1>6, <3>1 DEF Claims, CascadeForest
  <2>2. \A e, f \in spawned' : e[2] = f[2] => e = f
    BY <1>1 DEF Claims, CascadeForest
  <2>3. info'[i].depth <= CASCADE_MAX_DEPTH
    <3>1. CASE q = None
      BY <1>5, <3>1, BoundsAssumption DEF DepthUnder
    <3>2. CASE q \in Made
      <4>1. BelowLimit(q) /\ q # None
        BY <1>1, <1>6, <3>2 DEF Claims, MakingOnce, Making, MakePc
      <4>2. info[q].depth \in Nat
        BY <1>2, <3>2, MadeHasKind
      <4> QED
        BY <1>5, <4>1, <4>2, BoundsAssumption DEF DepthUnder, BelowLimit
    <3> QED
      BY <1>3, <3>1, <3>2
  <2>4. \A p \in Made' : info'[p].depth <= CASCADE_MAX_DEPTH
    BY <1>2, <1>5, <2>3 DEF Claims, CascadeForest
  <2> QED
    BY <2>1, <2>2, <2>4 DEF CascadeForest
<1> QED
  BY <1>1, <1>2, <1>6, <1>11, <1>12, <1>13, <1>14, <1>15, <1>16 DEF Claims

LEMMA ActivateClaims ==
  ASSUME TypeInv, Claims, NEW t \in Task, Activate(t)
  PROVE  Claims'
<1> DEFINE l == IF task[t].parent = None THEN "announce" ELSE "link"
<1>1. /\ task \in [Task -> TaskState] /\ task[t].pc = "activate"
      /\ task' = [task EXCEPT ![t].pc = l]
      /\ UNCHANGED <<made, info, spawned, cascaded, pending>>
  BY DEF TypeInv, TasksOK, Activate, At, Goto, db
<1>2. /\ \A u \in Task \ {t} : task'[u] = task[u]
      /\ task'[t].pc \in {"announce", "link"} /\ task'[t].due = task[t].due
      /\ task'[t].inc = task[t].inc /\ task'[t].parent = task[t].parent
  BY <1>1 DEF TaskState
<1>3. \A u \in Task, p \in Made : Early(u, p)' => Early(u, p) /\ p \notin cascaded'
  BY <1>1, <1>2 DEF Early, EarlyPc, Claims, EarlyOnce
<1>4. \A u \in Task, p \in Made : Making(u, p)' => Making(u, p)
  BY <1>1, <1>2 DEF Making, MakePc
<1>5. \A u \in Task, p \in Made : Waiting(u, p)' => Waiting(u, p)
  BY <1>2 DEF Waiting
<1>6. \A u \in Task : task'[u].pc \in FreshPc =>
        /\ task[u].pc \in FreshPc
        /\ task'[u].inc = task[u].inc /\ task'[u].parent = task[u].parent
  BY <1>1, <1>2 DEF FreshPc
<1> QED
  BY <1>1, <1>3, <1>4, <1>5, <1>6, RightsShrink DEF Claims

LEMMA AnnounceClaims ==
  ASSUME TypeInv, Claims, NEW t \in Task, Announce(t)
  PROVE  Claims'
<1>1. /\ task \in [Task -> TaskState] /\ task[t].pc = "announce"
      /\ task' = [task EXCEPT ![t].pc = "cascade"]
      /\ UNCHANGED <<made, info, spawned, cascaded, pending>>
  BY DEF TypeInv, TasksOK, Announce, At, Goto, db, memory
<1>2. /\ \A u \in Task \ {t} : task'[u] = task[u]
      /\ task'[t].pc = "cascade" /\ task'[t].due = task[t].due
      /\ task'[t].inc = task[t].inc
  BY <1>1 DEF TaskState
<1>3. \A u \in Task, p \in Made : Early(u, p)' => Early(u, p) /\ p \notin cascaded'
  BY <1>1, <1>2 DEF Early, EarlyPc, Claims, EarlyOnce
<1>4. \A u \in Task, p \in Made : Making(u, p)' => Making(u, p)
  BY <1>1, <1>2 DEF Making, MakePc
<1>5. \A u \in Task, p \in Made : Waiting(u, p)' => Waiting(u, p)
  BY <1>2 DEF Waiting
<1>6. \A u \in Task : task'[u].pc \in FreshPc =>
        /\ task[u].pc \in FreshPc
        /\ task'[u].inc = task[u].inc /\ task'[u].parent = task[u].parent
  BY <1>1, <1>2 DEF FreshPc
<1> QED
  BY <1>1, <1>3, <1>4, <1>5, <1>6, RightsShrink DEF Claims

(* The relationship uses the parent's right up. *)
LEMMA LinkClaims ==
  ASSUME TypeInv, Claims, NEW t \in Task, Link(t)
  PROVE  Claims'
<1>0. PICK i, q : i = task[t].inc /\ q = task[t].parent
  OBVIOUS
<1>1. /\ task \in [Task -> TaskState] /\ task[t].pc = "link"
      /\ task' = [task EXCEPT ![t].pc = "announce"]
      /\ spawned' = spawned \cup {<<q, i>>}
      /\ UNCHANGED <<made, info, cascaded, pending>>
  BY <1>0 DEF TypeInv, TasksOK, Link, At, Goto, memory
<1>2. /\ \A u \in Task \ {t} : task'[u] = task[u]
      /\ task'[t].pc = "announce" /\ task'[t].due = task[t].due
      /\ task'[t].inc = i
  BY <1>0, <1>1 DEF TaskState
<1>3. i \in Made /\ q \in Made /\ q # None /\ Made' = Made /\ made \in Nat
  <2>1. TaskOK(task[t]) /\ made \in Nat
    BY MadeInIncident, TaskTyped DEF TypeInv
  <2> QED
    BY <1>0, <1>1, <2>1 DEF TaskOK, Working, Made, None
<1>4. Early(t, i) /\ Making(t, q)
  BY <1>0, <1>1 DEF Early, Making, EarlyPc, MakePc
<1>5. /\ q < i /\ info[i].depth = info[q].depth + 1
      /\ \A e \in spawned : e[2] # i
  BY <1>0, <1>1, <1>3 DEF Claims, FreshNodes, FreshPc
<1>6. /\ \A p \in Made : /\ BelowLimit(p)' <=> BelowLimit(p)
                         /\ Queued(p)' <=> Queued(p)
                         /\ HasChild(p)' <=> (HasChild(p) \/ p = q)
      /\ \A u \in Task, p \in Made : /\ Early(u, p)' => Early(u, p)
                                     /\ Making(u, p)' => Making(u, p) /\ u # t
                                     /\ Waiting(u, p)' <=> Waiting(u, p)
  <2>1. \A p \in Made : /\ BelowLimit(p)' <=> BelowLimit(p)
                        /\ Queued(p)' <=> Queued(p)
                        /\ HasChild(p)' <=> (HasChild(p) \/ p = q)
    <3>1. spawned \subseteq spawned' /\ <<q, i>> \in spawned' /\ <<q, i>>[1] = q
      BY <1>1
    <3>2. \A e \in spawned' : e \in spawned \/ e[1] = q
      BY <1>1
    <3> QED
      BY <1>1, <3>1, <3>2 DEF BelowLimit, Queued, HasChild
  <2>2. \A u \in Task, p \in Made : Early(u, p)' => Early(u, p)
    BY <1>0, <1>1, <1>2 DEF Early, EarlyPc
  <2>3. \A u \in Task, p \in Made : Making(u, p)' => Making(u, p) /\ u # t
    BY <1>2 DEF Making, MakePc
  <2>4. \A u \in Task, p \in Made : Waiting(u, p)' <=> Waiting(u, p)
    BY <1>2 DEF Waiting
  <2> QED
    BY <2>1, <2>2, <2>3, <2>4
(* Whoever else has a right to a child of q would share it with t. *)
<1>7. /\ \A u \in Task : ~Early(u, q) /\ ~Waiting(u, q) /\ (Making(u, q) => u = t)
      /\ ~Queued(q) /\ ~HasChild(q)
  BY <1>3, <1>4 DEF Claims, EarlyOnce, MakingOnce
<1>8. EarlyOnce'
  BY <1>1, <1>3, <1>6, <1>7 DEF Claims, EarlyOnce
<1>9. MakingOnce'
  BY <1>3, <1>6, <1>7 DEF Claims, MakingOnce
<1>10. WaitingOnce'
  BY <1>3, <1>6, <1>7 DEF Claims, WaitingOnce
<1>11. QueuedOnce'
  <2>1. \A e \in pending : e[1] \in Made /\ e[1] # q
    BY <1>7 DEF TypeInv, PendingOK, Cascading, Queued
  <2> QED
    BY <1>1, <1>6, <2>1 DEF Claims, QueuedOnce
<1>12. ChildOnce'
  BY <1>1, <1>7 DEF Claims, ChildOnce, HasChild
<1>13. FreshNodes'
  <2>1. ASSUME NEW u \in Task, task'[u].pc \in FreshPc
        PROVE  u # t /\ task'[u] = task[u] /\ task[u].inc # i
    <3>1. u # t /\ task'[u] = task[u]
      BY <1>2, <2>1 DEF FreshPc
    <3>2. task[u].pc \in EarlyPc
      BY <2>1, <3>1 DEF FreshPc, EarlyPc
    <3> QED
      BY <1>3, <1>4, <3>1, <3>2 DEF Claims, EarlyOnce, Early
  <2> QED
    BY <1>1, <2>1 DEF Claims, FreshNodes
<1>14. CascadeForest'
  <2>1. i <= made
    BY <1>3 DEF Made
  <2>2. \A e \in spawned' : /\ e[1] < e[2] /\ e[2] <= made'
                            /\ info'[e[2]].depth = info'[e[1]].depth + 1
    BY <1>1, <1>5, <2>1 DEF Claims, CascadeForest
  <2>3. \A e, f \in spawned' : e[2] = f[2] => e = f
    BY <1>1, <1>5 DEF Claims, CascadeForest
  <2> QED
    BY <1>1, <1>3, <2>2, <2>3 DEF Claims, CascadeForest
<1> QED
  BY <1>1, <1>3, <1>8, <1>9, <1>10, <1>11, <1>12, <1>13, <1>14 DEF Claims

(* evaluate_cascades marks the incident: its right ends there, or goes to   *)
(* the making of the child, or to the queue.                                *)
LEMMA CascadeClaims ==
  ASSUME TypeInv, Claims, NEW t \in Task, Cascade(t)
  PROVE  Claims'
<1>0. PICK i, m : /\ i = task[t].inc
                  /\ m = CASCADE_RULES[info[i].kind.type].delay - task[t].age
  OBVIOUS
<1>1. /\ task \in [Task -> TaskState] /\ task[t].pc = "cascade"
      /\ cascaded' = IF BelowLimit(i) THEN cascaded \cup {i} ELSE cascaded
      /\ \/ Return(t) /\ UNCHANGED pending
         \/ /\ BelowLimit(i)
            /\ task' = [task EXCEPT ![t] = Creating(task[t], ChildKind(i), i)]
            /\ UNCHANGED pending
         \/ /\ BelowLimit(i)
            /\ pending' = pending \cup {<<i, m>>}
            /\ Return(t)
      /\ UNCHANGED <<made, info, spawned>>
  BY <1>0 DEF TypeInv, TasksOK, Cascade, At, db
<1>2. i \in Made /\ None \notin Made /\ Made' = Made
  <2>1. i \in Made
    BY <1>0, <1>1, WorksOnMade DEF TypeInv, Working
  <2> QED
    BY <1>1, <2>1 DEF Made, None
<1>3. Early(t, i)
  BY <1>0, <1>1 DEF Early, EarlyPc
<1>4. /\ ~HasChild(i) /\ ~Queued(i)
      /\ \A u \in Task : ~Making(u, i) /\ ~Waiting(u, i) /\ (Early(u, i) => u = t)
  BY <1>2, <1>3 DEF Claims, EarlyOnce
<1>5. cascaded' \subseteq Made /\ \A p \in cascaded' : p \in cascaded \/ p = i
  BY <1>1, <1>2 DEF Claims
<1>6. /\ task'[t].due \subseteq task[t].due /\ task'[t].pc \notin EarlyPc
      /\ task'[t].pc \notin FreshPc
      /\ \A u \in Task \ {t} : task'[u] = task[u]
  <2>1. CASE Return(t)
    <3>1. task' = [task EXCEPT ![t] = Returned(task[t])]
      BY <2>1 DEF Return
    <3> QED
      BY <1>1, <3>1, ReturnedRights DEF EarlyPc, FreshPc
  <2>2. CASE task' = [task EXCEPT ![t] = Creating(task[t], ChildKind(i), i)]
    <3>1. task[t] \in TaskState
      BY <1>1
    <3>2. /\ Creating(task[t], ChildKind(i), i).due = task[t].due
          /\ Creating(task[t], ChildKind(i), i).pc = "create"
      BY <3>1 DEF Creating, TaskState
    <3> QED
      BY <1>1, <2>2, <3>2 DEF EarlyPc, FreshPc
  <2> QED
    BY <1>1, <2>1, <2>2
<1>7. \A u \in Task, p \in Made : Early(u, p)' => Early(u, p) /\ p \notin cascaded'
  BY <1>3, <1>4, <1>5, <1>6 DEF Early, Claims, EarlyOnce
<1>8. \A u \in Task, p \in Made : Waiting(u, p)' => Waiting(u, p)
  BY <1>6 DEF Waiting
<1>9. \A u \in Task : task'[u].pc \in FreshPc =>
        /\ task[u].pc \in FreshPc
        /\ task'[u].inc = task[u].inc /\ task'[u].parent = task[u].parent
  BY <1>6
<1>10. CASE Return(t) /\ UNCHANGED pending
  <2>1. task'[t].pc \notin MakePc
    BY <1>1, <1>10, ReturnedRights DEF Return, MakePc
  <2>2. \A u \in Task, p \in Made : Making(u, p)' => Making(u, p)
    BY <1>6, <2>1 DEF Making
  <2> QED
    BY <1>1, <1>5, <1>7, <1>8, <1>9, <1>10, <2>2, RightsShrink
<1>11. /\ \A p \in Made : /\ BelowLimit(p)' <=> BelowLimit(p)
                          /\ HasChild(p)' <=> HasChild(p)
       /\ CascadeForest' /\ ChildOnce' /\ FreshNodes'
  <2>1. FreshNodes'
    BY <1>1, <1>6 DEF Claims, FreshNodes
  <2> QED
    BY <1>1, <1>2, <2>1 DEF BelowLimit, HasChild, CascadeForest, ChildOnce, Claims
<1>12. CASE /\ BelowLimit(i)
            /\ task' = [task EXCEPT ![t] = Creating(task[t], ChildKind(i), i)]
            /\ UNCHANGED pending
  <2>1. task'[t].pc = "create" /\ task'[t].parent = i
    BY <1>1, <1>12 DEF Creating, TaskState
  <2>2. \A u \in Task, p \in Made : /\ Making(u, p)' => Making(u, p) \/ (u = t /\ p = i)
                                    /\ p # i => ~Making(t, p)'
    BY <1>6, <2>1 DEF Making
  <2>3. \A p \in Made : Queued(p)' <=> Queued(p)
    BY <1>12 DEF Queued
  <2>4. \A u \in Task : ~Early(u, i)'
    BY <1>4, <1>6, <1>7 DEF Early
  <2>5. EarlyOnce'
    BY <1>2, <1>7, <1>8, <1>11, <2>2, <2>3, <2>4 DEF Claims, EarlyOnce
  <2>6. MakingOnce'
    BY <1>2, <1>4, <1>8, <1>11, <1>12, <2>2, <2>3 DEF Claims, MakingOnce
  <2>7. WaitingOnce'
    BY <1>2, <1>8, <1>11, <2>3 DEF Claims, WaitingOnce
  <2>8. QueuedOnce'
    BY <1>1, <1>12 DEF Claims, QueuedOnce, BelowLimit, HasChild
  <2> QED
    BY <1>2, <1>5, <1>11, <2>5, <2>6, <2>7, <2>8 DEF Claims
<1>13. CASE BelowLimit(i) /\ pending' = pending \cup {<<i, m>>} /\ Return(t)
  <2>1. task'[t].pc \notin MakePc
    BY <1>1, <1>13, ReturnedRights DEF Return, MakePc
  <2>2. \A u \in Task, p \in Made : Making(u, p)' => Making(u, p)
    BY <1>6, <2>1 DEF Making
  <2>3. \A p \in Made : Queued(p)' => Queued(p) \/ p = i
    BY <1>13 DEF Queued
  <2>4. \A u \in Task : ~Early(u, i)'
    BY <1>4, <1>6, <1>7 DEF Early
  <2>5. EarlyOnce'
    BY <1>2, <1>7, <1>8, <1>11, <2>2, <2>3, <2>4 DEF Claims, EarlyOnce
  <2>6. MakingOnce'
    BY <1>2, <1>4, <1>8, <1>11, <2>2, <2>3 DEF Claims, MakingOnce
  <2>7. WaitingOnce'
    BY <1>2, <1>4, <1>8, <1>11, <2>3 DEF Claims, WaitingOnce
  <2>8. QueuedOnce'
    BY <1>1, <1>4, <1>13 DEF Claims, QueuedOnce, BelowLimit, HasChild, Queued
  <2> QED
    BY <1>2, <1>5, <1>11, <2>5, <2>6, <2>7, <2>8 DEF Claims
<1> QED
  BY <1>1, <1>10, <1>12, <1>13

(* The due ones leave the queue for the hands of the task. *)
LEMMA TakeDueClaims ==
  ASSUME TypeInv, Claims, NEW t \in Task, TakeDue(t)
  PROVE  Claims'
<1> DEFINE D  == { e[1] : e \in Due }
           tk == [task[t] EXCEPT !.stage = "fire", !.due = D]
<1>1. /\ task \in [Task -> TaskState] /\ task[t].pc = "next"
      /\ pending' = pending \ Due
      /\ task' = [task EXCEPT ![t] = tk]
      /\ UNCHANGED <<made, info, spawned, cascaded>>
  BY DEF TypeInv, TasksOK, TakeDue, At, StillPending, db
<1>2. /\ \A u \in Task \ {t} : task'[u] = task[u]
      /\ task'[t].pc = "next" /\ task'[t].due = D
  BY <1>1 DEF TaskState
<1>3. Made' = Made /\ CascadeForest' /\ ChildOnce' /\ cascaded' \subseteq Made'
  BY <1>1 DEF Made, CascadeForest, ChildOnce, Claims
<1>4. \A u \in Task, p \in Made : /\ Early(u, p)' => Early(u, p)
                                  /\ Making(u, p)' => Making(u, p)
  BY <1>2 DEF Early, Making, EarlyPc, MakePc
<1>5. \A p \in Made : /\ BelowLimit(p)' <=> BelowLimit(p)
                      /\ HasChild(p)' <=> HasChild(p)
                      /\ Queued(p)' => Queued(p)
  BY <1>1 DEF BelowLimit, HasChild, Queued
(* What t now waits for was queued, and is queued no more. *)
<1>6. \A p \in Made : p \in D => Queued(p) /\ ~Queued(p)'
  <2>1. ASSUME NEW p \in Made, p \in D
        PROVE  Queued(p) /\ ~Queued(p)'
    <3>1. PICK e \in Due : e[1] = p
      BY <2>1
    <3>2. e \in pending
      BY DEF Due
    <3>3. \A f \in pending : f[1] = p => f = e
      BY <3>1, <3>2 DEF Claims, QueuedOnce
    <3>4. \A f \in pending' : f[1] # p
      BY <1>1, <3>3
    <3> QED
      BY <3>1, <3>2, <3>4 DEF Queued
  <2> QED
    BY <2>1
<1>7. \A p \in Made : Queued(p) => /\ BelowLimit(p) /\ ~HasChild(p)
                                   /\ \A u \in Task : ~Waiting(u, p) /\ ~Early(u, p) /\ ~Making(u, p)
  BY DEF Claims, QueuedOnce, Queued, EarlyOnce, MakingOnce, WaitingOnce
<1>8. \A u \in Task, p \in Made : Waiting(u, p)' => Waiting(u, p) \/ (u = t /\ p \in D)
  BY <1>2 DEF Waiting
<1>9. \A p \in Made : Waiting(t, p)' => p \in D
  BY <1>2 DEF Waiting
<1> HIDE DEF D
<1>10. EarlyOnce'
  BY <1>1, <1>3, <1>4, <1>5, <1>6, <1>7, <1>8 DEF Claims, EarlyOnce
<1>11. MakingOnce'
  BY <1>3, <1>4, <1>5, <1>6, <1>7, <1>8 DEF Claims, MakingOnce
<1>12. WaitingOnce'
  BY <1>3, <1>5, <1>6, <1>7, <1>8, <1>9 DEF Claims, WaitingOnce
<1>13. QueuedOnce'
  BY <1>1 DEF Claims, QueuedOnce, BelowLimit, HasChild
<1>14. FreshNodes'
  BY <1>1, <1>2 DEF Claims, FreshNodes, FreshPc
<1> QED
  BY <1>3, <1>10, <1>11, <1>12, <1>13, <1>14 DEF Claims

(* The task begins to make one of the children it waits to fire. *)
LEMMA FireDueClaims ==
  ASSUME TypeInv, Claims, NEW t \in Task, FireDue(t)
  PROVE  Claims'
<1>1. /\ task \in [Task -> TaskState] /\ task[t].pc = "next"
      /\ UNCHANGED <<made, info, spawned, cascaded, pending>>
  BY DEF TypeInv, TasksOK, FireDue, At, db, memory
<1>2. PICK q \in task[t].due : task' = [task EXCEPT ![t] = Fired(task[t], q)]
  BY DEF FireDue
<1>3. q \in Made /\ Made' = Made
  <2>1. TaskOK(task[t])
    BY TaskTyped DEF TypeInv
  <2> QED
    BY <1>1, <2>1 DEF TaskOK, Cascading, Made
<1>4. /\ \A u \in Task \ {t} : task'[u] = task[u]
      /\ task'[t].pc = "create" /\ task'[t].parent = q
      /\ task'[t].due = task[t].due \ {q}
  BY <1>1, <1>2 DEF Fired, Creating, TaskState
<1>5. Waiting(t, q)
  BY DEF Waiting
<1>6. /\ BelowLimit(q) /\ ~HasChild(q) /\ ~Queued(q)
      /\ \A u \in Task : (Waiting(u, q) => u = t) /\ ~Early(u, q) /\ ~Making(u, q)
  BY <1>3, <1>5 DEF Claims, WaitingOnce, EarlyOnce, MakingOnce
<1>7. \A p \in Made : /\ BelowLimit(p)' <=> BelowLimit(p)
                      /\ HasChild(p)' <=> HasChild(p)
                      /\ Queued(p)' <=> Queued(p)
  BY <1>1 DEF BelowLimit, HasChild, Queued
<1>8. \A u \in Task, p \in Made : Early(u, p)' => Early(u, p)
  BY <1>4 DEF Early, EarlyPc
<1>9. \A u \in Task, p \in Made : Making(u, p)' => Making(u, p) \/ (u = t /\ p = q)
  BY <1>4 DEF Making
<1>10. \A p \in Made : Making(t, p)' => p = q
  BY <1>4 DEF Making
<1>11. \A u \in Task, p \in Made : Waiting(u, p)' => Waiting(u, p) /\ p # q
  BY <1>4, <1>6 DEF Waiting
<1>12. EarlyOnce'
  BY <1>1, <1>3, <1>6, <1>7, <1>8, <1>9, <1>11 DEF Claims, EarlyOnce
<1>13. MakingOnce'
  BY <1>3, <1>6, <1>7, <1>9, <1>10, <1>11 DEF Claims, MakingOnce
<1>14. WaitingOnce'
  BY <1>3, <1>7, <1>11 DEF Claims, WaitingOnce
<1>15. QueuedOnce'
  BY <1>1 DEF Claims, QueuedOnce, BelowLimit, HasChild
<1>16. FreshNodes'
  BY <1>1, <1>4 DEF Claims, FreshNodes, FreshPc
<1>17. CascadeForest' /\ ChildOnce' /\ cascaded' \subseteq Made'
  BY <1>1, <1>3 DEF Claims, CascadeForest, ChildOnce
<1> QED
  BY <1>12, <1>13, <1>14, <1>15, <1>16, <1>17 DEF Claims

(* A tick ages the queue and the requests, and starts the consumer's loop. *)
LEMMA OnTickClaims ==
  ASSUME TypeInv, Claims, OnTick
  PROVE  Claims'
<1>1. /\ task \in [Task -> TaskState]
      /\ UNCHANGED <<made, info, spawned, cascaded>>
  BY DEF TypeInv, TasksOK, OnTick, db
<1>2. PICK d, todo :
       /\ pending' = { <<e[1], IF e[2] > d THEN e[2] - d ELSE 0>> : e \in pending }
       /\ task' = [u \in Task |->
            IF u = Consumer THEN [Idle EXCEPT !.pc = "next", !.stage = "ttr", !.todo = todo]
            ELSE Older(task[u], d)]
  BY DEF OnTick
<1>3. \A u \in Task : \/ task'[u].pc = "next" /\ task'[u].due = {}
                      \/ /\ task'[u].pc = task[u].pc /\ task'[u].due = task[u].due
                         /\ task'[u].inc = task[u].inc /\ task'[u].parent = task[u].parent
  BY <1>1, <1>2 DEF Idle, Older, TaskState
<1>4. /\ Made' = Made /\ CascadeForest' /\ ChildOnce' /\ cascaded' \subseteq Made'
      /\ \A p : /\ BelowLimit(p)' <=> BelowLimit(p)
                /\ HasChild(p)' <=> HasChild(p)
  BY <1>1 DEF Claims, Made, CascadeForest, ChildOnce, BelowLimit, HasChild
<1>5. \A f \in pending' : \E e \in pending :
        f = <<e[1], IF e[2] > d THEN e[2] - d ELSE 0>>
  BY <1>2
<1>6. \A f \in pending' : \E e \in pending : f[1] = e[1]
  BY <1>5
<1>7. \A p : Queued(p)' => Queued(p)
  BY <1>6 DEF Queued
<1>8. \A u \in Task, p \in Made : /\ Early(u, p)' => Early(u, p)
                                  /\ Making(u, p)' => Making(u, p)
                                  /\ Waiting(u, p)' => Waiting(u, p)
  BY <1>3 DEF Early, Making, Waiting, EarlyPc, MakePc
<1>9. EarlyOnce'
  BY <1>1, <1>4, <1>7, <1>8 DEF Claims, EarlyOnce
<1>10. MakingOnce' /\ WaitingOnce'
  BY <1>4, <1>7, <1>8 DEF Claims, MakingOnce, WaitingOnce
<1>11. QueuedOnce'
  <2>1. \A f \in pending' : BelowLimit(f[1])' /\ ~HasChild(f[1])'
    BY <1>4, <1>6 DEF Claims, QueuedOnce
  <2>2. \A f, g \in pending' : f[1] = g[1] => f = g
    <3>1. ASSUME NEW f \in pending', NEW g \in pending', f[1] = g[1]
          PROVE  f = g
      <4>1. PICK e \in pending : f = <<e[1], IF e[2] > d THEN e[2] - d ELSE 0>>
        BY <1>5
      <4>2. PICK h \in pending : g = <<h[1], IF h[2] > d THEN h[2] - d ELSE 0>>
        BY <1>5
      <4>3. e = h
        BY <3>1, <4>1, <4>2 DEF Claims, QueuedOnce
      <4> QED
        BY <4>1, <4>2, <4>3
    <3> QED
      BY <3>1
  <2> QED
    BY <2>1, <2>2 DEF QueuedOnce
<1>12. FreshNodes'
  BY <1>1, <1>3 DEF Claims, FreshNodes, FreshPc
<1> QED
  BY <1>4, <1>9, <1>10, <1>11, <1>12 DEF Claims

(* A crash destroys every right, and the marks with them. *)
LEMMA RestartClaims ==
  ASSUME TypeInv, Claims, Restart
  PROVE  Claims'
<1>1. /\ task' = [t \in Task |-> Idle]
      /\ cascaded' = {} /\ pending' = {} /\ UNCHANGED <<made, info, spawned>>
  BY DEF Restart, db
<1>2. \A t \in Task : task'[t].pc = "idle" /\ task'[t].due = {}
  BY <1>1 DEF Idle
<1>3. \A t \in Task, p \in Made : ~Early(t, p)' /\ ~Making(t, p)' /\ ~Waiting(t, p)'
  BY <1>2 DEF Early, Making, Waiting, EarlyPc, MakePc
<1>4. \A t \in Task : task'[t].pc \notin FreshPc
  BY <1>2 DEF FreshPc
<1> QED
  BY <1>1, <1>3, <1>4, RightsShrink
-----------------------------------------------------------------------------
(* The steps that carry no right. *)

LEMMA ContainClaims ==
  ASSUME TypeInv, Claims, NEW t \in Task,
         ContainRead(t) \/ ContainWrite(t) \/ ContainNotify(t)
  PROVE  Claims'
<1>1. UNCHANGED <<made, info, spawned, cascaded, pending>>
  BY DEF ContainRead, ContainWrite, ContainNotify, db, memory
<1>2. Return(t) \/ \E l \in {"containWrite", "containNotify"} : Goto(t, l)
  BY DEF ContainRead, ContainWrite, ContainNotify
<1> QED
  BY <1>1, <1>2, QuietReturn, QuietGoto DEF EarlyPc, MakePc

LEMMA ResolveClaims ==
  ASSUME TypeInv, Claims, NEW t \in Task,
         ResolveRead(t) \/ ResolveWrite(t) \/ Deactivate(t)
  PROVE  Claims'
<1>1. UNCHANGED <<made, info, spawned, cascaded, pending>>
  BY DEF ResolveRead, ResolveWrite, Deactivate, db, memory
<1>2. Return(t) \/ \E l \in {"resolveWrite", "deactivate", "children"} : Goto(t, l)
  BY DEF ResolveRead, ResolveWrite, Deactivate
<1> QED
  BY <1>1, <1>2, QuietReturn, QuietGoto DEF EarlyPc, MakePc

LEMMA ResolveChildrenClaims ==
  ASSUME TypeInv, Claims, NEW t \in Task, ResolveChildren(t)
  PROVE  Claims'
<1>1. PICK kids : task' = [task EXCEPT ![t].kids = kids, ![t].pc = "notify"]
  BY DEF ResolveChildren
<1>2. UNCHANGED <<made, info, spawned, cascaded, pending>>
  BY DEF ResolveChildren, memory
<1> DEFINE tk == [task[t] EXCEPT !.kids = kids, !.pc = "notify"]
<1>3. task[t] \in TaskState
  BY DEF TypeInv, TasksOK
<1>4. tk.due = task[t].due /\ tk.pc = "notify"
  BY <1>3 DEF TaskState
<1>5. task' = [task EXCEPT ![t] = tk]
  BY <1>1
<1> HIDE DEF tk
<1> QED
  BY <1>2, <1>4, <1>5, QuietStep DEF EarlyPc, MakePc

LEMMA NotifyClaims ==
  ASSUME TypeInv, Claims, NEW t \in Task, Notify(t)
  PROVE  Claims'
<1>1. task[t].pc = "notify" /\ UNCHANGED <<made, info, spawned, cascaded, pending>>
  BY DEF Notify, At, db, memory
<1>2. CASE Return(t)
  BY <1>1, <1>2, QuietReturn
<1>3. ASSUME NEW c \in task[t].kids, task' = [task EXCEPT ![t].kids = @ \ {c}]
      PROVE  Claims'
  <2> DEFINE tk == [task[t] EXCEPT !.kids = task[t].kids \ {c}]
  <2>1. task[t] \in TaskState
    BY DEF TypeInv, TasksOK
  <2>2. tk.due = task[t].due /\ tk.pc = "notify"
    BY <1>1, <2>1 DEF TaskState
  <2>3. task' = [task EXCEPT ![t] = tk]
    BY <1>3
  <2> HIDE DEF tk
  <2> QED
    BY <1>1, <2>2, <2>3, QuietStep DEF EarlyPc, MakePc
<1> QED
  BY <1>2, <1>3 DEF Notify

LEMMA FindClaims ==
  ASSUME TypeInv, Claims, NEW t \in Task, Find(t)
  PROVE  Claims'
<1>1. UNCHANGED <<made, info, spawned, cascaded, pending>>
  BY DEF Find, db, memory
<1>2. \/ Return(t)
      \/ task' = [task EXCEPT ![t] = Creating(task[t], task[t].kind, None)]
  BY DEF Find
<1> QED
  BY <1>1, <1>2, QuietReturn, QuietCreating

(* A task sent to a step that makes nothing, with another incident. *)
LEMMA QuietOperate ==
  ASSUME TypeInv, Claims, NEW t \in Task, NEW l \in {"containRead", "resolveRead"}, NEW i,
         task' = [task EXCEPT ![t].pc = l, ![t].inc = i],
         UNCHANGED <<made, info, spawned, cascaded, pending>>
  PROVE  Claims'
<1> DEFINE tk == [task[t] EXCEPT !.pc = l, !.inc = i]
<1>1. task[t] \in TaskState
  BY DEF TypeInv, TasksOK
<1>2. tk.due = task[t].due /\ tk.pc = l
  BY <1>1 DEF TaskState
<1>3. task' = [task EXCEPT ![t] = tk]
  OBVIOUS
<1> HIDE DEF tk
<1> QED
  BY <1>2, <1>3, QuietStep DEF EarlyPc, MakePc

LEMMA FindWeatherClaims ==
  ASSUME TypeInv, Claims, NEW t \in Task, FindWeather(t)
  PROVE  Claims'
<1>1. UNCHANGED <<made, info, spawned, cascaded, pending>>
  BY DEF FindWeather, db, memory
<1>2. Return(t) \/ \E i : task' = [task EXCEPT ![t].pc = "resolveRead", ![t].inc = i]
  BY DEF FindWeather
<1> QED
  BY <1>1, <1>2, QuietReturn, QuietOperate

LEMMA NextCountdownClaims ==
  ASSUME TypeInv, Claims, NEW t \in Task, NextCountdown(t)
  PROVE  Claims'
<1>1. UNCHANGED <<made, info, spawned, cascaded, pending>>
  BY DEF NextCountdown, memory
<1>2. PICK e : task' = [task EXCEPT ![t] = Counted(task[t], e)]
  BY DEF NextCountdown
<1>3. task[t] \in TaskState
  BY DEF TypeInv, TasksOK
<1>4. /\ Counted(task[t], e).due = task[t].due
      /\ Counted(task[t], e).pc \in {"resolveRead", "next"}
  BY <1>3 DEF Counted, TaskState
<1> QED
  BY <1>1, <1>2, <1>4, QuietStep DEF EarlyPc, MakePc

LEMMA DrawClaims ==
  ASSUME TypeInv, Claims, NEW t \in Task, Draw(t)
  PROVE  Claims'
<1>1. task[t].pc = "next" /\ UNCHANGED <<made, info, spawned, cascaded, pending>>
  BY DEF Draw, At, db, memory
<1>2. PICK K : task' = [task EXCEPT ![t].stage = "draw", ![t].draws = K]
  BY DEF Draw
<1> DEFINE tk == [task[t] EXCEPT !.stage = "draw", !.draws = K]
<1>3. task[t] \in TaskState
  BY DEF TypeInv, TasksOK
<1>4. tk.due = task[t].due /\ tk.pc = "next"
  BY <1>1, <1>3 DEF TaskState
<1>5. task' = [task EXCEPT ![t] = tk]
  BY <1>2
<1> HIDE DEF tk
<1> QED
  BY <1>1, <1>4, <1>5, QuietStep DEF EarlyPc, MakePc

LEMMA NextDrawClaims ==
  ASSUME TypeInv, Claims, NEW t \in Task, NextDraw(t)
  PROVE  Claims'
<1>1. UNCHANGED <<made, info, spawned, cascaded, pending>>
  BY DEF NextDraw, db, memory
<1>2. CASE task' = [task EXCEPT ![t] = Idle]
  BY <1>1, <1>2, QuietIdle
<1>3. ASSUME NEW k, task' = [task EXCEPT ![t].draws = @ \ {k}, ![t].kind = k, ![t].pc = "find"]
      PROVE  Claims'
  <2> DEFINE tk == [task[t] EXCEPT !.draws = task[t].draws \ {k}, !.kind = k, !.pc = "find"]
  <2>1. task[t] \in TaskState
    BY DEF TypeInv, TasksOK
  <2>2. tk.due = task[t].due /\ tk.pc = "find"
    BY <2>1 DEF TaskState
  <2>3. task' = [task EXCEPT ![t] = tk]
    BY <1>3, <2>1 DEF TaskState
  <2> HIDE DEF tk
  <2> QED
    BY <1>1, <2>2, <2>3, QuietStep DEF EarlyPc, MakePc
<1> QED
  BY <1>2, <1>3 DEF NextDraw

LEMMA EndClaims ==
  ASSUME TypeInv, Claims, NEW t \in Task, EndReduce(t) \/ Fail(t)
  PROVE  Claims'
<1>1. /\ task' = [task EXCEPT ![t] = Idle]
      /\ UNCHANGED <<made, info, spawned, cascaded, pending>>
  BY DEF EndReduce, Fail, db, memory
<1> QED
  BY <1>1, QuietIdle

LEMMA RequestClaims ==
  ASSUME TypeInv, Claims, NEW t \in Rest, Request(t)
  PROVE  Claims'
<1>1. /\ t \in Task
      /\ UNCHANGED <<made, info, spawned, cascaded, pending>>
  BY DEF Request, RestInject, RestOperate, db, memory, Task
<1>2. CASE RestInject(t)
  BY <1>1, <1>2, QuietCreating DEF RestInject
<1>3. CASE RestOperate(t)
  <2>1. \A op \in RestOps \ {"inject"} : FirstStep[op] \in {"containRead", "resolveRead"}
    BY InputAssumption DEF FirstStep
  <2> QED
    BY <1>1, <1>3, <2>1, QuietOperate DEF RestOperate
<1> QED
  BY <1>2, <1>3 DEF Request

(* A task that goes to look for an open incident. *)
LEMMA QuietLook ==
  ASSUME TypeInv, Claims, NEW t \in Task, NEW k,
         task' = [task EXCEPT ![t].pc = "find", ![t].kind = k],
         UNCHANGED <<made, info, spawned, cascaded, pending>>
  PROVE  Claims'
<1> DEFINE tk == [task[t] EXCEPT !.pc = "find", !.kind = k]
<1>1. task[t] \in TaskState
  BY DEF TypeInv, TasksOK
<1>2. tk.due = task[t].due /\ tk.pc = "find"
  BY <1>1 DEF TaskState
<1>3. task' = [task EXCEPT ![t] = tk]
  OBVIOUS
<1> HIDE DEF tk
<1> QED
  BY <1>2, <1>3, QuietStep DEF EarlyPc, MakePc

LEMMA OnRecommendationAppliedClaims ==
  ASSUME TypeInv, Claims, OnRecommendationApplied
  PROVE  Claims'
<1>1. Consumer \in Task /\ UNCHANGED <<made, info, spawned, cascaded, pending>>
  BY DEF OnRecommendationApplied, db, memory, Task
<1>2. PICK todo : task' = [task EXCEPT ![Consumer].pc = "next", ![Consumer].stage = "reduce",
                                       ![Consumer].todo = todo]
  BY DEF OnRecommendationApplied
<1> DEFINE tk == [task[Consumer] EXCEPT !.pc = "next", !.stage = "reduce", !.todo = todo]
<1>3. task[Consumer] \in TaskState
  BY <1>1 DEF TypeInv, TasksOK
<1>4. tk.due = task[Consumer].due /\ tk.pc = "next"
  BY <1>3 DEF TaskState
<1>5. task' = [task EXCEPT ![Consumer] = tk]
  BY <1>2
<1> HIDE DEF tk
<1> QED
  BY <1>1, <1>4, <1>5, QuietStep DEF EarlyPc, MakePc

LEMMA MessageClaims ==
  ASSUME TypeInv, Claims, Message
  PROVE  Claims'
<1>1. Consumer \in Task
  BY DEF Task
<1>2. CASE OnCommand
  <2>1. \A op \in CommandOps : FirstStep[op] \in {"containRead", "resolveRead"}
    BY InputAssumption DEF FirstStep
  <2>2. UNCHANGED <<made, info, spawned, cascaded, pending>>
    BY <1>2 DEF OnCommand, db, memory
  <2> QED
    BY <1>1, <1>2, <2>1, <2>2, QuietOperate DEF OnCommand
<1>3. CASE OnInject
  BY <1>1, <1>3, QuietCreating DEF OnInject, db, memory
<1>4. CASE OnDetection
  BY <1>1, <1>4, QuietLook DEF OnDetection, db, memory
<1>5. CASE OnWeatherChanged
  <2>1. UNCHANGED <<made, info, spawned, cascaded, pending>>
    BY <1>5 DEF OnWeatherChanged, db
  <2>2. \/ \E k : task' = [task EXCEPT ![Consumer].pc = "find", ![Consumer].kind = k]
        \/ Goto(Consumer, "findWeather")
        \/ UNCHANGED task
    BY <1>5 DEF OnWeatherChanged, Goto
  <2> QED
    BY <1>1, <2>1, <2>2, QuietLook, QuietGoto, SameClaims DEF EarlyPc, MakePc
<1> QED
  BY <1>2, <1>3, <1>4, <1>5, OnTickClaims, OnRecommendationAppliedClaims DEF Message
-----------------------------------------------------------------------------
LEMMA NextClaims == TypeInv /\ Claims /\ [Next]_vars => Claims'
<1> SUFFICES ASSUME TypeInv, Claims, [Next]_vars PROVE Claims'
  OBVIOUS
<1>1. CASE UNCHANGED vars
  BY <1>1, SameClaims DEF vars, db, memory
<1>2. ASSUME NEW t \in Task, Step(t)
      PROVE  Claims'
  BY <1>2, CreateNodeClaims, ActivateClaims, LinkClaims, AnnounceClaims, CascadeClaims,
     ContainClaims, ResolveClaims, ResolveChildrenClaims, NotifyClaims,
     FindClaims, FindWeatherClaims, NextCountdownClaims, EndClaims, TakeDueClaims,
     FireDueClaims, DrawClaims, NextDrawClaims
     DEF Step
<1>3. ASSUME NEW t \in Task, Fail(t)
      PROVE  Claims'
  BY <1>3, EndClaims
<1>4. ASSUME NEW t \in Rest, Request(t)
      PROVE  Claims'
  BY <1>4, RequestClaims
<1>5. CASE Message \/ Restart
  BY <1>5, MessageClaims, RestartClaims
<1> QED
  BY <1>1, <1>2, <1>3, <1>4, <1>5 DEF Next

(* The right to the child of an incident is never duplicated.               *)
THEOREM RightsNeverDuplicated == Spec => []Claims
<1>1. Init => TypeInv /\ Claims
  BY InitTypeInv, InitClaims
<1>2. TypeInv /\ Claims /\ [Next]_vars => TypeInv' /\ Claims'
  BY NextTypeInv, NextClaims
<1> QED
  BY <1>1, <1>2, PTL DEF Spec

(* The SPAWNED relationships are a forest no deeper than CASCADE_MAX_DEPTH, *)
(* whatever the ticks, requests, crashes and failed queries interleave.     *)
THEOREM ForestAlways == Spec => []CascadeForest
<1>1. Claims => CascadeForest
  BY DEF Claims
<1> QED
  BY <1>1, RightsNeverDuplicated, PTL

(* No incident gets a second child, and none is met by evaluate_cascades    *)
(* once it has been marked.                                                 *)
THEOREM CascadeOnceAlways == Spec => []CascadesOnce
<1>1. TypeInv /\ Claims => CascadesOnce
  <2> SUFFICES ASSUME TypeInv, Claims PROVE CascadesOnce
    OBVIOUS
  <2>1. \A e, f \in spawned : e[1] = f[1] => e = f
    BY DEF Claims, ChildOnce
  <2>2. ASSUME NEW t \in Task, At(t, "cascade")
        PROVE  task[t].inc \notin cascaded
    <3>1. task[t].inc \in Made
      BY <2>2, WorksOnMade DEF TypeInv, At, Working
    <3> QED
      BY <2>2, <3>1 DEF At, Claims, EarlyOnce, Early, EarlyPc
  <2> QED
    BY <2>1, <2>2 DEF CascadesOnce
<1> QED
  BY <1>1, Inductive, RightsNeverDuplicated, PTL
-----------------------------------------------------------------------------
(***************************************************************************)
(* While the consumer works alone -- no REST request is ever in flight --  *)
(* an incident's status only moves along VALID_TRANSITIONS: what           *)
(* contain_incident reads still holds where it writes.  With REST requests *)
(* it does not (the run IncidentContainRace).                              *)
(***************************************************************************)
(* The status that contain_incident read is the one it writes over. *)
ReadHolds ==
  task[Consumer].pc = "containWrite" => status[task[Consumer].inc] = "active"

LEMMA AloneTask ==
  ASSUME Rest = {}
  PROVE  Task = {Consumer}
  BY DEF Task

(* Where a step may send its task, but never to containWrite. *)
LEMMA GotoElsewhere ==
  ASSUME TypeInv, NEW t \in Task, NEW l, l # "containWrite", Goto(t, l)
  PROVE  task'[t].pc # "containWrite"
  BY DEF TypeInv, TasksOK, TaskState, Goto

LEMMA ReturnElsewhere ==
  ASSUME TypeInv, NEW t \in Task, Return(t)
  PROVE  task'[t].pc # "containWrite"
<1>1. task \in [Task -> TaskState]
  BY DEF TypeInv, TasksOK
<1>2. \A tk \in TaskState : Returned(tk).pc \in {"idle", "next"}
  BY DEF Returned, Idle, TaskState
<1> QED
  BY <1>1, <1>2 DEF Return

LEMMA CreatingElsewhere ==
  ASSUME TypeInv, NEW t \in Task, NEW k, NEW p,
         task' = [task EXCEPT ![t] = Creating(task[t], k, p)]
  PROVE  task'[t].pc # "containWrite"
  BY DEF TypeInv, TasksOK, TaskState, Creating

(* Only contain_incident's own read comes before its write. *)
LEMMA StepElsewhere ==
  ASSUME TypeInv, NEW t \in Task, Step(t), ~ContainRead(t)
  PROVE  task'[t].pc # "containWrite"
<1>1. task \in [Task -> TaskState]
  BY DEF TypeInv, TasksOK
<1> USE <1>1
<1>2. CASE CreateNode(t)
  BY <1>2 DEF CreateNode, TaskState
<1>3. CASE Activate(t) \/ Link(t) \/ Announce(t) \/ ContainWrite(t) \/ ResolveWrite(t) \/ Deactivate(t)
  BY <1>3, GotoElsewhere DEF Activate, Link, Announce, ContainWrite, ResolveWrite, Deactivate
<1>4. CASE Cascade(t)
  <2>1. Return(t) \/ \E k, p : task' = [task EXCEPT ![t] = Creating(task[t], k, p)]
    BY <1>4 DEF Cascade
  <2> QED
    BY <2>1, ReturnElsewhere, CreatingElsewhere
<1>5. CASE ContainNotify(t)
  BY <1>5, ReturnElsewhere DEF ContainNotify
<1>6. CASE ResolveRead(t)
  BY <1>6, ReturnElsewhere, GotoElsewhere DEF ResolveRead
<1>7. CASE ResolveChildren(t)
  BY <1>7 DEF ResolveChildren, TaskState
<1>8. CASE Notify(t)
  <2>1. task[t].pc = "notify"
    BY <1>8 DEF Notify, At
  <2>2. Return(t) \/ \E c : task' = [task EXCEPT ![t].kids = @ \ {c}]
    BY <1>8 DEF Notify
  <2>3. ASSUME NEW c, task' = [task EXCEPT ![t].kids = @ \ {c}]
        PROVE  task'[t].pc = "notify"
    BY <2>1, <2>3 DEF TaskState
  <2> QED
    BY <2>2, <2>3, ReturnElsewhere
<1>9. CASE Find(t)
  BY <1>9, ReturnElsewhere, CreatingElsewhere DEF Find
<1>10. CASE FindWeather(t)
  <2>1. Return(t) \/ \E i : task' = [task EXCEPT ![t].pc = "resolveRead", ![t].inc = i]
    BY <1>10 DEF FindWeather
  <2>2. ASSUME NEW i, task' = [task EXCEPT ![t].pc = "resolveRead", ![t].inc = i]
        PROVE  task'[t].pc # "containWrite"
    BY <2>2 DEF TaskState
  <2> QED
    BY <2>1, <2>2, ReturnElsewhere
<1>11. CASE NextCountdown(t)
  <2>1. PICK e : task' = [task EXCEPT ![t] = Counted(task[t], e)]
    BY <1>11 DEF NextCountdown
  <2>2. Counted(task[t], e).pc \in {"resolveRead", "next"}
    BY DEF Counted, TaskState
  <2> QED
    BY <2>1, <2>2
<1>12. CASE EndReduce(t)
  BY <1>12 DEF EndReduce, Idle
<1>13. CASE TakeDue(t)
  BY <1>13 DEF TakeDue, At, TaskState
<1>14. CASE FireDue(t)
  <2>1. PICK p : task' = [task EXCEPT ![t] = Fired(task[t], p)]
    BY <1>14 DEF FireDue
  <2>2. Fired(task[t], p).pc = "create"
    BY DEF Fired, Creating, TaskState
  <2> QED
    BY <2>1, <2>2
<1>15. CASE Draw(t)
  <2>1. task[t].pc = "next" /\ \E K : task' = [task EXCEPT ![t].stage = "draw", ![t].draws = K]
    BY <1>15 DEF Draw, At
  <2> QED
    BY <2>1 DEF TaskState
<1>16. CASE NextDraw(t)
  <2>1. CASE task' = [task EXCEPT ![t] = Idle]
    BY <2>1 DEF Idle
  <2>2. ASSUME NEW k, task' = [task EXCEPT ![t].draws = @ \ {k}, ![t].kind = k, ![t].pc = "find"]
        PROVE  task'[t].pc # "containWrite"
    BY <2>2 DEF TaskState
  <2> QED
    BY <1>16, <2>1, <2>2 DEF NextDraw
<1> QED
  BY <1>2, <1>3, <1>4, <1>5, <1>6, <1>7, <1>8, <1>9, <1>10, <1>11, <1>12, <1>13,
     <1>14, <1>15, <1>16 DEF Step

LEMMA MessageElsewhere ==
  ASSUME TypeInv, Message
  PROVE  task'[Consumer].pc # "containWrite"
<1>1. /\ task \in [Task -> TaskState] /\ Consumer \in Task /\ task[Consumer].pc = "idle"
  BY DEF TypeInv, TasksOK, Task, Message, OnCommand, OnInject, OnDetection,
         OnWeatherChanged, OnTick, OnRecommendationApplied, Ready, At
<1>2. CASE OnCommand
  <2>1. PICK i \in Made, op \in CommandOps :
          task' = [task EXCEPT ![Consumer].pc = FirstStep[op], ![Consumer].inc = i]
    BY <1>2 DEF OnCommand
  <2>2. FirstStep[op] # "containWrite"
    BY InputAssumption DEF FirstStep
  <2> QED
    BY <1>1, <2>1, <2>2 DEF TaskState
<1>3. CASE OnInject
  BY <1>1, <1>3, CreatingElsewhere DEF OnInject
<1>4. CASE OnDetection
  <2>1. PICK k : task' = [task EXCEPT ![Consumer].pc = "find", ![Consumer].kind = k]
    BY <1>4 DEF OnDetection
  <2> QED
    BY <1>1, <2>1 DEF TaskState
<1>5. CASE OnWeatherChanged
  <2>1. \/ \E k : task' = [task EXCEPT ![Consumer].pc = "find", ![Consumer].kind = k]
        \/ task' = [task EXCEPT ![Consumer].pc = "findWeather"]
        \/ UNCHANGED task
    BY <1>5 DEF OnWeatherChanged
  <2>2. ASSUME NEW k, task' = [task EXCEPT ![Consumer].pc = "find", ![Consumer].kind = k]
        PROVE  task'[Consumer].pc # "containWrite"
    BY <1>1, <2>2 DEF TaskState
  <2>3. CASE task' = [task EXCEPT ![Consumer].pc = "findWeather"]
    BY <1>1, <2>3 DEF TaskState
  <2> QED
    BY <1>1, <2>1, <2>2, <2>3
<1>6. CASE OnTick
  <2>1. PICK todo : task'[Consumer] = [Idle EXCEPT !.pc = "next", !.stage = "ttr", !.todo = todo]
    BY <1>1, <1>6 DEF OnTick
  <2> QED
    BY <2>1 DEF Idle
<1>7. CASE OnRecommendationApplied
  <2>1. PICK todo : task' = [task EXCEPT ![Consumer].pc = "next", ![Consumer].stage = "reduce",
                                         ![Consumer].todo = todo]
    BY <1>7 DEF OnRecommendationApplied
  <2> QED
    BY <1>1, <2>1 DEF TaskState
<1> QED
  BY <1>2, <1>3, <1>4, <1>5, <1>6, <1>7 DEF Message

LEMMA NextReadHolds ==
  ASSUME Rest = {}, TypeInv, ReadHolds, [Next]_vars
  PROVE  ReadHolds'
<1>1. Task = {Consumer}
  BY AloneTask
<1>2. CASE UNCHANGED vars
  BY <1>2 DEF vars, db, ReadHolds
<1>3. CASE ContainRead(Consumer)
  <2>1. /\ task \in [Task -> TaskState] /\ Consumer \in Task
        /\ UNCHANGED status
        /\ IF status[task[Consumer].inc] = "active"
           THEN Goto(Consumer, "containWrite") ELSE Return(Consumer)
    BY <1>1, <1>3 DEF TypeInv, TasksOK, ContainRead, db
  <2>2. CASE Return(Consumer)
    BY <2>1, <2>2, ReturnElsewhere DEF ReadHolds
  <2>3. CASE status[task[Consumer].inc] = "active" /\ Goto(Consumer, "containWrite")
    <3>1. task'[Consumer].inc = task[Consumer].inc
      BY <2>1, <2>3 DEF Goto, TaskState
    <3> QED
      BY <2>1, <2>3, <3>1 DEF ReadHolds
  <2> QED
    BY <2>1, <2>2, <2>3
<1>4. CASE Step(Consumer) /\ ~ContainRead(Consumer)
  BY <1>1, <1>4, StepElsewhere DEF ReadHolds
<1>5. CASE Fail(Consumer) \/ Restart
  <2>1. task'[Consumer] = Idle
    BY <1>1, <1>5 DEF Fail, Restart, TypeInv, TasksOK
  <2> QED
    BY <2>1 DEF ReadHolds, Idle
<1>6. CASE Message
  BY <1>6, MessageElsewhere DEF ReadHolds
<1> QED
  BY <1>1, <1>2, <1>3, <1>4, <1>5, <1>6 DEF Next

(* Every write of a status is a permitted transition. *)
LEMMA WritesForward ==
  ASSUME Rest = {}, TypeInv, ReadHolds, [Next]_vars, NEW i \in Incident
  PROVE  /\ status[i] = "resolved" => status'[i] = "resolved"
         /\ status[i] = "contained" => status'[i] # "active"
<1>1. /\ Task = {Consumer} /\ status \in [Incident -> Status \cup {"none"}]
      /\ \A j \in Incident : (status[j] = "none") <=> (j \notin Made)
  BY AloneTask DEF TypeInv, NodesTyped
<1>2. CASE UNCHANGED status
  BY <1>2
<1>3. CASE CreateNode(Consumer)
  <2>1. status' = [status EXCEPT ![made + 1] = "active"] /\ made + 1 \notin Made
    BY <1>3, MadeInIncident DEF CreateNode, TypeInv, Made
  <2> QED
    BY <1>1, <2>1
<1>4. CASE ContainWrite(Consumer)
  BY <1>1, <1>4 DEF ContainWrite, At, ReadHolds
<1>5. CASE ResolveWrite(Consumer)
  BY <1>1, <1>5 DEF ResolveWrite
<1>6. CASE ResolveChildren(Consumer)
  BY <1>1, <1>6 DEF ResolveChildren
<1>7. CASE ~(\/ CreateNode(Consumer) \/ ContainWrite(Consumer)
            \/ ResolveWrite(Consumer) \/ ResolveChildren(Consumer))
  <2>1. CASE Step(Consumer)
    BY <1>7, <2>1, <1>2 DEF Step, Activate, Link, Announce, Cascade, ContainRead, ContainNotify,
       ResolveRead, Deactivate, Notify, Find, FindWeather, NextCountdown, EndReduce,
       TakeDue, FireDue, Draw, NextDraw, db
  <2>2. CASE Fail(Consumer) \/ Restart \/ Message \/ UNCHANGED vars
    BY <1>2, <2>2 DEF Fail, Restart, Message, OnCommand, OnInject, OnDetection,
       OnWeatherChanged, OnTick, OnRecommendationApplied, vars, db
  <2> QED
    BY <1>1, <2>1, <2>2 DEF Next
<1> QED
  BY <1>3, <1>4, <1>5, <1>6, <1>7

(* VALID_TRANSITIONS holds of every step while no REST request runs.        *)
THEOREM ForwardAlone == ASSUME Rest = {} PROVE Spec => StatusMovesForward
<1>1. Init => TypeInv /\ ReadHolds
  <2>1. Init => ReadHolds
    BY DEF Init, ReadHolds, Idle, Task
  <2> QED
    BY <2>1, InitTypeInv
<1>2. TypeInv /\ ReadHolds /\ [Next]_vars => TypeInv' /\ ReadHolds'
  BY NextTypeInv, NextReadHolds
<1>3. TypeInv /\ ReadHolds /\ [Next]_vars =>
        [\A i \in Incident : /\ status[i] = "resolved"  => status'[i] = "resolved"
                             /\ status[i] = "contained" => status'[i] # "active"]_vars
  BY WritesForward
<1> QED
  BY <1>1, <1>2, <1>3, PTL DEF Spec, StatusMovesForward
(***************************************************************************)
(* The consumer alone, and no fault.  Then an incident is in the hands of  *)
(* one task at most, and what that task has read still holds when it       *)
(* writes.  Each step of the service is one of the moves below; what they  *)
(* keep is proved of the moves.                                            *)
(***************************************************************************)
Now   == task[Consumer]
Calm  == {"idle", "next", "find", "findWeather", "containRead", "resolveRead"}
Delay(p) == CASCADE_RULES[info[p].kind.type].delay

On(from, to) ==
  /\ Now.pc = from /\ Now'.pc = to
  /\ Now'.inc = Now.inc /\ Now'.parent = Now.parent /\ Now'.kids = Now.kids

(* No parent joins those whose cascade is queued or due. *)
NoneQueued ==
  /\ \A e \in pending' : \E f \in pending : f[1] = e[1]
  /\ \A p \in Now'.due : p \in Now.due \/ \E f \in pending : f[1] = p

Calmly ==
  /\ Now.pc \in Calm /\ NoneQueued
  /\ Now'.kids = Now.kids \/ Now'.kids = {}
  /\ \/ Now'.pc \in Calm
     \/ /\ Now'.pc = "create"
        /\ \/ /\ Now'.parent = None
              /\ Now'.kind \in Injected \/ Open(Now'.kind.type, Now'.kind.location) = {}
           \/ Now'.parent \in Now.due /\ Now'.kind = ChildKind(Now'.parent)
  /\ UNCHANGED <<made, info, status, spawned, protocols, emitted>>

Creates ==
  /\ Now.pc = "create" /\ Now'.pc = "activate" /\ NoneQueued
  /\ Now'.parent = Now.parent /\ Now'.kids = Now.kids
  /\ made + 1 \in Incident /\ Now'.inc = made + 1 /\ made' = made + 1
  /\ status' = [status EXCEPT ![made + 1] = "active"]
  /\ \E d : info' = [info EXCEPT ![made + 1] = [kind |-> Now.kind, depth |-> d]]
  /\ UNCHANGED <<spawned, protocols, emitted>>

Activates ==
  /\ On("activate", IF Now.parent = None THEN "announce" ELSE "link") /\ NoneQueued
  /\ protocols' = IF ProtocolFor(Now.inc) = NoProtocol THEN protocols
                  ELSE protocols \cup {<<ProtocolFor(Now.inc), Now.inc>>}
  /\ UNCHANGED <<made, info, status, spawned, emitted>>

Links ==
  /\ On("link", "announce") /\ NoneQueued
  /\ spawned' = spawned \cup {<<Now.parent, Now.inc>>}
  /\ UNCHANGED <<made, info, status, protocols, emitted>>

Announces ==
  /\ On("announce", "cascade") /\ NoneQueued /\ Emit(Now.inc, "created")
  /\ UNCHANGED <<made, info, status, spawned, protocols>>

Cascades ==
  /\ Now.pc = "cascade"
  /\ Now'.kids = Now.kids \/ Now'.kids = {}
  /\ \/ Now'.pc \in Calm
     \/ /\ Now'.pc = "create" /\ Now'.parent = Now.inc /\ Now'.kind = ChildKind(Now.inc)
        /\ info[Now.inc].kind.type \in DOMAIN CASCADE_RULES
  /\ \A e \in pending' : e \in pending \/ (e[1] = Now.inc /\ Delay(Now.inc) > 0)
  /\ Now'.due \subseteq Now.due
  /\ UNCHANGED <<made, info, status, spawned, protocols, emitted>>

BeginsContainment ==
  /\ On("containRead", "containWrite") /\ NoneQueued /\ status[Now.inc] = "active"
  /\ UNCHANGED <<made, info, status, spawned, protocols, emitted>>

Contains ==
  /\ On("containWrite", "containNotify") /\ NoneQueued
  /\ status' = [status EXCEPT ![Now.inc] = "contained"]
  /\ UNCHANGED <<made, info, spawned, protocols, emitted>>

TellsContained ==
  /\ Now.pc = "containNotify" /\ Now'.pc \in Calm /\ NoneQueued
  /\ Now'.kids = Now.kids \/ Now'.kids = {}
  /\ Emit(Now.inc, "contained")
  /\ UNCHANGED <<made, info, status, spawned, protocols>>

BeginsResolution ==
  /\ On("resolveRead", "resolveWrite") /\ NoneQueued /\ status[Now.inc] # "resolved"
  /\ UNCHANGED <<made, info, status, spawned, protocols, emitted>>

Resolves ==
  /\ On("resolveWrite", "deactivate") /\ NoneQueued
  /\ status' = [status EXCEPT ![Now.inc] = "resolved"]
  /\ UNCHANGED <<made, info, spawned, protocols, emitted>>

Deactivates ==
  /\ On("deactivate", "children") /\ NoneQueued
  /\ protocols' = protocols \ {<<ProtocolFor(Now.inc), Now.inc>>}
  /\ UNCHANGED <<made, info, status, spawned, emitted>>

ResolvesChildren ==
  /\ Now.pc = "children" /\ Now'.pc = "notify" /\ Now'.inc = Now.inc /\ NoneQueued
  /\ Now'.kids = {c \in Descendants(Now.inc) : status[c] # "resolved"}
  /\ status' = [i \in Incident |-> IF i \in Now'.kids THEN "resolved" ELSE status[i]]
  /\ UNCHANGED <<made, info, spawned, protocols, emitted>>

TellsOfChild ==
  /\ Now.pc = "notify" /\ Now'.pc = "notify" /\ Now'.inc = Now.inc /\ NoneQueued
  /\ \E c \in Now.kids : Emit(c, "resolved") /\ Now'.kids = Now.kids \ {c}
  /\ UNCHANGED <<made, info, status, spawned, protocols>>

TellsResolved ==
  /\ Now.pc = "notify" /\ Now.kids = {} /\ Now'.pc \in Calm /\ Now'.kids = {} /\ NoneQueued
  /\ Emit(Now.inc, "resolved")
  /\ UNCHANGED <<made, info, status, spawned, protocols>>

Stays ==
  UNCHANGED <<made, info, status, spawned, protocols, emitted, pending, Now>>

Moves ==
  \/ Calmly \/ Creates \/ Activates \/ Links \/ Announces \/ Cascades
  \/ BeginsContainment \/ Contains \/ TellsContained
  \/ BeginsResolution \/ Resolves \/ Deactivates \/ ResolvesChildren
  \/ TellsOfChild \/ TellsResolved \/ Stays
-----------------------------------------------------------------------------
(* Fields of the consumer's task after a step that replaces it. *)
LEMMA NowIs ==
  ASSUME TypeInv, NEW tk, task' = [task EXCEPT ![Consumer] = tk]
  PROVE  Now' = tk
  BY DEF TypeInv, TasksOK, Task, Now

LEMMA NowTyped ==
  ASSUME TypeInv
  PROVE  Now \in TaskState /\ Consumer \in Task /\ task \in [Task -> TaskState]
  BY DEF TypeInv, TasksOK, Task, Now

LEMMA PendingKept ==
  ASSUME pending' = pending, Now'.due \subseteq Now.due
  PROVE  NoneQueued
  BY DEF NoneQueued

LEMMA GotoOn ==
  ASSUME TypeInv, NEW l, Goto(Consumer, l)
  PROVE  On(Now.pc, l) /\ Now'.due = Now.due
<1>1. Now \in TaskState /\ Consumer \in Task /\ task \in [Task -> TaskState]
  BY NowTyped
<1>2. Now' = [Now EXCEPT !.pc = l]
  BY <1>1 DEF Goto, Now
<1> QED BY <1>1, <1>2 DEF On, TaskState

LEMMA ReturnsCalmly ==
  ASSUME TypeInv, Return(Consumer)
  PROVE  /\ Now'.pc \in Calm /\ Now'.kids = {} /\ Now'.due \subseteq Now.due
<1>1. Now \in TaskState /\ Consumer \in Task /\ task \in [Task -> TaskState]
  BY NowTyped
<1>2. Now' = Returned(Now)
  BY <1>1 DEF Return, Now
<1>3. CASE Now.stage = "none"
  BY <1>2, <1>3 DEF Returned, Idle, Calm
<1>4. CASE Now.stage # "none"
  BY <1>1, <1>2, <1>4 DEF Returned, TaskState, Calm
<1> QED BY <1>3, <1>4

LEMMA BeginsCreating ==
  ASSUME TypeInv, NEW k, NEW p, task' = [task EXCEPT ![Consumer] = Creating(Now, k, p)]
  PROVE  /\ Now'.pc = "create" /\ Now'.kind = k /\ Now'.parent = p
         /\ Now'.kids = Now.kids /\ Now'.due = Now.due
<1>1. Now \in TaskState /\ Now' = Creating(Now, k, p)
  BY NowTyped, NowIs
<1> QED BY <1>1 DEF Creating, TaskState

LEMMA CreateMoves ==
  ASSUME TypeInv, CreateNode(Consumer)
  PROVE  Creates
<1> DEFINE tk == [Now EXCEPT !.inc = made + 1, !.pc = "activate"]
<1>1. Now \in TaskState /\ Consumer \in Task /\ task \in [Task -> TaskState]
  BY NowTyped
<1>2. Now' = tk
  BY <1>1 DEF CreateNode, Now
<1>3. /\ Now.pc = "create" /\ made < MaxIncidents
      /\ made' = made + 1 /\ status' = [status EXCEPT ![made + 1] = "active"]
      /\ \E d : info' = [info EXCEPT ![made + 1] = [kind |-> Now.kind, depth |-> d]]
      /\ UNCHANGED <<spawned, protocols, emitted, pending>>
  BY DEF CreateNode, At, Now, memory
<1>4. made + 1 \in Incident
  BY <1>3, BoundsAssumption DEF TypeInv, NodesTyped, Incident
<1>5. /\ Now'.pc = "activate" /\ Now'.inc = made + 1 /\ Now'.parent = Now.parent
      /\ Now'.kids = Now.kids /\ Now'.due = Now.due
  BY <1>1, <1>2 DEF TaskState
<1> QED BY <1>3, <1>4, <1>5, PendingKept DEF Creates

LEMMA CreatingMoves ==
  ASSUME TypeInv, Activate(Consumer) \/ Link(Consumer) \/ Announce(Consumer)
  PROVE  Activates \/ Links \/ Announces
<1>1. CASE Activate(Consumer)
  <2>1. Now.pc = "activate" /\ UNCHANGED <<made, info, status, spawned, emitted, pending>>
    BY <1>1 DEF Activate, At, Now, db
  <2>2. /\ On("activate", IF Now.parent = None THEN "announce" ELSE "link")
        /\ Now'.due = Now.due
    BY <1>1, <2>1, GotoOn DEF Activate, Now
  <2>3. protocols' = IF ProtocolFor(Now.inc) = NoProtocol THEN protocols
                     ELSE protocols \cup {<<ProtocolFor(Now.inc), Now.inc>>}
    BY <1>1 DEF Activate, Now
  <2> QED BY <2>1, <2>2, <2>3, PendingKept DEF Activates
<1>2. CASE Link(Consumer)
  <2>1. /\ Now.pc = "link" /\ spawned' = spawned \cup {<<Now.parent, Now.inc>>}
        /\ UNCHANGED <<made, info, status, protocols, emitted, pending>>
    BY <1>2 DEF Link, At, Now, memory
  <2>2. On("link", "announce") /\ Now'.due = Now.due
    BY <1>2, <2>1, GotoOn DEF Link
  <2> QED BY <2>1, <2>2, PendingKept DEF Links
<1>3. CASE Announce(Consumer)
  <2>1. /\ Now.pc = "announce" /\ Emit(Now.inc, "created")
        /\ UNCHANGED <<made, info, status, spawned, protocols, pending>>
    BY <1>3 DEF Announce, At, Now, db, memory
  <2>2. On("announce", "cascade") /\ Now'.due = Now.due
    BY <1>3, <2>1, GotoOn DEF Announce
  <2> QED BY <2>1, <2>2, PendingKept DEF Announces
<1> QED BY <1>1, <1>2, <1>3

LEMMA CascadeMoves ==
  ASSUME TypeInv, Cascade(Consumer)
  PROVE  Cascades
<1>1. /\ Now.pc = "cascade"
      /\ UNCHANGED <<made, info, status, spawned, protocols, emitted>>
  <2>1. At(Consumer, "cascade") /\ UNCHANGED <<db, protocols, category, emitted, bounds>>
    BY Zenon DEF Cascade
  <2> QED BY <2>1 DEF At, Now, db
<1>2. CASE Return(Consumer) /\ UNCHANGED pending
  BY <1>1, <1>2, ReturnsCalmly DEF Cascades
<1>3. CASE /\ task' = [task EXCEPT ![Consumer] = Creating(Now, ChildKind(Now.inc), Now.inc)]
           /\ info[Now.inc].kind.type \in DOMAIN CASCADE_RULES
           /\ UNCHANGED pending
  BY <1>1, <1>3, BeginsCreating DEF Cascades
<1>4. CASE /\ Return(Consumer) /\ Delay(Now.inc) > 0
           /\ \E n : pending' = pending \cup {<<Now.inc, n>>}
  BY <1>1, <1>4, ReturnsCalmly DEF Cascades
<1>5. \/ Return(Consumer) /\ UNCHANGED pending
      \/ /\ task' = [task EXCEPT ![Consumer] =
                       Creating(task[Consumer], ChildKind(task[Consumer].inc), task[Consumer].inc)]
         /\ info[task[Consumer].inc].kind.type \in DOMAIN CASCADE_RULES
         /\ UNCHANGED pending
      \/ /\ CASCADE_RULES[info[task[Consumer].inc].kind.type].delay > 0
         /\ \E n : pending' = pending \cup {<<task[Consumer].inc, n>>}
         /\ Return(Consumer)
  BY ZenonT(60) DEF Cascade, Triggers
<1> QED BY <1>2, <1>3, <1>4, <1>5 DEF Now, Delay

LEMMA ContainMoves ==
  ASSUME TypeInv,
         ContainRead(Consumer) \/ ContainWrite(Consumer) \/ ContainNotify(Consumer)
  PROVE  Calmly \/ BeginsContainment \/ Contains \/ TellsContained
<1>1. CASE ContainRead(Consumer)
  <2>1. /\ Now.pc = "containRead"
        /\ UNCHANGED <<made, info, status, spawned, protocols, emitted, pending>>
    BY <1>1 DEF ContainRead, At, Now, db, memory
  <2>2. CASE status[Now.inc] = "active" /\ Goto(Consumer, "containWrite")
    <3>1. On("containRead", "containWrite") /\ Now'.due = Now.due
      BY <2>1, <2>2, GotoOn
    <3> QED BY <2>1, <2>2, <3>1, PendingKept DEF BeginsContainment
  <2>3. CASE Return(Consumer)
    <3>1. Now'.pc \in Calm /\ Now'.kids = {} /\ Now'.due \subseteq Now.due
      BY <2>3, ReturnsCalmly
    <3> QED BY <2>1, <3>1, PendingKept DEF Calmly, Calm
  <2> QED BY <1>1, <2>2, <2>3 DEF ContainRead, Now
<1>2. CASE ContainWrite(Consumer)
  <2>1. /\ Now.pc = "containWrite" /\ status' = [status EXCEPT ![Now.inc] = "contained"]
        /\ UNCHANGED <<made, info, spawned, protocols, emitted, pending>>
    BY <1>2 DEF ContainWrite, At, Now, memory
  <2>2. On("containWrite", "containNotify") /\ Now'.due = Now.due
    BY <1>2, <2>1, GotoOn DEF ContainWrite
  <2> QED BY <2>1, <2>2, PendingKept DEF Contains
<1>3. CASE ContainNotify(Consumer)
  <2>1. /\ Now.pc = "containNotify" /\ Emit(Now.inc, "contained")
        /\ UNCHANGED <<made, info, status, spawned, protocols, pending>>
    BY <1>3 DEF ContainNotify, At, Now, db, memory
  <2>2. Now'.pc \in Calm /\ Now'.kids = {} /\ Now'.due \subseteq Now.due
    BY <1>3, ReturnsCalmly DEF ContainNotify
  <2> QED BY <2>1, <2>2, PendingKept DEF TellsContained
<1> QED BY <1>1, <1>2, <1>3

LEMMA ResolveMoves ==
  ASSUME TypeInv, ResolveRead(Consumer) \/ ResolveWrite(Consumer) \/ Deactivate(Consumer)
  PROVE  Calmly \/ BeginsResolution \/ Resolves \/ Deactivates
<1>1. CASE ResolveRead(Consumer)
  <2>1. /\ Now.pc = "resolveRead"
        /\ UNCHANGED <<made, info, status, spawned, protocols, emitted, pending>>
    BY <1>1 DEF ResolveRead, At, Now, db, memory
  <2>2. CASE status[Now.inc] # "resolved" /\ Goto(Consumer, "resolveWrite")
    <3>1. On("resolveRead", "resolveWrite") /\ Now'.due = Now.due
      BY <2>1, <2>2, GotoOn
    <3> QED BY <2>1, <2>2, <3>1, PendingKept DEF BeginsResolution
  <2>3. CASE Return(Consumer)
    <3>1. Now'.pc \in Calm /\ Now'.kids = {} /\ Now'.due \subseteq Now.due
      BY <2>3, ReturnsCalmly
    <3> QED BY <2>1, <3>1, PendingKept DEF Calmly, Calm
  <2> QED BY <1>1, <2>2, <2>3 DEF ResolveRead, Now
<1>2. CASE ResolveWrite(Consumer)
  <2>1. /\ Now.pc = "resolveWrite" /\ status' = [status EXCEPT ![Now.inc] = "resolved"]
        /\ UNCHANGED <<made, info, spawned, protocols, emitted, pending>>
    BY <1>2 DEF ResolveWrite, At, Now, memory
  <2>2. On("resolveWrite", "deactivate") /\ Now'.due = Now.due
    BY <1>2, <2>1, GotoOn DEF ResolveWrite
  <2> QED BY <2>1, <2>2, PendingKept DEF Resolves
<1>3. CASE Deactivate(Consumer)
  <2>1. /\ Now.pc = "deactivate"
        /\ protocols' = protocols \ {<<ProtocolFor(Now.inc), Now.inc>>}
        /\ UNCHANGED <<made, info, status, spawned, emitted, pending>>
    BY <1>3 DEF Deactivate, At, Now, db
  <2>2. On("deactivate", "children") /\ Now'.due = Now.due
    BY <1>3, <2>1, GotoOn DEF Deactivate
  <2> QED BY <2>1, <2>2, PendingKept DEF Deactivates
<1> QED BY <1>1, <1>2, <1>3

LEMMA ChildrenMoves ==
  ASSUME TypeInv, ResolveChildren(Consumer) \/ Notify(Consumer)
  PROVE  ResolvesChildren \/ TellsOfChild \/ TellsResolved
<1>0. Now \in TaskState /\ Consumer \in Task /\ task \in [Task -> TaskState]
  BY NowTyped
<1>1. CASE ResolveChildren(Consumer)
  <2> DEFINE kids == {c \in Descendants(Now.inc) : status[c] # "resolved"}
  <2>1. /\ Now.pc = "children"
        /\ status' = [i \in Incident |-> IF i \in kids THEN "resolved" ELSE status[i]]
        /\ task' = [task EXCEPT ![Consumer].kids = kids, ![Consumer].pc = "notify"]
        /\ UNCHANGED <<made, info, spawned, protocols, emitted, pending>>
    BY <1>1 DEF ResolveChildren, At, Now, memory
  <2> HIDE DEF kids
  <2>2. Now' = [Now EXCEPT !.kids = kids, !.pc = "notify"]
    BY <1>0, <2>1 DEF Now
  <2>3. Now'.pc = "notify" /\ Now'.inc = Now.inc /\ Now'.kids = kids /\ Now'.due = Now.due
    BY <1>0, <2>2 DEF TaskState
  <2> QED BY <2>1, <2>3, PendingKept DEF ResolvesChildren, kids
<1>2. CASE Notify(Consumer)
  <2>1. Now.pc = "notify" /\ UNCHANGED <<made, info, status, spawned, protocols, pending>>
    BY <1>2 DEF Notify, At, Now, db, memory
  <2>2. ASSUME NEW c \in Now.kids, Emit(c, "resolved"),
               task' = [task EXCEPT ![Consumer].kids = @ \ {c}]
        PROVE  TellsOfChild
    <3>1. Now' = [Now EXCEPT !.kids = @ \ {c}]
      BY <1>0, <2>2 DEF Now
    <3>2. Now'.pc = "notify" /\ Now'.inc = Now.inc /\ Now'.kids = Now.kids \ {c}
          /\ Now'.due = Now.due
      BY <1>0, <2>1, <3>1 DEF TaskState
    <3> QED BY <2>1, <2>2, <3>2, PendingKept DEF TellsOfChild
  <2>3. CASE Now.kids = {} /\ Emit(Now.inc, "resolved") /\ Return(Consumer)
    <3>1. Now'.pc \in Calm /\ Now'.kids = {} /\ Now'.due \subseteq Now.due
      BY <2>3, ReturnsCalmly
    <3> QED BY <2>1, <2>3, <3>1, PendingKept DEF TellsResolved
  <2> QED BY <1>2, <2>2, <2>3 DEF Notify, Now
<1> QED BY <1>1, <1>2

(* Steps that look, count down, queue and draw. *)
LEMMA FindMoves ==
  ASSUME TypeInv, Find(Consumer) \/ FindWeather(Consumer)
  PROVE  Calmly
<1>0. Now \in TaskState /\ Consumer \in Task /\ task \in [Task -> TaskState]
  BY NowTyped
<1>1. /\ Now.pc \in Calm
      /\ UNCHANGED <<made, info, status, spawned, protocols, emitted, pending>>
  BY DEF Find, FindWeather, At, Now, db, memory, Calm
<1>2. CASE Return(Consumer)
  <2>1. Now'.pc \in Calm /\ Now'.kids = {} /\ Now'.due \subseteq Now.due
    BY <1>2, ReturnsCalmly
  <2> QED BY <1>1, <2>1, PendingKept DEF Calmly
<1>3. CASE task' = [task EXCEPT ![Consumer] = Creating(Now, Now.kind, None)]
            /\ Open(Now.kind.type, Now.kind.location) = {}
  <2>1. /\ Now'.pc = "create" /\ Now'.parent = None /\ Now'.kids = Now.kids /\ Now'.due = Now.due
        /\ Now'.kind = Now.kind
    BY <1>3, BeginsCreating
  <2> QED BY <1>1, <1>3, <2>1, PendingKept DEF Calmly
<1>4. ASSUME NEW i, task' = [task EXCEPT ![Consumer].pc = "resolveRead", ![Consumer].inc = i]
      PROVE  Calmly
  <2>1. Now' = [Now EXCEPT !.pc = "resolveRead", !.inc = i]
    BY <1>0, <1>4 DEF Now
  <2>2. Now'.pc = "resolveRead" /\ Now'.kids = Now.kids /\ Now'.due = Now.due
    BY <1>0, <2>1 DEF TaskState
  <2> QED BY <1>1, <2>2, PendingKept DEF Calmly, Calm
<1>5. CASE Find(Consumer)
  BY <1>2, <1>3, <1>5 DEF Find, Now
<1>6. CASE FindWeather(Consumer)
  BY <1>2, <1>4, <1>6 DEF FindWeather
<1> QED BY <1>5, <1>6

LEMMA LoopMoves ==
  ASSUME TypeInv,
         \/ NextCountdown(Consumer) \/ EndReduce(Consumer) \/ TakeDue(Consumer)
         \/ FireDue(Consumer) \/ Draw(Consumer) \/ NextDraw(Consumer)
  PROVE  Calmly
<1>0. Now \in TaskState /\ Consumer \in Task /\ task \in [Task -> TaskState]
  BY NowTyped
<1>1. /\ Now.pc = "next" /\ Now.pc \in Calm
      /\ UNCHANGED <<made, info, status, spawned, protocols, emitted>>
  <2>1. CASE NextCountdown(Consumer)
    <3>1. At(Consumer, "next") /\ UNCHANGED <<made, info, status, spawned, memory, emitted, bounds>>
      BY <2>1, Zenon DEF NextCountdown
    <3> QED BY <3>1 DEF At, Now, memory, Calm
  <2>2. CASE EndReduce(Consumer) \/ FireDue(Consumer) \/ NextDraw(Consumer)
    <3>1. At(Consumer, "next") /\ UNCHANGED <<db, memory, emitted, bounds>>
      BY <2>2, Zenon DEF EndReduce, FireDue, NextDraw
    <3> QED BY <3>1 DEF At, Now, db, memory, Calm
  <2>3. CASE TakeDue(Consumer)
    <3>1. At(Consumer, "next") /\ UNCHANGED <<db, protocols, cascaded, category, emitted, bounds>>
      BY <2>3, Zenon DEF TakeDue
    <3> QED BY <3>1 DEF At, Now, db, Calm
  <2>4. CASE Draw(Consumer)
    <3>1. At(Consumer, "next") /\ UNCHANGED <<db, memory, emitted, faults>>
      BY <2>4, Zenon DEF Draw
    <3> QED BY <3>1 DEF At, Now, db, memory, Calm
  <2> QED BY <2>1, <2>2, <2>3, <2>4
<1>2. ASSUME UNCHANGED pending, Now'.pc \in Calm, Now'.kids = Now.kids \/ Now'.kids = {},
             Now'.due \subseteq Now.due
      PROVE  Calmly
  BY <1>1, <1>2, PendingKept DEF Calmly
<1>3. CASE task' = [task EXCEPT ![Consumer] = Idle] /\ UNCHANGED pending
  <2>1. Now' = Idle
    BY <1>3, NowIs
  <2>2. Now'.pc = "idle" /\ Now'.kids = {} /\ Now'.due = {}
    BY <2>1 DEF Idle
  <2> QED BY <1>2, <1>3, <2>2 DEF Calm
<1>4. CASE NextCountdown(Consumer)
  <2>1. PICK e : task' = [task EXCEPT ![Consumer] = Counted(Now, e)]
    BY <1>4 DEF NextCountdown, Now
  <2>2. Now' = Counted(Now, e) /\ UNCHANGED pending
    BY <1>4, <2>1, NowIs DEF NextCountdown, memory
  <2>3. Now'.pc \in {"resolveRead", "next"} /\ Now'.kids = Now.kids /\ Now'.due = Now.due
    BY <1>0, <2>2 DEF Counted, TaskState
  <2> QED BY <1>2, <2>2, <2>3 DEF Calm
<1>5. CASE EndReduce(Consumer)
  BY <1>3, <1>5 DEF EndReduce, memory
<1>6. CASE TakeDue(Consumer)
  <2> DEFINE due == {e[1] : e \in Due}
  <2>1. /\ task' = [task EXCEPT ![Consumer].stage = "fire", ![Consumer].due = due]
        /\ pending' \subseteq pending
    BY <1>6 DEF TakeDue, StillPending
  <2>2. \A p \in due : \E f \in pending : f[1] = p
    BY DEF Due
  <2> HIDE DEF due
  <2>3. Now' = [Now EXCEPT !.stage = "fire", !.due = due]
    BY <1>0, <2>1 DEF Now
  <2>4. Now'.pc = "next" /\ Now'.kids = Now.kids /\ Now'.due = due
    BY <1>0, <1>1, <2>3 DEF TaskState
  <2>5. NoneQueued
    BY <2>1, <2>2, <2>4 DEF NoneQueued
  <2> QED BY <1>1, <2>4, <2>5 DEF Calmly, Calm
<1>7. CASE FireDue(Consumer)
  <2>1. PICK p \in Now.due : task' = [task EXCEPT ![Consumer] = Fired(Now, p)]
    BY <1>7 DEF FireDue, Now
  <2>2. Now' = Fired(Now, p) /\ UNCHANGED pending
    BY <1>7, <2>1, NowIs DEF FireDue, memory
  <2>3. /\ Now'.pc = "create" /\ Now'.kids = Now.kids /\ Now'.parent = p
        /\ Now'.kind = ChildKind(p) /\ Now'.due = Now.due \ {p}
    BY <1>0, <2>2 DEF Fired, Creating, TaskState
  <2> QED BY <1>1, <2>1, <2>2, <2>3, PendingKept DEF Calmly
<1>8. CASE Draw(Consumer)
  <2>1. PICK K : task' = [task EXCEPT ![Consumer].stage = "draw", ![Consumer].draws = K]
    BY <1>8, Zenon DEF Draw
  <2>4. UNCHANGED memory
    BY <1>8, Zenon DEF Draw
  <2>2. Now' = [Now EXCEPT !.stage = "draw", !.draws = K] /\ UNCHANGED pending
    BY <1>0, <2>1, <2>4 DEF Now, memory
  <2>3. Now'.pc = "next" /\ Now'.kids = Now.kids /\ Now'.due = Now.due
    BY <1>0, <1>1, <2>2 DEF TaskState
  <2> QED BY <1>2, <2>2, <2>3 DEF Calm
<1>9. CASE NextDraw(Consumer)
  <2>1. ASSUME NEW k, task' = [task EXCEPT ![Consumer].draws = @ \ {k}, ![Consumer].kind = k,
                                           ![Consumer].pc = "find"], UNCHANGED pending
        PROVE  Calmly
    <3>1. Now' = [Now EXCEPT !.draws = @ \ {k}, !.kind = k, !.pc = "find"]
      BY <1>0, <2>1 DEF Now
    <3>2. Now'.pc = "find" /\ Now'.kids = Now.kids /\ Now'.due = Now.due
      BY <1>0, <3>1 DEF TaskState
    <3> QED BY <1>2, <2>1, <3>2 DEF Calm
  <2>3. UNCHANGED memory
    BY <1>9, Zenon DEF NextDraw
  <2>2. /\ UNCHANGED pending
        /\ \/ \E k : task' = [task EXCEPT ![Consumer].draws = @ \ {k}, ![Consumer].kind = k,
                                           ![Consumer].pc = "find"]
           \/ task' = [task EXCEPT ![Consumer] = Idle]
    <3>1. UNCHANGED pending
      BY <2>3 DEF memory
    <3> QED BY <1>9, <3>1, Zenon DEF NextDraw
  <2> QED BY <1>3, <2>1, <2>2, Zenon
<1> QED BY <1>4, <1>5, <1>6, <1>7, <1>8, <1>9

LEMMA MessageMoves ==
  ASSUME TypeInv, Message
  PROVE  Calmly
<1>0. /\ Now \in TaskState /\ Consumer \in Task /\ task \in [Task -> TaskState]
      /\ Now.pc = "idle" /\ Now.pc \in Calm
  <2>1. At(Consumer, "idle")
    BY Zenon DEF Message, OnCommand, OnInject, OnDetection,
           OnWeatherChanged, OnTick, OnRecommendationApplied, Ready
  <2> QED BY <2>1, NowTyped DEF At, Now, Calm
<1>1. UNCHANGED <<made, info, status, spawned, protocols, emitted>>
  <2>1. UNCHANGED <<db, protocols, emitted>>
    <3>1. CASE OnCommand \/ OnInject \/ OnDetection \/ OnRecommendationApplied
      <4>1. UNCHANGED <<db, memory, emitted>>
        BY <3>1, Zenon DEF OnCommand, OnInject, OnDetection, OnRecommendationApplied
      <4> QED BY <4>1 DEF memory
    <3>2. CASE OnWeatherChanged \/ OnTick
      BY <3>2, Zenon DEF OnWeatherChanged, OnTick
    <3> QED BY <3>1, <3>2 DEF Message
  <2> QED BY <2>1 DEF db
<1>2. ASSUME UNCHANGED pending, Now'.pc \in Calm, Now'.kids = Now.kids, Now'.due = Now.due
      PROVE  Calmly
  BY <1>0, <1>1, <1>2, PendingKept DEF Calmly
<1>3. ASSUME NEW k, UNCHANGED pending,
             task' = [task EXCEPT ![Consumer].pc = "find", ![Consumer].kind = k]
      PROVE  Calmly
  <2>1. Now' = [Now EXCEPT !.pc = "find", !.kind = k]
    BY <1>0, <1>3 DEF Now
  <2>2. Now'.pc = "find" /\ Now'.kids = Now.kids /\ Now'.due = Now.due
    BY <1>0, <2>1 DEF TaskState
  <2> QED BY <1>2, <1>3, <2>2 DEF Calm
<1>4. CASE OnCommand
  <2>1. PICK i \in Made, op \in CommandOps :
          task' = [task EXCEPT ![Consumer].pc = FirstStep[op], ![Consumer].inc = i]
    BY <1>4 DEF OnCommand
  <2>2. FirstStep[op] \in {"containRead", "resolveRead"}
    BY InputAssumption DEF FirstStep
  <2>3. PICK l \in {"containRead", "resolveRead"} : l = FirstStep[op]
    BY <2>2
  <2>4. Now' = [Now EXCEPT !.pc = l, !.inc = i] /\ UNCHANGED pending
    BY <1>0, <1>4, <2>1, <2>3 DEF Now, OnCommand, memory
  <2>5. Now'.pc = l /\ Now'.kids = Now.kids /\ Now'.due = Now.due
    BY <1>0, <2>4 DEF TaskState
  <2> QED BY <1>2, <2>4, <2>5 DEF Calm
<1>5. CASE OnInject
  <2>1. PICK k \in Injected : task' = [task EXCEPT ![Consumer] = Creating(Now, k, None)]
    BY <1>5 DEF OnInject, Now
  <2>2. /\ Now'.pc = "create" /\ Now'.parent = None /\ Now'.kids = Now.kids /\ Now'.due = Now.due
        /\ Now'.kind \in Injected
    BY <2>1, BeginsCreating
  <2>3. UNCHANGED pending
    BY <1>5 DEF OnInject, memory
  <2> QED BY <1>0, <1>1, <2>2, <2>3, PendingKept DEF Calmly
<1>6. CASE OnDetection
  BY <1>3, <1>6 DEF OnDetection, memory
<1>7. CASE OnWeatherChanged
  <2>1. /\ \/ \E k : task' = [task EXCEPT ![Consumer].pc = "find", ![Consumer].kind = k]
           \/ task' = [task EXCEPT ![Consumer].pc = "findWeather"]
           \/ UNCHANGED task
        /\ UNCHANGED pending
    BY <1>7 DEF OnWeatherChanged
  <2>2. CASE task' = [task EXCEPT ![Consumer].pc = "findWeather"]
    <3>1. Now' = [Now EXCEPT !.pc = "findWeather"]
      BY <1>0, <2>2 DEF Now
    <3>2. Now'.pc = "findWeather" /\ Now'.kids = Now.kids /\ Now'.due = Now.due
      BY <1>0, <3>1 DEF TaskState
    <3> QED BY <1>2, <2>1, <3>2 DEF Calm
  <2>3. CASE UNCHANGED task
    BY <1>0, <1>2, <2>1, <2>3 DEF Now
  <2> QED BY <1>3, <2>1, <2>2, <2>3
<1>8. CASE OnTick
  <2>1. PICK d, todo :
          /\ pending' = { <<e[1], IF e[2] > d THEN e[2] - d ELSE 0>> : e \in pending }
          /\ task' = [t \in Task |->
               IF t = Consumer
               THEN [Idle EXCEPT !.pc = "next", !.stage = "ttr", !.todo = todo]
               ELSE Older(task[t], d)]
    BY <1>8, Zenon DEF OnTick
  <2>2. Now'.pc = "next" /\ Now'.kids = {} /\ Now'.due = {}
    <3>1. task' = [t \in Task |->
               IF t = Consumer
               THEN [Idle EXCEPT !.pc = "next", !.stage = "ttr", !.todo = todo]
               ELSE Older(task[t], d)]
      BY <2>1
    <3>2. Now' = [Idle EXCEPT !.pc = "next", !.stage = "ttr", !.todo = todo]
      BY <1>0, <3>1, Zenon DEF Now
    <3> QED BY <3>2 DEF Idle
  <2>3. \A e \in pending' : \E f \in pending : f[1] = e[1]
    <3>1. pending' = { <<e[1], IF e[2] > d THEN e[2] - d ELSE 0>> : e \in pending }
      BY <2>1
    <3> QED BY <3>1
  <2>4. NoneQueued
    BY <2>2, <2>3 DEF NoneQueued
  <2> QED BY <1>0, <1>1, <2>2, <2>4 DEF Calmly, Calm
<1>9. CASE OnRecommendationApplied
  <2>1. PICK todo : task' = [task EXCEPT ![Consumer].pc = "next", ![Consumer].stage = "reduce",
                                         ![Consumer].todo = todo]
    BY <1>9 DEF OnRecommendationApplied
  <2>2. Now' = [Now EXCEPT !.pc = "next", !.stage = "reduce", !.todo = todo] /\ UNCHANGED pending
    BY <1>0, <1>9, <2>1 DEF Now, OnRecommendationApplied, memory
  <2>3. Now'.pc = "next" /\ Now'.kids = Now.kids /\ Now'.due = Now.due
    BY <1>0, <2>2 DEF TaskState
  <2> QED BY <1>2, <2>2, <2>3 DEF Calm
<1> QED BY <1>4, <1>5, <1>6, <1>7, <1>8, <1>9 DEF Message

(* Every step is a move. *)
LEMMA EveryStepMoves ==
  ASSUME Rest = {}, MaxFaults = 0, TypeInv, [Next]_vars
  PROVE  Moves
<1>1. Task = {Consumer}
  BY AloneTask
<1>2. ~Fail(Consumer) /\ ~Restart
  BY DEF Fail, Restart, TypeInv, CountsTyped
<1>3. CASE UNCHANGED vars
  BY <1>3 DEF vars, db, memory, Moves, Stays, Now
<1>4. CASE Step(Consumer)
  BY <1>4, CreateMoves, CreatingMoves, CascadeMoves, ContainMoves, ResolveMoves, ChildrenMoves,
     FindMoves, LoopMoves DEF Step, Moves
<1>5. CASE Message
  BY <1>5, MessageMoves DEF Moves
<1> QED BY <1>1, <1>2, <1>3, <1>4, <1>5 DEF Next
-----------------------------------------------------------------------------
(* What the task has read or written, and whose children it makes.         *)
EndingPc == {"deactivate", "children", "notify"}

ReadsHold ==
  /\ Now.pc \in EarlyPc => status[Now.inc] = "active"
  /\ Now.pc = "containWrite" => status[Now.inc] = "active"
  /\ Now.pc = "containNotify" => status[Now.inc] = "contained"
  /\ Now.pc = "resolveWrite" => status[Now.inc] # "resolved"
  /\ Now.pc \in EndingPc => status[Now.inc] = "resolved"
  /\ Now.pc = "notify" => Now.inc \notin Now.kids /\ \A c \in Now.kids : status[c] = "resolved"
  /\ Now.pc # "notify" => Now.kids = {}

(* The types of the children that cascades make: no root's, no protocol's. *)
ChildType    == { CASCADE_RULES[ty].child : ty \in DOMAIN CASCADE_RULES }
ChildNode(i) == info[i].kind.type \in ChildType

ChildrenTyped ==
  /\ \A e \in spawned : ChildNode(e[2])
  /\ Now.pc = "create" /\ Now.parent # None => Now.kind.type \in ChildType
  /\ Now.pc \in FreshPc /\ Now.parent # None => ChildNode(Now.inc)

(* What holds a protocol: what is not resolved, from its activation to its *)
(* deactivation.                                                           *)
Holding(i) ==
  /\ status[i] # "resolved" \/ (Now.pc = "deactivate" /\ Now.inc = i)
  /\ ~(Now.pc = "activate" /\ Now.inc = i)

ProtocolsHeld ==
  \A p, i : <<p, i>> \in protocols <=>
              i \in Made /\ Holding(i) /\ p # NoProtocol /\ p = ProtocolFor(i)
-----------------------------------------------------------------------------
LEMMA AloneTyped ==
  ASSUME TypeInv
  PROVE  /\ Now \in TaskState /\ made \in Nat /\ Made \subseteq Incident
         /\ Now.pc \in Working => Now.inc \in Made
         /\ Now.kids \subseteq Made /\ Now.due \subseteq Made
         /\ Now.parent \in Made \cup {None}
         /\ status \in [Incident -> Status \cup {"none"}]
         /\ \A i \in Incident : (status[i] = "none") <=> (i \notin Made)
         /\ protocols \in SUBSET (Protocol \X Incident)
         /\ emitted \in [Incident -> Seq(Event)]
<1>1. Now \in TaskState /\ TaskOK(Now)
  BY NowTyped DEF TypeInv, TasksOK, Now
<1>2. made \in Nat /\ Made \subseteq Incident
  BY MadeInIncident DEF TypeInv
<1> QED
  BY <1>1, <1>2 DEF TypeInv, TaskOK, NodesTyped, MemoryTyped, CountsTyped, Cascading

(* Nodes stay and keep their kinds; one is made only by Creates. *)
LEMMA MovesKeepNodes ==
  ASSUME TypeInv, Moves
  PROVE  /\ Made \subseteq Made' /\ \A i \in Made : info'[i] = info[i]
         /\ \A i \in Made : ProtocolFor(i)' = ProtocolFor(i) /\ Delay(i)' = Delay(i)
         /\ ~Creates => made' = made /\ info' = info
<1>1. CASE Creates
  <2>1. made \in Nat /\ made' = made + 1
        /\ \E d : info' = [info EXCEPT ![made + 1] = [kind |-> Now.kind, depth |-> d]]
    BY <1>1, AloneTyped DEF Creates
  <2>2. Made \subseteq Made' /\ \A i \in Made : info'[i] = info[i]
    BY <2>1 DEF Made
  <2> QED BY <1>1, <2>2 DEF ProtocolFor, Delay
<1>2. CASE ~Creates
  <2>1. made' = made /\ info' = info
    BY <1>2 DEF Moves, Calmly, Activates, Links, Announces, Cascades, BeginsContainment,
       Contains, TellsContained, BeginsResolution, Resolves, Deactivates, ResolvesChildren,
       TellsOfChild, TellsResolved, Stays
  <2> QED BY <2>1 DEF ProtocolFor, Delay, Made
<1> QED BY <1>1, <1>2

(* A descendant is a child that was made after its ancestor. *)
LEMMA ChildrenAfter ==
  ASSUME TypeInv, CascadeForest, NEW i \in Made, NEW S,
         S \subseteq Made /\ \A p \in S : p >= i
  PROVE  /\ Children(S) \subseteq Made
         /\ \A c \in Children(S) : c >= i /\ c # i /\ \E e \in spawned : e[2] = c
<1>1. made \in Nat
  BY AloneTyped
<1>2. ASSUME NEW c \in Children(S)
      PROVE  c >= i /\ c # i /\ \E e \in spawned : e[2] = c
  <2>1. PICK p \in S : <<p, c>> \in spawned
    BY <1>2 DEF Children
  <2>2. p < c /\ p >= i /\ p \in Int /\ i \in Int /\ c \in Int
    BY <1>1, <2>1 DEF CascadeForest, Children, Made
  <2> QED BY <2>1, <2>2
<1> QED BY <1>1, <1>2 DEF Children, Made

LEMMA DescendantsAfter ==
  ASSUME TypeInv, CascadeForest, NEW i \in Made
  PROVE  \A c \in Descendants(i) : c \in Made /\ c # i /\ \E e \in spawned : e[2] = c
<1> DEFINE d1 == Children({i})
           d2 == Children(d1)
           d3 == Children(d2)
           d4 == Children(d3)
           d5 == Children(d4)
           After(S) == S \subseteq Made /\ \A c \in S : c >= i /\ c # i /\ \E e \in spawned : e[2] = c
<1>0. made \in Nat /\ i \in Nat
  BY AloneTyped DEF Made
<1>1. After(d1)
  BY <1>0, ChildrenAfter
<1>2. After(d2)
  <2> HIDE DEF d1
  <2> QED BY <1>1, ChildrenAfter
<1>3. After(d3)
  <2> HIDE DEF d2
  <2> QED BY <1>2, ChildrenAfter
<1>4. After(d4)
  <2> HIDE DEF d3
  <2> QED BY <1>3, ChildrenAfter
<1>5. After(d5)
  <2> HIDE DEF d4
  <2> QED BY <1>4, ChildrenAfter
<1>6. Descendants(i) = d1 \cup d2 \cup d3 \cup d4 \cup d5
  BY Zenon DEF Descendants
<1> HIDE DEF d1, d2, d3, d4, d5
<1> QED BY <1>1, <1>2, <1>3, <1>4, <1>5, <1>6, Zenon

LEMMA ChildTypes ==
  {"runway_incursion", "baggage_fire", "security_breach", "severe_weather"} \cap ChildType = {}
<1>1. \A ty \in DOMAIN CASCADE_RULES :
        CASCADE_RULES[ty].child
          \notin {"runway_incursion", "baggage_fire", "security_breach", "severe_weather"}
  BY DEF CASCADE_RULES, Rule
<1> QED BY <1>1 DEF ChildType

LEMMA ChildUnprotected ==
  ASSUME NEW i, ChildNode(i)
  PROVE  ProtocolFor(i) = NoProtocol
  BY ChildTypes DEF ChildNode, ProtocolFor, ProtocolOf

LEMMA ChildKindTyped ==
  ASSUME NEW p, info[p].kind.type \in DOMAIN CASCADE_RULES
  PROVE  ChildKind(p).type \in ChildType
  BY DEF ChildKind, Kind, ChildType
-----------------------------------------------------------------------------
(* With one task at work, what it read holds when it writes. *)
LEMMA NextReadsHold ==
  ASSUME TypeInv, TypeInv', CascadeForest, ReadsHold, Moves
  PROVE  ReadsHold'
<1>1. /\ Now \in TaskState /\ made \in Nat /\ Made \subseteq Incident
      /\ Now.pc \in Working => Now.inc \in Made
      /\ status \in [Incident -> Status \cup {"none"}]
      /\ Now.kids \subseteq Made
  BY AloneTyped
<1> USE DEF EarlyPc, EndingPc, Calm, Working
<1>2. CASE Calmly
  BY <1>1, <1>2 DEF Calmly, ReadsHold
<1>3. CASE Creates
  <2>1. status'[Now'.inc] = "active" /\ Now'.pc = "activate" /\ Now'.kids = {}
    BY <1>1, <1>3 DEF Creates, ReadsHold
  <2> QED BY <2>1 DEF ReadsHold
<1>4. CASE Activates \/ Links \/ Announces
  <2>1. /\ Now.pc \in EarlyPc /\ Now'.pc \in EarlyPc /\ Now'.inc = Now.inc
        /\ Now'.kids = Now.kids /\ status' = status /\ Now.pc # "notify"
    BY <1>4 DEF Activates, Links, Announces, On
  <2>2. status[Now.inc] = "active" /\ Now.kids = {}
    BY <2>1 DEF ReadsHold
  <2> QED BY <2>1, <2>2 DEF ReadsHold
<1>5. CASE Cascades
  BY <1>5 DEF Cascades, ReadsHold
<1>6. CASE BeginsContainment \/ BeginsResolution
  BY <1>6 DEF BeginsContainment, BeginsResolution, On, ReadsHold
<1>7. CASE Contains \/ Resolves
  <2>1. Now.inc \in Incident /\ Now.kids = {} /\ Now'.kids = {} /\ Now'.inc = Now.inc
    BY <1>1, <1>7 DEF Contains, Resolves, On, ReadsHold
  <2>2. \/ Now'.pc = "containNotify" /\ status'[Now.inc] = "contained"
        \/ Now'.pc = "deactivate" /\ status'[Now.inc] = "resolved"
    BY <1>1, <1>7, <2>1 DEF Contains, Resolves, On
  <2> QED BY <2>1, <2>2 DEF ReadsHold
<1>8. CASE TellsContained
  BY <1>8 DEF TellsContained, ReadsHold
<1>9. CASE Deactivates
  BY <1>9 DEF Deactivates, On, ReadsHold
<1>10. CASE ResolvesChildren
  <2>1. /\ Now.pc = "children" /\ Now'.pc = "notify" /\ Now'.inc = Now.inc
        /\ Now'.kids = {c \in Descendants(Now.inc) : status[c] # "resolved"}
        /\ status' = [i \in Incident |-> IF i \in Now'.kids THEN "resolved" ELSE status[i]]
    BY <1>10 DEF ResolvesChildren
  <2>2. Now.inc \in Made /\ status[Now.inc] = "resolved"
    BY <1>1, <2>1 DEF ReadsHold
  <2>3. \A c \in Now'.kids : c \in Made /\ c # Now.inc
    BY <2>1, <2>2, DescendantsAfter
  <2>4. /\ status'[Now.inc] = "resolved" /\ Now.inc \notin Now'.kids
        /\ \A c \in Now'.kids : status'[c] = "resolved"
    BY <1>1, <2>1, <2>2, <2>3
  <2> QED BY <2>1, <2>4 DEF ReadsHold
<1>11. CASE TellsOfChild
  <2>1. /\ Now.pc = "notify" /\ Now'.pc = "notify" /\ Now'.inc = Now.inc
        /\ status' = status /\ Now'.kids \subseteq Now.kids
    BY <1>11 DEF TellsOfChild
  <2> QED BY <2>1 DEF ReadsHold
<1>12. CASE TellsResolved
  BY <1>12 DEF TellsResolved, ReadsHold
<1>13. CASE Stays
  BY <1>13 DEF Stays, ReadsHold
<1> QED
  BY <1>2, <1>3, <1>4, <1>5, <1>6, <1>7, <1>8, <1>9, <1>10, <1>11, <1>12, <1>13 DEF Moves

LEMMA NextChildrenTyped ==
  ASSUME TypeInv, CascadeForest, ChildrenTyped, Moves
  PROVE  ChildrenTyped'
<1>1. /\ Now \in TaskState /\ made \in Nat /\ Made \subseteq Incident
      /\ Now.pc \in Working => Now.inc \in Made
      /\ Now.parent \in Made \cup {None} /\ Now.due \subseteq Cascading
      /\ info \in [Incident -> [kind : KindOf \cup {NoKind}, depth : Nat]]
      /\ spawned \in SUBSET (Incident \X Incident)
  BY AloneTyped, NowTyped DEF TypeInv, TasksOK, TaskOK, NodesTyped, Now
<1>2. /\ ~Creates => info' = info
      /\ \A i \in Made : ChildNode(i)' <=> ChildNode(i)
  BY MovesKeepNodes DEF ChildNode
<1>6. \A e \in spawned : e[2] \in Made
  BY <1>1 DEF CascadeForest, Made, Incident
<1>3. CASE UNCHANGED <<spawned, info>> /\ Now'.pc \notin FreshPc \cup {"create"}
  BY <1>3 DEF ChildrenTyped, ChildNode
<1>4. CASE /\ UNCHANGED <<spawned, info>> /\ Now'.pc = "create"
           /\ \/ Now'.parent = None
              \/ \E p : /\ info[p].kind.type \in DOMAIN CASCADE_RULES
                        /\ Now'.kind = ChildKind(p)
  BY <1>4, ChildKindTyped DEF ChildrenTyped, ChildNode, FreshPc
<1>5. CASE Creates
  <2>1. /\ Now.pc = "create" /\ Now'.pc = "activate" /\ Now'.parent = Now.parent
        /\ Now'.inc = made + 1 /\ made + 1 \in Incident /\ spawned' = spawned
    BY <1>5 DEF Creates
  <2>2. PICK d : info' = [info EXCEPT ![made + 1] = [kind |-> Now.kind, depth |-> d]]
    BY <1>5 DEF Creates
  <2>3. info'[made + 1].kind = Now.kind
    BY <1>1, <2>1, <2>2
  <2>4. Now'.parent # None => ChildNode(Now.inc)'
    BY <2>1, <2>3 DEF ChildrenTyped, ChildNode
  <2>5. \A e \in spawned : ChildNode(e[2])'
    BY <1>2, <1>6 DEF ChildrenTyped
  <2> QED BY <2>1, <2>4, <2>5 DEF ChildrenTyped, FreshPc
<1>7. CASE Activates
  <2>1. /\ Now.pc = "activate" /\ Now'.pc \in {"announce", "link"} /\ Now'.parent = Now.parent
        /\ Now'.inc = Now.inc /\ UNCHANGED <<spawned, info>>
        /\ Now'.pc = "link" => Now'.parent # None
    BY <1>7 DEF Activates, On
  <2> QED BY <2>1 DEF ChildrenTyped, FreshPc, ChildNode
<1>8. CASE Links
  <2>1. /\ Now.pc = "link" /\ Now'.pc = "announce" /\ info' = info
        /\ spawned' = spawned \cup {<<Now.parent, Now.inc>>}
    BY <1>8 DEF Links, On
  <2>2. Now.parent # None
    BY NowTyped, <2>1 DEF TypeInv, TasksOK, TaskOK, Now, Made, None
  <2>3. \A e \in spawned' : ChildNode(e[2])
    BY <2>1, <2>2 DEF ChildrenTyped, FreshPc
  <2> QED BY <2>1, <2>3 DEF ChildrenTyped, FreshPc, ChildNode
<1>9. CASE Calmly
  <2>1. CASE Now'.pc = "create" /\ Now'.parent # None
    <3>1. Now'.parent \in Cascading /\ Now'.kind = ChildKind(Now'.parent)
      BY <1>1, <1>9, <2>1 DEF Calmly, Calm
    <3> QED BY <1>4, <1>9, <2>1, <3>1 DEF Calmly, Cascading
  <2> QED BY <1>3, <1>4, <1>9, <2>1 DEF Calmly, Calm, FreshPc
<1>10. CASE Cascades
  BY <1>3, <1>4, <1>10 DEF Cascades, Calm, FreshPc
<1>11. CASE Announces \/ BeginsContainment \/ Contains \/ TellsContained
            \/ BeginsResolution \/ Resolves \/ Deactivates \/ ResolvesChildren
            \/ TellsOfChild \/ TellsResolved
  BY <1>3, <1>11 DEF Announces, BeginsContainment, Contains, TellsContained, BeginsResolution,
     Resolves, Deactivates, ResolvesChildren, TellsOfChild, TellsResolved, On, Calm, FreshPc
<1>12. CASE Stays
  BY <1>12 DEF Stays, ChildrenTyped, ChildNode
<1> QED
  BY <1>5, <1>7, <1>8, <1>9, <1>10, <1>11, <1>12 DEF Moves
-----------------------------------------------------------------------------
(* A protocol is held from its activation to its deactivation. *)
LEMMA HeldStays ==
  ASSUME ProtocolsHeld, protocols' = protocols, made' = made, info' = info,
         \A i \in Made : ProtocolFor(i) # NoProtocol => (Holding(i)' <=> Holding(i))
  PROVE  ProtocolsHeld'
<1>1. Made' = Made /\ \A i : ProtocolFor(i)' = ProtocolFor(i)
  BY DEF Made, ProtocolFor
<1> SUFFICES ASSUME NEW p, NEW i
             PROVE  (<<p, i>> \in protocols)' <=>
                       i \in Made' /\ Holding(i)' /\ p # NoProtocol /\ p = ProtocolFor(i)'
  BY Zenon DEF ProtocolsHeld
<1>2. <<p, i>> \in protocols <=>
        i \in Made /\ Holding(i) /\ p # NoProtocol /\ p = ProtocolFor(i)
  BY Zenon DEF ProtocolsHeld
<1> HIDE DEF Made, Holding, ProtocolFor
<1> QED BY <1>1, <1>2, Zenon

LEMMA NextProtocolsHeld ==
  ASSUME TypeInv, CascadeForest, ReadsHold, ChildrenTyped, ProtocolsHeld, Moves
  PROVE  ProtocolsHeld'
<1>1. /\ Now \in TaskState /\ made \in Nat /\ Made \subseteq Incident
      /\ Now.pc \in Working => Now.inc \in Made
      /\ status \in [Incident -> Status \cup {"none"}]
      /\ \A i \in Incident : (status[i] = "none") <=> (i \notin Made)
      /\ Now.kids \subseteq Made
  BY AloneTyped
<1>2. /\ Made \subseteq Made'
      /\ ~Creates => made' = made /\ info' = info
      /\ \A i \in Made : ProtocolFor(i)' = ProtocolFor(i)
  BY MovesKeepNodes
<1> USE DEF Working
<1>3. ASSUME protocols' = protocols, status' = status, ~Creates,
             Now.pc \notin {"activate", "deactivate"},
             Now'.pc \notin {"activate", "deactivate"}
      PROVE  ProtocolsHeld'
  <2>1. \A i \in Made : Holding(i)' <=> Holding(i)
    BY <1>3 DEF Holding
  <2> QED BY <1>2, <1>3, <2>1, HeldStays
<1>4. CASE \/ Calmly \/ Links \/ Announces \/ Cascades \/ BeginsContainment
           \/ TellsContained \/ BeginsResolution \/ TellsOfChild \/ TellsResolved
  <2>1. ~Creates
    BY <1>1, <1>4 DEF Creates, Calmly, Links, Announces, Cascades, BeginsContainment,
       TellsContained, BeginsResolution, TellsOfChild, TellsResolved
  <2> QED BY <1>3, <1>4, <2>1 DEF Calmly, Links, Announces, Cascades, BeginsContainment,
       TellsContained, BeginsResolution, TellsOfChild, TellsResolved, On, Calm
<1>5. CASE Stays
  <2>1. UNCHANGED <<protocols, status, made, info, Now>>
    BY <1>5 DEF Stays
  <2> QED BY <2>1, HeldStays DEF Holding
<1>6. CASE Contains
  <2>1. /\ UNCHANGED <<protocols, made, info>> /\ Now.pc = "containWrite"
        /\ Now'.pc = "containNotify" /\ status' = [status EXCEPT ![Now.inc] = "contained"]
        /\ Now.inc \in Incident /\ status[Now.inc] = "active"
    BY <1>1, <1>6 DEF Contains, On, ReadsHold
  <2>2. \A i \in Made : Holding(i)' <=> Holding(i)
    BY <1>1, <2>1 DEF Holding
  <2> QED BY <2>1, <2>2, HeldStays
<1>7. CASE Resolves
  <2>1. /\ UNCHANGED <<protocols, made, info>> /\ Now.pc = "resolveWrite"
        /\ Now'.pc = "deactivate" /\ Now'.inc = Now.inc
        /\ status' = [status EXCEPT ![Now.inc] = "resolved"]
        /\ Now.inc \in Incident /\ status[Now.inc] # "resolved"
    BY <1>1, <1>7 DEF Resolves, On, ReadsHold
  <2>2. \A i \in Made : Holding(i)' <=> Holding(i)
    BY <1>1, <2>1 DEF Holding
  <2> QED BY <2>1, <2>2, HeldStays
<1>8. CASE ResolvesChildren
  <2>1. /\ UNCHANGED <<protocols, made, info>> /\ Now.pc = "children" /\ Now'.pc = "notify"
        /\ Now'.kids = {c \in Descendants(Now.inc) : status[c] # "resolved"}
        /\ status' = [i \in Incident |-> IF i \in Now'.kids THEN "resolved" ELSE status[i]]
        /\ Now.inc \in Made
    BY <1>1, <1>8 DEF ResolvesChildren
  <2>2. \A c \in Now'.kids : ProtocolFor(c) = NoProtocol
    BY <2>1, DescendantsAfter, ChildUnprotected DEF ChildrenTyped
  <2>3. \A i \in Made : ProtocolFor(i) # NoProtocol => (Holding(i)' <=> Holding(i))
    BY <1>1, <2>1, <2>2 DEF Holding
  <2> QED BY <2>1, <2>3, HeldStays
<1>9. CASE Creates
  <2>1. /\ Now.pc = "create" /\ Now'.pc = "activate" /\ Now'.inc = made + 1 /\ made' = made + 1
        /\ status' = [status EXCEPT ![made + 1] = "active"] /\ protocols' = protocols
    BY <1>9 DEF Creates
  <2>2. \A i : i \in Made' => i \in Made \/ i = made + 1
    BY <1>1, <2>1 DEF Made
  <2>3. made + 1 \notin Made
    BY <1>1 DEF Made
  <2>9. \A n : n = made + 1 => ~Holding(n)'
    BY <2>1 DEF Holding
  <2>4. \A i \in Made : Holding(i)' <=> Holding(i)
    BY <1>1, <2>1, <2>3 DEF Holding
  <2> SUFFICES ASSUME NEW p, NEW i
               PROVE  (<<p, i>> \in protocols)' <=>
                         i \in Made' /\ Holding(i)' /\ p # NoProtocol /\ p = ProtocolFor(i)'
    BY Zenon DEF ProtocolsHeld
  <2>5. <<p, i>> \in protocols <=>
          i \in Made /\ Holding(i) /\ p # NoProtocol /\ p = ProtocolFor(i)
    BY Zenon DEF ProtocolsHeld
  <2>6. CASE i = made + 1
    BY <2>1, <2>3, <2>5, <2>6, <2>9
  <2>7. CASE i # made + 1 /\ i \in Made
    BY <1>2, <2>1, <2>4, <2>5, <2>7, Zenon
  <2>8. CASE i # made + 1 /\ i \notin Made
    BY <2>1, <2>2, <2>5, <2>8, Zenon
  <2> QED BY <2>6, <2>7, <2>8
<1>10. CASE Activates \/ Deactivates
  <2> PICK j : j = Now.inc
    OBVIOUS
  <2>1. /\ UNCHANGED <<made, info, status>> /\ Now'.inc = j /\ j \in Made
        /\ \A i : ProtocolFor(i)' = ProtocolFor(i)
        /\ Made' = Made
    BY <1>1, <1>10 DEF Activates, Deactivates, On, ProtocolFor, Made
  <2>2. \A i \in Made : i # j => (Holding(i)' <=> Holding(i))
    BY <2>1, <1>10 DEF Holding, Activates, Deactivates, On
  <2> SUFFICES ASSUME NEW p, NEW i
               PROVE  (<<p, i>> \in protocols)' <=>
                         i \in Made' /\ Holding(i)' /\ p # NoProtocol /\ p = ProtocolFor(i)'
    BY Zenon DEF ProtocolsHeld
  <2>5. <<p, i>> \in protocols <=>
          i \in Made /\ Holding(i) /\ p # NoProtocol /\ p = ProtocolFor(i)
    BY Zenon DEF ProtocolsHeld
  <2>6. CASE i # j
    <3>1. <<p, i>> \in protocols' <=> <<p, i>> \in protocols
      BY <1>10, <2>6 DEF Activates, Deactivates
    <3> QED BY <2>1, <2>2, <2>5, <2>6, <3>1, Zenon
  <2>7. CASE i = j /\ Activates
    <3>1. ~Holding(j) /\ Holding(j)'
      <4>1. Now.pc = "activate" /\ Now'.pc \in {"announce", "link"} /\ status[j] = "active"
        BY <2>7 DEF Activates, On, ReadsHold, EarlyPc
      <4> QED BY <2>1, <4>1 DEF Holding
    <3>2. <<p, j>> \in protocols' <=> p # NoProtocol /\ p = ProtocolFor(j)
      BY <2>5, <2>7, <3>1 DEF Activates
    <3> QED BY <2>1, <2>7, <3>1, <3>2, Zenon
  <2>8. CASE i = j /\ Deactivates
    <3>1. ~Holding(j)'
      <4>1. Now'.pc = "children" /\ status[j] = "resolved"
        BY <2>8 DEF Deactivates, On, ReadsHold, EndingPc
      <4> QED BY <2>1, <4>1 DEF Holding
    <3>2. <<p, j>> \notin protocols'
      BY <2>5, <2>8 DEF Deactivates
    <3> QED BY <2>8, <3>1, <3>2
  <2> QED BY <1>10, <2>6, <2>7, <2>8
<1> QED
  BY <1>4, <1>5, <1>6, <1>7, <1>8, <1>9, <1>10 DEF Moves

LEMMA HeldMatches ==
  ASSUME Rest = {}, TypeInv, ProtocolsHeld
  PROVE  ProtocolsMatchIncidents
<1> DEFINE Kept == { j \in Made : status[j] # "resolved" /\ ProtocolFor(j) # NoProtocol }
<1> SUFFICES ASSUME Quiet PROVE protocols = { <<ProtocolFor(i), i>> : i \in Kept }
  BY DEF ProtocolsMatchIncidents
<1>1. Now.pc = "idle"
  BY AloneTask DEF Quiet, At, Now
<1>2. \A i : Holding(i) <=> status[i] # "resolved"
  BY <1>1 DEF Holding
<1>3. \A p, i : <<p, i>> \in protocols <=> i \in Kept /\ p = ProtocolFor(i)
  BY <1>2, Zenon DEF ProtocolsHeld
<1>4. \A e \in protocols : e = <<e[1], e[2]>>
  BY AloneTyped
<1> HIDE DEF Kept
<1>5. \A e \in protocols : e[2] \in Kept /\ e = <<ProtocolFor(e[2]), e[2]>>
  BY <1>3, <1>4
<1>6. \A i \in Kept : <<ProtocolFor(i), i>> \in protocols
  BY <1>3, Zenon
<1> QED BY <1>5, <1>6, Zenon
-----------------------------------------------------------------------------
(* What has been published about each incident, by how far its handler is. *)
Unannounced(i) == Now.pc \in {"activate", "link", "announce"} /\ Now.inc = i
Untold(i)      == Now.pc \in EndingPc /\ (i = Now.inc \/ i \in Now.kids)

Told(i) ==
  IF i \notin Made \/ Unannounced(i) THEN {<<>>}
  ELSE IF status[i] = "active" \/ (Now.pc = "containNotify" /\ Now.inc = i)
       THEN {<<"created">>}
  ELSE IF status[i] = "contained" THEN {<<"created", "contained">>}
  ELSE IF Untold(i) THEN {<<"created">>, <<"created", "contained">>}
  ELSE {<<"created", "resolved">>, <<"created", "contained", "resolved">>}

EventsTold == \A i \in Incident : emitted[i] \in Told(i)

LEMMA Appended ==
  ASSUME NEW S, NEW s \in Seq(S), NEW e \in S, NEW t \in Seq(S),
         Len(t) = Len(s) + 1, \A i \in 1..Len(s) : t[i] = s[i], t[Len(s) + 1] = e
  PROVE  Append(s, e) = t
<1>1. /\ Append(s, e) \in Seq(S) /\ Len(Append(s, e)) = Len(s) + 1
      /\ \A i \in 1..Len(s) : Append(s, e)[i] = s[i]
      /\ Append(s, e)[Len(s) + 1] = e
  BY AppendProperties
<1>2. Len(s) \in Nat
  OBVIOUS
<1>3. \A i \in 1..Len(t) : Append(s, e)[i] = t[i]
  BY <1>1, <1>2
<1> QED BY <1>1, <1>3, SeqEqual

LEMMA Appending ==
  ASSUME NEW S, NEW a \in S, NEW b \in S, NEW e \in S
  PROVE  /\ Append(<<>>, e) = <<e>>
         /\ Append(<<a>>, e) = <<a, e>>
         /\ Append(<<a, b>>, e) = <<a, b, e>>
<1>1. Append(<<>>, e) = <<e>>
  OBVIOUS
<1>2. ASSUME NEW s, NEW t, s = <<a>>, t = <<a, e>>
      PROVE  Append(s, e) = t
  <2>1. /\ s \in Seq(S) /\ t \in Seq(S) /\ Len(s) = 1 /\ Len(t) = 2
        /\ s[1] = a /\ t[1] = a /\ t[2] = e
    BY <1>2
  <2>2. Len(t) = Len(s) + 1 /\ t[Len(s) + 1] = e /\ \A i \in 1..Len(s) : t[i] = s[i]
    BY <2>1
  <2> QED BY <2>1, <2>2, Appended, Zenon
<1>3. ASSUME NEW s, NEW t, s = <<a, b>>, t = <<a, b, e>>
      PROVE  Append(s, e) = t
  <2>1. /\ s \in Seq(S) /\ t \in Seq(S) /\ Len(s) = 2 /\ Len(t) = 3
        /\ s[1] = a /\ t[1] = a /\ s[2] = b /\ t[2] = b /\ t[3] = e
    BY <1>3
  <2>2. Len(t) = Len(s) + 1 /\ t[Len(s) + 1] = e /\ \A i \in 1..Len(s) : t[i] = s[i]
    BY <2>1
  <2> QED BY <2>1, <2>2, Appended, Zenon
<1> QED BY <1>1, <1>2, <1>3, Zenon

LEMMA Telling ==
  /\ Append(<<>>, "created") = <<"created">>
  /\ Append(<<"created">>, "contained") = <<"created", "contained">>
  /\ Append(<<"created">>, "resolved") = <<"created", "resolved">>
  /\ Append(<<"created", "contained">>, "resolved") = <<"created", "contained", "resolved">>
<1>1. "created" \in Event /\ "contained" \in Event /\ "resolved" \in Event
  BY DEF Event
<1> QED BY <1>1, Appending, Zenon

(* Nothing is said of it, and its place in the handler stays the same. *)
LEMMA ToldStays ==
  ASSUME NEW i, emitted[i] \in Told(i), emitted'[i] = emitted[i],
         i \in Made' <=> i \in Made, status'[i] = status[i],
         Unannounced(i)' <=> Unannounced(i), Untold(i)' <=> Untold(i),
         (Now'.pc = "containNotify" /\ Now'.inc = i) <=> (Now.pc = "containNotify" /\ Now.inc = i)
  PROVE  emitted'[i] \in Told(i)'
  BY Zenon DEF Told

LEMMA NextEventsTold ==
  ASSUME TypeInv, CascadeForest, ReadsHold, EventsTold, Moves
  PROVE  EventsTold'
<1>1. /\ Now \in TaskState /\ made \in Nat /\ Made \subseteq Incident
      /\ Now.pc \in Working => Now.inc \in Made
      /\ status \in [Incident -> Status \cup {"none"}]
      /\ \A i \in Incident : (status[i] = "none") <=> (i \notin Made)
      /\ Now.kids \subseteq Made
      /\ emitted \in [Incident -> Seq(Event)]
  BY AloneTyped
<1>2. /\ Made \subseteq Made'
      /\ ~Creates => made' = made /\ info' = info
  BY MovesKeepNodes
<1> USE DEF Working, EndingPc
<1> SUFFICES ASSUME NEW i \in Incident PROVE emitted'[i] \in Told(i)'
  BY Zenon DEF EventsTold
<1>3. emitted[i] \in Told(i)
  BY Zenon DEF EventsTold
<1>4. CASE \/ Calmly \/ Cascades \/ BeginsContainment \/ BeginsResolution
  <2>1. ~Creates /\ UNCHANGED <<status, emitted>>
    BY <1>1, <1>4 DEF Creates, Calmly, Cascades, BeginsContainment, BeginsResolution, On
  <2>2. ~Unannounced(i) /\ ~Unannounced(i)' /\ ~Untold(i) /\ ~Untold(i)'
    BY <1>4 DEF Unannounced, Untold, Calmly, Cascades, BeginsContainment, BeginsResolution,
       On, Calm
  <2>3. Now.pc # "containNotify" /\ Now'.pc # "containNotify"
    BY <1>4 DEF Calmly, Cascades, BeginsContainment, BeginsResolution, On, Calm
  <2> QED BY <1>2, <1>3, <2>1, <2>2, <2>3, ToldStays DEF Made
<1>5. CASE Stays
  <2>1. UNCHANGED <<emitted, status, made, Now>>
    BY <1>5 DEF Stays
  <2> QED BY <1>3, <2>1, ToldStays DEF Made, Unannounced, Untold
<1>6. CASE Activates \/ Links
  <2>1. /\ UNCHANGED <<made, status, emitted>> /\ Now'.inc = Now.inc
        /\ Now.pc \in {"activate", "link"} /\ Now'.pc \in {"announce", "link"}
    BY <1>6 DEF Activates, Links, On
  <2> QED BY <1>3, <2>1, ToldStays DEF Made, Unannounced, Untold
<1>7. CASE Deactivates
  <2>1. /\ UNCHANGED <<made, status, emitted>> /\ Now'.inc = Now.inc /\ Now'.kids = Now.kids
        /\ Now.pc = "deactivate" /\ Now'.pc = "children"
    BY <1>7 DEF Deactivates, On
  <2>2. /\ i \in Made' <=> i \in Made
        /\ ~Unannounced(i) /\ ~Unannounced(i)'
        /\ Untold(i)' <=> Untold(i)
    BY <2>1 DEF Made, Unannounced, Untold
  <2> QED BY <1>3, <2>1, <2>2, ToldStays
<1>8. CASE Creates
  <2>1. /\ Now.pc = "create" /\ Now'.pc = "activate" /\ Now'.inc = made + 1
        /\ status' = [status EXCEPT ![made + 1] = "active"]
        /\ emitted' = emitted /\ made' = made + 1
    BY <1>8 DEF Creates
  <2>2. CASE i = made + 1
    <3>1. i \notin Made /\ Unannounced(i)'
      BY <1>1, <2>1, <2>2 DEF Made, Unannounced
    <3> QED BY <1>3, <2>1, <3>1, Zenon DEF Told
  <2>3. CASE i # made + 1
    <3>1. /\ i \in Made' <=> i \in Made
          /\ status'[i] = status[i]
          /\ ~Unannounced(i) /\ ~Unannounced(i)' /\ ~Untold(i) /\ ~Untold(i)'
      BY <1>1, <2>1, <2>3 DEF Made, Unannounced, Untold, Incident
    <3> QED BY <1>3, <2>1, <3>1, ToldStays
  <2> QED BY <2>2, <2>3
<1>9. CASE Announces
  <2>1. /\ Now.pc = "announce" /\ Now'.pc = "cascade" /\ Now'.inc = Now.inc
        /\ UNCHANGED <<made, status>> /\ Now.inc \in Incident /\ Now.inc \in Made
        /\ emitted' = [emitted EXCEPT ![Now.inc] = Append(@, "created")]
        /\ status[Now.inc] = "active"
    BY <1>1, <1>9 DEF Announces, On, Emit, ReadsHold, EarlyPc
  <2>2. CASE i = Now.inc
    <3>1. emitted[i] = <<>>
      BY <1>3, <2>1, <2>2 DEF Told, Unannounced
    <3>2. emitted'[i] = <<"created">>
      BY <1>1, <2>1, <2>2, <3>1, Telling
    <3>3. i \in Made' /\ ~Unannounced(i)' /\ status'[i] = "active"
      BY <2>1, <2>2 DEF Made, Unannounced
    <3> QED BY <3>2, <3>3 DEF Told
  <2>3. CASE i # Now.inc
    <3>1. /\ i \in Made' <=> i \in Made
          /\ emitted'[i] = emitted[i]
          /\ ~Unannounced(i) /\ ~Unannounced(i)' /\ ~Untold(i) /\ ~Untold(i)'
      BY <1>1, <2>1, <2>3 DEF Made, Unannounced, Untold
    <3> QED BY <1>3, <2>1, <3>1, ToldStays
  <2> QED BY <2>2, <2>3
<1>10. CASE Contains
  <2>1. /\ Now.pc = "containWrite" /\ Now'.pc = "containNotify" /\ Now'.inc = Now.inc
        /\ status' = [status EXCEPT ![Now.inc] = "contained"] /\ Now.inc \in Made
        /\ UNCHANGED <<made, emitted>> /\ status[Now.inc] = "active"
    BY <1>1, <1>10 DEF Contains, On, ReadsHold
  <2>2. /\ i \in Made' <=> i \in Made
        /\ ~Unannounced(i) /\ ~Unannounced(i)' /\ ~Untold(i) /\ ~Untold(i)'
    BY <2>1 DEF Made, Unannounced, Untold
  <2>3. CASE i = Now.inc
    BY <1>3, <2>1, <2>2, <2>3 DEF Told
  <2>4. CASE i # Now.inc
    <3>1. status'[i] = status[i]
      BY <1>1, <2>1, <2>4
    <3> QED BY <1>3, <2>1, <2>2, <2>4, <3>1, ToldStays
  <2> QED BY <2>3, <2>4
<1>11. CASE TellsContained
  <2>1. /\ Now.pc = "containNotify" /\ Now'.pc \in Calm /\ Now.inc \in Made
        /\ UNCHANGED <<made, status>> /\ status[Now.inc] = "contained"
        /\ emitted' = [emitted EXCEPT ![Now.inc] = Append(@, "contained")]
    BY <1>1, <1>11 DEF TellsContained, ReadsHold, Emit
  <2>2. /\ i \in Made' <=> i \in Made
        /\ ~Unannounced(i) /\ ~Unannounced(i)' /\ ~Untold(i) /\ ~Untold(i)'
        /\ Now'.pc # "containNotify"
    BY <2>1 DEF Made, Unannounced, Untold, Calm
  <2>3. CASE i = Now.inc
    <3>1. emitted[i] = <<"created">>
      BY <1>3, <2>1, <2>2, <2>3 DEF Told
    <3>2. emitted'[i] = Append(emitted[i], "contained")
      BY <1>1, <2>1, <2>3
    <3>3. emitted'[i] = <<"created", "contained">>
      BY <3>1, <3>2, Telling
    <3>4. Told(i)' = {<<"created", "contained">>}
      BY <2>1, <2>2, <2>3 DEF Told
    <3> QED BY <3>3, <3>4, Zenon
  <2>4. CASE i # Now.inc
    <3>1. emitted'[i] = emitted[i]
      BY <1>1, <2>1, <2>4
    <3> QED BY <1>3, <2>1, <2>2, <2>4, <3>1, ToldStays
  <2> QED BY <2>3, <2>4
<1>12. CASE Resolves
  <2>1. /\ Now.pc = "resolveWrite" /\ Now'.pc = "deactivate" /\ Now'.inc = Now.inc
        /\ status' = [status EXCEPT ![Now.inc] = "resolved"] /\ Now.inc \in Made
        /\ UNCHANGED <<made, emitted>> /\ status[Now.inc] # "resolved"
        /\ Now.kids = {} /\ Now'.kids = {}
    BY <1>1, <1>12 DEF Resolves, On, ReadsHold
  <2>2. /\ i \in Made' <=> i \in Made
        /\ ~Unannounced(i) /\ ~Unannounced(i)' /\ ~Untold(i)
        /\ Untold(i)' <=> i = Now.inc
    BY <2>1 DEF Made, Unannounced, Untold
  <2>3. CASE i = Now.inc
    <3>1. status[i] \in {"active", "contained"} /\ status'[i] = "resolved"
      BY <1>1, <2>1, <2>3 DEF Status
    <3> QED BY <1>3, <2>1, <2>2, <2>3, <3>1 DEF Told
  <2>4. CASE i # Now.inc
    <3>1. status'[i] = status[i]
      BY <1>1, <2>1, <2>4
    <3> QED BY <1>3, <2>1, <2>2, <2>4, <3>1, ToldStays
  <2> QED BY <2>3, <2>4
<1>13. CASE ResolvesChildren
  <2>1. /\ Now.pc = "children" /\ Now'.pc = "notify" /\ Now'.inc = Now.inc
        /\ Now'.kids = {c \in Descendants(Now.inc) : status[c] # "resolved"}
        /\ status' = [j \in Incident |-> IF j \in Now'.kids THEN "resolved" ELSE status[j]]
        /\ Now.inc \in Made /\ UNCHANGED <<made, emitted>>
        /\ Now.kids = {} /\ status[Now.inc] = "resolved"
    BY <1>1, <1>13 DEF ResolvesChildren, ReadsHold
  <2>2. /\ i \in Made' <=> i \in Made
        /\ ~Unannounced(i) /\ ~Unannounced(i)'
        /\ Untold(i) <=> i = Now.inc
        /\ Untold(i)' <=> (i = Now.inc \/ i \in Now'.kids)
    BY <2>1 DEF Made, Unannounced, Untold
  <2>3. CASE i \in Now'.kids
    <3>1. i \in Made /\ i # Now.inc /\ status[i] # "resolved"
      BY <2>1, <2>3, DescendantsAfter
    <3>2. status[i] \in {"active", "contained"} /\ status'[i] = "resolved"
      BY <1>1, <2>1, <2>3, <3>1 DEF Status
    <3> QED BY <1>3, <2>1, <2>2, <2>3, <3>1, <3>2 DEF Told
  <2>4. CASE i \notin Now'.kids
    <3>1. status'[i] = status[i]
      BY <1>1, <2>1, <2>4
    <3> QED BY <1>3, <2>1, <2>2, <2>4, <3>1, ToldStays
  <2> QED BY <2>3, <2>4
<1>14. ASSUME NEW c \in Made, status[c] = "resolved", Untold(c), UNCHANGED <<made, status>>,
              Emit(c, "resolved"), ~Untold(c)', Now.pc = "notify", Now'.pc # "containNotify",
              ~Unannounced(i)', i # c => (Untold(i)' <=> Untold(i))
       PROVE  emitted'[i] \in Told(i)'
  <2>1. ~Unannounced(i) /\ (i \in Made' <=> i \in Made)
    BY <1>14 DEF Unannounced, Made
  <2>2. c \in Incident /\ emitted' = [emitted EXCEPT ![c] = Append(@, "resolved")]
    BY <1>1, <1>14 DEF Emit
  <2>3. CASE i = c
    <3>1. emitted[i] \in {<<"created">>, <<"created", "contained">>}
      BY <1>3, <1>14, <2>1, <2>3 DEF Told
    <3>2. emitted'[i] = Append(emitted[i], "resolved")
      BY <1>1, <2>2, <2>3
    <3>3. emitted'[i] \in {<<"created", "resolved">>, <<"created", "contained", "resolved">>}
      BY <3>1, <3>2, Telling
    <3> QED BY <1>14, <2>1, <2>3, <3>3 DEF Told
  <2>4. CASE i # c
    <3>1. emitted'[i] = emitted[i]
      BY <1>1, <2>2, <2>4
    <3> QED BY <1>3, <1>14, <2>1, <2>4, <3>1, ToldStays
  <2> QED BY <2>3, <2>4
<1>15. CASE TellsOfChild
  <2>1. PICK c \in Now.kids : Emit(c, "resolved") /\ Now'.kids = Now.kids \ {c}
    BY <1>15 DEF TellsOfChild
  <2>2. /\ Now.pc = "notify" /\ Now'.pc = "notify" /\ Now'.inc = Now.inc
        /\ UNCHANGED <<made, status>>
    BY <1>15 DEF TellsOfChild
  <2>3. c \in Made /\ status[c] = "resolved" /\ c # Now.inc
    BY <1>1, <2>2 DEF ReadsHold
  <2>4. /\ Untold(c) /\ ~Untold(c)' /\ ~Unannounced(i)'
        /\ i # c => (Untold(i)' <=> Untold(i))
    BY <2>1, <2>2, <2>3 DEF Untold, Unannounced
  <2> QED BY <1>14, <2>1, <2>2, <2>3, <2>4
<1>16. CASE TellsResolved
  <2>1. /\ Now.pc = "notify" /\ Now'.pc \in Calm /\ Now.kids = {} /\ Now.inc \in Made
        /\ UNCHANGED <<made, status>> /\ Emit(Now.inc, "resolved")
        /\ status[Now.inc] = "resolved"
    BY <1>1, <1>16 DEF TellsResolved, ReadsHold
  <2> PICK c : c = Now.inc
    OBVIOUS
  <2>2. /\ Untold(c) /\ ~Untold(c)' /\ ~Unannounced(i)' /\ Now'.pc # "containNotify"
        /\ i # c => (Untold(i)' <=> Untold(i))
    BY <2>1 DEF Untold, Unannounced, Calm
  <2> QED BY <1>14, <2>1, <2>2
<1> QED
  BY <1>4, <1>5, <1>6, <1>7, <1>8, <1>9, <1>10, <1>11, <1>12, <1>13, <1>15, <1>16 DEF Moves

LEMMA ToldMatches ==
  ASSUME Rest = {}, TypeInv, EventsTold
  PROVE  EventsMatchStatus
<1> SUFFICES ASSUME Quiet, NEW i \in Made
    PROVE  /\ LastEvent(i) = (IF status[i] = "active" THEN "created" ELSE status[i])
           /\ emitted[i][1] = "created"
           /\ \A m, n \in DOMAIN emitted[i] : emitted[i][m] = emitted[i][n] => m = n
  BY Zenon DEF EventsMatchStatus
<1>1. Now.pc = "idle"
  BY AloneTask DEF Quiet, At, Now
<1>2. i \in Incident /\ status[i] \in Status
  BY AloneTyped
<1>3. ~Unannounced(i) /\ ~Untold(i) /\ emitted[i] \in Told(i)
  BY <1>1, <1>2 DEF Unannounced, Untold, EndingPc, EventsTold
<1>4. \/ status[i] = "active" /\ emitted[i] = <<"created">>
      \/ status[i] = "contained" /\ emitted[i] = <<"created", "contained">>
      \/ status[i] = "resolved" /\ emitted[i] = <<"created", "resolved">>
      \/ status[i] = "resolved" /\ emitted[i] = <<"created", "contained", "resolved">>
  BY <1>1, <1>2, <1>3 DEF Told, Status
<1>5. CASE status[i] = "active" /\ emitted[i] = <<"created">>
  BY <1>5 DEF LastEvent
<1>6. CASE status[i] = "contained" /\ emitted[i] = <<"created", "contained">>
  BY <1>6 DEF LastEvent
<1>7. CASE status[i] = "resolved" /\ emitted[i] = <<"created", "resolved">>
  BY <1>7 DEF LastEvent
<1>8. CASE status[i] = "resolved" /\ emitted[i] = <<"created", "contained", "resolved">>
  BY <1>8 DEF LastEvent
<1> QED BY <1>4, <1>5, <1>6, <1>7, <1>8
-----------------------------------------------------------------------------
(* A child survives its parent only where its cascade was delayed: one     *)
(* that fires at once finds its parent unresolved, and the five levels of  *)
(* [:SPAWNED*1..5] reach every descendant.                                 *)
LaterOnly ==
  /\ \A e \in pending : Delay(e[1]) > 0
  /\ \A p \in Now.due : Delay(p) > 0

ParentAtHand ==
  Now.pc \in MakePc /\ Now.parent # None =>
    /\ Now.parent \in Cascading
    /\ Delay(Now.parent) = 0 => status[Now.parent] # "resolved"

SpawnersCascade == \A e \in spawned : e[1] \in Cascading

Orphan(e) ==
  status[e[1]] = "resolved" /\ status[e[2]] # "resolved" /\ Delay(e[1]) = 0

OrphansInHand ==
  \A e \in spawned : Orphan(e) =>
    Now.pc \in {"deactivate", "children"} /\ e[1] = Now.inc

LEMMA NextLaterOnly ==
  ASSUME TypeInv, LaterOnly, Moves
  PROVE  LaterOnly'
<1>1. /\ Now.due \subseteq Made
      /\ Now.pc \in Working => Now.inc \in Made
  BY AloneTyped
<1>2. \A i \in Made : Delay(i)' = Delay(i)
  BY MovesKeepNodes
<1>3. \A e \in pending : e[1] \in Made
  BY DEF TypeInv, PendingOK, Cascading
<1>4. CASE NoneQueued
  BY <1>1, <1>2, <1>3, <1>4 DEF NoneQueued, LaterOnly
<1>5. CASE Cascades
  <2>1. Now.inc \in Made
    BY <1>1, <1>5 DEF Cascades, Working
  <2> QED BY <1>1, <1>2, <1>3, <1>5, <2>1 DEF Cascades, LaterOnly
<1>6. CASE Stays
  BY <1>1, <1>2, <1>3, <1>6 DEF Stays, LaterOnly
<1> QED
  BY <1>4, <1>5, <1>6 DEF Moves, Calmly, Creates, Activates, Links, Announces,
     BeginsContainment, Contains, TellsContained, BeginsResolution, Resolves, Deactivates,
     ResolvesChildren, TellsOfChild, TellsResolved

LEMMA NextParentAtHand ==
  ASSUME TypeInv, ReadsHold, LaterOnly, ParentAtHand, Moves
  PROVE  ParentAtHand'
<1>1. /\ Now \in TaskState /\ made \in Nat /\ Made \subseteq Incident
      /\ Now.pc \in Working => Now.inc \in Made
      /\ Now.due \subseteq Made /\ Now.parent \in Made \cup {None}
      /\ Now.due \subseteq Cascading
      /\ status \in [Incident -> Status \cup {"none"}]
  BY AloneTyped, NowTyped DEF TypeInv, TasksOK, TaskOK, Now
<1>2. \A i \in Made : Delay(i)' = Delay(i) /\ (i \in Cascading => i \in Cascading')
  BY MovesKeepNodes DEF Cascading
<1> USE DEF MakePc
<1>3. CASE Now'.pc \notin MakePc
  BY <1>3 DEF ParentAtHand
<1>4. CASE Calmly /\ Now'.pc = "create"
  <2>1. Now'.parent # None =>
          Now'.parent \in Made /\ Now'.parent \in Cascading /\ Delay(Now'.parent) > 0
    BY <1>1, <1>4 DEF Calmly, Calm, LaterOnly
  <2>2. \A p \in Made : Delay(p) > 0 => Delay(p)' # 0
    BY <1>2
  <2>3. Now'.parent # None => Delay(Now.parent)' # 0 /\ Now'.parent \in Cascading'
    BY <1>2, <2>1, <2>2
  <2> QED BY <2>3 DEF ParentAtHand
<1>5. CASE Cascades /\ Now'.pc = "create"
  <2>1. /\ Now'.parent = Now.inc /\ status' = status /\ status[Now.inc] = "active"
        /\ Now.inc \in Cascading'
    BY <1>1, <1>2, <1>5 DEF Cascades, Calm, ReadsHold, EarlyPc, Working, Cascading
  <2> QED BY <2>1 DEF ParentAtHand
<1>6. CASE Creates
  <2>1. /\ Now.pc = "create" /\ Now'.parent = Now.parent
        /\ status' = [status EXCEPT ![made + 1] = "active"] /\ made + 1 \in Incident
    BY <1>6 DEF Creates
  <2>2. Now.parent # None => Now.parent \in Made /\ Delay(Now.parent)' = Delay(Now.parent)
                             /\ Now.parent \in Cascading'
    BY <1>1, <1>2, <2>1 DEF ParentAtHand
  <2>3. Now.parent # None => status'[Now.parent] = status[Now.parent]
    BY <1>1, <2>1, <2>2 DEF Made
  <2> QED BY <2>1, <2>2, <2>3 DEF ParentAtHand
<1>7. CASE Activates
  <2>1. /\ Now.pc = "activate" /\ Now'.parent = Now.parent /\ UNCHANGED <<status, info, made>>
    BY <1>7 DEF Activates, On
  <2> QED BY <2>1 DEF ParentAtHand, Delay, Cascading, Made
<1>8. CASE Stays
  BY <1>8 DEF Stays, ParentAtHand, Delay, Cascading, Made
<1> QED
  BY <1>3, <1>4, <1>5, <1>6, <1>7, <1>8 DEF Moves, Calmly, Links, Announces, Cascades, Calm,
     BeginsContainment, Contains, TellsContained, BeginsResolution, Resolves, Deactivates,
     ResolvesChildren, TellsOfChild, TellsResolved, On

LEMMA ChildrenDeeper ==
  ASSUME TypeInv, CascadeForest, NEW k \in Nat, NEW S,
         S \subseteq Made /\ \A p \in S : info[p].depth >= k
  PROVE  Children(S) \subseteq Made /\ \A c \in Children(S) : info[c].depth >= k + 1
<1>1. \A i \in Made : info[i].depth \in Nat
  BY MadeHasKind DEF TypeInv
<1>2. ASSUME NEW c \in Children(S)
      PROVE  info[c].depth >= k + 1
  <2>1. PICK p \in S : <<p, c>> \in spawned
    BY <1>2 DEF Children
  <2>2. info[c].depth = info[p].depth + 1 /\ info[p].depth >= k /\ info[p].depth \in Nat
    BY <1>1, <2>1 DEF CascadeForest
  <2> QED BY <2>2
<1> QED BY <1>2 DEF Children

(* With no more levels than the query follows, it follows them all. *)
LEMMA DescendantsClosed ==
  ASSUME CASCADE_MAX_DEPTH <= 5, TypeInv, CascadeForest, NEW i \in Made,
         NEW e \in spawned, e[1] = i \/ e[1] \in Descendants(i)
  PROVE  e[2] \in Descendants(i)
<1> DEFINE d1 == Children({i})
           d2 == Children(d1)
           d3 == Children(d2)
           d4 == Children(d3)
           d5 == Children(d4)
           Deep(S, k) == S \subseteq Made /\ \A c \in S : info[c].depth >= k
<1>1. \A j \in Made : info[j].depth \in Nat
  BY MadeHasKind DEF TypeInv
<1>2. Deep({i}, 0)
  BY <1>1
<1>3. Deep(d1, 1)
  <2>1. Deep(d1, 0 + 1)
    BY <1>2, ChildrenDeeper
  <2> HIDE DEF d1
  <2> QED BY <2>1
<1>4. Deep(d2, 2)
  <2> HIDE DEF d1
  <2>1. Deep(d2, 1 + 1)
    BY <1>3, ChildrenDeeper
  <2> QED BY <2>1
<1>5. Deep(d3, 3)
  <2> HIDE DEF d2
  <2>1. Deep(d3, 2 + 1)
    BY <1>4, ChildrenDeeper
  <2> QED BY <2>1
<1>6. Deep(d4, 4)
  <2> HIDE DEF d3
  <2>1. Deep(d4, 3 + 1)
    BY <1>5, ChildrenDeeper
  <2> QED BY <2>1
<1>7. Deep(d5, 5)
  <2> HIDE DEF d4
  <2>1. Deep(d5, 4 + 1)
    BY <1>6, ChildrenDeeper
  <2> QED BY <2>1
<1>8. e[1] \in Made /\ e[2] \in Made /\ e = <<e[1], e[2]>>
      /\ info[e[2]].depth = info[e[1]].depth + 1 /\ info[e[2]].depth <= CASCADE_MAX_DEPTH
  <2>1. e \in Incident \X Incident /\ made \in Nat
    BY AloneTyped DEF TypeInv, NodesTyped
  <2>2. e[1] < e[2] /\ e[2] <= made /\ info[e[2]].depth = info[e[1]].depth + 1
    BY DEF CascadeForest
  <2>3. e[1] \in Made /\ e[2] \in Made
    BY <2>1, <2>2 DEF Made, Incident
  <2> QED BY <2>1, <2>2, <2>3 DEF CascadeForest
<1>9. \A S : e[1] \in S => e[2] \in Children(S)
  BY <1>8 DEF Children
<1>10. Descendants(i) = d1 \cup d2 \cup d3 \cup d4 \cup d5
  BY Zenon DEF Descendants
<1>11. e[1] \notin d5
  <2>1. info[e[1]].depth < 5
    BY <1>1, <1>8, BoundsAssumption
  <2> HIDE DEF d5
  <2> QED BY <1>1, <1>7, <1>8, <2>1
<1>12. e[1] \in {i} \/ e[1] \in d1 \/ e[1] \in d2 \/ e[1] \in d3 \/ e[1] \in d4
  <2> HIDE DEF d1, d2, d3, d4, d5
  <2> QED BY <1>10, <1>11
<1>13. e[2] \in d1 \/ e[2] \in d2 \/ e[2] \in d3 \/ e[2] \in d4 \/ e[2] \in d5
  BY <1>9, <1>12, Zenon
<1> HIDE DEF d1, d2, d3, d4, d5
<1> QED BY <1>10, <1>13

LEMMA NextOrphansInHand ==
  ASSUME CASCADE_MAX_DEPTH <= 5, TypeInv, CascadeForest, ReadsHold, ParentAtHand,
         OrphansInHand, Moves
  PROVE  OrphansInHand'
<1>1. /\ Now \in TaskState /\ made \in Nat /\ Made \subseteq Incident
      /\ Now.pc \in Working => Now.inc \in Made
      /\ Now.parent \in Made \cup {None}
      /\ status \in [Incident -> Status \cup {"none"}]
  BY AloneTyped
<1>2. /\ \A i \in Made : Delay(i)' = Delay(i)
      /\ ~Creates => made' = made /\ info' = info
  BY MovesKeepNodes
<1>3. \A e \in spawned : e[1] \in Made /\ e[2] \in Made /\ e[1] \in Incident /\ e[2] \in Incident
  <2>1. spawned \in SUBSET (Incident \X Incident)
    BY DEF TypeInv, NodesTyped
  <2>2. \A e \in spawned : e[1] < e[2] /\ e[2] <= made
    BY DEF CascadeForest
  <2> QED BY <1>1, <2>1, <2>2 DEF Made, Incident
<1>4. ASSUME spawned' = spawned,
             \A e \in spawned : Orphan(e)' =>
               Orphan(e) /\ Now.pc # "deactivate" /\ Now.pc # "children"
      PROVE  OrphansInHand'
  BY <1>4 DEF OrphansInHand
<1>5. CASE \/ Calmly \/ Activates \/ Announces \/ Cascades \/ BeginsContainment
           \/ TellsContained \/ BeginsResolution \/ TellsOfChild \/ TellsResolved
  <2>1. /\ UNCHANGED <<spawned, status, info>>
        /\ Now.pc # "deactivate" /\ Now.pc # "children"
    BY <1>5 DEF Calmly, Activates, Announces, Cascades, BeginsContainment,
       TellsContained, BeginsResolution, TellsOfChild, TellsResolved, On, Calm
  <2> QED BY <1>4, <2>1 DEF Orphan, Delay
<1>6. CASE Stays
  BY <1>6 DEF Stays, OrphansInHand, Orphan, Delay
<1>7. CASE Deactivates
  BY <1>7 DEF Deactivates, On, OrphansInHand, Orphan, Delay
<1>8. CASE Creates
  <2>1. /\ Now.pc = "create" /\ status' = [status EXCEPT ![made + 1] = "active"]
        /\ spawned' = spawned
    BY <1>8 DEF Creates
  <2>2. \A e \in spawned : /\ status'[e[1]] = status[e[1]] /\ status'[e[2]] = status[e[2]]
                           /\ Delay(e[1])' = Delay(e[1])
    BY <1>1, <1>2, <1>3, <2>1 DEF Made
  <2>3. \A e \in spawned : Orphan(e)' => Orphan(e)
    BY <2>2, Zenon DEF Orphan
  <2> QED BY <1>4, <2>1, <2>3
<1>9. CASE Contains
  <2>1. /\ Now.pc = "containWrite" /\ status' = [status EXCEPT ![Now.inc] = "contained"]
        /\ UNCHANGED <<spawned, info>> /\ status[Now.inc] = "active"
    BY <1>9 DEF Contains, On, ReadsHold
  <2>2. \A e \in spawned : Orphan(e)' => Orphan(e)
    BY <1>1, <1>3, <2>1 DEF Orphan, Delay
  <2> QED BY <1>4, <2>1, <2>2
<1>10. CASE Links
  <2>1. /\ Now.pc = "link" /\ spawned' = spawned \cup {<<Now.parent, Now.inc>>}
        /\ UNCHANGED <<status, info>>
    BY <1>10 DEF Links, On
  <2>2. Now.parent # None
    BY NowTyped, <2>1 DEF TypeInv, TasksOK, TaskOK, Now, Made, None
  <2>3. ~Orphan(<<Now.parent, Now.inc>>)
    BY <2>1, <2>2 DEF ParentAtHand, MakePc, Orphan
  <2>4. \A e \in spawned' : ~Orphan(e)
    BY <2>1, <2>3 DEF OrphansInHand
  <2>5. \A e : Orphan(e)' <=> Orphan(e)
    BY <2>1 DEF Orphan, Delay
  <2> QED BY <2>4, <2>5 DEF OrphansInHand
<1>11. CASE Resolves
  <2>1. /\ Now.pc = "resolveWrite" /\ Now'.pc = "deactivate" /\ Now'.inc = Now.inc
        /\ status' = [status EXCEPT ![Now.inc] = "resolved"] /\ Now.inc \in Incident
        /\ UNCHANGED <<spawned, info>>
    BY <1>1, <1>11 DEF Resolves, On, Working
  <2>2. \A e \in spawned : Orphan(e)' => e[1] = Now.inc
    BY <1>1, <1>3, <2>1 DEF Orphan, Delay, OrphansInHand
  <2> QED BY <2>1, <2>2 DEF OrphansInHand
<1>12. CASE ResolvesChildren
  <2>1. /\ Now.pc = "children" /\ Now.inc \in Made
        /\ Now'.kids = {c \in Descendants(Now.inc) : status[c] # "resolved"}
        /\ status' = [i \in Incident |-> IF i \in Now'.kids THEN "resolved" ELSE status[i]]
        /\ UNCHANGED <<spawned, info>>
    BY <1>1, <1>12 DEF ResolvesChildren, Working
  <2>2. ASSUME NEW e \in spawned, Orphan(e)'
        PROVE  FALSE
    <3>1. /\ status'[e[1]] = "resolved" /\ status'[e[2]] # "resolved" /\ Delay(e[1]) = 0
          /\ e[1] \in Incident /\ e[2] \in Incident
      BY <1>3, <2>1, <2>2 DEF Orphan, Delay
    <3>2. status[e[2]] # "resolved" /\ e[2] \notin Descendants(Now.inc)
      BY <2>1, <3>1
    <3>3. e[1] = Now.inc \/ e[1] \in Descendants(Now.inc)
      BY <2>1, <3>1, <3>2 DEF OrphansInHand, Orphan
    <3> QED BY <2>1, <3>2, <3>3, DescendantsClosed
  <2> QED BY <1>4, <2>1, <2>2
<1> QED
  BY <1>5, <1>6, <1>7, <1>8, <1>9, <1>10, <1>11, <1>12 DEF Moves

LEMMA NextSpawnersCascade ==
  ASSUME TypeInv, ParentAtHand, SpawnersCascade, Moves
  PROVE  SpawnersCascade'
<1>1. Cascading \subseteq Cascading'
  BY MovesKeepNodes DEF Cascading
<1>2. CASE spawned' = spawned
  BY <1>1, <1>2 DEF SpawnersCascade
<1>3. CASE Links
  <2>1. Now.pc = "link" /\ spawned' = spawned \cup {<<Now.parent, Now.inc>>}
    BY <1>3 DEF Links, On
  <2>2. Now.parent \in Cascading
    BY NowTyped, <2>1 DEF TypeInv, TasksOK, TaskOK, Now, Made, None, ParentAtHand, MakePc
  <2> QED BY <1>1, <2>1, <2>2 DEF SpawnersCascade
<1> QED
  BY <1>2, <1>3 DEF Moves, Calmly, Creates, Activates, Announces, Cascades,
     BeginsContainment, Contains, TellsContained, BeginsResolution, Resolves, Deactivates,
     ResolvesChildren, TellsOfChild, TellsResolved, Stays

LEMMA OrphansLater ==
  ASSUME Rest = {}, SpawnersCascade, OrphansInHand
  PROVE  OrphansAreDelayed
<1> SUFFICES ASSUME Quiet, NEW e \in spawned,
                    status[e[1]] = "resolved", status[e[2]] # "resolved"
             PROVE  CASCADE_RULES[info[e[1]].kind.type].delay > 0
  BY Zenon DEF OrphansAreDelayed
<1>1. Now.pc = "idle"
  BY AloneTask DEF Quiet, At, Now
<1>2. Delay(e[1]) # 0
  BY <1>1 DEF OrphansInHand, Orphan
<1>3. Delay(e[1]) \in Nat
  BY RulesTyped DEF SpawnersCascade, Cascading, Delay
<1> QED BY <1>2, <1>3 DEF Delay
-----------------------------------------------------------------------------
AloneInv ==
  /\ ReadsHold /\ ChildrenTyped /\ ProtocolsHeld /\ EventsTold
  /\ LaterOnly /\ ParentAtHand /\ SpawnersCascade

LEMMA InitAlone == Init => AloneInv /\ OrphansInHand
<1> SUFFICES ASSUME Init PROVE AloneInv /\ OrphansInHand
  OBVIOUS
<1>1. /\ Now.pc = "idle" /\ Now.kids = {} /\ Now.due = {} /\ Made = {}
      /\ spawned = {} /\ pending = {} /\ protocols = {}
      /\ \A i \in Incident : emitted[i] = <<>>
  BY DEF Init, Now, Idle, Task, Made
<1>2. ReadsHold /\ ChildrenTyped /\ LaterOnly /\ ParentAtHand /\ SpawnersCascade
  BY <1>1 DEF ReadsHold, EarlyPc, EndingPc, ChildrenTyped, FreshPc, LaterOnly,
     ParentAtHand, MakePc, SpawnersCascade
<1>3. ProtocolsHeld /\ EventsTold /\ OrphansInHand
  BY <1>1 DEF ProtocolsHeld, EventsTold, Told, OrphansInHand
<1> QED BY <1>2, <1>3 DEF AloneInv

LEMMA NextAlone ==
  ASSUME Rest = {}, MaxFaults = 0
  PROVE  TypeInv /\ Claims /\ AloneInv /\ [Next]_vars => AloneInv'
<1> SUFFICES ASSUME TypeInv, Claims, AloneInv, [Next]_vars
             PROVE  AloneInv'
  OBVIOUS
<1>1. TypeInv' /\ Moves /\ CascadeForest
  BY NextTypeInv, EveryStepMoves DEF Claims
<1>2. /\ ReadsHold /\ ChildrenTyped /\ ProtocolsHeld /\ EventsTold
      /\ LaterOnly /\ ParentAtHand /\ SpawnersCascade
  BY DEF AloneInv
<1>3. ReadsHold' /\ ChildrenTyped' /\ ProtocolsHeld' /\ EventsTold'
  BY <1>1, <1>2, NextReadsHold, NextChildrenTyped, NextProtocolsHeld, NextEventsTold
<1>4. LaterOnly' /\ ParentAtHand' /\ SpawnersCascade'
  BY <1>1, <1>2, NextLaterOnly, NextParentAtHand, NextSpawnersCascade
<1> QED BY <1>3, <1>4 DEF AloneInv

LEMMA AloneAlways ==
  ASSUME Rest = {}, MaxFaults = 0
  PROVE  Spec => [](TypeInv /\ Claims /\ AloneInv)
<1>1. Init => TypeInv /\ Claims /\ AloneInv
  BY InitTypeInv, InitClaims, InitAlone
<1>2. TypeInv /\ Claims /\ AloneInv /\ [Next]_vars => TypeInv' /\ Claims' /\ AloneInv'
  BY NextTypeInv, NextClaims, NextAlone
<1> QED BY <1>1, <1>2, PTL DEF Spec

(* Whenever no handler runs, ProtocolManager holds the protocols of exactly *)
(* the unresolved incidents: the one deactivation of resolve_incident is    *)
(* enough although it resolves the whole subtree, as only roots have one.   *)
THEOREM ProtocolsMatchAlone ==
  ASSUME Rest = {}, MaxFaults = 0
  PROVE  Spec => []ProtocolsMatchIncidents
<1>1. TypeInv /\ AloneInv => ProtocolsMatchIncidents
  BY HeldMatches DEF AloneInv
<1> QED BY <1>1, AloneAlways, PTL

(* Whenever no handler runs, the events about each incident tell its life   *)
(* to its present status, in order and each once: also of the children that *)
(* the resolution of an ancestor resolved.                                  *)
THEOREM EventsMatchAlone ==
  ASSUME Rest = {}, MaxFaults = 0
  PROVE  Spec => []EventsMatchStatus
<1>1. TypeInv /\ AloneInv => EventsMatchStatus
  BY ToldMatches DEF AloneInv
<1> QED BY <1>1, AloneAlways, PTL

(* Only a delayed cascade leaves an unresolved child of a resolved parent,  *)
(* as long as the query's five levels are as many as cascades may have.     *)
THEOREM OrphansDelayedAlone ==
  ASSUME Rest = {}, MaxFaults = 0, CASCADE_MAX_DEPTH <= 5
  PROVE  Spec => []OrphansAreDelayed
<1>1. Init => OrphansInHand
  BY InitAlone
<1>2. TypeInv /\ Claims /\ AloneInv /\ OrphansInHand /\ [Next]_vars => OrphansInHand'
  BY EveryStepMoves, NextOrphansInHand DEF AloneInv, Claims
<1>3. AloneInv /\ OrphansInHand => OrphansAreDelayed
  BY OrphansLater DEF AloneInv
<1> QED BY <1>1, <1>2, <1>3, AloneAlways, PTL DEF Spec
-----------------------------------------------------------------------------
(***************************************************************************)
(* With any requests at work.  Several tasks may resolve an incident at    *)
(* once, and one may contain it again after; but who resolved it owes its  *)
(* announcement until it has made it.                                      *)
(***************************************************************************)
Owed(t, i) == \/ task[t].pc \in EndingPc /\ i = task[t].inc
              \/ task[t].pc = "notify" /\ i \in task[t].kids

Said(i) == \E n \in DOMAIN emitted[i] : emitted[i][n] = "resolved"

Owing ==
  faults = 0 => \A i \in Made : status[i] = "resolved" =>
                   Said(i) \/ \E t \in Task : Owed(t, i)

OthersStay(t) == \A u \in Task : u # t => task'[u] = task[u]

LEMMA Replaced ==
  ASSUME TypeInv, NEW t \in Task, NEW tk, task' = [task EXCEPT ![t] = tk]
  PROVE  OthersStay(t) /\ task'[t] = tk
  BY DEF TypeInv, TasksOK, OthersStay

LEMMA StepOthersStay ==
  ASSUME TypeInv, NEW t \in Task, Step(t)
  PROVE  OthersStay(t)
<1> SUFFICES \E tk : task' = [task EXCEPT ![t] = tk]
  BY Replaced
<1>0. task \in [Task -> TaskState]
  BY DEF TypeInv, TasksOK
<1>1. ASSUME NEW l, Goto(t, l)
      PROVE  \E tk : task' = [task EXCEPT ![t] = tk]
  BY <1>1 DEF Goto
<1>2. CASE Return(t)
  BY <1>2 DEF Return
<1>3. CASE \/ Activate(t) \/ Link(t) \/ Announce(t) \/ ContainRead(t) \/ ContainWrite(t)
           \/ ContainNotify(t) \/ ResolveRead(t) \/ ResolveWrite(t) \/ Deactivate(t)
  <2>1. Return(t) \/ \E l : Goto(t, l)
    BY <1>3, Zenon DEF Activate, Link, Announce, ContainRead, ContainWrite,
       ContainNotify, ResolveRead, ResolveWrite, Deactivate
  <2> QED BY <1>1, <1>2, <2>1
<1>4. CASE CreateNode(t)
  <2>1. task' = [task EXCEPT ![t].inc = made + 1, ![t].pc = "activate"]
    BY <1>4, Zenon DEF CreateNode
  <2> QED BY <2>1
<1>5. CASE Cascade(t)
  <2>1. Return(t) \/ \E k, p : task' = [task EXCEPT ![t] = Creating(@, k, p)]
    BY <1>5, Zenon DEF Cascade
  <2> QED BY <1>2, <2>1
<1>6. CASE ResolveChildren(t)
  <2>1. \E kids : task' = [task EXCEPT ![t].kids = kids, ![t].pc = "notify"]
    BY <1>6, Zenon DEF ResolveChildren
  <2> QED BY <2>1
<1>7. CASE Notify(t)
  <2>1. Return(t) \/ \E c : task' = [task EXCEPT ![t].kids = @ \ {c}]
    BY <1>7, Zenon DEF Notify
  <2> QED BY <1>2, <2>1
<1>8. CASE Find(t)
  <2>1. Return(t) \/ \E k : task' = [task EXCEPT ![t] = Creating(@, k, None)]
    BY <1>8, Zenon DEF Find
  <2> QED BY <1>2, <2>1
<1>9. CASE FindWeather(t)
  <2>1. Return(t) \/ \E i : task' = [task EXCEPT ![t].pc = "resolveRead", ![t].inc = i]
    BY <1>9, Zenon DEF FindWeather
  <2> QED BY <1>2, <2>1
<1>10. CASE NextCountdown(t)
  <2>1. \E e : task' = [task EXCEPT ![t] = Counted(@, e)]
    BY <1>10, Zenon DEF NextCountdown
  <2> QED BY <2>1
<1>11. CASE EndReduce(t)
  BY <1>11 DEF EndReduce
<1>12. CASE TakeDue(t)
  <2>1. \E due : task' = [task EXCEPT ![t].stage = "fire", ![t].due = due]
    BY <1>12, Zenon DEF TakeDue
  <2> QED BY <2>1
<1>13. CASE FireDue(t)
  <2>1. \E p : task' = [task EXCEPT ![t] = Fired(@, p)]
    BY <1>13, Zenon DEF FireDue
  <2> QED BY <2>1
<1>14. CASE Draw(t)
  <2>1. \E K : task' = [task EXCEPT ![t].stage = "draw", ![t].draws = K]
    BY <1>14, Zenon DEF Draw
  <2> QED BY <2>1
<1>15. CASE NextDraw(t)
  <2>1. \/ task' = [task EXCEPT ![t] = Idle]
        \/ \E k : task' = [task EXCEPT ![t].draws = @ \ {k}, ![t].kind = k, ![t].pc = "find"]
    BY <1>15, Zenon DEF NextDraw
  <2>2. ASSUME NEW k,
               task' = [task EXCEPT ![t].draws = @ \ {k}, ![t].kind = k, ![t].pc = "find"]
        PROVE  \E tk : task' = [task EXCEPT ![t] = tk]
    <3> DEFINE tk == [task[t] EXCEPT !.draws = @ \ {k}, !.kind = k, !.pc = "find"]
    <3>1. task' = [task EXCEPT ![t] = tk]
      BY <1>0, <2>2
    <3> QED BY <3>1, Zenon
  <2> QED BY <2>1, <2>2, Zenon
<1> QED
  BY <1>3, <1>4, <1>5, <1>6, <1>7, <1>8, <1>9, <1>10, <1>11, <1>12, <1>13, <1>14, <1>15 DEF Step

(* What a step says is said for good; what the others owe they still owe.  *)
LEMMA SaidStays ==
  ASSUME TypeInv,
         \/ emitted' = emitted
         \/ \E c \in Incident, e \in Event : Emit(c, e),
         NEW i \in Incident, Said(i)
  PROVE  Said(i)'
<1>1. emitted \in [Incident -> Seq(Event)]
  BY DEF TypeInv, CountsTyped
<1>2. ASSUME NEW c \in Incident, NEW e \in Event, Emit(c, e)
      PROVE  Said(i)'
  <2>1. PICK n \in DOMAIN emitted[i] : emitted[i][n] = "resolved"
    BY DEF Said
  <2> DEFINE s == emitted[i]
  <2>2. s \in Seq(Event) /\ n \in 1..Len(s) /\ s[n] = "resolved"
    BY <1>1, <2>1
  <2>3. emitted'[i] = IF i = c THEN Append(s, e) ELSE s
    BY <1>1, <1>2 DEF Emit
  <2> HIDE DEF s
  <2>4. /\ Append(s, e) \in Seq(Event) /\ Len(Append(s, e)) = Len(s) + 1
        /\ \A m \in 1..Len(s) : Append(s, e)[m] = s[m]
    BY <2>2, AppendProperties
  <2>5. n \in DOMAIN Append(s, e) /\ Append(s, e)[n] = "resolved"
    BY <2>2, <2>4
  <2>6. n \in DOMAIN emitted'[i] /\ emitted'[i][n] = "resolved"
    BY <2>2, <2>3, <2>5
  <2> QED BY <2>6, Zenon DEF Said
<1> QED BY <1>2 DEF Said

LEMMA SaidNow ==
  ASSUME TypeInv, NEW c \in Incident, Emit(c, "resolved")
  PROVE  Said(c)'
<1> DEFINE s == emitted[c]
<1>1. s \in Seq(Event) /\ "resolved" \in Event
  BY DEF TypeInv, CountsTyped, Event
<1>2. emitted'[c] = Append(s, "resolved")
  BY DEF Emit, TypeInv, CountsTyped
<1> HIDE DEF s
<1>3. /\ Append(s, "resolved") \in Seq(Event) /\ Len(Append(s, "resolved")) = Len(s) + 1
      /\ Append(s, "resolved")[Len(s) + 1] = "resolved"
  BY <1>1, AppendProperties
<1>4. Len(s) + 1 \in DOMAIN Append(s, "resolved")
  BY <1>1, <1>3
<1> QED BY <1>2, <1>3, <1>4, Zenon DEF Said

LEMMA OthersOwe ==
  ASSUME NEW t \in Task, OthersStay(t), NEW u \in Task, u # t, NEW i, Owed(u, i)
  PROVE  Owed(u, i)'
  BY DEF OthersStay, Owed

(* A step of a task that owes nothing, and resolves nothing. *)
LEMMA OwesNothing ==
  ASSUME TypeInv, Owing, NEW t \in Task, task[t].pc \notin EndingPc, OthersStay(t),
         faults' = faults,
         \/ emitted' = emitted
         \/ \E c \in Incident, e \in Event : Emit(c, e),
         \A i \in Made' : status'[i] = "resolved" => i \in Made /\ status[i] = "resolved"
  PROVE  Owing'
<1>1. \A i : ~Owed(t, i)
  BY DEF Owed, EndingPc
<1> SUFFICES ASSUME faults = 0, NEW i \in Made', status'[i] = "resolved"
             PROVE  Said(i)' \/ \E u \in Task : Owed(u, i)'
  BY DEF Owing
<1>2. i \in Made /\ i \in Incident /\ status[i] = "resolved"
  BY MadeInIncident DEF TypeInv
<1>3. CASE Said(i)
  BY <1>2, <1>3, SaidStays
<1>4. ASSUME NEW u \in Task, Owed(u, i)
      PROVE  Owed(u, i)'
  BY <1>1, <1>4, OthersOwe
<1> QED BY <1>2, <1>3, <1>4, Zenon DEF Owing

LEMMA FreeStepOwing ==
  ASSUME TypeInv, Owing, NEW t \in Task,
         \/ CreateNode(t) \/ Activate(t) \/ Link(t) \/ Announce(t) \/ Cascade(t)
         \/ ContainRead(t) \/ ContainWrite(t) \/ ContainNotify(t) \/ ResolveRead(t)
         \/ Find(t) \/ FindWeather(t) \/ NextCountdown(t) \/ EndReduce(t)
         \/ TakeDue(t) \/ FireDue(t) \/ Draw(t) \/ NextDraw(t)
  PROVE  Owing'
<1>1. OthersStay(t)
  BY StepOthersStay DEF Step
<1>2. status \in [Incident -> Status \cup {"none"}] /\ made \in Nat /\ Made \subseteq Incident
      /\ (task[t].pc \in Working => task[t].inc \in Incident)
  BY MadeInIncident, WorksOnMade DEF TypeInv, NodesTyped
<1> USE DEF At, EndingPc
<1>3. ASSUME task[t].pc \notin EndingPc, faults' = faults, UNCHANGED <<made, status>>,
             \/ emitted' = emitted
             \/ \E c \in Incident, e \in Event : Emit(c, e)
      PROVE  Owing'
  <2>1. \A i \in Made' : status'[i] = "resolved" => i \in Made /\ status[i] = "resolved"
    BY <1>3 DEF Made
  <2> HIDE DEF EndingPc
  <2> QED BY <1>1, <1>3, <2>1, OwesNothing
<1>4. CASE CreateNode(t)
  <2>1. /\ task[t].pc = "create" /\ made' = made + 1 /\ emitted' = emitted /\ faults' = faults
        /\ status' = [status EXCEPT ![made + 1] = "active"] /\ made < MaxIncidents
    BY <1>4, Zenon DEF CreateNode, bounds
  <2>2. \A i \in Made' : status'[i] = "resolved" => i \in Made /\ status[i] = "resolved"
    BY <1>2, <2>1, BoundsAssumption DEF Made, Incident
  <2> QED BY <1>1, <2>1, <2>2, OwesNothing
<1>5. CASE ContainWrite(t)
  <2>1. /\ task[t].pc = "containWrite" /\ status' = [status EXCEPT ![task[t].inc] = "contained"]
        /\ UNCHANGED <<made, emitted, bounds>>
    BY <1>5, Zenon DEF ContainWrite
  <2>2. \A i \in Made' : status'[i] = "resolved" => i \in Made /\ status[i] = "resolved"
    BY <1>2, <2>1 DEF Made, Working
  <2> QED BY <1>1, <2>1, <2>2, OwesNothing DEF bounds
<1>6. CASE Announce(t) \/ ContainNotify(t)
  <2>1. /\ task[t].pc \in {"announce", "containNotify"} /\ UNCHANGED <<db, bounds>>
        /\ Emit(task[t].inc, "created") \/ Emit(task[t].inc, "contained")
    BY <1>6 DEF Announce, ContainNotify
  <2> QED BY <1>2, <1>3, <2>1 DEF db, bounds, Working, Event
<1>7. CASE \/ Activate(t) \/ Cascade(t) \/ ContainRead(t) \/ ResolveRead(t)
           \/ Find(t) \/ FindWeather(t) \/ EndReduce(t)
           \/ TakeDue(t) \/ FireDue(t) \/ NextDraw(t)
  <2>1. /\ task[t].pc \in {"activate", "cascade", "containRead", "resolveRead",
                           "find", "findWeather", "next"}
        /\ UNCHANGED <<db, emitted, bounds>>
    <3>1. UNCHANGED <<db, emitted, bounds>>
      BY <1>7, Zenon DEF Activate, Cascade, ContainRead, ResolveRead, Find, FindWeather,
         EndReduce, TakeDue, FireDue, NextDraw
    <3>2. \/ task[t].pc = "activate" \/ task[t].pc = "cascade" \/ task[t].pc = "containRead"
          \/ task[t].pc = "resolveRead" \/ task[t].pc = "find" \/ task[t].pc = "findWeather"
          \/ task[t].pc = "next"
      BY <1>7, Zenon DEF Activate, Cascade, ContainRead, ResolveRead, Find, FindWeather,
         EndReduce, TakeDue, FireDue, NextDraw
    <3> QED BY <3>1, <3>2
  <2> QED BY <1>3, <2>1 DEF db, bounds
<1>8. CASE Link(t) \/ NextCountdown(t)
  <2>1. UNCHANGED <<made, status, emitted, bounds>>
    BY <1>8, Zenon DEF Link, NextCountdown
  <2>2. task[t].pc = "link" \/ task[t].pc = "next"
    BY <1>8, Zenon DEF Link, NextCountdown
  <2> QED BY <1>3, <2>1, <2>2 DEF bounds
<1>9. CASE Draw(t)
  <2>1. task[t].pc = "next" /\ UNCHANGED <<db, emitted, faults>>
    BY <1>9, Zenon DEF Draw
  <2> QED BY <1>3, <2>1 DEF db
<1> QED BY <1>4, <1>5, <1>6, <1>7, <1>8, <1>9

LEMMA ResolutionOwing ==
  ASSUME TypeInv, Owing, NEW t \in Task,
         ResolveWrite(t) \/ Deactivate(t) \/ ResolveChildren(t) \/ Notify(t)
  PROVE  Owing'
<1>1. OthersStay(t)
  BY StepOthersStay DEF Step
<1>2. /\ status \in [Incident -> Status \cup {"none"}] /\ Made \subseteq Incident
      /\ task \in [Task -> TaskState] /\ task[t] \in TaskState
      /\ (task[t].pc \in Working => task[t].inc \in Incident)
  BY MadeInIncident, WorksOnMade DEF TypeInv, NodesTyped, TasksOK
<1>3. Made' = Made /\ faults' = faults
  BY DEF ResolveWrite, Deactivate, ResolveChildren, Notify, db, bounds, Made
<1> SUFFICES ASSUME faults = 0, NEW i \in Made, status'[i] = "resolved"
             PROVE  Said(i)' \/ \E u \in Task : Owed(u, i)'
  BY <1>3 DEF Owing
<1>4. status[i] = "resolved" => Said(i) \/ \E u \in Task : Owed(u, i)
  BY Zenon DEF Owing
<1>5. ASSUME status[i] = "resolved", Owed(t, i) => Owed(t, i)' \/ Said(i)',
             Said(i) => Said(i)'
      PROVE  Said(i)' \/ \E u \in Task : Owed(u, i)'
  <2>1. CASE Said(i) \/ Owed(t, i)
    BY <1>5, <2>1, Zenon
  <2>2. ASSUME NEW u \in Task, u # t, Owed(u, i)
        PROVE  Owed(u, i)'
    BY <1>1, <2>2, OthersOwe
  <2> QED BY <1>4, <1>5, <2>1, <2>2, Zenon
<1> USE DEF At, EndingPc, Working
<1>6. CASE ResolveWrite(t)
  <2>1. /\ task[t].pc = "resolveWrite" /\ emitted' = emitted
        /\ status' = [status EXCEPT ![task[t].inc] = "resolved"]
        /\ Goto(t, "deactivate")
    BY <1>6 DEF ResolveWrite
  <2>2. task'[t].pc = "deactivate" /\ task'[t].inc = task[t].inc
    BY <1>2, <2>1 DEF Goto, TaskState
  <2>3. CASE i = task[t].inc
    BY <2>2, <2>3 DEF Owed
  <2>4. CASE i # task[t].inc
    <3>1. status[i] = "resolved" /\ ~Owed(t, i)
      BY <1>2, <2>1, <2>4 DEF Owed
    <3>2. Said(i) => Said(i)'
      BY <2>1 DEF Said
    <3> QED BY <1>5, <3>1, <3>2
  <2> QED BY <2>3, <2>4
<1>7. CASE Deactivate(t)
  <2>1. /\ task[t].pc = "deactivate" /\ emitted' = emitted /\ status' = status
        /\ Goto(t, "children")
    BY <1>7 DEF Deactivate, db
  <2>2. task'[t].pc = "children" /\ task'[t].inc = task[t].inc
    BY <1>2, <2>1 DEF Goto, TaskState
  <2>3. Owed(t, i) => Owed(t, i)'
    BY <2>1, <2>2 DEF Owed
  <2>4. Said(i) => Said(i)'
    BY <2>1 DEF Said
  <2> QED BY <1>5, <2>1, <2>3, <2>4
<1>8. CASE ResolveChildren(t)
  <2>1. PICK kids :
          /\ status' = [j \in Incident |-> IF j \in kids THEN "resolved" ELSE status[j]]
          /\ task' = [task EXCEPT ![t].kids = kids, ![t].pc = "notify"]
    BY <1>8, Zenon DEF ResolveChildren
  <2>2. task[t].pc = "children" /\ emitted' = emitted
    BY <1>8 DEF ResolveChildren
  <2>3. task'[t].pc = "notify" /\ task'[t].inc = task[t].inc /\ task'[t].kids = kids
    BY <1>2, <2>1 DEF TaskState
  <2>4. CASE i \in kids
    BY <2>3, <2>4 DEF Owed
  <2>5. CASE i \notin kids
    <3>1. status[i] = "resolved"
      BY <1>2, <2>1, <2>5
    <3>2. Owed(t, i) => Owed(t, i)'
      BY <2>2, <2>3 DEF Owed
    <3>3. Said(i) => Said(i)'
      BY <2>2 DEF Said
    <3> QED BY <1>5, <3>1, <3>2, <3>3
  <2> QED BY <2>4, <2>5
<1>9. CASE Notify(t)
  <2>1. task[t].pc = "notify" /\ status' = status
    BY <1>9 DEF Notify, db
  <2>2. \/ \E c \in task[t].kids : /\ Emit(c, "resolved")
                                   /\ task' = [task EXCEPT ![t].kids = @ \ {c}]
        \/ task[t].kids = {} /\ Emit(task[t].inc, "resolved")
    BY <1>9, Zenon DEF Notify
  <2>3. task[t].kids \subseteq Incident /\ task[t].inc \in Incident /\ "resolved" \in Event
    BY <1>2, <2>1 DEF TaskState, Event
  <2>4. Said(i) => Said(i)'
    BY <1>2, <2>2, <2>3, SaidStays
  <2>5. Owed(t, i) => Owed(t, i)' \/ Said(i)'
    <3>1. ASSUME NEW c \in task[t].kids, Emit(c, "resolved"),
                 task' = [task EXCEPT ![t].kids = @ \ {c}], Owed(t, i)
          PROVE  Owed(t, i)' \/ Said(i)'
      <4>1. CASE i = c
        BY <1>2, <3>1, <4>1, SaidNow
      <4>2. CASE i # c
        <5>1. /\ task'[t].pc = "notify" /\ task'[t].inc = task[t].inc
              /\ task'[t].kids = task[t].kids \ {c}
          BY <1>2, <2>1, <3>1 DEF TaskState
        <5> QED BY <2>1, <3>1, <4>2, <5>1 DEF Owed
      <4> QED BY <4>1, <4>2
    <3>2. ASSUME task[t].kids = {}, Emit(task[t].inc, "resolved"), Owed(t, i)
          PROVE  Said(i)'
      <4>1. i = task[t].inc
        BY <3>2 DEF Owed
      <4>2. Emit(i, "resolved")
        BY <3>2, <4>1
      <4> QED BY <1>2, <4>2, SaidNow
    <3> QED BY <2>2, <3>1, <3>2
  <2> QED BY <1>5, <2>1, <2>4, <2>5
<1> QED BY <1>6, <1>7, <1>8, <1>9

(* An idle task owes nothing. *)
LEMMA OthersOwing ==
  ASSUME TypeInv, Owing, (\E t \in Rest : Request(t)) \/ Message
  PROVE  Owing'
<1>0. Consumer \in Task /\ task \in [Task -> TaskState] /\ Rest \subseteq Task
  BY DEF Task, TypeInv, TasksOK
<1>1. ASSUME NEW t \in Task, task[t].pc = "idle", \E tk : task' = [task EXCEPT ![t] = tk],
             UNCHANGED <<db, emitted, faults>>
      PROVE  Owing'
  <2>1. OthersStay(t) /\ task[t].pc \notin EndingPc
    BY <1>1, Replaced DEF EndingPc
  <2>2. \A i \in Made' : status'[i] = "resolved" => i \in Made /\ status[i] = "resolved"
    BY <1>1 DEF db, Made
  <2> QED BY <1>1, <2>1, <2>2, OwesNothing
<1>2. ASSUME NEW t \in Rest, Request(t)
      PROVE  Owing'
  <2>1. UNCHANGED <<db, emitted, faults>>
    BY <1>2 DEF Request, RestInject, RestOperate, bounds
  <2>2. task[t].pc = "idle"
    BY <1>2 DEF Request, RestInject, RestOperate, At
  <2>3. \/ \E k : task' = [task EXCEPT ![t] = Creating(@, k, None)]
        \/ \E l, i : task' = [task EXCEPT ![t].pc = l, ![t].inc = i]
    BY <1>2, Zenon DEF Request, RestInject, RestOperate
  <2>4. \E tk : task' = [task EXCEPT ![t] = tk]
    BY <2>3
  <2> QED BY <1>0, <1>1, <2>1, <2>2, <2>4
<1>3. CASE OnTick
  <2>1. /\ task[Consumer].pc = "idle" /\ UNCHANGED <<db, emitted, bounds>>
        /\ \E d, c : task' = [t \in Task |-> IF t = Consumer THEN c ELSE Older(task[t], d)]
    BY <1>3, Zenon DEF OnTick, Ready, At
  <2>2. ASSUME NEW u \in Task, NEW i, Owed(u, i)
        PROVE  Owed(u, i)'
    <3>1. u # Consumer /\ task[u] \in TaskState
      BY <1>0, <2>1, <2>2 DEF Owed, EndingPc
    <3>2. PICK d : task'[u] = Older(task[u], d)
      BY <2>1, <3>1
    <3>3. /\ task'[u].pc = task[u].pc /\ task'[u].inc = task[u].inc
          /\ task'[u].kids = task[u].kids
      BY <3>1, <3>2 DEF Older, TaskState
    <3> QED BY <2>2, <3>3 DEF Owed
  <2>3. UNCHANGED <<made, status, emitted, faults>>
    BY <2>1 DEF db, bounds
  <2>4. \A i : Said(i) => Said(i)'
    BY <2>3 DEF Said
  <2> QED BY <2>2, <2>3, <2>4 DEF Owing, Made
<1>4. CASE OnCommand \/ OnInject \/ OnDetection \/ OnWeatherChanged \/ OnRecommendationApplied
  <2>1. UNCHANGED <<db, emitted, faults>>
    <3>1. UNCHANGED <<db, emitted>> /\ (UNCHANGED bounds \/ UNCHANGED faults)
      BY <1>4, Zenon DEF OnCommand, OnInject, OnDetection, OnWeatherChanged,
         OnRecommendationApplied
    <3> QED BY <3>1 DEF bounds
  <2>2. task[Consumer].pc = "idle"
    BY <1>4, Zenon DEF OnCommand, OnInject, OnDetection, OnWeatherChanged,
       OnRecommendationApplied, Ready, At
  <2>4. \E tk : task' = [task EXCEPT ![Consumer] = tk]
    <3>1. CASE OnCommand
      <4>1. \E l, i : task' = [task EXCEPT ![Consumer].pc = l, ![Consumer].inc = i]
        BY <3>1, Zenon DEF OnCommand
      <4> QED BY <4>1
    <3>2. CASE OnInject
      <4>1. \E k : task' = [task EXCEPT ![Consumer] = Creating(@, k, None)]
        BY <3>2, Zenon DEF OnInject
      <4> QED BY <4>1
    <3>3. ASSUME NEW k, task' = [task EXCEPT ![Consumer].pc = "find", ![Consumer].kind = k]
          PROVE  \E tk : task' = [task EXCEPT ![Consumer] = tk]
      BY <3>3
    <3>4. CASE OnDetection
      BY <3>3, <3>4, Zenon DEF OnDetection
    <3>5. CASE OnWeatherChanged
      <4>1. \/ \E k : task' = [task EXCEPT ![Consumer].pc = "find", ![Consumer].kind = k]
            \/ task' = [task EXCEPT ![Consumer].pc = "findWeather"]
            \/ task' = task
        BY <3>5 DEF OnWeatherChanged
      <4>2. CASE task' = task
        <5>1. task' = [task EXCEPT ![Consumer] = task[Consumer]]
          BY <1>0, <4>2
        <5> QED BY <5>1
      <4>3. CASE task' = [task EXCEPT ![Consumer].pc = "findWeather"]
        BY <4>3
      <4> QED BY <3>3, <4>1, <4>2, <4>3
    <3>6. CASE OnRecommendationApplied
      <4>1. \E todo : task' = [task EXCEPT ![Consumer].pc = "next", ![Consumer].stage = "reduce",
                                           ![Consumer].todo = todo]
        BY <3>6, Zenon DEF OnRecommendationApplied
      <4> QED BY <4>1
    <3> QED BY <1>4, <3>1, <3>2, <3>4, <3>5, <3>6
  <2> QED BY <1>0, <1>1, <2>1, <2>2, <2>4
<1> QED BY <1>2, <1>3, <1>4 DEF Message

LEMMA NextOwing == TypeInv /\ Owing /\ [Next]_vars => Owing'
<1> SUFFICES ASSUME TypeInv, Owing, [Next]_vars PROVE Owing'
  OBVIOUS
<1>1. CASE UNCHANGED vars
  BY <1>1 DEF vars, db, bounds, Owing, Said, Owed, Made
<1>2. ASSUME NEW t \in Task, Step(t)
      PROVE  Owing'
  BY <1>2, FreeStepOwing, ResolutionOwing DEF Step
<1>3. CASE (\E t \in Task : Fail(t)) \/ Restart
  <2>1. faults' = faults + 1 /\ faults \in Nat
    BY <1>3 DEF Fail, Restart, TypeInv, CountsTyped
  <2> QED BY <2>1 DEF Owing
<1> QED BY <1>1, <1>2, <1>3, OthersOwing DEF Next

(* However many requests and messages resolve, and contain, the same        *)
(* incidents at once: what is resolved when they are served was announced.  *)
THEOREM ResolutionsAlwaysAnnounced == Spec => []ResolutionsAnnounced
<1>1. Init => TypeInv /\ Owing
  <2>1. Init => Owing
    BY DEF Init, Owing, Made
  <2> QED BY <2>1, InitTypeInv
<1>2. TypeInv /\ Owing /\ [Next]_vars => TypeInv' /\ Owing'
  BY NextTypeInv, NextOwing
<1>3. Owing => ResolutionsAnnounced
  <2> SUFFICES ASSUME Owing, Quiet, faults = 0, NEW i \in Made, status[i] = "resolved"
               PROVE  \E n \in DOMAIN emitted[i] : emitted[i][n] = "resolved"
    BY Zenon DEF ResolutionsAnnounced
  <2>1. \A t \in Task : ~Owed(t, i)
    BY DEF Quiet, At, Owed, EndingPc
  <2> QED BY <2>1, Zenon DEF Owing, Said
<1> QED BY <1>1, <1>2, <1>3, PTL DEF Spec
-----------------------------------------------------------------------------
(***************************************************************************)
(* Where incidents are only looked for: the consumer alone, no fault, none *)
(* injected and none resolved by hand, and no child of a cascade of a type *)
(* that detections, draws or the weather create.                           *)
(***************************************************************************)
OnlyLooked ==
  /\ Injected = {} /\ "resolve" \notin CommandOps
  /\ \A k \in Detected \cup Drawn : k.type \notin ChildType \cup {"severe_weather"}

OneEach ==
  \A i, j \in Made :
    /\ info[i].kind.type = info[j].kind.type
    /\ info[i].kind.location = info[j].kind.location
    /\ ~ChildNode(i) /\ status[i] # "resolved" /\ status[j] # "resolved"
    => i = j

LookedFirst ==
  Now.pc = "create" /\ Now.parent = None
    => Unresolved(Now.kind.type, Now.kind.location) = {}

LEMMA OpenIsUnresolved ==
  ASSUME TypeInv, NEW type, NEW loc
  PROVE  Open(type, loc) = Unresolved(type, loc)
<1>1. \A i \in Made : status[i] \in {"active", "contained"} <=> status[i] # "resolved"
  BY AloneTyped DEF Status
<1> QED BY <1>1, Zenon DEF Open, Unresolved

LEMMA UnresolvedShrink ==
  ASSUME TypeInv, ReadsHold, Moves, ~Creates
  PROVE  /\ \A i \in Made : status'[i] # "resolved" => status[i] # "resolved"
         /\ \A type, loc : Unresolved(type, loc)' \subseteq Unresolved(type, loc)
<1>1. /\ made' = made /\ info' = info
  BY MovesKeepNodes
<1>2. /\ status \in [Incident -> Status \cup {"none"}] /\ Made \subseteq Incident
      /\ Now.pc \in Working => Now.inc \in Made
  BY AloneTyped
<1>3. \A i \in Made : status'[i] # "resolved" => status[i] # "resolved"
  <2>1. CASE Contains
    BY <1>2, <2>1 DEF Contains, On, ReadsHold
  <2>2. CASE Resolves
    BY <1>2, <2>2 DEF Resolves
  <2>3. CASE ResolvesChildren
    BY <1>2, <2>3 DEF ResolvesChildren
  <2>4. CASE UNCHANGED status
    BY <2>4
  <2> QED BY <2>1, <2>2, <2>3, <2>4 DEF Moves, Calmly, Activates, Links, Announces,
     Cascades, BeginsContainment, TellsContained, BeginsResolution, Deactivates,
     TellsOfChild, TellsResolved, Stays
<1> QED BY <1>1, <1>3 DEF Unresolved, Made

LEMMA NextOneEach ==
  ASSUME Injected = {}, TypeInv, ReadsHold, ChildrenTyped, OneEach, LookedFirst, Moves
  PROVE  OneEach' /\ LookedFirst'
<1>0. made \in Nat /\ None \notin Made
  BY AloneTyped DEF None, Made
<1>1. CASE ~Creates
  <2>1. made' = made /\ info' = info
    BY <1>1, MovesKeepNodes
  <2>2. /\ \A i \in Made : status'[i] # "resolved" => status[i] # "resolved"
        /\ \A type, loc : Unresolved(type, loc)' \subseteq Unresolved(type, loc)
    BY <1>1, UnresolvedShrink
  <2>3. OneEach'
    BY <2>1, <2>2 DEF OneEach, ChildNode, Made
  <2>4. ASSUME Now'.pc = "create", Now'.parent = None
        PROVE  Unresolved(Now.kind.type, Now.kind.location)' = {}
    <3> PICK type, loc : type = Now'.kind.type /\ loc = Now'.kind.location
      OBVIOUS
    <3>1. Unresolved(type, loc) = {}
      <4>1. CASE Calmly
        <5>1. Open(type, loc) = {}
          BY <1>0, <2>4, <4>1, AloneTyped DEF Calmly, Calm
        <5> QED BY <5>1, OpenIsUnresolved
      <4>2. CASE Cascades
        BY <1>0, <2>4, <4>2, AloneTyped DEF Cascades, Calm, Working
      <4>3. CASE Stays
        BY <2>4, <4>3 DEF Stays, LookedFirst
      <4> QED BY <1>1, <2>4, <4>1, <4>2, <4>3 DEF Moves, Activates, Links, Announces,
           BeginsContainment, Contains, TellsContained, BeginsResolution, Resolves,
           Deactivates, ResolvesChildren, TellsOfChild, TellsResolved, On, Calm
    <3>2. Unresolved(type, loc)' = {}
      BY <2>2, <3>1
    <3> QED BY <3>2
  <2> QED BY <2>3, <2>4 DEF LookedFirst
<1>2. CASE Creates
  <2> PICK n : n = made + 1
    OBVIOUS
  <2>1. /\ Now.pc = "create" /\ Now'.pc = "activate" /\ made' = n /\ n \in Incident
        /\ status' = [status EXCEPT ![n] = "active"]
    BY <1>2 DEF Creates
  <2>2. PICK d : info' = [info EXCEPT ![n] = [kind |-> Now.kind, depth |-> d]]
    BY <1>2 DEF Creates
  <2>3. /\ n \notin Made /\ \A i \in Made' : i \in Made \/ i = n
        /\ \A i \in Made : info'[i] = info[i] /\ status'[i] = status[i]
    BY <1>0, <2>1, <2>2 DEF Made
  <2>4. info'[n].kind = Now.kind
    BY <2>1, <2>2 DEF TypeInv, NodesTyped
  <2>5. ASSUME NEW i \in Made, info[i].kind.type = Now.kind.type,
               info[i].kind.location = Now.kind.location, status[i] # "resolved",
               Now.kind.type \notin ChildType
        PROVE  FALSE
    <3>1. Now.parent = None
      BY <2>1, <2>5 DEF ChildrenTyped
    <3>2. i \in Unresolved(Now.kind.type, Now.kind.location)
      BY <2>5 DEF Unresolved
    <3> QED BY <2>1, <3>1, <3>2 DEF LookedFirst
  <2>6. OneEach'
    <3> SUFFICES ASSUME NEW i \in Made', NEW j \in Made',
                        info'[i].kind.type = info'[j].kind.type,
                        info'[i].kind.location = info'[j].kind.location,
                        info'[i].kind.type \notin ChildType,
                        status'[i] # "resolved", status'[j] # "resolved", i # j
                 PROVE  FALSE
      BY Zenon DEF OneEach, ChildNode
    <3>1. CASE i \in Made /\ j \in Made
      BY <2>3, <3>1 DEF OneEach, ChildNode
    <3>2. CASE i = n /\ j \in Made
      BY <2>3, <2>4, <2>5, <3>2
    <3>3. CASE j = n /\ i \in Made
      BY <2>3, <2>4, <2>5, <3>3
    <3> QED BY <2>3, <3>1, <3>2, <3>3
  <2> QED BY <2>1, <2>6 DEF LookedFirst
<1> QED BY <1>1, <1>2

(* What the steps of a task leave alone. *)
LEMMA StepKeeps ==
  ASSUME TypeInv, Step(Consumer)
  PROVE  /\ category' = category /\ Now'.todo \subseteq Now.todo
         /\ ~CreateNode(Consumer) => UNCHANGED <<made, info>>
         /\ ttr' = ttr \/ CreateNode(Consumer) \/ NextCountdown(Consumer)
<1>0. Now \in TaskState /\ Consumer \in Task /\ task \in [Task -> TaskState]
  BY NowTyped
<1>1. category' = category
  <2>1. CASE \/ CreateNode(Consumer) \/ Link(Consumer) \/ Announce(Consumer)
             \/ ContainRead(Consumer) \/ ContainWrite(Consumer) \/ ContainNotify(Consumer)
             \/ ResolveRead(Consumer) \/ ResolveWrite(Consumer)
             \/ ResolveChildren(Consumer) \/ Notify(Consumer)
             \/ Find(Consumer) \/ FindWeather(Consumer) \/ NextCountdown(Consumer)
             \/ EndReduce(Consumer) \/ FireDue(Consumer) \/ Draw(Consumer) \/ NextDraw(Consumer)
    <3>1. UNCHANGED memory
      BY <2>1, Zenon DEF CreateNode, Link, Announce, ContainRead, ContainWrite, ContainNotify,
         ResolveRead, ResolveWrite, ResolveChildren, Notify, Find, FindWeather,
         NextCountdown, EndReduce, FireDue, Draw, NextDraw
    <3> QED BY <3>1 DEF memory
  <2>2. CASE \/ Activate(Consumer) \/ Cascade(Consumer) \/ Deactivate(Consumer)
             \/ TakeDue(Consumer)
    BY <2>2, Zenon DEF Activate, Cascade, Deactivate, TakeDue
  <2> QED BY <2>1, <2>2 DEF Step
<1>2. /\ ~CreateNode(Consumer) => UNCHANGED <<made, info>>
      /\ ttr' = ttr \/ CreateNode(Consumer) \/ NextCountdown(Consumer)
  <2>1. CASE \/ Activate(Consumer) \/ Announce(Consumer) \/ Cascade(Consumer)
             \/ ContainRead(Consumer) \/ ContainNotify(Consumer)
             \/ ResolveRead(Consumer) \/ Deactivate(Consumer) \/ Notify(Consumer)
             \/ Find(Consumer) \/ FindWeather(Consumer) \/ EndReduce(Consumer)
             \/ TakeDue(Consumer) \/ FireDue(Consumer) \/ Draw(Consumer) \/ NextDraw(Consumer)
    <3>1. UNCHANGED db
      BY <2>1, Zenon DEF Activate, Announce, Cascade, ContainRead, ContainNotify,
         ResolveRead, Deactivate, Notify, Find, FindWeather, EndReduce, TakeDue,
         FireDue, Draw, NextDraw
    <3> QED BY <3>1 DEF db
  <2>2. CASE \/ Link(Consumer) \/ ContainWrite(Consumer) \/ ResolveWrite(Consumer)
             \/ ResolveChildren(Consumer)
    BY <2>2, Zenon DEF Link, ContainWrite, ResolveWrite, ResolveChildren
  <2>3. CASE NextCountdown(Consumer)
    BY <2>3, Zenon DEF NextCountdown
  <2> QED BY <2>1, <2>2, <2>3 DEF Step
<1>3. Now'.todo \subseteq Now.todo
  <2>1. ASSUME NEW l, Goto(Consumer, l)
        PROVE  Now'.todo \subseteq Now.todo
    <3>1. Now' = [Now EXCEPT !.pc = l]
      BY <1>0, <2>1 DEF Goto, Now
    <3> QED BY <1>0, <3>1 DEF TaskState
  <2>2. CASE Return(Consumer)
    <3>1. Now' = Returned(Now)
      BY <1>0, <2>2 DEF Return, Now
    <3> QED BY <1>0, <3>1 DEF Returned, Idle, TaskState
  <2>3. ASSUME NEW k, NEW p, task' = [task EXCEPT ![Consumer] = Creating(@, k, p)]
        PROVE  Now'.todo \subseteq Now.todo
    <3>1. Now' = Creating(Now, k, p)
      BY <1>0, <2>3 DEF Now
    <3> QED BY <1>0, <3>1 DEF Creating, TaskState
  <2>4. CASE \/ Activate(Consumer) \/ Link(Consumer) \/ Announce(Consumer)
             \/ ContainRead(Consumer) \/ ContainWrite(Consumer) \/ ContainNotify(Consumer)
             \/ ResolveRead(Consumer) \/ ResolveWrite(Consumer) \/ Deactivate(Consumer)
    <3>1. Return(Consumer) \/ \E l : Goto(Consumer, l)
      BY <2>4, Zenon DEF Activate, Link, Announce, ContainRead, ContainWrite,
         ContainNotify, ResolveRead, ResolveWrite, Deactivate
    <3> QED BY <2>1, <2>2, <3>1
  <2>5. CASE Cascade(Consumer) \/ Find(Consumer)
    <3>1. Return(Consumer) \/ \E k, p : task' = [task EXCEPT ![Consumer] = Creating(@, k, p)]
      BY <2>5, Zenon DEF Cascade, Find
    <3> QED BY <2>2, <2>3, <3>1, Zenon
  <2>6. CASE CreateNode(Consumer)
    <3>1. Now' = [Now EXCEPT !.inc = made + 1, !.pc = "activate"]
      BY <1>0, <2>6 DEF CreateNode, Now
    <3> QED BY <1>0, <3>1 DEF TaskState
  <2>7. CASE ResolveChildren(Consumer)
    <3>1. PICK kids : task' = [task EXCEPT ![Consumer].kids = kids, ![Consumer].pc = "notify"]
      BY <2>7, Zenon DEF ResolveChildren
    <3>2. Now' = [Now EXCEPT !.kids = kids, !.pc = "notify"]
      BY <1>0, <3>1 DEF Now
    <3> QED BY <1>0, <3>2 DEF TaskState
  <2>8. CASE Notify(Consumer)
    <3>1. Return(Consumer) \/ \E c : task' = [task EXCEPT ![Consumer].kids = @ \ {c}]
      BY <2>8, Zenon DEF Notify
    <3>2. ASSUME NEW c, task' = [task EXCEPT ![Consumer].kids = @ \ {c}]
          PROVE  Now'.todo \subseteq Now.todo
      <4>1. Now' = [Now EXCEPT !.kids = @ \ {c}]
        BY <1>0, <3>2 DEF Now
      <4> QED BY <1>0, <4>1 DEF TaskState
    <3> QED BY <2>2, <3>1, <3>2, Zenon
  <2>9. CASE FindWeather(Consumer)
    <3>1. Return(Consumer) \/ \E i : task' = [task EXCEPT ![Consumer].pc = "resolveRead",
                                                            ![Consumer].inc = i]
      BY <2>9, Zenon DEF FindWeather
    <3>2. ASSUME NEW i, task' = [task EXCEPT ![Consumer].pc = "resolveRead", ![Consumer].inc = i]
          PROVE  Now'.todo \subseteq Now.todo
      <4>1. Now' = [Now EXCEPT !.pc = "resolveRead", !.inc = i]
        BY <1>0, <3>2 DEF Now
      <4> QED BY <1>0, <4>1 DEF TaskState
    <3> QED BY <2>2, <3>1, <3>2, Zenon
  <2>10. CASE NextCountdown(Consumer)
    <3>1. PICK e : task' = [task EXCEPT ![Consumer] = Counted(Now, e)]
      BY <2>10, Zenon DEF NextCountdown, Now
    <3>2. Now' = Counted(Now, e)
      BY <3>1, NowIs
    <3> QED BY <1>0, <3>2 DEF Counted, TaskState
  <2>11. CASE TakeDue(Consumer)
    <3>1. PICK due : task' = [task EXCEPT ![Consumer].stage = "fire", ![Consumer].due = due]
      BY <2>11, Zenon DEF TakeDue
    <3>2. Now' = [Now EXCEPT !.stage = "fire", !.due = due]
      BY <1>0, <3>1 DEF Now
    <3> QED BY <1>0, <3>2 DEF TaskState
  <2>12. CASE FireDue(Consumer)
    <3>1. PICK p : task' = [task EXCEPT ![Consumer] = Fired(Now, p)]
      BY <2>12, Zenon DEF FireDue, Now
    <3>2. Now' = Fired(Now, p)
      BY <3>1, NowIs
    <3> QED BY <1>0, <3>2 DEF Fired, Creating, TaskState
  <2>13. CASE Draw(Consumer)
    <3>1. PICK K : task' = [task EXCEPT ![Consumer].stage = "draw", ![Consumer].draws = K]
      BY <2>13, Zenon DEF Draw
    <3>2. Now' = [Now EXCEPT !.stage = "draw", !.draws = K]
      BY <1>0, <3>1 DEF Now
    <3> QED BY <1>0, <3>2 DEF TaskState
  <2>14. CASE EndReduce(Consumer) \/ NextDraw(Consumer)
    <3>1. \/ task' = [task EXCEPT ![Consumer] = Idle]
          \/ \E k : task' = [task EXCEPT ![Consumer].draws = @ \ {k}, ![Consumer].kind = k,
                                         ![Consumer].pc = "find"]
      BY <2>14, Zenon DEF EndReduce, NextDraw
    <3>2. CASE task' = [task EXCEPT ![Consumer] = Idle]
      <4>1. Now' = Idle
        BY <3>2, NowIs
      <4> QED BY <4>1 DEF Idle
    <3>3. ASSUME NEW k, task' = [task EXCEPT ![Consumer].draws = @ \ {k}, ![Consumer].kind = k,
                                             ![Consumer].pc = "find"]
          PROVE  Now'.todo \subseteq Now.todo
      <4>1. Now' = [Now EXCEPT !.draws = @ \ {k}, !.kind = k, !.pc = "find"]
        BY <1>0, <3>3 DEF Now
      <4> QED BY <1>0, <4>1 DEF TaskState
    <3> QED BY <3>1, <3>2, <3>3, Zenon
  <2> QED BY <2>4, <2>5, <2>6, <2>7, <2>8, <2>9, <2>10, <2>11, <2>12, <2>13, <2>14 DEF Step
<1> QED BY <1>1, <1>2, <1>3

(* severe_weather has no countdown, so no tick and no action resolves it.  *)
Severe(i) == info[i].kind.type = "severe_weather"

SevereUncounted ==
  /\ \A i \in Made : Severe(i) => ttr[i] = NoTtr
  /\ \A e \in Now.todo : ~Severe(e[1])

LEMMA NextSevereUncounted ==
  ASSUME Rest = {}, MaxFaults = 0, TypeInv, SevereUncounted, [Next]_vars
  PROVE  SevereUncounted'
<1>0. /\ Now \in TaskState /\ made \in Nat /\ Consumer \in Task
      /\ task \in [Task -> TaskState] /\ Made \subseteq Incident
      /\ \A e \in Now.todo : e[1] \in Made
      /\ Now.pc = "create" => Now.kind \in KindOf
      /\ ttr \in [Incident -> Ttr]
  BY AloneTyped, NowTyped DEF TypeInv, TasksOK, TaskOK, NodesTyped, Now
<1>1. /\ Made \subseteq Made'
      /\ \A i \in Made : Severe(i)' <=> Severe(i)
  BY EveryStepMoves, MovesKeepNodes DEF Severe
<1>2. CASE Step(Consumer)
  <2>1. /\ Now'.todo \subseteq Now.todo
        /\ ~CreateNode(Consumer) => UNCHANGED <<made, info>>
        /\ ttr' = ttr \/ CreateNode(Consumer) \/ NextCountdown(Consumer)
    BY <1>2, StepKeeps
  <2>2. \A e \in Now'.todo : ~Severe(e[1])'
    BY <1>0, <1>1, <2>1 DEF SevereUncounted
  <2>3. CASE CreateNode(Consumer)
    <3> PICK n : n = made + 1
      OBVIOUS
    <3>1. /\ Now.pc = "create" /\ made' = n /\ made < MaxIncidents
          /\ info' = [info EXCEPT ![n] = [kind |-> Now.kind, depth |-> DepthUnder(Now.parent)]]
      BY <2>3 DEF CreateNode, At, Now
    <3>2. PICK x \in TtrSample[Now.kind.type] : ttr' = [ttr EXCEPT ![n] = x]
      BY <2>3 DEF CreateNode, Now
    <3>3. n \in Incident /\ n \notin Made /\ \A i \in Made' : i \in Made \/ i = n
      BY <1>0, <3>1, BoundsAssumption DEF Made, Incident
    <3>4. info'[n].kind = Now.kind
      BY <3>1, <3>3 DEF TypeInv, NodesTyped
    <3>5. Now.kind.type = "severe_weather" => x = NoTtr
      <4>1. "severe_weather" \in Type /\ TTR_RANGES["severe_weather"] = {NoTtr}
        BY DEF Type, TTR_RANGES
      <4> QED BY <3>2, <4>1, InputAssumption
    <3>6. \A i \in Made' : Severe(i)' => ttr'[i] = NoTtr
      BY <1>0, <1>1, <3>2, <3>3, <3>4, <3>5 DEF SevereUncounted, Severe
    <3> QED BY <2>2, <3>6 DEF SevereUncounted
  <2>4. CASE NextCountdown(Consumer) /\ ~CreateNode(Consumer)
    <3>1. PICK e \in Now.todo : ttr' = [ttr EXCEPT ![e[1]] = e[2]]
      BY <2>4, Zenon DEF NextCountdown, Now
    <3>2. \A i \in Made' : Severe(i)' => ttr'[i] = NoTtr
      BY <1>0, <1>1, <2>1, <2>4, <3>1 DEF SevereUncounted, Made
    <3> QED BY <2>2, <3>2 DEF SevereUncounted
  <2>5. CASE ttr' = ttr /\ ~CreateNode(Consumer)
    <3>1. \A i \in Made' : Severe(i)' => ttr'[i] = NoTtr
      BY <1>1, <2>1, <2>5 DEF SevereUncounted, Made
    <3> QED BY <2>2, <3>1 DEF SevereUncounted
  <2> QED BY <2>1, <2>3, <2>4, <2>5
<1>3. ASSUME UNCHANGED <<made, info, ttr>>, \A e \in Now'.todo : e \in Now.todo \/ ~Severe(e[1])
      PROVE  SevereUncounted'
  BY <1>3 DEF SevereUncounted, Severe, Made
<1>4. CASE UNCHANGED vars
  BY <1>3, <1>4 DEF vars, db, Now
<1>5. CASE Message
  <2>1. UNCHANGED <<made, info, ttr>>
    <3>1. UNCHANGED db
      BY <1>5, Zenon DEF Message, OnCommand, OnInject, OnDetection, OnWeatherChanged, OnTick,
         OnRecommendationApplied
    <3> QED BY <3>1 DEF db
  <2>2. \A i \in Countdowns : ~Severe(i)
    BY DEF Countdowns, SevereUncounted
  <2>3. CASE OnTick
    <3>1. PICK d : task' = [t \in Task |->
                     IF t = Consumer
                     THEN [Idle EXCEPT !.pc = "next", !.stage = "ttr",
                                       !.todo = { <<i, ttr[i] - d>> : i \in Countdowns }]
                     ELSE Older(task[t], d)]
      BY <2>3, Zenon DEF OnTick
    <3> DEFINE todo == { <<i, ttr[i] - d>> : i \in Countdowns }
    <3>2. \A e \in todo : ~Severe(e[1])
      BY <2>2
    <3>3. Now' = [Idle EXCEPT !.pc = "next", !.stage = "ttr", !.todo = todo]
      BY <1>0, <3>1, Zenon DEF Now
    <3> HIDE DEF todo
    <3>4. Now'.todo = todo
      BY <3>3 DEF Idle
    <3> QED BY <1>3, <2>1, <3>2, <3>4
  <2>4. CASE OnRecommendationApplied
    <3> DEFINE Shortened(a) ==
                 { j \in Countdowns : /\ info[j].kind.type \in ACTION_INCIDENT_MAP[a]
                                      /\ ttr[j] > 0 }
               Todo(a) == { <<i, ReducedTtr(ttr[i], a)>> : i \in Shortened(a) }
    <3>1. PICK a \in Actions :
            task' = [task EXCEPT ![Consumer].pc = "next", ![Consumer].stage = "reduce",
                                 ![Consumer].todo = Todo(a)]
      BY <2>4, Zenon DEF OnRecommendationApplied
    <3>2. \A e \in Todo(a) : ~Severe(e[1])
      <4>1. Shortened(a) \subseteq Countdowns
        OBVIOUS
      <4> HIDE DEF Shortened
      <4> QED BY <2>2, <4>1
    <3> PICK todo : todo = Todo(a)
      OBVIOUS
    <3> HIDE DEF Todo
    <3>3. Now' = [Now EXCEPT !.pc = "next", !.stage = "reduce", !.todo = todo]
      BY <1>0, <3>1 DEF Now
    <3>4. Now'.todo = todo
      BY <1>0, <3>3 DEF TaskState
    <3> QED BY <1>3, <2>1, <3>2, <3>4
  <2>5. CASE OnCommand \/ OnInject \/ OnDetection \/ OnWeatherChanged
    <3>1. Now'.todo = Now.todo
      <4>1. ASSUME NEW l, NEW i, task' = [task EXCEPT ![Consumer].pc = l, ![Consumer].inc = i]
            PROVE  Now'.todo = Now.todo
        <5>1. Now' = [Now EXCEPT !.pc = l, !.inc = i]
          BY <1>0, <4>1 DEF Now
        <5> QED BY <1>0, <5>1 DEF TaskState
      <4>2. ASSUME NEW l, NEW k, task' = [task EXCEPT ![Consumer].pc = l, ![Consumer].kind = k]
            PROVE  Now'.todo = Now.todo
        <5>1. Now' = [Now EXCEPT !.pc = l, !.kind = k]
          BY <1>0, <4>2 DEF Now
        <5> QED BY <1>0, <5>1 DEF TaskState
      <4>3. ASSUME NEW k, task' = [task EXCEPT ![Consumer] = Creating(@, k, None)]
            PROVE  Now'.todo = Now.todo
        <5>1. Now' = Creating(Now, k, None)
          BY <1>0, <4>3 DEF Now
        <5> QED BY <1>0, <5>1 DEF Creating, TaskState
      <4>4. CASE task' = [task EXCEPT ![Consumer].pc = "findWeather"]
        <5>1. Now' = [Now EXCEPT !.pc = "findWeather"]
          BY <1>0, <4>4 DEF Now
        <5> QED BY <1>0, <5>1 DEF TaskState
      <4>5. CASE UNCHANGED task
        BY <4>5 DEF Now
      <4>6. CASE OnCommand
        BY <4>1, <4>6, Zenon DEF OnCommand
      <4>7. CASE OnInject
        BY <4>3, <4>7, Zenon DEF OnInject
      <4>8. CASE OnDetection
        BY <4>2, <4>8, Zenon DEF OnDetection
      <4>9. CASE OnWeatherChanged
        <5>1. \/ \E k : task' = [task EXCEPT ![Consumer].pc = "find", ![Consumer].kind = k]
              \/ task' = [task EXCEPT ![Consumer].pc = "findWeather"]
              \/ UNCHANGED task
          BY <4>9 DEF OnWeatherChanged
        <5> QED BY <4>2, <4>4, <4>5, <5>1
      <4> QED BY <2>5, <4>6, <4>7, <4>8, <4>9
    <3> QED BY <1>3, <2>1, <3>1
  <2> QED BY <1>5, <2>3, <2>4, <2>5 DEF Message
<1>6. ~Fail(Consumer) /\ ~Restart /\ Task = {Consumer}
  BY AloneTask DEF Fail, Restart, TypeInv, CountsTyped
<1> QED BY <1>2, <1>4, <1>5, <1>6 DEF Next
-----------------------------------------------------------------------------
(* The weather and its incident: they agree, or the consumer is about to    *)
(* raise the incident, in low weather, or to clear it, after low weather.   *)
Weather == Unresolved("severe_weather", Airfield)

Raises ==
  /\ Now.pc = "find" \/ (Now.pc = "create" /\ Now.parent = None)
  /\ Now.kind.type = "severe_weather" /\ Now.kind.location = Airfield

Clears ==
  \/ Now.pc = "findWeather"
  \/ Now.pc \in {"resolveRead", "resolveWrite"} /\ Now.inc \in Weather

WeatherHeld ==
  /\ Raises => category \in Low
  /\ Clears => category \notin Low
  /\ Raises \/ Clears \/ (Weather # {} <=> category \in Low)

(* Steps that have nothing to do with the weather. *)
WeatherPc == {"find", "create", "findWeather", "resolveRead", "resolveWrite"}

LEMMA Unconcerned ==
  ASSUME WeatherHeld, ~Raises, ~Clears, ~Raises', ~Clears',
         Weather' = Weather, category' = category
  PROVE  WeatherHeld'
  BY DEF WeatherHeld

LEMMA MessageWeather ==
  ASSUME OnlyLooked, TypeInv, WeatherHeld, Message
  PROVE  WeatherHeld'
<1>0. Now \in TaskState /\ Consumer \in Task /\ task \in [Task -> TaskState]
  BY NowTyped
<1>1. ~Raises /\ ~Clears
  <2>1. At(Consumer, "idle")
    BY Zenon DEF Message, OnCommand, OnInject, OnDetection,
       OnWeatherChanged, OnTick, OnRecommendationApplied, Ready
  <2> QED BY <2>1 DEF At, Now, Raises, Clears
<1>2. Weather' = Weather
  <2>1. UNCHANGED db
    BY Zenon DEF Message, OnCommand, OnInject, OnDetection, OnWeatherChanged, OnTick,
       OnRecommendationApplied
  <2>2. UNCHANGED <<made, info, status>>
    BY <2>1 DEF db
  <2> QED BY <2>2 DEF Weather, Unresolved, Made
<1>3. ASSUME category' = category, Now'.pc \notin WeatherPc
      PROVE  WeatherHeld'
  BY <1>1, <1>2, <1>3, Unconcerned DEF WeatherPc, Raises, Clears
<1>4. CASE OnCommand
  <2>1. UNCHANGED memory
    BY <1>4, Zenon DEF OnCommand
  <2>2. PICK i \in Made, op \in CommandOps :
          task' = [task EXCEPT ![Consumer].pc = FirstStep[op], ![Consumer].inc = i]
    BY <1>4, Zenon DEF OnCommand
  <2>3. op = "contain"
    BY InputAssumption DEF OnlyLooked
  <2>4. Now' = [Now EXCEPT !.pc = "containRead", !.inc = i]
    BY <1>0, <2>2, <2>3 DEF Now, FirstStep
  <2>5. Now'.pc = "containRead"
    BY <1>0, <2>4 DEF TaskState
  <2> QED BY <1>3, <2>1, <2>5 DEF memory, WeatherPc
<1>5. CASE OnInject
  BY <1>5 DEF OnInject, OnlyLooked
<1>6. CASE OnDetection
  <2>1. UNCHANGED memory
    BY <1>6, Zenon DEF OnDetection
  <2>2. PICK k \in Detected :
          task' = [task EXCEPT ![Consumer].pc = "find", ![Consumer].kind = k]
    BY <1>6, Zenon DEF OnDetection
  <2>3. Now' = [Now EXCEPT !.pc = "find", !.kind = k]
    BY <1>0, <2>2 DEF Now
  <2>4. Now'.pc = "find" /\ Now'.kind = k
    BY <1>0, <2>3 DEF TaskState
  <2>5. ~Raises' /\ ~Clears'
    BY <2>4 DEF Raises, Clears, OnlyLooked
  <2> QED BY <1>1, <1>2, <2>1, <2>5, Unconcerned DEF memory
<1>7. CASE OnWeatherChanged
  <2>1. PICK m, n \in 1..4 : category = Category[m] /\ category' = Category[n] /\
          \/ /\ category' \in Low
             /\ \E sev : task' = [task EXCEPT ![Consumer].pc = "find",
                                    ![Consumer].kind = Kind("severe_weather", sev, Airfield)]
          \/ /\ category' \notin Low
             /\ task' = [task EXCEPT ![Consumer].pc = "findWeather"]
          \/ /\ category' \notin Low /\ category \notin Low
             /\ UNCHANGED task
    BY <1>7 DEF OnWeatherChanged
  <2>2. CASE category' \in Low /\ \E sev :
               task' = [task EXCEPT ![Consumer].pc = "find",
                                    ![Consumer].kind = Kind("severe_weather", sev, Airfield)]
    <3>1. PICK sev : task' = [task EXCEPT ![Consumer].pc = "find",
                                          ![Consumer].kind = Kind("severe_weather", sev, Airfield)]
      BY <2>2
    <3>2. Now' = [Now EXCEPT !.pc = "find", !.kind = Kind("severe_weather", sev, Airfield)]
      BY <1>0, <3>1 DEF Now
    <3>3. Now'.pc = "find" /\ Now'.kind = Kind("severe_weather", sev, Airfield)
      BY <1>0, <3>2 DEF TaskState
    <3>4. Raises' /\ ~Clears'
      BY <3>3 DEF Raises, Clears, Kind
    <3> QED BY <2>2, <3>4 DEF WeatherHeld
  <2>3. CASE category' \notin Low /\ task' = [task EXCEPT ![Consumer].pc = "findWeather"]
    <3>1. Now' = [Now EXCEPT !.pc = "findWeather"]
      BY <1>0, <2>3 DEF Now
    <3>2. Now'.pc = "findWeather"
      BY <1>0, <3>1 DEF TaskState
    <3>3. ~Raises' /\ Clears'
      BY <3>2 DEF Raises, Clears
    <3> QED BY <2>3, <3>3 DEF WeatherHeld
  <2>4. CASE category' \notin Low /\ category \notin Low /\ UNCHANGED task
    <3>1. ~Raises' /\ ~Clears'
      BY <1>1, <1>2, <2>4 DEF Raises, Clears, Now
    <3> QED BY <1>1, <1>2, <2>4, <3>1 DEF WeatherHeld
  <2> QED BY <2>1, <2>2, <2>3, <2>4
<1>8. CASE OnTick
  <2>1. category' = category
    BY <1>8, Zenon DEF OnTick
  <2>2. \E d, todo : task' = [t \in Task |->
                     IF t = Consumer
                     THEN [Idle EXCEPT !.pc = "next", !.stage = "ttr", !.todo = todo]
                     ELSE Older(task[t], d)]
    BY <1>8, Zenon DEF OnTick
  <2>3. \E todo : Now' = [Idle EXCEPT !.pc = "next", !.stage = "ttr", !.todo = todo]
    BY <1>0, <2>2, Zenon DEF Now
  <2>4. Now'.pc = "next"
    BY <2>3 DEF Idle
  <2> QED BY <1>3, <2>1, <2>4 DEF WeatherPc
<1>9. CASE OnRecommendationApplied
  <2>1. UNCHANGED memory
    BY <1>9, Zenon DEF OnRecommendationApplied
  <2>2. PICK todo : task' = [task EXCEPT ![Consumer].pc = "next", ![Consumer].stage = "reduce",
                                         ![Consumer].todo = todo]
    BY <1>9, Zenon DEF OnRecommendationApplied
  <2>3. Now' = [Now EXCEPT !.pc = "next", !.stage = "reduce", !.todo = todo]
    BY <1>0, <2>2 DEF Now
  <2>4. Now'.pc = "next"
    BY <1>0, <2>3 DEF TaskState
  <2> QED BY <1>3, <2>1, <2>4 DEF WeatherPc, memory
<1> QED BY <1>4, <1>5, <1>6, <1>7, <1>8, <1>9 DEF Message

(* A step that leaves the nodes alone and returns, or goes where no weather *)
(* is dealt with.                                                           *)
LEMMA StepAside ==
  ASSUME WeatherHeld, UNCHANGED <<made, info, status, category>>,
         ~Raises, ~Clears, ~Raises', ~Clears'
  PROVE  WeatherHeld'
<1>1. Weather' = Weather
  BY DEF Weather, Unresolved, Made
<1> QED BY <1>1, Unconcerned

LEMMA WritesWeather ==
  ASSUME OnlyLooked, TypeInv, CascadeForest, ReadsHold, ChildrenTyped, OneEach, LookedFirst,
         WeatherHeld, category' = category,
         Creates \/ Contains \/ Resolves \/ ResolvesChildren
  PROVE  WeatherHeld'
<1>0. /\ Now \in TaskState /\ made \in Nat /\ Made \subseteq Incident
      /\ Now.pc \in Working => Now.inc \in Made
      /\ status \in [Incident -> Status \cup {"none"}]
  BY AloneTyped
<1>1. CASE Creates
  <2> PICK n : n = made + 1
    OBVIOUS
  <2>1. /\ Now.pc = "create" /\ Now'.pc = "activate" /\ made' = n /\ n \in Incident
        /\ status' = [status EXCEPT ![n] = "active"]
        /\ \E d : info' = [info EXCEPT ![n] = [kind |-> Now.kind, depth |-> d]]
    BY <1>1 DEF Creates
  <2>2. /\ n \notin Made /\ \A i \in Made' : i \in Made \/ i = n
        /\ Made \subseteq Made' /\ n \in Made'
        /\ \A i \in Made : info'[i] = info[i] /\ status'[i] = status[i]
    BY <1>0, <2>1 DEF Made
  <2>3. info'[n].kind = Now.kind /\ status'[n] = "active"
    BY <1>0, <2>1 DEF TypeInv, NodesTyped
  <2>4. ~Raises' /\ ~Clears' /\ ~Clears
    BY <2>1 DEF Raises, Clears
  <2>5. CASE Raises
    <3>1. n \in Weather'
      BY <2>2, <2>3, <2>5 DEF Weather, Unresolved, Raises
    <3> QED BY <2>4, <2>5, <3>1 DEF WeatherHeld
  <2>6. CASE ~Raises
    <3>1. ~(Now.kind.type = "severe_weather" /\ Now.kind.location = Airfield)
      BY <2>1, <2>6, ChildTypes DEF Raises, ChildrenTyped
    <3>2. n \notin Weather'
      BY <2>3, <3>1 DEF Weather, Unresolved
    <3>3. Weather' = Weather
      BY <2>2, <3>2 DEF Weather, Unresolved
    <3> QED BY <2>4, <2>6, <3>3, Unconcerned
  <2> QED BY <2>5, <2>6
<1>2. CASE Contains
  <2>1. /\ Now.pc = "containWrite" /\ Now'.pc = "containNotify"
        /\ status' = [status EXCEPT ![Now.inc] = "contained"] /\ UNCHANGED <<made, info>>
    BY <1>2 DEF Contains, On
  <2>2. \A i \in Made : status'[i] = "resolved" <=> status[i] = "resolved"
    BY <1>0, <2>1 DEF ReadsHold, Working
  <2>3. Weather' = Weather
    BY <2>1, <2>2 DEF Weather, Unresolved, Made
  <2>4. ~Raises /\ ~Clears /\ ~Raises' /\ ~Clears'
    BY <2>1 DEF Raises, Clears
  <2> QED BY <2>3, <2>4, Unconcerned
<1>3. CASE Resolves
  <2>1. /\ Now.pc = "resolveWrite" /\ Now'.pc = "deactivate"
        /\ status' = [status EXCEPT ![Now.inc] = "resolved"] /\ UNCHANGED <<made, info>>
    BY <1>3 DEF Resolves, On
  <2>2. ~Raises /\ ~Raises' /\ ~Clears'
    BY <2>1 DEF Raises, Clears
  <2>3. Weather' = Weather \ {Now.inc}
    BY <1>0, <2>1 DEF Weather, Unresolved, Made, Working
  <2>4. CASE Now.inc \in Weather
    <3>1. \A i \in Weather : i = Now.inc
      BY <2>4, ChildTypes DEF OneEach, Weather, Unresolved, ChildNode
    <3>2. Weather' = {}
      BY <2>3, <3>1
    <3>3. category \notin Low
      BY <2>1, <2>4 DEF WeatherHeld, Clears
    <3> QED BY <2>2, <3>2, <3>3 DEF WeatherHeld
  <2>5. CASE Now.inc \notin Weather
    <3>1. ~Clears /\ Weather' = Weather
      BY <2>1, <2>3, <2>5 DEF Clears
    <3> QED BY <2>2, <3>1, Unconcerned
  <2> QED BY <2>4, <2>5
<1>4. CASE ResolvesChildren
  <2>1. /\ Now.pc = "children" /\ Now'.pc = "notify" /\ UNCHANGED <<made, info>>
        /\ status' = [i \in Incident |-> IF i \in Now'.kids THEN "resolved" ELSE status[i]]
        /\ Now'.kids \subseteq Descendants(Now.inc)
    BY <1>4 DEF ResolvesChildren
  <2>2. \A c \in Now'.kids : ChildNode(c)
    <3>1. Now.inc \in Made
      BY <1>0, <2>1 DEF Working
    <3> QED BY <2>1, <3>1, DescendantsAfter DEF ChildrenTyped
  <2>3. \A c \in Now'.kids : info[c].kind.type # "severe_weather"
    BY <2>2, ChildTypes DEF ChildNode
  <2>4. Weather' = Weather
    BY <1>0, <2>1, <2>3 DEF Weather, Unresolved, Made
  <2>5. ~Raises /\ ~Clears /\ ~Raises' /\ ~Clears'
    BY <2>1 DEF Raises, Clears
  <2> QED BY <2>4, <2>5, Unconcerned
<1> QED BY <1>1, <1>2, <1>3, <1>4

LEMMA ReturnsAside ==
  ASSUME TypeInv, Return(Consumer)
  PROVE  Now'.pc \in {"idle", "next"}
<1>1. Now \in TaskState /\ Consumer \in Task /\ task \in [Task -> TaskState]
  BY NowTyped
<1>2. Now' = Returned(Now)
  BY <1>1 DEF Return, Now
<1> QED BY <1>1, <1>2 DEF Returned, Idle, TaskState

LEMMA StepWeather ==
  ASSUME OnlyLooked, TypeInv, CascadeForest, ReadsHold, ChildrenTyped, OneEach, LookedFirst,
         SevereUncounted, WeatherHeld, Step(Consumer)
  PROVE  WeatherHeld'
<1>0. /\ Now \in TaskState /\ Consumer \in Task /\ task \in [Task -> TaskState]
      /\ made \in Nat /\ Made \subseteq Incident /\ Now.due \subseteq Made
      /\ status \in [Incident -> Status \cup {"none"}] /\ None \notin Made
      /\ Now.pc \in Working => Now.inc \in Made
  BY NowTyped, AloneTyped DEF Made, None
<1>c. category' = category
  BY StepKeeps
<1>1. ASSUME UNCHANGED <<made, info, status>>, Now.pc \notin WeatherPc, Now'.pc \notin WeatherPc
      PROVE  WeatherHeld'
  BY <1>1, <1>c, StepAside DEF WeatherPc, Raises, Clears
<1>2. CASE CreateNode(Consumer)
  BY <1>2, <1>c, CreateMoves, WritesWeather
<1>3. CASE \/ Activate(Consumer) \/ Link(Consumer) \/ Announce(Consumer)
  <2>1. /\ Now.pc \in {"activate", "link", "announce"}
        /\ Now'.pc \in {"link", "announce", "cascade"} /\ UNCHANGED <<made, info, status>>
    BY <1>3, CreatingMoves DEF Activates, Links, Announces, On
  <2> QED BY <1>1, <2>1 DEF WeatherPc
<1>4. CASE Cascade(Consumer)
  <2>1. /\ Now.pc = "cascade" /\ UNCHANGED <<made, info, status>>
    BY <1>4, CascadeMoves DEF Cascades
  <2>2. CASE Return(Consumer)
    BY <1>1, <2>1, <2>2, ReturnsAside DEF WeatherPc
  <2>3. CASE task' = [task EXCEPT ![Consumer] = Creating(Now, ChildKind(Now.inc), Now.inc)]
    <3>1. Now'.pc = "create" /\ Now'.parent = Now.inc /\ Now.inc \in Made
      BY <1>0, <2>1, <2>3, BeginsCreating DEF Working
    <3>2. ~Raises' /\ ~Clears' /\ ~Raises /\ ~Clears
      BY <1>0, <2>1, <3>1 DEF Raises, Clears
    <3> QED BY <1>c, <2>1, <3>2, StepAside
  <2>4. \/ Return(Consumer)
        \/ task' = [task EXCEPT ![Consumer] = Creating(@, ChildKind(Now.inc), Now.inc)]
    BY <1>4, Zenon DEF Cascade, Now
  <2> QED BY <2>2, <2>3, <2>4 DEF Now
<1>5. CASE ContainRead(Consumer) \/ ContainNotify(Consumer)
  <2>1. /\ Now.pc \in {"containRead", "containNotify"}
        /\ UNCHANGED db /\ (Return(Consumer) \/ Goto(Consumer, "containWrite"))
    BY <1>5 DEF ContainRead, ContainNotify, At, Now
  <2>2. Now'.pc \in {"idle", "next", "containWrite"}
    BY <2>1, ReturnsAside, GotoOn DEF On
  <2> QED BY <1>1, <2>1, <2>2 DEF WeatherPc, db
<1>6. CASE ContainWrite(Consumer)
  <2>1. Now.pc = "containWrite"
    BY <1>6 DEF ContainWrite, At, Now
  <2>2. Contains
    BY <1>6, <2>1, ContainMoves DEF Calmly, Calm, BeginsContainment, TellsContained, On
  <2> QED BY <1>c, <2>2, WritesWeather
<1>7. CASE ResolveRead(Consumer)
  <2>1. /\ Now.pc = "resolveRead" /\ UNCHANGED db
        /\ \/ status[Now.inc] = "resolved" /\ Return(Consumer)
           \/ Goto(Consumer, "resolveWrite")
    BY <1>7 DEF ResolveRead, At, Now
  <2>2. UNCHANGED <<made, info, status>>
    BY <2>1 DEF db
  <2>3. Weather' = Weather
    BY <2>2 DEF Weather, Unresolved, Made
  <2>4. CASE status[Now.inc] = "resolved" /\ Return(Consumer)
    <3>1. ~Raises /\ ~Clears
      BY <2>1, <2>4 DEF Raises, Clears, Weather, Unresolved
    <3>2. ~Raises' /\ ~Clears'
      BY <2>4, ReturnsAside DEF Raises, Clears
    <3> QED BY <1>c, <2>3, <3>1, <3>2, Unconcerned
  <2>5. CASE Goto(Consumer, "resolveWrite")
    <3>1. Now'.pc = "resolveWrite" /\ Now'.inc = Now.inc
      BY <2>5, GotoOn DEF On
    <3>2. ~Raises /\ ~Raises' /\ (Clears' <=> Clears)
      BY <2>1, <2>3, <3>1 DEF Raises, Clears
    <3> QED BY <1>c, <2>3, <3>2 DEF WeatherHeld
  <2> QED BY <2>1, <2>4, <2>5
<1>8. CASE ResolveWrite(Consumer)
  <2>1. Now.pc = "resolveWrite"
    BY <1>8 DEF ResolveWrite, At, Now
  <2>2. Resolves
    BY <1>8, <2>1, ResolveMoves DEF Calmly, Calm, BeginsResolution, Deactivates, On
  <2> QED BY <1>c, <2>2, WritesWeather
<1>9. CASE Deactivate(Consumer)
  <2>1. Now.pc = "deactivate" /\ UNCHANGED db /\ Goto(Consumer, "children")
    BY <1>9 DEF Deactivate, At, Now
  <2>2. Now'.pc = "children"
    BY <2>1, GotoOn DEF On
  <2> QED BY <1>1, <2>1, <2>2 DEF WeatherPc, db
<1>10. CASE ResolveChildren(Consumer)
  <2>1. Now.pc = "children"
    BY <1>10 DEF ResolveChildren, At, Now
  <2>2. ResolvesChildren
    BY <1>10, <2>1, ChildrenMoves DEF TellsOfChild, TellsResolved
  <2> QED BY <1>c, <2>2, WritesWeather
<1>11. CASE Notify(Consumer)
  <2>1. /\ Now.pc = "notify" /\ UNCHANGED db
        /\ Return(Consumer) \/ \E c : task' = [task EXCEPT ![Consumer].kids = @ \ {c}]
    BY <1>11, Zenon DEF Notify, At, Now
  <2>2. ASSUME NEW c, task' = [task EXCEPT ![Consumer].kids = @ \ {c}]
        PROVE  Now'.pc = "notify"
    <3>1. Now' = [Now EXCEPT !.kids = @ \ {c}]
      BY <1>0, <2>2 DEF Now
    <3> QED BY <1>0, <2>1, <3>1 DEF TaskState
  <2>3. Now'.pc \in {"idle", "next", "notify"}
    BY <2>1, <2>2, ReturnsAside
  <2> QED BY <1>1, <2>1, <2>3 DEF WeatherPc, db
<1>12. CASE Find(Consumer)
  <2> DEFINE open == Open(Now.kind.type, Now.kind.location)
  <2>1. /\ Now.pc = "find" /\ UNCHANGED <<made, info, status>>
        /\ \/ open # {} /\ Return(Consumer)
           \/ task' = [task EXCEPT ![Consumer] = Creating(Now, Now.kind, None)]
    <3>1. At(Consumer, "find") /\ UNCHANGED db
      BY <1>12, Zenon DEF Find
    <3>2. IF open # {} THEN Return(Consumer)
          ELSE task' = [task EXCEPT ![Consumer] = Creating(@, Now.kind, None)]
      BY <1>12, Zenon DEF Find, Now
    <3> QED BY <3>1, <3>2 DEF At, Now, db
  <2>2. Weather' = Weather
    BY <2>1 DEF Weather, Unresolved, Made
  <2>3. CASE open # {} /\ Return(Consumer)
    <3>1. ~Raises' /\ ~Clears' /\ ~Clears
      BY <2>1, <2>3, ReturnsAside DEF Raises, Clears
    <3>2. Raises => Weather # {}
      BY <2>3, OpenIsUnresolved DEF Raises, Weather
    <3> QED BY <1>c, <2>2, <3>1, <3>2 DEF WeatherHeld
  <2>4. CASE task' = [task EXCEPT ![Consumer] = Creating(Now, Now.kind, None)]
    <3>1. Now'.pc = "create" /\ Now'.parent = None /\ Now'.kind = Now.kind
      BY <2>4, BeginsCreating
    <3>2. (Raises' <=> Raises) /\ ~Clears' /\ ~Clears
      BY <2>1, <3>1 DEF Raises, Clears
    <3> QED BY <1>c, <2>2, <3>2 DEF WeatherHeld
  <2> QED BY <2>1, <2>3, <2>4
<1>13. CASE FindWeather(Consumer)
  <2>1. /\ Now.pc = "findWeather" /\ UNCHANGED db
        /\ \/ Weather = {} /\ Return(Consumer)
           \/ \E i \in Weather : task' = [task EXCEPT ![Consumer].pc = "resolveRead",
                                                      ![Consumer].inc = i]
    <3>1. Open("severe_weather", Airfield) = Weather
      BY OpenIsUnresolved DEF Weather
    <3>2. /\ At(Consumer, "findWeather") /\ UNCHANGED db
          /\ \/ Open("severe_weather", Airfield) = {} /\ Return(Consumer)
             \/ \E i \in Open("severe_weather", Airfield) :
                  task' = [task EXCEPT ![Consumer].pc = "resolveRead", ![Consumer].inc = i]
      BY <1>13, Zenon DEF FindWeather
    <3> QED BY <3>1, <3>2, Zenon DEF At, Now
  <2>2. Weather' = Weather
    BY <2>1 DEF db, Weather, Unresolved, Made
  <2>3. Clears /\ ~Raises
    BY <2>1 DEF Clears, Raises
  <2>4. CASE Weather = {} /\ Return(Consumer)
    <3>1. ~Raises' /\ ~Clears'
      BY <2>4, ReturnsAside DEF Raises, Clears
    <3> QED BY <1>c, <2>2, <2>3, <2>4, <3>1 DEF WeatherHeld
  <2>5. ASSUME NEW i \in Weather,
               task' = [task EXCEPT ![Consumer].pc = "resolveRead", ![Consumer].inc = i]
        PROVE  WeatherHeld'
    <3>1. Now' = [Now EXCEPT !.pc = "resolveRead", !.inc = i]
      BY <1>0, <2>5 DEF Now
    <3>2. Now'.pc = "resolveRead" /\ Now'.inc = i
      BY <1>0, <3>1 DEF TaskState
    <3>3. ~Raises' /\ Clears'
      BY <2>2, <3>2 DEF Raises, Clears
    <3> QED BY <1>c, <2>3, <3>3 DEF WeatherHeld
  <2> QED BY <2>1, <2>4, <2>5
<1>14. CASE NextCountdown(Consumer)
  <2>1. /\ Now.pc = "next" /\ UNCHANGED <<made, info, status>>
        /\ \E e \in Now.todo : task' = [task EXCEPT ![Consumer] = Counted(Now, e)]
    BY <1>14, Zenon DEF NextCountdown, At, Now
  <2>2. PICK e \in Now.todo : Now' = Counted(Now, e)
    BY <2>1, NowIs
  <2>3. Now'.pc \in {"resolveRead", "next"} /\ (Now'.pc = "resolveRead" => Now'.inc = e[1])
    BY <1>0, <2>2 DEF Counted, TaskState
  <2>4. e[1] \notin Weather'
    BY <2>1 DEF SevereUncounted, Severe, Weather, Unresolved
  <2>5. ~Raises' /\ ~Clears' /\ ~Raises /\ ~Clears
    BY <2>1, <2>3, <2>4 DEF Raises, Clears
  <2> QED BY <1>c, <2>1, <2>5, StepAside
<1>15. CASE FireDue(Consumer)
  <2>1. /\ Now.pc = "next" /\ UNCHANGED db
        /\ \E p \in Now.due : task' = [task EXCEPT ![Consumer] = Fired(Now, p)]
    BY <1>15, Zenon DEF FireDue, At, Now
  <2>2. PICK p \in Now.due : Now' = Fired(Now, p)
    BY <2>1, NowIs
  <2>3. Now'.pc = "create" /\ Now'.parent = p
    BY <1>0, <2>2 DEF Fired, Creating, TaskState
  <2>4. ~Raises' /\ ~Clears' /\ ~Raises /\ ~Clears
    BY <1>0, <2>1, <2>3 DEF Raises, Clears
  <2> QED BY <1>c, <2>1, <2>4, StepAside DEF db
<1>16. CASE NextDraw(Consumer)
  <2>1. Now.pc = "next" /\ UNCHANGED <<made, info, status>>
    <3>1. At(Consumer, "next") /\ UNCHANGED db
      BY <1>16, Zenon DEF NextDraw
    <3> QED BY <3>1 DEF At, Now, db
  <2>4. \/ \E k \in Now.draws :
             task' = [task EXCEPT ![Consumer].draws = @ \ {k}, ![Consumer].kind = k,
                                  ![Consumer].pc = "find"]
        \/ task' = [task EXCEPT ![Consumer] = Idle]
    BY <1>16, Zenon DEF NextDraw, Now
  <2>2. CASE task' = [task EXCEPT ![Consumer] = Idle]
    <3>1. Now' = Idle
      BY <2>2, NowIs
    <3> QED BY <1>1, <2>1, <3>1 DEF Idle, WeatherPc
  <2>3. ASSUME NEW k \in Now.draws,
               task' = [task EXCEPT ![Consumer].draws = @ \ {k}, ![Consumer].kind = k,
                                    ![Consumer].pc = "find"]
        PROVE  WeatherHeld'
    <3>1. Now' = [Now EXCEPT !.draws = @ \ {k}, !.kind = k, !.pc = "find"]
      BY <1>0, <2>3 DEF Now
    <3>2. Now'.pc = "find" /\ Now'.kind = k /\ k \in Drawn
      BY <1>0, <3>1 DEF TaskState
    <3>3. ~Raises' /\ ~Clears' /\ ~Raises /\ ~Clears
      BY <2>1, <3>2 DEF Raises, Clears, OnlyLooked
    <3> QED BY <1>c, <2>1, <3>3, StepAside
  <2> QED BY <2>2, <2>3, <2>4, Zenon
<1>17. CASE EndReduce(Consumer) \/ TakeDue(Consumer) \/ Draw(Consumer)
  <2>1. /\ Now.pc = "next" /\ UNCHANGED db
        /\ \/ task' = [task EXCEPT ![Consumer] = Idle]
           \/ \E due : task' = [task EXCEPT ![Consumer].stage = "fire", ![Consumer].due = due]
           \/ \E K : task' = [task EXCEPT ![Consumer].stage = "draw", ![Consumer].draws = K]
    BY <1>17, Zenon DEF EndReduce, TakeDue, Draw, At, Now
  <2>2. CASE task' = [task EXCEPT ![Consumer] = Idle]
    <3>1. Now' = Idle
      BY <2>2, NowIs
    <3> QED BY <1>1, <2>1, <3>1 DEF Idle, WeatherPc, db
  <2>3. ASSUME NEW due, task' = [task EXCEPT ![Consumer].stage = "fire", ![Consumer].due = due]
        PROVE  Now'.pc = "next"
    <3>1. Now' = [Now EXCEPT !.stage = "fire", !.due = due]
      BY <1>0, <2>3 DEF Now
    <3> QED BY <1>0, <2>1, <3>1 DEF TaskState
  <2>4. ASSUME NEW K, task' = [task EXCEPT ![Consumer].stage = "draw", ![Consumer].draws = K]
        PROVE  Now'.pc = "next"
    <3>1. Now' = [Now EXCEPT !.stage = "draw", !.draws = K]
      BY <1>0, <2>4 DEF Now
    <3> QED BY <1>0, <2>1, <3>1 DEF TaskState
  <2> QED BY <1>1, <2>1, <2>2, <2>3, <2>4 DEF WeatherPc, db
<1> QED BY <1>2, <1>3, <1>4, <1>5, <1>6, <1>7, <1>8, <1>9, <1>10, <1>11, <1>12, <1>13, <1>14,
     <1>15, <1>16, <1>17 DEF Step

LEMMA NextWeatherHeld ==
  ASSUME Rest = {}, MaxFaults = 0, OnlyLooked, TypeInv, CascadeForest, ReadsHold,
         ChildrenTyped, OneEach, LookedFirst, SevereUncounted, WeatherHeld, [Next]_vars
  PROVE  WeatherHeld'
<1>1. CASE UNCHANGED vars
  BY <1>1 DEF vars, db, memory, Now, WeatherHeld, Raises, Clears, Weather, Unresolved, Made
<1>2. CASE Step(Consumer)
  BY <1>2, StepWeather
<1>3. CASE Message
  BY <1>3, MessageWeather
<1>4. ~Fail(Consumer) /\ ~Restart /\ Task = {Consumer}
  BY AloneTask DEF Fail, Restart, TypeInv, CountsTyped
<1> QED BY <1>1, <1>2, <1>3, <1>4 DEF Next

LEMMA InitLooked == Init => OneEach /\ LookedFirst /\ SevereUncounted /\ WeatherHeld
<1> SUFFICES ASSUME Init PROVE OneEach /\ LookedFirst /\ SevereUncounted /\ WeatherHeld
  OBVIOUS
<1>1. /\ Now.pc = "idle" /\ Now.todo = {} /\ Made = {} /\ category = "CAVOK"
  BY DEF Init, Now, Idle, Task, Made
<1> QED BY <1>1 DEF OneEach, LookedFirst, SevereUncounted, WeatherHeld, Raises, Clears,
     Weather, Unresolved, Low

LEMMA AtMostOne ==
  ASSUME TypeInv, OneEach, NEW type, NEW loc, type \notin ChildType
  PROVE  Cardinality(Unresolved(type, loc)) = (IF Unresolved(type, loc) = {} THEN 0 ELSE 1)
<1>1. CASE Unresolved(type, loc) = {}
  BY <1>1, FS_EmptySet
<1>2. CASE Unresolved(type, loc) # {}
  <2>1. PICK i : i \in Unresolved(type, loc)
    BY <1>2
  <2>2. \A j \in Unresolved(type, loc) : j = i
    BY <2>1 DEF OneEach, Unresolved, ChildNode
  <2>3. Unresolved(type, loc) = {i}
    BY <2>1, <2>2
  <2>4. Cardinality({i}) = 1
    BY FS_Singleton
  <2> QED BY <1>2, <2>3, <2>4
<1> QED BY <1>1, <1>2

(* Where incidents are only looked for, there is never a second one of the  *)
(* same type and place, and severe_weather is open exactly in low weather.  *)
THEOREM OneOpenAlone ==
  ASSUME Rest = {}, MaxFaults = 0, OnlyLooked
  PROVE  Spec => []OneOpenPerPlace
<1> DEFINE Looked == OneEach /\ LookedFirst /\ SevereUncounted /\ WeatherHeld
<1>1. Init => Looked
  BY InitLooked
<1>2. TypeInv /\ Claims /\ AloneInv /\ Looked /\ [Next]_vars => Looked'
  <2> SUFFICES ASSUME TypeInv, Claims, AloneInv, Looked, [Next]_vars
               PROVE  Looked'
    OBVIOUS
  <2>1. ReadsHold /\ ChildrenTyped /\ CascadeForest /\ Injected = {}
    BY DEF AloneInv, Claims, OnlyLooked
  <2>2. Moves
    BY EveryStepMoves
  <2>3. OneEach' /\ LookedFirst'
    BY <2>1, <2>2, NextOneEach
  <2>4. SevereUncounted' /\ WeatherHeld'
    BY <2>1, NextSevereUncounted, NextWeatherHeld
  <2> QED BY <2>3, <2>4
<1>3. TypeInv /\ Looked => OneOpenPerPlace
  <2> SUFFICES ASSUME TypeInv, Looked, Quiet PROVE OneOpenPerPlace
    BY DEF OneOpenPerPlace
  <2>1. ~Raises /\ ~Clears
    BY DEF Quiet, At, Task, Raises, Clears, Now
  <2>2. Cardinality(Weather) = (IF category \in Low THEN 1 ELSE 0)
    <3>1. Weather # {} <=> category \in Low
      BY <2>1 DEF WeatherHeld
    <3>2. Cardinality(Weather) = (IF Weather = {} THEN 0 ELSE 1)
      BY ChildTypes, AtMostOne DEF Weather
    <3> QED BY <3>1, <3>2
  <2>3. \A k \in Detected \cup Drawn : Cardinality(Unresolved(k.type, k.location)) <= 1
    <3> TAKE k \in Detected \cup Drawn
    <3>1. k.type \notin ChildType
      BY DEF OnlyLooked
    <3>2. Cardinality(Unresolved(k.type, k.location))
            = (IF Unresolved(k.type, k.location) = {} THEN 0 ELSE 1)
      BY <3>1, AtMostOne
    <3> QED BY <3>2
  <2> QED BY <2>2, <2>3 DEF OneOpenPerPlace, Weather
<1> HIDE DEF Looked
<1> QED BY <1>1, <1>2, <1>3, AloneAlways, PTL DEF Spec
=============================================================================
