---------------------------- MODULE IncidentNews ----------------------------
(***************************************************************************)
(* incident-service as the other services see it: the Incident nodes they  *)
(* read when they start, and the announcements they hear.  A request reads *)
(* the status, writes a new one an await later and announces it some awaits*)
(* after that, while other requests do the same.  The announcements of an  *)
(* incident share a partition, in the order in which they get there.       *)
(***************************************************************************)
EXTENDS Integers, SequencesExt

CONSTANTS
  Incident,
  MaxDecisions,   \* bound: requests that contain or resolve an incident
  MaxLosses       \* bound: incidents of which an announcement is lost

ASSUME NewsAssumption == {MaxDecisions, MaxLosses} \subseteq Nat

VARIABLES
  node,        \* status of the Incident nodes
  decided,     \* requests that have read the status and not written theirs
  unsent,      \* written statuses that are still to be announced
  log,         \* the partition of an incident
  lost,        \* history: incidents of which an announcement is lost
  decisions    \* bound: requests so far

newsVars == <<node, decided, unsent, log, lost, decisions>>

Kind == {"active", "contained", "resolved"}
NoTask == [kind \in Kind |-> 0]
Transitions ==
  [none |-> {}, active |-> {"contained", "resolved"}, contained |-> {"resolved"}, resolved |-> {}]

NewsInit ==
  /\ node = [i \in Incident |-> "none"]
  /\ decided = [i \in Incident |-> NoTask] /\ unsent = [i \in Incident |-> NoTask]
  /\ log = [i \in Incident |-> <<>>] /\ lost = {} /\ decisions = 0

CreateIncident(i) ==
  /\ node[i] = "none" /\ node' = [node EXCEPT ![i] = "active"]
  /\ unsent' = [unsent EXCEPT ![i]["active"] = @ + 1]
  /\ UNCHANGED <<decided, log, lost, decisions>>

(* contain_incident and resolve_incident, up to the write and from there.  *)
ReadStatus(i, status) ==
  /\ status \in Transitions[node[i]]
  /\ decisions < MaxDecisions /\ decisions' = decisions + 1
  /\ decided' = [decided EXCEPT ![i][status] = @ + 1]
  /\ UNCHANGED <<node, unsent, log, lost>>

ChangeStatus(i, status) ==
  /\ decided[i][status] > 0 /\ decided' = [decided EXCEPT ![i][status] = @ - 1]
  /\ node' = [node EXCEPT ![i] = status]
  /\ unsent' = [unsent EXCEPT ![i][status] = @ + 1]
  /\ UNCHANGED <<log, lost, decisions>>

(* The tasks of an incident announce in any order.                         *)
Announce(i, kind) ==
  /\ unsent[i][kind] > 0 /\ unsent' = [unsent EXCEPT ![i][kind] = @ - 1]
  /\ log' = [log EXCEPT ![i] = Append(@, [kind |-> kind, incident |-> i, id |-> Len(@) + 1])]
  /\ UNCHANGED <<node, decided, lost, decisions>>

(* incident-service stops, or the task fails, after the write.             *)
Lose(i, kind) ==
  /\ unsent[i][kind] > 0 /\ unsent' = [unsent EXCEPT ![i][kind] = @ - 1]
  /\ lost' = lost \cup {i} /\ Cardinality(lost') <= MaxLosses
  /\ UNCHANGED <<node, decided, log, decisions>>

NewsNext ==
  \E i \in Incident :
    \/ CreateIncident(i)
    \/ \E status \in {"contained", "resolved"} : ReadStatus(i, status) \/ ChangeStatus(i, status)
    \/ \E kind \in Kind : Announce(i, kind) \/ Lose(i, kind)
-----------------------------------------------------------------------------
Open == {i \in Incident : node[i] \in {"active", "contained"}}
Logged(i, kind) == \E n \in DOMAIN log[i] : log[i][n].kind = kind

(* The announcements tell something else than the node where the creation  *)
(* was written after a resolution, where a request that had read the       *)
(* status before wrote "contained" over "resolved", and where one is lost. *)
Misordered(i) ==
  \E m, n \in DOMAIN log[i] : m < n /\ log[i][m].kind = "resolved" /\ log[i][n].kind = "active"
Revived(i) == i \in Open /\ Logged(i, "resolved")

(* All that was written of an incident was announced and heard, and agrees *)
(* with its node.                                                          *)
Settled(i, position) ==
  /\ unsent[i] = NoTask /\ position[i] = Len(log[i])
  /\ ~Misordered(i) /\ ~Revived(i) /\ i \notin lost
=============================================================================
