------------------------- MODULE RunwayRestrictions -------------------------
(***************************************************************************)
(* flight-service: the runways and gates that incidents and the weather    *)
(* close.  The announcements of incidents may be written twice by a retry  *)
(* of the producer, and are skipped when their event id has been seen.     *)
(* They are taken in batches and committed in the background, before or    *)
(* after they are handled: a restart may skip or repeat some.  It reads    *)
(* the open incidents back from Neo4j.                                     *)
(***************************************************************************)
EXTENDS IncidentNews

CONSTANTS
  LocationOf, Runway,
  ClosedBy,                    \* the runways each runway_impact closes
  MaxSize,                     \* of the set of event ids
  MaxFaults, MaxImpacts        \* bounds: copies and restarts, weather changes

Impact == {"none", "single_runway", "closed"}

ASSUME RestrictionAssumption ==
  /\ LocationOf \in [Incident -> Runway] /\ ClosedBy \in [Impact -> SUBSET Runway]
  /\ ClosedBy["none"] = {}
  /\ MaxSize \in Nat \ {0} /\ {MaxFaults, MaxImpacts} \subseteq Nat

VARIABLES
  handled,     \* how far the consumer has come in each partition
  seen,        \* IdempotencyTracker, the oldest id first
  active_incident_locations,   \* the incidents it knows; its keys
  weather_affected_runways,
  incident_affected_runways,
  heard,       \* history: the last impact, "unknown" after a restart
  rebuilt,     \* history: the last start could read the incidents
  faults, impacts   \* bounds: how many so far

restrictionVars ==
  <<newsVars, handled, seen, active_incident_locations, weather_affected_runways,
    incident_affected_runways, heard, rebuilt, faults, impacts>>
memoryVars == <<seen, active_incident_locations, weather_affected_runways,
                incident_affected_runways>>

Places(incidents) == {LocationOf[i] : i \in incidents}

RestrictionsInit ==
  /\ NewsInit /\ handled = [i \in Incident |-> 0]
  /\ seen = <<>> /\ active_incident_locations = {}
  /\ weather_affected_runways = {} /\ incident_affected_runways = {}
  /\ heard = "unknown" /\ rebuilt = TRUE
  /\ faults = 0 /\ impacts = 0
-----------------------------------------------------------------------------
IncidentsChange ==
  NewsNext /\ UNCHANGED <<handled, memoryVars, heard, rebuilt, faults, impacts>>

(* A retry of the producer writes a message again, with its event id.      *)
WriteAgain(i) ==
  /\ faults < MaxFaults /\ faults' = faults + 1
  /\ \E m \in ToSet(log[i]) : log' = [log EXCEPT ![i] = Append(@, m)]
  /\ UNCHANGED <<node, decided, unsent, lost, decisions, handled, memoryVars, heard, rebuilt, impacts>>
-----------------------------------------------------------------------------
(* The consumer.                                                           *)

is_duplicate(id) == id \in ToSet(seen)
EvictNone(ids) == ids   \* mutant of Evict
Evict(ids) == IF Len(ids) > MaxSize THEN Tail(ids) ELSE ids

Restricted(incidents, weather) == weather \cup Places(incidents)

(* refresh_incident_impacts *)
Refresh(incidents, weather) ==
  /\ active_incident_locations' = incidents
  /\ weather_affected_runways' = weather
  /\ incident_affected_runways' = Restricted(incidents, weather)

_on_incident_created(i) ==
  Refresh(active_incident_locations \cup {i}, weather_affected_runways)

ResolvesThePlace(i, status) ==   \* mutant of _on_incident_status_changed
  Refresh(IF status = "resolved"
          THEN {j \in active_incident_locations : LocationOf[j] # LocationOf[i]}
          ELSE active_incident_locations, weather_affected_runways)

_on_incident_status_changed(i, status) ==
  Refresh(IF status = "resolved" THEN active_incident_locations \ {i}
          ELSE active_incident_locations, weather_affected_runways)

Dispatch(i) ==
  /\ handled[i] < Len(log[i]) /\ handled' = [handled EXCEPT ![i] = @ + 1]
  /\ LET m == log[i][handled'[i]]
     IN  IF is_duplicate(m) THEN UNCHANGED memoryVars
         ELSE /\ seen' = Evict(Append(seen, m))
              /\ IF m.kind = "active" THEN _on_incident_created(m.incident)
                 ELSE _on_incident_status_changed(m.incident, m.kind)
  /\ UNCHANGED <<newsVars, heard, rebuilt, faults, impacts>>

_on_weather_changed(impact) ==
  /\ impacts < MaxImpacts /\ impacts' = impacts + 1
  /\ Refresh(active_incident_locations, ClosedBy[impact]) /\ heard' = impact
  /\ UNCHANGED <<newsVars, handled, seen, rebuilt, faults>>

(* rebuild_from_neo4j; when its query fails the service starts without.    *)
get_active_incident_impacts == Open
Longest == Max({Len(log[i]) : i \in Incident})
RestartFlightService ==
  /\ faults < MaxFaults /\ faults' = faults + 1
  /\ seen' = <<>>
  /\ \E committed \in [Incident -> 0..Longest] :
       (\A i \in Incident : committed[i] <= Len(log[i])) /\ handled' = committed
  /\ rebuilt' \in BOOLEAN
  /\ Refresh(IF rebuilt' THEN get_active_incident_impacts ELSE {}, {})
  /\ heard' = "unknown"
  /\ UNCHANGED <<newsVars, impacts>>

RestrictionsNext ==
  \/ IncidentsChange
  \/ \E i \in Incident : WriteAgain(i) \/ Dispatch(i)
  \/ RestartFlightService
  \/ \E impact \in Impact : _on_weather_changed(impact)

RestrictionsSpec == RestrictionsInit /\ [][RestrictionsNext]_restrictionVars
-----------------------------------------------------------------------------
RestrictionsTypeOK ==
  /\ node \in [Incident -> {"none"} \cup Kind]
  /\ {decided, unsent} \subseteq [Incident -> [Kind -> Nat]]
  /\ \A i \in Incident : handled[i] \in 0..Len(log[i])
  /\ Len(seen) <= MaxSize /\ Cardinality(ToSet(seen)) = Len(seen)
  /\ active_incident_locations \subseteq Incident
  /\ incident_affected_runways \subseteq Runway

(* Once its announcements are handled, an open incident closes its         *)
(* resource whatever else is resolved or contained there, whatever the     *)
(* weather does, and across restarts that lose messages already committed; *)
(* the weather keeps its runways closed until the next one or a restart.   *)
(* And a runway is closed only by the weather, by an open incident, or by  *)
(* one of which not all was heard.  Excepted are the incidents whose       *)
(* announcements tell something else than their nodes: see Settled.        *)
ByWeather == IF heard = "unknown" THEN {} ELSE ClosedBy[heard]

RestrictionsMatch ==
  /\ \A i \in Open : rebuilt /\ Settled(i, handled) => LocationOf[i] \in incident_affected_runways
  /\ ByWeather \subseteq incident_affected_runways
  /\ incident_affected_runways \subseteq
       Places({i \in Incident : i \in Open \/ ~Settled(i, handled)}) \cup ByWeather
=============================================================================
