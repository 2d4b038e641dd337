------------------------ MODULE MCIncidentLifecycle ------------------------
(***************************************************************************)
(* Small instances of IncidentLifecycle: the kinds of incident that occur  *)
(* and the TTRs that are drawn.  TTRs are the shortest of each range, so   *)
(* that countdowns run out within a few ticks of the longest step.         *)
(***************************************************************************)
EXTENDS IncidentLifecycle

(* runway_incursion: a protocol, one child at once, two more after delays. *)
Incursion  == Kind("runway_incursion", "high", "runway-09L")
(* security_breach: a protocol and the deepest chain, with a delay of 5.   *)
Breach     == Kind("security_breach", "medium", "terminal-A")
Fire       == Kind("baggage_fire", "medium", "baggage-sorting")
Congestion == Kind("security_congestion", "medium", "terminal-A")
Failure    == Kind("system_failure", "low", "fids-system")

NoKinds         == {}
IncursionOnly   == {Incursion}
BreachOnly      == {Breach}
FireOnly        == {Fire}
CongestionOnly  == {Congestion}
FailureOnly     == {Failure}
IncursionBreach == {Incursion, Breach}

Least(S) == CHOOSE x \in S : \A y \in S : x <= y

ShortestTtr ==
  [ty \in Type |-> IF TTR_RANGES[ty] = {NoTtr} THEN {NoTtr} ELSE {Least(TTR_RANGES[ty])}]

(* The consumer alone takes one of two inputs: an injected incident, with  *)
(* commands that contain and resolve; or two incidents that are looked for *)
(* before they are created, with commands that contain.                    *)
InjectedOnly ==
  /\ roots <= 1 /\ category \notin Low
  /\ task[Consumer].pc # "find" /\ task[Consumer].draws = {}
LookedOnly ==
  /\ task[Consumer].kind \notin Injected /\ \A i \in Made : info[i].kind \notin Injected
  /\ task[Consumer].pc = "resolveRead" => task[Consumer].stage # "none"
OneInput == InjectedOnly \/ LookedOnly
============================================================================
