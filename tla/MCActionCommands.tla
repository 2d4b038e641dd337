-------------------------- MODULE MCActionCommands --------------------------
(***************************************************************************)
(* Small instances of ActionCommands: one proposal that needs a human and  *)
(* one that does not, which compete for a target but stem from different   *)
(* recommendations.                                                        *)
(***************************************************************************)
EXTENDS ActionCommands

CONSTANTS p1, p2

OneTarget   == [p \in Proposal |-> "target"]
TwoTargets  == [p \in Proposal |-> p]
OwnRec      == [p \in Proposal |-> p]

NeverRaises   == [l \in Loops |-> {}]
GroundDelay   == [l \in Loops |-> IF l = "shared" THEN {p2} ELSE {}]
Rebooking     == [l \in Loops |-> IF l = "dedicated" THEN {p2} ELSE {}]
=============================================================================
