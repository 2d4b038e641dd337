-------------------------- MODULE ActionLifecycle --------------------------
(***************************************************************************)
(* What analysis-service promises of a proposed action, without the outbox,*)
(* the topics, the owning service and their failures:                      *)
(*                                                                         *)
(*   pending -> dispatched (approved by a human) or rejected,              *)
(*   approved -> dispatched -> executed or failed,                         *)
(*                                                                         *)
(* a guarded action is dispatched only by a human's decision, the action   *)
(* takes effect only while it is dispatched, and it is reported executed   *)
(* only when it has taken effect.                                          *)
(***************************************************************************)
EXTENDS Naturals

CONSTANTS
  Proposal,
  Guarded       \* the proposals that need a human's approval

VARIABLES
  status,       \* "none" until the proposal is stored
  decided,      \* the proposals a human has decided on
  effects       \* how often each action has taken effect

vars == <<status, decided, effects>>

Init ==
  /\ status = [p \in Proposal |-> "none"]
  /\ decided = {}
  /\ effects = [p \in Proposal |-> 0]

Move(p, from, to) == status[p] = from /\ status' = [status EXCEPT ![p] = to]

Propose(p) ==
  /\ Move(p, "none", IF p \in Guarded THEN "pending" ELSE "approved")
  /\ UNCHANGED <<decided, effects>>

Approve(p) ==
  /\ Move(p, "pending", "dispatched")
  /\ decided' = decided \cup {p}
  /\ UNCHANGED effects

Reject(p) ==
  /\ Move(p, "pending", "rejected")
  /\ decided' = decided \cup {p}
  /\ UNCHANGED effects

Dispatch(p) ==
  /\ Move(p, "approved", "dispatched")
  /\ UNCHANGED <<decided, effects>>

TakeEffect(p) ==
  /\ status[p] = "dispatched"
  /\ effects' = [effects EXCEPT ![p] = @ + 1]
  /\ UNCHANGED <<status, decided>>

Confirm(p) ==
  /\ effects[p] > 0
  /\ Move(p, "dispatched", "executed")
  /\ UNCHANGED <<decided, effects>>

Fail(p) ==
  /\ Move(p, "dispatched", "failed")
  /\ UNCHANGED <<decided, effects>>

Next ==
  \E p \in Proposal : \/ Propose(p) \/ Approve(p) \/ Reject(p) \/ Dispatch(p)
                      \/ TakeEffect(p) \/ Confirm(p) \/ Fail(p)

Spec == Init /\ [][Next]_vars
=============================================================================
