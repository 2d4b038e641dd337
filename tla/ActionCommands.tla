--------------------------- MODULE ActionCommands ---------------------------
(***************************************************************************)
(* A proposed action on its way: the proposal store and the transactional  *)
(* outbox of analysis-service, the owner's command topic, the owning       *)
(* service that executes a command at most once per receipt, its facts     *)
(* topic, and the receipt that settles the proposal.                       *)
(*                                                                         *)
(* The proposals of one owner are modelled.  loop says which of three      *)
(* loops the owner reads its commands with:                                *)
(*   "shared"     flight- and incident-service: run_consumer_loop, offsets *)
(*                committed by the client, an exception drops the message; *)
(*   "deferring"  baggage-service: the same, but the commands wait in      *)
(*                memory for the first clock tick;                         *)
(*   "dedicated"  passenger-service: a consumer of commands only, which    *)
(*                waits for the clock, retries after an exception and      *)
(*                commits each message when it is handled.                 *)
(*                                                                         *)
(* Every store operation is one transaction under the lock of _lock.       *)
(***************************************************************************)
EXTENDS Integers, Sequences, FiniteSets

CONSTANTS
  Proposal,
  Nobody,         \* no proposal
  Guarded,        \* classify: HUMAN, needs the approval endpoint
  Advisory,       \* action_command knows no command for them
  Raising,        \* of a loop: the commands whose handler always raises
  TargetOf,       \* _key: bottleneck, action type and parameters
  RecOf,          \* recommendation_id
  Loops,          \* the loops an owner may have
  MaxResults,     \* CommandReceipts.max_size
  MaxInFlight,    \* bound: copies of a command between outbox and commit
  MaxFaults       \* bound: crashes, failed queries, lost and unconfirmed messages

Executed == "CommandExecuted"
Rejected == "CommandRejected"
NoResult == "none"

Receipt == [id : Proposal, kind : {Executed, Rejected}]

ASSUME ProposalAssumption ==
  /\ Nobody \notin Proposal
  /\ Guarded \subseteq Proposal
  /\ Advisory \subseteq Guarded      \* an advisory action is never approved by itself
  /\ Raising \in [Loops -> SUBSET Proposal]

ASSUME LoopAssumption == Loops \subseteq {"shared", "deferring", "dedicated"}

ASSUME LimitAssumption ==
  MaxResults \in Nat /\ MaxInFlight \in Nat \ {0} /\ MaxFaults \in Nat

VARIABLES
  loop,           \* the owner's, which never changes
  (* Neo4j, analysis-service *)
  status,         \* of each ActionProposal; "none" before create
  decided,        \* those with a human in decided_by
  due,            \* those whose last attempt is five minutes old
  outbox,         \* the commands of the AnalysisOutbox rows, in order
  (* memory of analysis-service *)
  confirmed,      \* the first row is delivered but not deleted yet
  (* Kafka *)
  queue,          \* copies of the command the owner has not fetched
  uncommitted,    \* copies fetched whose offset is not committed
  events,         \* the receipts on the owner's facts topic
  (* memory of the owner *)
  clock,          \* a SimClockTick has been seen
  batch,          \* copies fetched and not yet handled
  pc, cur,        \* CommandReceipts.handle and the command it handles
  result,         \* its local variable receipt
  results,        \* CommandReceipts.results, oldest first
  outgoing,       \* receipts in the producer's buffer
  (* Neo4j, owner *)
  stored,         \* CommandReceipt nodes
  applied,        \* how often the command changed the owner's state
  (* bound *)
  faults

analysis == <<status, decided, due, outbox, confirmed>>
kafka    == <<queue, uncommitted, events>>
handling == <<pc, cur, result>>
owner    == <<loop, clock, batch, handling, results, outgoing, stored, applied>>
vars     == <<analysis, kafka, owner, faults>>

NoCopies == [p \in Proposal |-> 0]

Init ==
  /\ loop \in Loops
  /\ status = [p \in Proposal |-> "none"]
  /\ decided = {} /\ due = {}
  /\ outbox = <<>> /\ confirmed = FALSE
  /\ queue = NoCopies /\ uncommitted = NoCopies /\ events = {}
  /\ clock = FALSE /\ batch = NoCopies
  /\ pc = "idle" /\ cur = Nobody /\ result = NoResult
  /\ results = <<>> /\ outgoing = {}
  /\ stored = [p \in Proposal |-> NoResult]
  /\ applied = [p \in Proposal |-> 0]
  /\ faults = 0

Fault == faults < MaxFaults /\ faults' = faults + 1

Active == {"pending", "approved", "dispatched"}

InFlight(p) ==
  Cardinality({n \in DOMAIN outbox : outbox[n] = p}) + queue[p] + batch[p] + uncommitted[p]
-----------------------------------------------------------------------------
(* The proposal store. *)

(* create: no second active proposal for a target, no second one of a      *)
(* recommendation unless the first failed or was rejected.                 *)
DuplicateRec(p) ==                                          \* mutant of Duplicate
  \E q \in Proposal : RecOf[q] = RecOf[p] /\ status[q] \notin {"none", "failed", "rejected"}

Duplicate(p) ==
  \E q \in Proposal :
    \/ TargetOf[q] = TargetOf[p] /\ status[q] \in Active
    \/ RecOf[q] = RecOf[p] /\ status[q] \notin {"none", "failed", "rejected"}

CreateApproved(p) ==                                        \* mutant of Create
  /\ status[p] = "none" /\ ~Duplicate(p)
  /\ status' = [status EXCEPT ![p] = "approved"]
  /\ UNCHANGED <<decided, due, outbox, confirmed, kafka, owner, faults>>

Create(p) ==
  /\ status[p] = "none" /\ ~Duplicate(p)
  /\ status' = [status EXCEPT ![p] = IF p \in Guarded THEN "pending" ELSE "approved"]
  /\ UNCHANGED <<decided, due, outbox, confirmed, kafka, owner, faults>>

(* dispatch: the status, the attempt and the command commit together. *)
Send(p) ==
  /\ p \notin Advisory /\ InFlight(p) < MaxInFlight
  /\ status' = [status EXCEPT ![p] = "dispatched"]
  /\ due' = due \ {p}
  /\ outbox' = Append(outbox, p)
  /\ UNCHANGED <<confirmed, kafka, owner, faults>>

(* The approval endpoint, of a pending proposal. *)
Approve(p) ==
  /\ status[p] = "pending"
  /\ decided' = decided \cup {p}
  /\ Send(p)

(* The tick's loop, the Apply endpoint, and a repeated approval: the first *)
(* attempt, and another one every five simulated minutes.                  *)
Dispatch(p) ==
  /\ status[p] = "approved" \/ (status[p] = "dispatched" /\ p \in due)
  /\ UNCHANGED decided
  /\ Send(p)

Reject(p) ==
  /\ status[p] = "pending"
  /\ status' = [status EXCEPT ![p] = "rejected"]
  /\ decided' = decided \cup {p}
  /\ UNCHANGED <<due, outbox, confirmed, kafka, owner, faults>>

(* The simulated clock moves on by five minutes. *)
FiveMinutes ==
  /\ due' = { p \in Proposal : status[p] = "dispatched" }
  /\ UNCHANGED <<status, decided, outbox, confirmed, kafka, owner, faults>>

(* receipt: only a dispatched proposal is settled. *)
SettleAsExecuted(r) ==                                      \* mutant of Settle
  /\ r \in events /\ status[r.id] = "dispatched"
  /\ status' = [status EXCEPT ![r.id] = "executed"]
  /\ due' = due \ {r.id}
  /\ UNCHANGED <<decided, outbox, confirmed, kafka, owner, faults>>

Settle(r) ==
  /\ r \in events /\ status[r.id] = "dispatched"
  /\ status' = [status EXCEPT ![r.id] = IF r.kind = Executed THEN "executed" ELSE "failed"]
  /\ due' = due \ {r.id}
  /\ UNCHANGED <<decided, outbox, confirmed, kafka, owner, faults>>
-----------------------------------------------------------------------------
(* The outbox worker: publish_pending. *)

Publish ==
  /\ outbox # <<>> /\ ~confirmed
  /\ queue' = [queue EXCEPT ![Head(outbox)] = @ + 1]
  /\ confirmed' = TRUE
  /\ UNCHANGED <<status, decided, due, outbox, uncommitted, events, owner, faults>>

DeleteRow ==
  /\ confirmed
  /\ outbox' = Tail(outbox) /\ confirmed' = FALSE
  /\ UNCHANGED <<status, decided, due, kafka, owner, faults>>

(* The broker took the message but did not confirm it in time. *)
PublishUnconfirmed ==
  /\ Fault
  /\ outbox # <<>> /\ ~confirmed
  /\ queue' = [queue EXCEPT ![Head(outbox)] = @ + 1]
  /\ UNCHANGED <<analysis, uncommitted, events, owner>>

(* analysis-service crashes, or its query fails, before the row is deleted. *)
PublisherCrash ==
  /\ Fault
  /\ confirmed /\ confirmed' = FALSE
  /\ UNCHANGED <<status, decided, due, outbox, kafka, owner>>
-----------------------------------------------------------------------------
(* The owner's consumer. *)

Copies(b)  == { p \in Proposal : b[p] > 0 }
EmptyBatch == Copies(batch) = {}

Dedicated == loop = "dedicated"

(* consumer.consume, or consumer.poll: one message. *)
Fetch ==
  /\ pc = "idle"
  /\ EmptyBatch \/ (loop = "deferring" /\ ~clock)
  /\ \E n \in [Proposal -> 0..MaxInFlight + MaxFaults] :
       /\ Copies(n) # {}
       /\ \A p \in Proposal : n[p] <= queue[p]
       /\ Dedicated => \E p \in Proposal : n = [NoCopies EXCEPT ![p] = 1]
       /\ queue' = [p \in Proposal |-> queue[p] - n[p]]
       /\ batch' = [p \in Proposal |-> batch[p] + n[p]]
       /\ uncommitted' = [p \in Proposal |-> uncommitted[p] + n[p]]
  /\ UNCHANGED <<analysis, loop, events, clock, handling, results, outgoing, stored, applied, faults>>

(* enable.auto.commit: whatever was handed over counts as consumed. *)
AutoCommit ==
  /\ ~Dedicated /\ Copies(uncommitted) # {}
  /\ uncommitted' = NoCopies
  /\ UNCHANGED <<analysis, loop, queue, events, owner, faults>>

(* The first SimClockTick.  A shared loop dispatches it after the commands *)
(* of its batch, baggage-service looks at it first.                        *)
Tick ==
  /\ ~clock /\ clock' = TRUE
  /\ ~Dedicated => pc = "idle"
  /\ loop = "shared" => EmptyBatch
  /\ UNCHANGED <<analysis, loop, kafka, batch, handling, results, outgoing, stored, applied, faults>>

Handle(at, p, r) == pc' = at /\ cur' = p /\ result' = r

Known(p) == { n \in DOMAIN results : results[n].id = p }

(* handle, up to its first await: without a clock it raises. *)
TakeCommand(p) ==
  /\ pc = "idle" /\ batch[p] > 0
  /\ batch' = [batch EXCEPT ![p] = @ - 1]
  /\ \/ ~clock /\ loop = "shared" /\ UNCHANGED handling
     \/ clock /\ Known(p) = {} /\ Handle("load", p, NoResult)
     \/ clock /\ \E n \in Known(p) : Handle("reply", p, results[n].kind)
  /\ UNCHANGED <<analysis, loop, kafka, clock, results, outgoing, stored, applied, faults>>

LoadForgotten ==                                            \* mutant of Load
  /\ pc = "load"
  /\ Handle("execute", cur, NoResult)
  /\ UNCHANGED <<analysis, loop, kafka, clock, batch, results, outgoing, stored, applied, faults>>

Load ==
  /\ pc = "load"
  /\ Handle(IF stored[cur] = NoResult THEN "execute" ELSE "reply", cur, stored[cur])
  /\ UNCHANGED <<analysis, loop, kafka, clock, batch, results, outgoing, stored, applied, faults>>

(* GroundDelayProgram at flight-service, RebookPassengers of a passenger    *)
(* who exists at passenger-service: neither handler can be called as it is. *)
Raises(p) == p \in Raising[loop]

(* _execute_command: a precondition fails, or the owner's state changes. *)
Execute ==
  /\ pc = "execute" /\ ~Raises(cur)
  /\ \/ Handle("save", cur, Rejected) /\ UNCHANGED applied
     \/ Handle("save", cur, Executed) /\ applied' = [applied EXCEPT ![cur] = @ + 1]
  /\ UNCHANGED <<analysis, loop, kafka, clock, batch, results, outgoing, stored, faults>>

SaveForgotten ==                                            \* mutant of Save
  /\ pc = "save"
  /\ Handle("reply", cur, result)
  /\ UNCHANGED <<analysis, loop, kafka, clock, batch, results, outgoing, stored, applied, faults>>

Save ==
  /\ pc = "save"
  /\ stored' = [stored EXCEPT ![cur] = result]
  /\ Handle("reply", cur, result)
  /\ UNCHANGED <<analysis, loop, kafka, clock, batch, results, outgoing, applied, faults>>

(* The result is remembered, the oldest forgotten, the receipt produced. *)
Remembered ==
  LET known == IF Known(cur) # {} THEN results
               ELSE Append(results, [id |-> cur, kind |-> result])
  IN  IF Len(known) > MaxResults THEN Tail(known) ELSE known

ReplyOnce ==                                                \* mutant of Reply
  /\ pc = "reply"
  /\ results' = Remembered
  /\ outgoing' = outgoing \cup { r \in {[id |-> cur, kind |-> result]} : Known(cur) = {} }
  /\ IF Dedicated THEN Handle("commit", cur, NoResult) ELSE Handle("idle", Nobody, NoResult)
  /\ UNCHANGED <<analysis, loop, kafka, clock, batch, stored, applied, faults>>

Reply ==
  /\ pc = "reply"
  /\ results' = Remembered
  /\ outgoing' = outgoing \cup {[id |-> cur, kind |-> result]}
  /\ IF Dedicated THEN Handle("commit", cur, NoResult) ELSE Handle("idle", Nobody, NoResult)
  /\ UNCHANGED <<analysis, loop, kafka, clock, batch, stored, applied, faults>>

Commit ==
  /\ pc = "commit"
  /\ uncommitted' = [uncommitted EXCEPT ![cur] = 0]
  /\ Handle("idle", Nobody, NoResult)
  /\ UNCHANGED <<analysis, loop, queue, events, clock, batch, results, outgoing, stored, applied, faults>>

(* What an exception does: the dedicated loop handles the command again,   *)
(* the others log it and go on with the next message.                      *)
GiveUp == IF Dedicated THEN Handle("load", cur, NoResult) ELSE Handle("idle", Nobody, NoResult)

Raise ==
  /\ pc = "execute" /\ Raises(cur)
  /\ GiveUp
  /\ UNCHANGED <<analysis, loop, kafka, clock, batch, results, outgoing, stored, applied, faults>>

(* A query fails: before the effect, or after it and before the receipt. *)
QueryFails ==
  /\ Fault
  /\ pc \in {"load", "execute", "save"}
  /\ GiveUp
  /\ UNCHANGED <<analysis, loop, kafka, clock, batch, results, outgoing, stored, applied>>

Deliver(r) ==
  /\ r \in outgoing
  /\ outgoing' = outgoing \ {r} /\ events' = events \cup {r}
  /\ UNCHANGED <<analysis, loop, queue, uncommitted, clock, batch, handling, results, stored, applied, faults>>

(* produce gives up; the delivery report only logs it. *)
Lose(r) ==
  /\ Fault
  /\ r \in outgoing /\ outgoing' = outgoing \ {r}
  /\ UNCHANGED <<analysis, loop, kafka, clock, batch, handling, results, stored, applied>>

(* The owner crashes: its memory is gone, the uncommitted copies come back. *)
OwnerCrash ==
  /\ Fault
  /\ queue' = [p \in Proposal |-> queue[p] + uncommitted[p]]
  /\ uncommitted' = NoCopies
  /\ clock' = FALSE /\ batch' = NoCopies
  /\ Handle("idle", Nobody, NoResult)
  /\ results' = <<>> /\ outgoing' = {}
  /\ UNCHANGED <<analysis, loop, events, stored, applied>>
-----------------------------------------------------------------------------
Owner == \/ Fetch \/ AutoCommit \/ Tick
         \/ \E p \in Proposal : TakeCommand(p)
         \/ Load \/ Execute \/ Save \/ Reply \/ Commit \/ Raise

Next ==
  \/ \E p \in Proposal : Create(p) \/ Approve(p) \/ Dispatch(p) \/ Reject(p)
  \/ FiveMinutes
  \/ Publish \/ DeleteRow
  \/ Owner
  \/ \E r \in outgoing : Deliver(r)
  \/ \E r \in events : Settle(r)
  \/ PublishUnconfirmed \/ PublisherCrash \/ QueryFails \/ OwnerCrash
  \/ \E r \in outgoing : Lose(r)

Spec == Init /\ [][Next]_vars

(***************************************************************************)
(* The event loops run, the clock ticks, the tick's loop comes to every    *)
(* proposal, and Kafka delivers: every partition, sooner or later, and the *)
(* ticks between the batches of commands.  Nothing obliges an operator.    *)
(***************************************************************************)
FetchOf(p) == Fetch /\ queue'[p] < queue[p]

Fairness ==
  /\ \A p \in Proposal : /\ WF_vars(Dispatch(p)) /\ WF_vars(TakeCommand(p))
                         /\ SF_vars(FetchOf(p))
  /\ WF_vars(FiveMinutes)
  /\ WF_vars(Publish) /\ WF_vars(DeleteRow)
  /\ WF_vars(AutoCommit) /\ SF_vars(Tick)
  /\ WF_vars(Load) /\ WF_vars(Execute) /\ WF_vars(Save) /\ WF_vars(Reply) /\ WF_vars(Commit)
  /\ WF_vars(Raise)
  /\ \A r \in Receipt : WF_vars(Deliver(r)) /\ WF_vars(Settle(r))

FairSpec == Spec /\ Fairness
-----------------------------------------------------------------------------
(* Properties *)

Result == {NoResult, Executed, Rejected}
Pc     == {"idle", "load", "execute", "save", "reply", "commit"}

StoreTyped ==
  /\ status \in [Proposal -> Active \cup {"none", "executed", "failed", "rejected"}]
  /\ decided \in SUBSET Proposal
  /\ due \in SUBSET Proposal /\ \A p \in due : status[p] = "dispatched"
  /\ outbox \in Seq(Proposal)
  /\ confirmed \in BOOLEAN /\ (confirmed => outbox # <<>>)

CopiesTyped ==
  /\ queue \in [Proposal -> Nat]
  /\ uncommitted \in [Proposal -> Nat]
  /\ batch \in [Proposal -> Nat]

HandlerTyped ==
  /\ loop \in Loops
  /\ clock \in BOOLEAN
  /\ pc \in Pc
  /\ cur \in Proposal \cup {Nobody}
  /\ (cur = Nobody) <=> (pc = "idle")
  /\ result \in Result

ReceiptsTyped ==
  /\ events \in SUBSET Receipt /\ outgoing \in SUBSET Receipt
  /\ results \in Seq(Receipt) /\ Len(results) <= MaxResults
  /\ stored \in [Proposal -> Result]
  /\ applied \in [Proposal -> Nat]
  /\ faults \in 0..MaxFaults

(* Every variable has its type; the owner works on a command exactly when   *)
(* it is not idle; the remembered receipts stay within their bound; only a  *)
(* dispatched proposal waits for another attempt (`_due`).                  *)
TypeOK == StoreTyped /\ CopiesTyped /\ HandlerTyped /\ ReceiptsTyped

Started == {"dispatched", "executed", "failed"}

(* No action without its authorisation: nothing of a proposal is on its way *)
(* to the owner, or has been done there, unless it was dispatched, and a    *)
(* guarded one was dispatched by a human (SPEC.md: Safety guarded actions   *)
(* always need the approval endpoint).                                      *)
Authorised ==
  \A p \in Proposal :
    \/ InFlight(p) > 0 \/ cur = p \/ applied[p] > 0 \/ stored[p] # NoResult
    => status[p] \in Started /\ (p \in Guarded => p \in decided)

(* A proposal is settled by what the owner recorded and nothing else: it is *)
(* executed only if the owner's state changed, whatever was lost, repeated  *)
(* or answered late on the way, and all receipts of a command agree.        *)
SettledByReceipt ==
  /\ \A p \in Proposal :
       /\ status[p] = "executed" => stored[p] = Executed /\ applied[p] > 0
       /\ status[p] = "failed"   => stored[p] = Rejected
  /\ \A r \in events \cup outgoing : stored[r.id] = r.kind

(* Redelivery, retries every five minutes and republication never repeat an *)
(* effect; only a fault between the effect and the saved receipt does, once *)
(* each.  Without one, a failed proposal had no effect.                     *)
AtMostOnce ==
  \A p \in Proposal :
    /\ applied[p] <= 1 + faults
    /\ faults = 0 /\ status[p] = "failed" => applied[p] = 0

(* Two proposals with one target do not work against each other: an action  *)
(* takes effect only while its proposal waits for it and no other proposal  *)
(* of that target is active -- late copies of a settled command included.   *)
NoLateEffect ==
  [][\A p \in Proposal : applied'[p] # applied[p] =>
       /\ status[p] = "dispatched"
       /\ \A q \in Proposal \ {p} : TargetOf[q] = TargetOf[p] => status[q] \notin Active]_vars

(* The promise: every behaviour is one of ActionLifecycle.                  *)
Promise == INSTANCE ActionLifecycle WITH effects <- applied

ImplementsActionLifecycle == Promise!Spec

(* Every dispatched action is eventually confirmed or failed: no loss, late *)
(* clock, crash or failing neighbour leaves it dispatched for ever.         *)
Settled(p) == status[p] \in {"executed", "failed"}

Settles == \A p \in Proposal : (status[p] = "dispatched" /\ ~Raises(p)) ~> Settled(p)
=============================================================================
