------------------------ MODULE ActionCommands_proofs ------------------------
(***************************************************************************)
(* What ActionCommands guarantees for any proposals, owner, limits and     *)
(* number of faults.                                                       *)
(*                                                                         *)
(* TypeOK is inductive by itself.  The other properties follow from IInv:  *)
(* wherever a trace of a command is left, its proposal was dispatched; a   *)
(* receipt, in memory, on its way or delivered, repeats the stored one; a  *)
(* command is executed only while no receipt is stored; and each execution *)
(* beyond the recorded one is paid for by a fault.                         *)
(***************************************************************************)
EXTENDS ActionCommands, TLAPS, FiniteSetTheorems

(* Some trace of the command exists outside analysis-service's documents.  *)
InOutbox(p) == \E n \in DOMAIN outbox : outbox[n] = p

Trace(p) == \/ InOutbox(p) \/ queue[p] > 0 \/ batch[p] > 0 \/ uncommitted[p] > 0
            \/ cur = p \/ applied[p] > 0 \/ stored[p] # NoResult

TracesStarted == \A p \in Proposal : Trace(p) => status[p] \in Started

GuardedDecided ==
  \A p \in Guarded : status[p] # "approved" /\ (status[p] \in Started => p \in decided)

(* Every receipt that is about repeats the stored one. *)
Receipts == events \cup outgoing \cup { results[n] : n \in DOMAIN results }

ReceiptsAgree == \A r \in Receipts : stored[r.id] = r.kind

SettledStored ==
  \A p \in Proposal : /\ status[p] = "executed" => stored[p] = Executed
                      /\ status[p] = "failed"   => stored[p] = Rejected

StoredApplied == \A p \in Proposal : stored[p] = Executed => applied[p] > 0

(* What handle knows at each of its steps. *)
HandlerKnows ==
  /\ pc \in {"execute", "save"} => stored[cur] = NoResult
  /\ pc = "save"  => result # NoResult /\ (result = Executed => applied[cur] > 0)
  /\ pc = "reply" => result # NoResult /\ stored[cur] = result

Done(p) == stored[p] = Executed \/ (cur = p /\ pc = "save" /\ result = Executed)

FaultsPay == \A p \in Proposal : applied[p] <= faults + (IF Done(p) THEN 1 ELSE 0)

OneActive ==
  \A p, q \in Proposal :
    p # q /\ TargetOf[p] = TargetOf[q] /\ status[p] \in Active => status[q] \notin Active

IInv == /\ TypeOK /\ TracesStarted /\ GuardedDecided /\ ReceiptsAgree
        /\ SettledStored /\ StoredApplied /\ HandlerKnows /\ FaultsPay /\ OneActive
-----------------------------------------------------------------------------
(* The elements of a sequence that grew at its end or lost its head. *)

LEMMA AppendElements ==
  ASSUME NEW S, NEW s \in Seq(S), NEW x \in S, NEW n \in DOMAIN Append(s, x)
  PROVE  (n \in DOMAIN s /\ Append(s, x)[n] = s[n]) \/ Append(s, x)[n] = x
  OBVIOUS

LEMMA TailElements ==
  ASSUME NEW S, NEW s \in Seq(S), s # <<>>, NEW n \in DOMAIN Tail(s)
  PROVE  n + 1 \in DOMAIN s /\ Tail(s)[n] = s[n + 1]
  OBVIOUS
-----------------------------------------------------------------------------
(* Type correctness, part by part. *)

LEMMA InitTypeOK == Init => TypeOK
<1> SUFFICES ASSUME Init PROVE TypeOK
  OBVIOUS
<1> USE ProposalAssumption, LimitAssumption DEF Init
<1>1. StoreTyped
  <2>1. outbox \in Seq(Proposal)
    OBVIOUS
  <2>2. confirmed \in BOOLEAN /\ ~confirmed
    OBVIOUS
  <2> QED
    BY <2>1, <2>2 DEF StoreTyped
<1>2. CopiesTyped
  BY DEF CopiesTyped, NoCopies
<1>3. HandlerTyped
  BY DEF HandlerTyped, Pc, Result
<1>4. ReceiptsTyped
  BY DEF ReceiptsTyped, Result
<1> QED
  BY <1>1, <1>2, <1>3, <1>4 DEF TypeOK

(* The steps of the store: all others leave it alone. *)
LEMMA StoreStep == StoreTyped /\ TypeOK /\ [Next]_vars => StoreTyped'
<1> SUFFICES ASSUME StoreTyped, TypeOK, [Next]_vars PROVE StoreTyped'
  OBVIOUS
<1>1. ASSUME NEW p \in Proposal, Create(p) \/ Reject(p) PROVE StoreTyped'
  BY <1>1 DEF Create, Reject, StoreTyped, Active
<1>2. ASSUME NEW p \in Proposal, Send(p), decided' \in SUBSET Proposal PROVE StoreTyped'
  <2>1. outbox' \in Seq(Proposal) /\ outbox' # <<>>
    BY <1>2 DEF Send, StoreTyped
  <2> QED
    BY <1>2, <2>1 DEF Send, StoreTyped, Active
<1>3. ASSUME NEW p \in Proposal, Approve(p) \/ Dispatch(p) PROVE StoreTyped'
  BY <1>2, <1>3 DEF Approve, Dispatch, StoreTyped
<1>4. CASE FiveMinutes
  BY <1>4 DEF FiveMinutes, StoreTyped
<1>5. ASSUME NEW r \in events, Settle(r) PROVE StoreTyped'
  <2>1. r.id \in Proposal
    BY DEF TypeOK, ReceiptsTyped, Receipt
  <2> QED
    BY <1>5, <2>1 DEF Settle, StoreTyped
<1>6. CASE Publish
  BY <1>6 DEF Publish, StoreTyped
<1>7. CASE DeleteRow
  <2>1. outbox' \in Seq(Proposal)
    BY <1>7 DEF DeleteRow, StoreTyped
  <2>2. confirmed' \in BOOLEAN /\ ~confirmed'
    BY <1>7 DEF DeleteRow
  <2> QED
    BY <1>7, <2>1, <2>2 DEF DeleteRow, StoreTyped
<1>8. CASE PublisherCrash
  BY <1>8 DEF PublisherCrash, StoreTyped
<1>9. ASSUME UNCHANGED analysis PROVE StoreTyped'
  BY <1>9 DEF analysis, StoreTyped
<1>10. CASE Owner
  BY <1>9, <1>10 DEF Owner, Fetch, AutoCommit, Tick, TakeCommand, Load, Execute, Save, Reply,
                     Commit, Raise
<1>11. CASE PublishUnconfirmed \/ QueryFails \/ OwnerCrash \/ UNCHANGED vars
  BY <1>9, <1>11 DEF PublishUnconfirmed, QueryFails, OwnerCrash, vars
<1>12. ASSUME NEW r \in outgoing, Deliver(r) \/ Lose(r) PROVE StoreTyped'
  BY <1>9, <1>12 DEF Deliver, Lose
<1> QED
  BY <1>1, <1>3, <1>4, <1>5, <1>6, <1>7, <1>8, <1>10, <1>11, <1>12 DEF Next

(* The copies of a command stay natural numbers: whoever takes one away    *)
(* has looked at the number before.                                        *)
LEMMA CopiesStep == TypeOK /\ [Next]_vars => CopiesTyped'
<1> SUFFICES ASSUME TypeOK, [Next]_vars PROVE CopiesTyped'
  OBVIOUS
<1> USE DEF TypeOK, CopiesTyped
<1>1. ASSUME outbox # <<>>, queue' = [queue EXCEPT ![Head(outbox)] = @ + 1],
             UNCHANGED <<uncommitted, batch>>
      PROVE  CopiesTyped'
  <2>1. Head(outbox) \in Proposal
    BY <1>1 DEF StoreTyped
  <2> QED
    BY <1>1, <2>1
<1>2. CASE Publish \/ PublishUnconfirmed
  BY <1>1, <1>2 DEF Publish, PublishUnconfirmed, owner
<1>3. CASE Fetch
  <2>1. PICK n \in [Proposal -> 0..MaxInFlight + MaxFaults] :
          /\ \A p \in Proposal : n[p] <= queue[p]
          /\ queue' = [p \in Proposal |-> queue[p] - n[p]]
          /\ batch' = [p \in Proposal |-> batch[p] + n[p]]
          /\ uncommitted' = [p \in Proposal |-> uncommitted[p] + n[p]]
    BY <1>3 DEF Fetch
  <2>2. \A p \in Proposal : n[p] \in Nat
    BY LimitAssumption
  <2> QED
    BY <2>1, <2>2
<1>4. CASE AutoCommit
  BY <1>4 DEF AutoCommit, NoCopies, owner
<1>5. ASSUME NEW p \in Proposal, TakeCommand(p) PROVE CopiesTyped'
  BY <1>5 DEF TakeCommand, kafka
<1>6. CASE Commit
  BY <1>6 DEF Commit
<1>7. CASE OwnerCrash
  BY <1>7 DEF OwnerCrash, NoCopies
<1>8. ASSUME UNCHANGED <<queue, uncommitted, batch>> PROVE CopiesTyped'
  BY <1>8
<1>9. ASSUME NEW p \in Proposal, Create(p) \/ Approve(p) \/ Dispatch(p) \/ Reject(p) PROVE CopiesTyped'
  BY <1>8, <1>9 DEF Create, Approve, Dispatch, Reject, Send, kafka, owner
<1>10. ASSUME NEW r \in Receipt, Deliver(r) \/ Settle(r) \/ Lose(r) PROVE CopiesTyped'
  BY <1>8, <1>10 DEF Deliver, Settle, Lose, kafka, owner
<1>11. CASE FiveMinutes \/ DeleteRow \/ PublisherCrash \/ UNCHANGED vars
  BY <1>8, <1>11 DEF FiveMinutes, DeleteRow, PublisherCrash, kafka, owner, vars
<1>12. CASE Tick \/ Load \/ Execute \/ Save \/ Reply \/ Raise \/ QueryFails
  BY <1>8, <1>12 DEF Tick, Load, Execute, Save, Reply, Raise, QueryFails, kafka
<1> QED
  BY <1>2, <1>3, <1>4, <1>5, <1>6, <1>7, <1>9, <1>10, <1>11, <1>12
  DEF Next, Owner, ReceiptsTyped

LEMMA HandlerStep == TypeOK /\ [Next]_vars => HandlerTyped'
<1> SUFFICES ASSUME TypeOK, [Next]_vars PROVE HandlerTyped'
  OBVIOUS
<1> USE ProposalAssumption DEF TypeOK, HandlerTyped, Pc, Result
<1>1. ASSUME NEW p \in Proposal, NEW at \in Pc \ {"idle"}, NEW x \in Result,
             Handle(at, p, x), UNCHANGED <<loop, clock>>
      PROVE  HandlerTyped'
  BY <1>1 DEF Handle
<1>2. ASSUME Handle("idle", Nobody, NoResult), UNCHANGED loop, clock' \in BOOLEAN
      PROVE  HandlerTyped'
  BY <1>2 DEF Handle
<1>3. ASSUME UNCHANGED <<loop, handling>>, clock' \in BOOLEAN PROVE HandlerTyped'
  BY <1>3 DEF handling
<1>4. ASSUME NEW p \in Proposal, TakeCommand(p) PROVE HandlerTyped'
  <2>1. CASE UNCHANGED handling
    BY <1>3, <1>4, <2>1 DEF TakeCommand
  <2>2. CASE Handle("load", p, NoResult)
    BY <1>1, <1>4, <2>2 DEF TakeCommand
  <2>3. ASSUME NEW n \in Known(p), Handle("reply", p, results[n].kind) PROVE HandlerTyped'
    <3>1. results[n] \in Receipt
      BY DEF Known, ReceiptsTyped
    <3>2. results[n].kind \in Result
      BY <3>1 DEF Receipt
    <3> QED
      BY <1>1, <1>4, <2>3, <3>2 DEF TakeCommand
  <2> QED
    BY <1>4, <2>1, <2>2, <2>3 DEF TakeCommand
<1>5. CASE Load
  <2>1. cur \in Proposal /\ stored[cur] \in Result
    BY <1>5 DEF Load, ReceiptsTyped
  <2> QED
    BY <1>1, <1>5, <2>1 DEF Load
<1>6. CASE Execute \/ Save
  BY <1>1, <1>6 DEF Execute, Save
<1>7. CASE Reply
  BY <1>1, <1>2, <1>7 DEF Reply
<1>8. CASE Commit \/ OwnerCrash
  BY <1>2, <1>8 DEF Commit, OwnerCrash
<1>9. CASE Raise \/ QueryFails
  BY <1>1, <1>2, <1>9 DEF Raise, QueryFails, GiveUp
<1>10. CASE Fetch \/ AutoCommit \/ Tick
  BY <1>3, <1>10 DEF Fetch, AutoCommit, Tick, owner
<1>11. ASSUME NEW p \in Proposal, Create(p) \/ Approve(p) \/ Dispatch(p) \/ Reject(p) PROVE HandlerTyped'
  BY <1>3, <1>11 DEF Create, Approve, Dispatch, Reject, Send, owner
<1>12. ASSUME NEW r \in Receipt, Deliver(r) \/ Settle(r) \/ Lose(r) PROVE HandlerTyped'
  BY <1>3, <1>12 DEF Deliver, Settle, Lose, owner
<1>13. CASE FiveMinutes \/ Publish \/ DeleteRow \/ PublishUnconfirmed \/ PublisherCrash \/ UNCHANGED vars
  BY <1>3, <1>13 DEF FiveMinutes, Publish, DeleteRow, PublishUnconfirmed, PublisherCrash, owner, vars
<1> QED
  BY <1>4, <1>5, <1>6, <1>7, <1>8, <1>9, <1>10, <1>11, <1>12, <1>13
  DEF Next, Owner, ReceiptsTyped

(* What is remembered after a reply: the cache, within its bound, with at  *)
(* most one receipt more.                                                  *)
LEMMA RememberedTyped ==
  ASSUME TypeOK, pc = "reply", result # NoResult
  PROVE  Remembered \in Seq(Receipt) /\ Len(Remembered) <= MaxResults
<1> DEFINE r     == [id |-> cur, kind |-> result]
           known == IF Known(cur) # {} THEN results ELSE Append(results, r)
<1>1. r \in Receipt
  BY ProposalAssumption DEF TypeOK, HandlerTyped, Receipt, Result
<1>2. known \in Seq(Receipt) /\ Len(known) \in Nat /\ Len(known) <= MaxResults + 1
  BY <1>1, LimitAssumption DEF TypeOK, ReceiptsTyped
<1>3. Len(known) > MaxResults => /\ Tail(known) \in Seq(Receipt)
                                 /\ Len(Tail(known)) = Len(known) - 1
  BY <1>2, LimitAssumption
<1> HIDE DEF known
<1> QED
  BY <1>2, <1>3, LimitAssumption DEF Remembered, known

LEMMA ReceiptsStep ==
  TypeOK /\ (pc = "reply" => result # NoResult) /\ [Next]_vars => ReceiptsTyped'
<1> SUFFICES ASSUME TypeOK, pc = "reply" => result # NoResult, [Next]_vars
             PROVE  ReceiptsTyped'
  OBVIOUS
<1> USE DEF TypeOK, ReceiptsTyped
<1> DEFINE unchanged == <<events, outgoing, results, stored, applied>>
<1>1. ASSUME UNCHANGED unchanged, UNCHANGED faults \/ Fault PROVE ReceiptsTyped'
  BY <1>1, LimitAssumption DEF Fault
<1>2. CASE Execute
  <2>1. applied' \in [Proposal -> Nat]
    BY <1>2 DEF Execute
  <2> QED
    BY <1>2, <2>1 DEF Execute, kafka
<1>3. CASE Save
  <2>1. cur \in Proposal /\ result \in Result
    BY <1>3 DEF Save, HandlerTyped
  <2> QED
    BY <1>3, <2>1 DEF Save, kafka
<1>4. CASE Reply
  <2>1. [id |-> cur, kind |-> result] \in Receipt
    BY <1>4, ProposalAssumption DEF Reply, HandlerTyped, Receipt, Result
  <2>2. results' \in Seq(Receipt) /\ Len(results') <= MaxResults
    BY <1>4, RememberedTyped DEF Reply
  <2> QED
    BY <1>4, <2>1, <2>2 DEF Reply, kafka
<1>5. ASSUME NEW r \in outgoing, Deliver(r) \/ Lose(r) PROVE ReceiptsTyped'
  BY <1>5, LimitAssumption DEF Deliver, Lose, Fault, kafka
<1>6. CASE OwnerCrash
  <2>1. results' \in Seq(Receipt) /\ Len(results') <= MaxResults
    BY <1>6, LimitAssumption DEF OwnerCrash
  <2> QED
    BY <1>6, <2>1, LimitAssumption DEF OwnerCrash, Fault
<1>7. ASSUME NEW p \in Proposal, Create(p) \/ Approve(p) \/ Dispatch(p) \/ Reject(p) PROVE ReceiptsTyped'
  BY <1>1, <1>7 DEF Create, Approve, Dispatch, Reject, Send, kafka, owner
<1>8. ASSUME NEW r \in events, Settle(r) PROVE ReceiptsTyped'
  BY <1>1, <1>8 DEF Settle, kafka, owner
<1>9. CASE FiveMinutes \/ Publish \/ DeleteRow \/ PublishUnconfirmed \/ PublisherCrash \/ UNCHANGED vars
  BY <1>1, <1>9 DEF FiveMinutes, Publish, DeleteRow, PublishUnconfirmed, PublisherCrash,
                    kafka, owner, vars
<1>10. CASE Fetch \/ AutoCommit \/ Tick \/ Load \/ Commit \/ Raise \/ QueryFails
  BY <1>1, <1>10 DEF Fetch, AutoCommit, Tick, Load, Commit, Raise, QueryFails, kafka, owner
<1>11. ASSUME NEW p \in Proposal, TakeCommand(p) PROVE ReceiptsTyped'
  BY <1>1, <1>11 DEF TakeCommand, kafka
<1> QED
  BY <1>2, <1>3, <1>4, <1>5, <1>6, <1>7, <1>8, <1>9, <1>10, <1>11 DEF Next, Owner
-----------------------------------------------------------------------------
(* The store. *)

(* A step changes the status of a proposal only by an operation on it, and *)
(* never takes a started one back.                                         *)
LEMMA StatusStep ==
  ASSUME TypeOK, [Next]_vars, NEW p \in Proposal
  PROVE  \/ status'[p] = status[p]
         \/ Create(p) \/ Approve(p) \/ Dispatch(p) \/ Reject(p)
         \/ \E r \in events : r.id = p /\ Settle(r)
<1> USE DEF TypeOK, StoreTyped
<1>1. ASSUME NEW q \in Proposal, Create(q) \/ Approve(q) \/ Dispatch(q) \/ Reject(q), q # p
      PROVE  status'[p] = status[p]
  BY <1>1 DEF Create, Approve, Dispatch, Reject, Send
<1>2. ASSUME NEW r \in events, Settle(r), r.id # p PROVE status'[p] = status[p]
  BY <1>2 DEF Settle
<1>3. CASE FiveMinutes \/ Publish \/ DeleteRow \/ PublishUnconfirmed \/ PublisherCrash
             \/ QueryFails \/ OwnerCrash \/ UNCHANGED vars
  BY <1>3 DEF FiveMinutes, Publish, DeleteRow, PublishUnconfirmed, PublisherCrash, QueryFails,
              OwnerCrash, vars, analysis
<1>4. CASE Owner
  BY <1>4 DEF Owner, Fetch, AutoCommit, Tick, TakeCommand, Load, Execute, Save, Reply, Commit,
              Raise, analysis
<1>5. ASSUME NEW r \in outgoing, Deliver(r) \/ Lose(r) PROVE status'[p] = status[p]
  BY <1>5 DEF Deliver, Lose, analysis
<1> QED
  BY <1>1, <1>2, <1>3, <1>4, <1>5 DEF Next

LEMMA StartedStays ==
  ASSUME TypeOK, [Next]_vars, NEW p \in Proposal, status[p] \in Started
  PROVE  status'[p] \in Started
  BY StatusStep DEF Create, Approve, Dispatch, Reject, Send, Settle, Started, TypeOK, StoreTyped

(* decided only grows. *)
LEMMA DecidedStays == TypeOK /\ [Next]_vars => decided \subseteq decided'
<1> SUFFICES ASSUME TypeOK, [Next]_vars PROVE decided \subseteq decided'
  OBVIOUS
<1>1. ASSUME NEW q \in Proposal, Create(q) \/ Approve(q) \/ Dispatch(q) \/ Reject(q)
      PROVE  decided \subseteq decided'
  BY <1>1 DEF Create, Approve, Dispatch, Reject
<1>2. CASE FiveMinutes \/ Publish \/ DeleteRow \/ PublishUnconfirmed \/ PublisherCrash
             \/ QueryFails \/ OwnerCrash \/ UNCHANGED vars
  BY <1>2 DEF FiveMinutes, Publish, DeleteRow, PublishUnconfirmed, PublisherCrash, QueryFails,
              OwnerCrash, vars, analysis
<1>3. CASE Owner
  BY <1>3 DEF Owner, Fetch, AutoCommit, Tick, TakeCommand, Load, Execute, Save, Reply, Commit,
              Raise, analysis
<1>4. ASSUME NEW r \in Receipt, Deliver(r) \/ Lose(r) \/ Settle(r) PROVE decided \subseteq decided'
  BY <1>4 DEF Deliver, Lose, Settle, analysis
<1> QED
  BY <1>1, <1>2, <1>3, <1>4 DEF Next, TypeOK, ReceiptsTyped

LEMMA GuardedStep == IInv /\ [Next]_vars => GuardedDecided'
<1> SUFFICES ASSUME IInv, [Next]_vars, NEW p \in Guarded
             PROVE  status'[p] # "approved" /\ (status'[p] \in Started => p \in decided')
  BY DEF GuardedDecided
<1> USE ProposalAssumption DEF IInv, TypeOK, StoreTyped, GuardedDecided, Started
<1>1. decided \subseteq decided'
  BY DecidedStays
<1>2. CASE status'[p] = status[p]
  BY <1>1, <1>2
<1>3. CASE Create(p)
  BY <1>3 DEF Create
<1>4. CASE Approve(p)
  BY <1>4 DEF Approve, Send
<1>5. CASE Dispatch(p)
  BY <1>1, <1>5 DEF Dispatch, Send
<1>6. CASE Reject(p)
  BY <1>6 DEF Reject
<1>7. ASSUME NEW r \in events, r.id = p, Settle(r)
      PROVE  status'[p] # "approved" /\ (status'[p] \in Started => p \in decided')
  BY <1>1, <1>7 DEF Settle
<1> QED
  BY StatusStep, <1>2, <1>3, <1>4, <1>5, <1>6, <1>7

LEMMA OneActiveStep == IInv /\ [Next]_vars => OneActive'
<1> SUFFICES ASSUME IInv, [Next]_vars PROVE OneActive'
  OBVIOUS
<1> USE DEF IInv, TypeOK, StoreTyped, Active
<1>1. ASSUME NEW p \in Proposal, status'[p] \in Active PROVE status[p] \in Active \/ Create(p)
  BY <1>1, StatusStep DEF Approve, Dispatch, Reject, Send, Settle
<1>2. ASSUME NEW p \in Proposal, Create(p), NEW q \in Proposal, q # p, TargetOf[q] = TargetOf[p]
      PROVE  status'[q] \notin Active
  BY <1>2 DEF Create, Duplicate
<1> QED
  BY <1>1, <1>2 DEF OneActive
-----------------------------------------------------------------------------
(* Traces of a command. *)

(* A trace appears only where one was before, or where the command is sent. *)
LEMMA TraceComes ==
  ASSUME IInv, [Next]_vars, NEW p \in Proposal, Trace(p)'
  PROVE  Trace(p) \/ status'[p] \in Started
<1> USE ProposalAssumption DEF IInv, TypeOK, StoreTyped, CopiesTyped, Trace, InOutbox, Handle
<1>1. ASSUME UNCHANGED <<outbox, kafka, owner>> PROVE Trace(p)
  BY <1>1 DEF kafka, owner, handling
<1>2. ASSUME NEW q \in Proposal, Approve(q) \/ Dispatch(q)
      PROVE  Trace(p) \/ status'[p] \in Started
  <2>1. CASE q = p
    BY <1>2, <2>1 DEF Approve, Dispatch, Send, Started
  <2>2. CASE q # p
    <3>1. outbox' = Append(outbox, q)
      BY <1>2 DEF Approve, Dispatch, Send
    <3>2. InOutbox(p)' => InOutbox(p)
      BY <2>2, <3>1, AppendElements
    <3> QED
      BY <1>2, <3>2 DEF Approve, Dispatch, Send, kafka, owner, handling
  <2> QED
    BY <2>1, <2>2
<1>3. ASSUME NEW q \in Proposal, Create(q) \/ Reject(q) PROVE Trace(p)
  BY <1>1, <1>3 DEF Create, Reject
<1>4. ASSUME NEW r \in events, Settle(r) PROVE Trace(p)
  BY <1>1, <1>4 DEF Settle
<1>5. CASE FiveMinutes \/ PublisherCrash \/ UNCHANGED vars
  BY <1>1, <1>5 DEF FiveMinutes, PublisherCrash, analysis, vars
<1>6. CASE Publish \/ PublishUnconfirmed
  <2>1. outbox # <<>> /\ queue' = [queue EXCEPT ![Head(outbox)] = @ + 1]
    BY <1>6 DEF Publish, PublishUnconfirmed
  <2>2. InOutbox(Head(outbox))
    BY <2>1
  <2> QED
    BY <1>6, <2>1, <2>2 DEF Publish, PublishUnconfirmed, analysis, owner, handling
<1>7. CASE DeleteRow
  <2>1. outbox # <<>> /\ outbox' = Tail(outbox)
    BY <1>7 DEF DeleteRow
  <2>2. InOutbox(p)' => InOutbox(p)
    BY <2>1, TailElements
  <2> QED
    BY <1>7, <2>2 DEF DeleteRow, kafka, owner, handling
<1>8. CASE Fetch
  <2>1. PICK n \in [Proposal -> 0..MaxInFlight + MaxFaults] :
          /\ \A q \in Proposal : n[q] <= queue[q]
          /\ queue' = [q \in Proposal |-> queue[q] - n[q]]
          /\ batch' = [q \in Proposal |-> batch[q] + n[q]]
          /\ uncommitted' = [q \in Proposal |-> uncommitted[q] + n[q]]
    BY <1>8 DEF Fetch
  <2>2. n[p] \in Nat
    BY LimitAssumption
  <2> QED
    BY <1>8, <2>1, <2>2 DEF Fetch, analysis, handling
<1>9. CASE AutoCommit \/ Tick
  BY <1>9 DEF AutoCommit, Tick, NoCopies, analysis, kafka, owner, handling
<1>10. ASSUME NEW q \in Proposal, TakeCommand(q) PROVE Trace(p)
  BY <1>10 DEF TakeCommand, analysis, kafka, handling
<1>11. CASE Load \/ Raise \/ QueryFails
  BY <1>11 DEF Load, Raise, QueryFails, GiveUp, analysis, kafka
<1>12. CASE Execute
  BY <1>12 DEF Execute, ReceiptsTyped, analysis, kafka
<1>13. CASE Save
  BY <1>13 DEF Save, ReceiptsTyped, analysis, kafka
<1>14. CASE Reply \/ Commit
  BY <1>14 DEF Reply, Commit, analysis, kafka
<1>15. ASSUME NEW r \in outgoing, Deliver(r) \/ Lose(r) PROVE Trace(p)
  BY <1>15 DEF Deliver, Lose, analysis, kafka, handling
<1>16. CASE OwnerCrash
  BY <1>16 DEF OwnerCrash, NoCopies, analysis
<1> QED
  BY <1>2, <1>3, <1>4, <1>5, <1>6, <1>7, <1>8, <1>9, <1>10, <1>11, <1>12, <1>13, <1>14,
     <1>15, <1>16 DEF Next, Owner

LEMMA TracesStep == IInv /\ [Next]_vars => TracesStarted'
  BY TraceComes, StartedStays DEF TracesStarted, IInv
-----------------------------------------------------------------------------
(* The receipts. *)

(* The owner stores one receipt of a command, by Save, where none was.     *)
LEMMA StoredStep ==
  ASSUME TypeOK, [Next]_vars
  PROVE  UNCHANGED stored \/ Save
<1>1. ASSUME NEW p \in Proposal,
             Create(p) \/ Approve(p) \/ Dispatch(p) \/ Reject(p) \/ TakeCommand(p)
      PROVE  UNCHANGED stored
  BY <1>1 DEF Create, Approve, Dispatch, Reject, Send, TakeCommand, owner
<1>2. ASSUME NEW r \in Receipt, Deliver(r) \/ Lose(r) \/ Settle(r) PROVE UNCHANGED stored
  BY <1>2 DEF Deliver, Lose, Settle, owner
<1>3. CASE FiveMinutes \/ Publish \/ DeleteRow \/ PublishUnconfirmed \/ PublisherCrash
             \/ QueryFails \/ OwnerCrash \/ UNCHANGED vars
  BY <1>3 DEF FiveMinutes, Publish, DeleteRow, PublishUnconfirmed, PublisherCrash, QueryFails,
              OwnerCrash, vars, owner
<1>4. CASE Fetch \/ AutoCommit \/ Tick \/ Load \/ Execute \/ Reply \/ Commit \/ Raise
  BY <1>4 DEF Fetch, AutoCommit, Tick, Load, Execute, Reply, Commit, Raise, owner
<1> QED
  BY <1>1, <1>2, <1>3, <1>4 DEF Next, Owner, TypeOK, ReceiptsTyped

LEMMA SavedOnce ==
  ASSUME IInv, Save
  PROVE  /\ cur \in Proposal /\ stored[cur] = NoResult /\ stored'[cur] = result
         /\ result \in {Executed, Rejected}
         /\ \A p \in Proposal \ {cur} : stored'[p] = stored[p]
  BY DEF IInv, TypeOK, HandlerTyped, ReceiptsTyped, HandlerKnows, Save, Result

(* The only receipt that is new somewhere is the one that is stored.        *)
LEMMA ReceiptsCome ==
  ASSUME IInv, [Next]_vars, NEW r \in Receipts'
  PROVE  r \in Receipts \/ (Reply /\ r = [id |-> cur, kind |-> result])
<1> USE DEF IInv, TypeOK, ReceiptsTyped, Receipts
<1>1. ASSUME UNCHANGED <<events, outgoing, results>> PROVE r \in Receipts
  BY <1>1
<1>2. ASSUME NEW p \in Proposal,
             Create(p) \/ Approve(p) \/ Dispatch(p) \/ Reject(p) \/ TakeCommand(p)
      PROVE  r \in Receipts
  BY <1>1, <1>2 DEF Create, Approve, Dispatch, Reject, Send, TakeCommand, kafka, owner
<1>3. ASSUME NEW x \in outgoing, Deliver(x) \/ Lose(x) PROVE r \in Receipts
  BY <1>3 DEF Deliver, Lose, kafka
<1>4. ASSUME NEW x \in events, Settle(x) PROVE r \in Receipts
  BY <1>1, <1>4 DEF Settle, kafka, owner
<1>5. CASE FiveMinutes \/ Publish \/ DeleteRow \/ PublishUnconfirmed \/ PublisherCrash
             \/ QueryFails \/ UNCHANGED vars
  BY <1>1, <1>5 DEF FiveMinutes, Publish, DeleteRow, PublishUnconfirmed, PublisherCrash,
                    QueryFails, vars, kafka, owner
<1>6. CASE OwnerCrash
  BY <1>6 DEF OwnerCrash
<1>7. CASE Fetch \/ AutoCommit \/ Tick \/ Load \/ Execute \/ Save \/ Commit \/ Raise
  BY <1>1, <1>7 DEF Fetch, AutoCommit, Tick, Load, Execute, Save, Commit, Raise, kafka, owner
<1>8. CASE Reply
  <2> DEFINE x     == [id |-> cur, kind |-> result]
             known == IF Known(cur) # {} THEN results ELSE Append(results, x)
  <2>1. x \in Receipt
    BY <1>8, ProposalAssumption DEF Reply, HandlerTyped, HandlerKnows, Receipt, Result
  <2>2. known \in Seq(Receipt) /\ \A n \in DOMAIN known : known[n] = x \/ \E k \in DOMAIN results : known[n] = results[k]
    BY <2>1
  <2>3. results' = IF Len(known) > MaxResults THEN Tail(known) ELSE known
    BY <1>8 DEF Reply, Remembered
  <2> HIDE DEF known
  <2>4. Len(known) > 0 => \A n \in DOMAIN Tail(known) : \E k \in DOMAIN known : Tail(known)[n] = known[k]
    <3>1. Len(known) > 0 => known # <<>>
      BY <2>2
    <3> QED
      BY <2>2, <3>1, TailElements
  <2>5. Len(known) > MaxResults => Len(known) > 0
    BY <2>2, LimitAssumption
  <2>6. \A n \in DOMAIN results' : results'[n] = x \/ \E k \in DOMAIN results : results'[n] = results[k]
    <3>1. CASE Len(known) > MaxResults
      <4>1. \A n \in DOMAIN results' : \E k \in DOMAIN known : results'[n] = known[k]
        BY <2>3, <2>4, <2>5, <3>1
      <4> QED
        BY <2>2, <4>1
    <3>2. CASE ~(Len(known) > MaxResults)
      BY <2>2, <2>3, <3>2
    <3> QED
      BY <3>1, <3>2
  <2>7. events' = events /\ outgoing' = outgoing \cup {x}
    BY <1>8 DEF Reply, kafka
  <2> QED
    BY <1>8, <2>6, <2>7
<1> QED
  BY <1>2, <1>3, <1>4, <1>5, <1>6, <1>7, <1>8 DEF Next, Owner

LEMMA ReceiptsAgreeStep == IInv /\ [Next]_vars => ReceiptsAgree'
<1> SUFFICES ASSUME IInv, [Next]_vars, NEW r \in Receipts' PROVE stored'[r.id] = r.kind
  BY DEF ReceiptsAgree
<1>1. ASSUME r \in Receipts PROVE r.id \in Proposal /\ r.kind # NoResult /\ stored[r.id] = r.kind
  <2>1. r \in Receipt
    BY <1>1 DEF IInv, TypeOK, ReceiptsTyped, Receipts
  <2> QED
    BY <1>1, <2>1 DEF Receipt, IInv, ReceiptsAgree, NoResult, Executed, Rejected
<1>2. CASE Reply /\ r = [id |-> cur, kind |-> result]
  BY <1>2 DEF Reply, IInv, HandlerKnows
<1>3. CASE r \in Receipts
  BY <1>1, <1>3, StoredStep, SavedOnce DEF IInv
<1> QED
  BY <1>2, <1>3, ReceiptsCome

LEMMA SettledStep == IInv /\ [Next]_vars => SettledStored'
<1> SUFFICES ASSUME IInv, [Next]_vars, NEW p \in Proposal
             PROVE  /\ status'[p] = "executed" => stored'[p] = Executed
                    /\ status'[p] = "failed"   => stored'[p] = Rejected
  BY DEF SettledStored
<1> USE DEF IInv, TypeOK, StoreTyped
<1>1. stored[p] # NoResult => stored'[p] = stored[p]
  BY StoredStep, SavedOnce
<1>2. Executed # NoResult /\ Rejected # NoResult
  BY DEF Executed, Rejected, NoResult
<1>3. CASE status'[p] = status[p]
  BY <1>1, <1>2, <1>3 DEF SettledStored
<1>4. CASE Create(p) \/ Approve(p) \/ Dispatch(p) \/ Reject(p)
  BY <1>4 DEF Create, Approve, Dispatch, Reject, Send
<1>5. ASSUME NEW r \in events, r.id = p, Settle(r)
      PROVE  /\ status'[p] = "executed" => stored'[p] = Executed
             /\ status'[p] = "failed"   => stored'[p] = Rejected
  <2>1. r \in Receipt /\ stored[p] = r.kind
    BY <1>5 DEF ReceiptsTyped, ReceiptsAgree, Receipts
  <2>2. stored'[p] = stored[p]
    BY <1>1, <1>2, <2>1 DEF Receipt
  <2> QED
    BY <1>2, <1>5, <2>1, <2>2 DEF Settle, Receipt
<1> QED
  BY StatusStep, <1>3, <1>4, <1>5
-----------------------------------------------------------------------------
(* The executions. *)

(* applied changes by Execute only. *)
LEMMA AppliedStep ==
  ASSUME TypeOK, [Next]_vars
  PROVE  UNCHANGED applied \/ Execute
<1>1. ASSUME NEW p \in Proposal,
             Create(p) \/ Approve(p) \/ Dispatch(p) \/ Reject(p) \/ TakeCommand(p)
      PROVE  UNCHANGED applied
  BY <1>1 DEF Create, Approve, Dispatch, Reject, Send, TakeCommand, owner
<1>2. ASSUME NEW r \in Receipt, Deliver(r) \/ Lose(r) \/ Settle(r) PROVE UNCHANGED applied
  BY <1>2 DEF Deliver, Lose, Settle, owner
<1>3. CASE FiveMinutes \/ Publish \/ DeleteRow \/ PublishUnconfirmed \/ PublisherCrash
             \/ QueryFails \/ OwnerCrash \/ UNCHANGED vars
  BY <1>3 DEF FiveMinutes, Publish, DeleteRow, PublishUnconfirmed, PublisherCrash, QueryFails,
              OwnerCrash, vars, owner
<1>4. CASE Fetch \/ AutoCommit \/ Tick \/ Load \/ Save \/ Reply \/ Commit \/ Raise
  BY <1>4 DEF Fetch, AutoCommit, Tick, Load, Save, Reply, Commit, Raise, owner
<1> QED
  BY <1>1, <1>2, <1>3, <1>4 DEF Next, Owner, TypeOK, ReceiptsTyped

LEMMA AppliedGrows ==
  ASSUME TypeOK, [Next]_vars, NEW p \in Proposal
  PROVE  applied'[p] \in Nat /\ applied'[p] >= applied[p]
  BY AppliedStep DEF Execute, TypeOK, ReceiptsTyped

LEMMA StoredAppliedStep == IInv /\ [Next]_vars => StoredApplied'
<1> SUFFICES ASSUME IInv, [Next]_vars, NEW p \in Proposal, stored'[p] = Executed
             PROVE  applied'[p] > 0
  BY DEF StoredApplied
<1>1. applied[p] \in Nat /\ applied'[p] \in Nat /\ applied'[p] >= applied[p]
  BY AppliedGrows DEF IInv, TypeOK, ReceiptsTyped
<1>2. CASE stored[p] = Executed
  BY <1>1, <1>2 DEF IInv, StoredApplied
<1>3. CASE stored[p] # Executed
  <2>1. Save /\ p = cur /\ result = Executed
    BY <1>3, StoredStep, SavedOnce DEF IInv
  <2>2. applied[p] > 0
    BY <2>1 DEF Save, IInv, HandlerKnows
  <2> QED
    BY <1>1, <2>2
<1> QED
  BY <1>2, <1>3

LEMMA HandlerKnowsStep == IInv /\ [Next]_vars => HandlerKnows'
<1> SUFFICES ASSUME IInv, [Next]_vars PROVE HandlerKnows'
  OBVIOUS
<1> USE DEF IInv, TypeOK, HandlerTyped, ReceiptsTyped, HandlerKnows, Handle
<1>1. ASSUME UNCHANGED <<handling, stored, applied>> PROVE HandlerKnows'
  BY <1>1 DEF handling
<1>2. ASSUME pc' \in {"idle", "load", "commit"} PROVE HandlerKnows'
  BY <1>2
<1>3. ASSUME NEW p \in Proposal, TakeCommand(p) PROVE HandlerKnows'
  <2>1. CASE UNCHANGED handling
    BY <1>1, <1>3, <2>1 DEF TakeCommand
  <2>2. CASE Handle("load", p, NoResult)
    BY <1>2, <2>2
  <2>3. ASSUME NEW n \in Known(p), Handle("reply", p, results[n].kind) PROVE HandlerKnows'
    <3>1. results[n] \in Receipts /\ results[n] \in Receipt /\ results[n].id = p
      BY DEF Known, Receipts
    <3>2. results[n].kind # NoResult /\ stored[p] = results[n].kind
      BY <3>1 DEF Receipt, Executed, Rejected, NoResult, ReceiptsAgree
    <3> QED
      BY <1>3, <2>3, <3>2 DEF TakeCommand
  <2> QED
    BY <1>3, <2>1, <2>2, <2>3 DEF TakeCommand
<1>4. CASE Load
  BY <1>4 DEF Load
<1>5. CASE Execute
  BY <1>5 DEF Execute, Executed, Rejected, NoResult
<1>6. CASE Save
  BY <1>6, SavedOnce DEF Save
<1>7. CASE Reply \/ Commit \/ Raise \/ QueryFails \/ OwnerCrash
  BY <1>2, <1>7 DEF Reply, Commit, Raise, QueryFails, OwnerCrash, GiveUp
<1>8. CASE Fetch \/ AutoCommit \/ Tick
  BY <1>1, <1>8 DEF Fetch, AutoCommit, Tick, owner
<1>9. ASSUME NEW p \in Proposal, Create(p) \/ Approve(p) \/ Dispatch(p) \/ Reject(p)
      PROVE  HandlerKnows'
  BY <1>1, <1>9 DEF Create, Approve, Dispatch, Reject, Send, owner
<1>10. ASSUME NEW r \in Receipt, Deliver(r) \/ Lose(r) \/ Settle(r) PROVE HandlerKnows'
  BY <1>1, <1>10 DEF Deliver, Lose, Settle, owner
<1>11. CASE FiveMinutes \/ Publish \/ DeleteRow \/ PublishUnconfirmed \/ PublisherCrash
              \/ UNCHANGED vars
  BY <1>1, <1>11 DEF FiveMinutes, Publish, DeleteRow, PublishUnconfirmed, PublisherCrash, vars,
                     owner
<1> QED
  BY <1>3, <1>4, <1>5, <1>6, <1>7, <1>8, <1>9, <1>10, <1>11 DEF Next, Owner

(* A recorded execution stays recorded, except by a fault. *)
LEMMA DoneStep ==
  ASSUME IInv, [Next]_vars, NEW p \in Proposal, Done(p)
  PROVE  Done(p)' \/ (QueryFails \/ OwnerCrash)
<1> USE DEF IInv, TypeOK, HandlerTyped, ReceiptsTyped, Done
<1>1. CASE stored[p] = Executed
  BY <1>1, StoredStep, SavedOnce DEF Executed, NoResult
<1>2. CASE stored[p] # Executed
  <2>1. cur = p /\ pc = "save" /\ result = Executed
    BY <1>2
  <2>2. CASE UNCHANGED handling
    BY <2>1, <2>2 DEF handling
  <2>3. CASE Save
    BY <2>1, <2>3, SavedOnce
  <2>4. ASSUME NEW q \in Proposal, Create(q) \/ Approve(q) \/ Dispatch(q) \/ Reject(q)
        PROVE  UNCHANGED handling
    BY <2>4 DEF Create, Approve, Dispatch, Reject, Send, owner
  <2>5. ASSUME NEW r \in Receipt, Deliver(r) \/ Lose(r) \/ Settle(r) PROVE UNCHANGED handling
    BY <2>5 DEF Deliver, Lose, Settle, owner
  <2>6. CASE FiveMinutes \/ Publish \/ DeleteRow \/ PublishUnconfirmed \/ PublisherCrash
               \/ AutoCommit \/ Tick \/ UNCHANGED vars
    BY <2>2, <2>6 DEF FiveMinutes, Publish, DeleteRow, PublishUnconfirmed, PublisherCrash,
                      AutoCommit, Tick, vars, owner
  <2>7. ASSUME NEW q \in Proposal,
               Fetch \/ TakeCommand(q) \/ Load \/ Execute \/ Reply \/ Commit \/ Raise
        PROVE  FALSE
    BY <2>1, <2>7 DEF Fetch, TakeCommand, Load, Execute, Reply, Commit, Raise
  <2> QED
    BY <2>2, <2>3, <2>4, <2>5, <2>6, <2>7 DEF Next, Owner
<1> QED
  BY <1>1, <1>2

LEMMA FaultsGrow ==
  ASSUME TypeOK, [Next]_vars
  PROVE  /\ faults \in Nat /\ faults' \in Nat /\ faults' >= faults
         /\ QueryFails \/ OwnerCrash => faults' = faults + 1
<1>1. faults \in Nat
  BY LimitAssumption DEF TypeOK, ReceiptsTyped
<1>2. ASSUME Fault PROVE faults' = faults + 1
  BY <1>2 DEF Fault
<1>3. ASSUME NEW p \in Proposal,
             Create(p) \/ Approve(p) \/ Dispatch(p) \/ Reject(p) \/ TakeCommand(p)
      PROVE  UNCHANGED faults
  BY <1>3 DEF Create, Approve, Dispatch, Reject, Send, TakeCommand
<1>4. ASSUME NEW r \in Receipt, Deliver(r) \/ Lose(r) \/ Settle(r) PROVE UNCHANGED faults \/ Fault
  BY <1>4 DEF Deliver, Lose, Settle
<1>5. ASSUME FiveMinutes \/ Publish \/ DeleteRow \/ UNCHANGED vars PROVE UNCHANGED faults
  BY <1>5 DEF FiveMinutes, Publish, DeleteRow, vars
<1>6. ASSUME PublishUnconfirmed \/ PublisherCrash \/ QueryFails \/ OwnerCrash PROVE Fault
  BY <1>6 DEF PublishUnconfirmed, PublisherCrash, QueryFails, OwnerCrash
<1>7. ASSUME Fetch \/ AutoCommit \/ Tick \/ Load \/ Execute \/ Save \/ Reply \/ Commit \/ Raise
      PROVE  UNCHANGED faults
  BY <1>7 DEF Fetch, AutoCommit, Tick, Load, Execute, Save, Reply, Commit, Raise
<1>8. QueryFails \/ OwnerCrash => faults' = faults + 1
  BY <1>2 DEF QueryFails, OwnerCrash
<1>9. UNCHANGED faults \/ faults' = faults + 1
  BY <1>2, <1>3, <1>4, <1>5, <1>6, <1>7 DEF Next, Owner, TypeOK, ReceiptsTyped
<1> QED
  BY <1>1, <1>8, <1>9

LEMMA FaultsPayStep == IInv /\ [Next]_vars => FaultsPay'
<1> SUFFICES ASSUME IInv, [Next]_vars, NEW p \in Proposal
             PROVE  applied'[p] <= faults' + (IF Done(p)' THEN 1 ELSE 0)
  BY DEF FaultsPay
<1>1. /\ applied[p] \in Nat /\ faults \in Nat /\ faults' \in Nat /\ faults' >= faults
      /\ applied[p] <= faults + (IF Done(p) THEN 1 ELSE 0)
  BY FaultsGrow DEF IInv, TypeOK, ReceiptsTyped, FaultsPay
<1>2. CASE UNCHANGED applied
  <2>1. CASE Done(p) /\ ~Done(p)'
    BY <1>1, <1>2, <2>1, DoneStep, FaultsGrow DEF IInv
  <2>2. CASE ~Done(p) \/ Done(p)'
    BY <1>1, <1>2, <2>2
  <2> QED
    BY <2>1, <2>2
<1>3. CASE Execute
  <2>1. CASE p = cur /\ applied' # applied
    <3>1. ~Done(p)
      BY <1>3, <2>1 DEF Execute, Done, IInv, HandlerKnows, Executed, NoResult
    <3>2. Done(p)' /\ applied'[p] = applied[p] + 1
      BY <1>3, <2>1 DEF Execute, Handle, Done, IInv, TypeOK, ReceiptsTyped
    <3> QED
      BY <1>1, <3>1, <3>2
  <2>2. CASE p # cur \/ applied' = applied
    <3>1. applied'[p] = applied[p]
      BY <1>3, <2>2 DEF Execute, IInv, TypeOK, ReceiptsTyped
    <3>2. Done(p) => Done(p)'
      BY <1>3 DEF Execute, Done
    <3> QED
      BY <1>1, <3>1, <3>2
  <2> QED
    BY <2>1, <2>2
<1> QED
  BY AppliedStep, <1>2, <1>3 DEF IInv
-----------------------------------------------------------------------------
LEMMA InitIInv == Init => IInv
<1> SUFFICES ASSUME Init PROVE IInv
  OBVIOUS
<1>1. TypeOK
  BY InitTypeOK
<1>2. \A p \in Proposal : ~Trace(p) /\ status[p] = "none" /\ applied[p] = 0 /\ stored[p] = NoResult
  BY ProposalAssumption DEF Init, Trace, InOutbox, NoCopies
<1>3. TracesStarted /\ SettledStored /\ StoredApplied /\ OneActive
  BY <1>2 DEF TracesStarted, SettledStored, StoredApplied, OneActive, Active, NoResult, Executed
<1>4. GuardedDecided
  BY <1>2, ProposalAssumption DEF GuardedDecided, Started
<1>5. ReceiptsAgree
  <2>1. Receipts = {}
    BY DEF Init, Receipts
  <2> QED
    BY <2>1 DEF ReceiptsAgree
<1>6. HandlerKnows
  BY ProposalAssumption DEF Init, HandlerKnows
<1>7. FaultsPay
  <2>1. \A p \in Proposal : applied[p] = 0 /\ faults = 0
    BY <1>2 DEF Init
  <2> QED
    BY <2>1 DEF FaultsPay
<1> QED
  BY <1>1, <1>3, <1>4, <1>5, <1>6, <1>7 DEF IInv

LEMMA NextIInv == IInv /\ [Next]_vars => IInv'
<1> SUFFICES ASSUME IInv, [Next]_vars PROVE IInv'
  OBVIOUS
<1>1. TypeOK'
  <2>1. TypeOK /\ StoreTyped /\ (pc = "reply" => result # NoResult)
    BY DEF IInv, TypeOK, HandlerKnows
  <2>2. StoreTyped' /\ CopiesTyped' /\ HandlerTyped' /\ ReceiptsTyped'
    BY <2>1, StoreStep, CopiesStep, HandlerStep, ReceiptsStep
  <2> QED
    BY <2>2 DEF TypeOK
<1> QED
  BY <1>1, TracesStep, GuardedStep, ReceiptsAgreeStep, SettledStep, StoredAppliedStep,
     HandlerKnowsStep, FaultsPayStep, OneActiveStep DEF IInv

(* IInv holds in every state of every behaviour.                            *)
THEOREM Inductive == Spec => []IInv
  BY InitIInv, NextIInv, PTL DEF Spec
-----------------------------------------------------------------------------
(* The variables keep their types, the handler and `due` theirs with the    *)
(* status they go with, and the remembered receipts their bound             *)
(* (CommandReceipts.max_size).                                              *)
THEOREM TypeCorrect == Spec => []TypeOK
<1>1. IInv => TypeOK
  BY DEF IInv
<1> QED
  BY <1>1, Inductive, PTL

LEMMA NotInOutbox ==
  ASSUME NEW p \in Proposal, ~InOutbox(p)
  PROVE  Cardinality({n \in DOMAIN outbox : outbox[n] = p}) = 0
<1>1. {n \in DOMAIN outbox : outbox[n] = p} = {}
  BY DEF InOutbox
<1> QED
  BY <1>1, FS_EmptySet

(* Nothing of an action is on its way or done without its dispatch, and     *)
(* that of a guarded one without a human's decision (action_execution.py    *)
(* dispatch, approval_queue.py): however commands are retried, copied or    *)
(* lost.                                                                    *)
THEOREM AlwaysAuthorised == Spec => []Authorised
<1>1. ASSUME IInv PROVE Authorised
  <2> SUFFICES ASSUME NEW p \in Proposal,
                      InFlight(p) > 0 \/ cur = p \/ applied[p] > 0 \/ stored[p] # NoResult
               PROVE  status[p] \in Started /\ (p \in Guarded => p \in decided)
    BY DEF Authorised
  <2>1. queue[p] \in Nat /\ batch[p] \in Nat /\ uncommitted[p] \in Nat
    BY <1>1 DEF IInv, TypeOK, CopiesTyped
  <2>2. Trace(p)
    BY <2>1, NotInOutbox DEF InFlight, Trace
  <2>3. status[p] \in Started
    BY <1>1, <2>2 DEF IInv, TracesStarted
  <2> QED
    BY <1>1, <2>3 DEF IInv, GuardedDecided
<1> QED
  BY <1>1, Inductive, PTL

(* A proposal is settled only by the stored receipt, and every receipt that *)
(* is under way or delivered says what the stored one says (commands.py     *)
(* handle, proposal_store.py receipt).                                      *)
THEOREM AlwaysSettledByReceipt == Spec => []SettledByReceipt
<1>1. ASSUME IInv PROVE SettledByReceipt
  <2>1. \A p \in Proposal :
          /\ status[p] = "executed" => stored[p] = Executed /\ applied[p] > 0
          /\ status[p] = "failed"   => stored[p] = Rejected
    BY <1>1 DEF IInv, SettledStored, StoredApplied
  <2>2. \A r \in events \cup outgoing : stored[r.id] = r.kind
    BY <1>1 DEF IInv, ReceiptsAgree, Receipts
  <2> QED
    BY <2>1, <2>2 DEF SettledByReceipt
<1> QED
  BY <1>1, Inductive, PTL

(* Each execution of a command beyond its first takes a fault of its own    *)
(* between the effect and the saved receipt (commands.py handle): retries,  *)
(* redelivery and the bounded cache of receipts never repeat one.           *)
THEOREM EffectsBounded == Spec => []AtMostOnce
<1>1. ASSUME IInv PROVE AtMostOnce
  <2> SUFFICES ASSUME NEW p \in Proposal
               PROVE  /\ applied[p] <= 1 + faults
                      /\ faults = 0 /\ status[p] = "failed" => applied[p] = 0
    BY DEF AtMostOnce
  <2>1. applied[p] \in Nat /\ faults \in Nat
    BY <1>1, LimitAssumption DEF IInv, TypeOK, ReceiptsTyped
  <2>2. applied[p] <= faults + (IF Done(p) THEN 1 ELSE 0)
    BY <1>1 DEF IInv, FaultsPay
  <2>3. status[p] = "failed" => ~Done(p)
    BY <1>1 DEF IInv, SettledStored, HandlerKnows, Done, Executed, Rejected, NoResult
  <2> QED
    BY <2>1, <2>2, <2>3
<1> QED
  BY <1>1, Inductive, PTL
-----------------------------------------------------------------------------
(* A command is executed while its proposal is dispatched. *)
LEMMA ExecutesDispatched ==
  ASSUME IInv, Execute, NEW p \in Proposal, applied'[p] # applied[p]
  PROVE  status[p] = "dispatched"
<1>1. p = cur
  BY DEF Execute, IInv, TypeOK, ReceiptsTyped
<1>2. status[p] \in Started
  BY <1>1 DEF IInv, TracesStarted, Trace
<1>3. stored[p] = NoResult
  BY <1>1 DEF Execute, IInv, HandlerKnows
<1> QED
  BY <1>2, <1>3 DEF IInv, SettledStored, Started, NoResult, Executed, Rejected

(* Late and repeated copies of a command that is settled take no effect,    *)
(* and an action takes effect only while no other proposal of its target is *)
(* active (commands.py handle, proposal_store.py create).                   *)
THEOREM EffectsInTime == Spec => NoLateEffect
<1>1. ASSUME IInv, [Next]_vars, NEW p \in Proposal, applied'[p] # applied[p]
      PROVE  /\ status[p] = "dispatched"
             /\ \A q \in Proposal \ {p} : TargetOf[q] = TargetOf[p] => status[q] \notin Active
  <2>1. Execute
    BY <1>1, AppliedStep DEF IInv
  <2>2. status[p] = "dispatched"
    BY <1>1, <2>1, ExecutesDispatched
  <2> QED
    BY <1>1, <2>2 DEF IInv, OneActive, Active
<1>2. IInv /\ [Next]_vars =>
        [\A p \in Proposal : applied'[p] # applied[p] =>
           /\ status[p] = "dispatched"
           /\ \A q \in Proposal \ {p} : TargetOf[q] = TargetOf[p] => status[q] \notin Active]_vars
  BY <1>1
<1> QED
  BY <1>2, Inductive, PTL DEF Spec, NoLateEffect
-----------------------------------------------------------------------------
(* Every step of the pipeline is a step of ActionLifecycle, or none.        *)

LEMMA InitPromise == Init => Promise!Init
  BY DEF Init, Promise!Init

LEMMA StorePromise ==
  ASSUME IInv, NEW p \in Proposal, Create(p) \/ Approve(p) \/ Dispatch(p) \/ Reject(p)
  PROVE  [Promise!Next]_Promise!vars
<1> USE DEF Promise!Next, Promise!vars, Promise!Move, owner
<1>1. CASE Create(p)
  BY <1>1 DEF Create, Promise!Propose
<1>2. CASE Approve(p)
  BY <1>2 DEF Approve, Send, Promise!Approve
<1>3. CASE Dispatch(p) /\ status[p] = "approved"
  BY <1>3 DEF Dispatch, Send, Promise!Dispatch
<1>4. CASE Dispatch(p) /\ status[p] = "dispatched"
  BY <1>4 DEF Dispatch, Send, IInv, TypeOK, StoreTyped
<1>5. CASE Reject(p)
  BY <1>5 DEF Reject, Promise!Reject
<1> QED
  BY <1>1, <1>2, <1>3, <1>4, <1>5 DEF Dispatch

LEMMA SettlePromise ==
  ASSUME IInv, NEW r \in events, Settle(r)
  PROVE  Promise!Next
<1>1. r.id \in Proposal /\ stored[r.id] = r.kind /\ r.kind \in {Executed, Rejected}
  BY DEF IInv, TypeOK, ReceiptsTyped, Receipt, ReceiptsAgree, Receipts
<1>2. CASE r.kind = Executed
  <2>1. applied[r.id] > 0
    BY <1>1, <1>2 DEF IInv, StoredApplied
  <2>2. Promise!Confirm(r.id)
    BY <1>2, <2>1 DEF Settle, owner, Promise!Confirm, Promise!Move
  <2> QED
    BY <1>1, <2>2 DEF Promise!Next
<1>3. CASE r.kind # Executed
  <2>1. Promise!Fail(r.id)
    BY <1>3 DEF Settle, owner, Promise!Fail, Promise!Move
  <2> QED
    BY <1>1, <2>1 DEF Promise!Next
<1> QED
  BY <1>2, <1>3

LEMMA ExecutePromise ==
  ASSUME IInv, Execute
  PROVE  [Promise!Next]_Promise!vars
<1>1. cur \in Proposal /\ UNCHANGED <<status, decided>>
  BY DEF Execute, analysis, IInv, TypeOK, HandlerTyped
<1>2. CASE UNCHANGED applied
  BY <1>1, <1>2 DEF Promise!vars
<1>3. CASE applied' = [applied EXCEPT ![cur] = @ + 1]
  <2>1. applied'[cur] # applied[cur]
    BY <1>1, <1>3 DEF IInv, TypeOK, ReceiptsTyped
  <2>2. Promise!TakeEffect(cur)
    BY <1>1, <1>3, <2>1, ExecutesDispatched DEF Promise!TakeEffect
  <2> QED
    BY <1>1, <2>2 DEF Promise!Next
<1> QED
  BY <1>2, <1>3 DEF Execute

LEMMA StatusOrDecided ==
  ASSUME TypeOK, [Next]_vars
  PROVE  \/ UNCHANGED <<status, decided>>
         \/ \E p \in Proposal : Create(p) \/ Approve(p) \/ Dispatch(p) \/ Reject(p)
         \/ \E r \in events : Settle(r)
<1>1. ASSUME NEW r \in outgoing, Deliver(r) \/ Lose(r) PROVE UNCHANGED <<status, decided>>
  BY <1>1 DEF Deliver, Lose, analysis
<1>2. ASSUME NEW p \in Proposal, TakeCommand(p) PROVE UNCHANGED <<status, decided>>
  BY <1>2 DEF TakeCommand, analysis
<1>3. ASSUME FiveMinutes \/ Publish \/ DeleteRow \/ PublishUnconfirmed \/ PublisherCrash
             \/ QueryFails \/ OwnerCrash \/ UNCHANGED vars
      PROVE  UNCHANGED <<status, decided>>
  BY <1>3 DEF FiveMinutes, Publish, DeleteRow, PublishUnconfirmed, PublisherCrash, QueryFails,
              OwnerCrash, vars, analysis
<1>4. ASSUME Fetch \/ AutoCommit \/ Tick \/ Load \/ Execute \/ Save \/ Reply \/ Commit \/ Raise
      PROVE  UNCHANGED <<status, decided>>
  BY <1>4 DEF Fetch, AutoCommit, Tick, Load, Execute, Save, Reply, Commit, Raise, analysis
<1> QED
  BY <1>1, <1>2, <1>3, <1>4 DEF Next, Owner

(* The pipeline implements ActionLifecycle: proposals move, and actions     *)
(* take effect, as if there were no outbox, no topics and no failures.      *)
THEOREM Implements == Spec => ImplementsActionLifecycle
<1>1. ASSUME IInv, [Next]_vars PROVE [Promise!Next]_Promise!vars
  <2>1. CASE UNCHANGED <<status, decided>> /\ UNCHANGED applied
    BY <2>1 DEF Promise!vars
  <2>2. CASE \E r \in events : Settle(r)
    BY <1>1, <2>2, SettlePromise
  <2>3. CASE \E p \in Proposal : Create(p) \/ Approve(p) \/ Dispatch(p) \/ Reject(p)
    BY <1>1, <2>3, StorePromise
  <2>4. CASE Execute
    BY <1>1, <2>4, ExecutePromise
  <2> QED
    BY <1>1, <2>1, <2>2, <2>3, <2>4, AppliedStep, StatusOrDecided DEF IInv
<1> QED
  BY <1>1, InitPromise, Inductive, PTL DEF Spec, ImplementsActionLifecycle, Promise!Spec
=============================================================================
