------------------------- MODULE CostLedger_proofs -------------------------
(***************************************************************************)
(* Proofs about CostLedger, for any events, topics and numbers of faults.  *)
(* The inductive invariant LInv says of the parts of the state how they    *)
(* follow from each other: what is charged from what is in the inbox, the  *)
(* totals from the ledger, the selected day from the clock, and the rows   *)
(* that are deleted from what is published.                                *)
(***************************************************************************)
EXTENDS CostLedger, FiniteSetTheorems, SequenceTheorems, TLAPS

Document(G, D) ==
  [sim_day : Int, clock_date : Int, last_staffing_hour : Int, gate_starts : G,
   days : D, rates : Nat]

(* The document is well-formed, and the ledger finite.                     *)
WellFormed ==
  /\ revision \in Nat
  /\ \E G, D : doc \in Document(G, D)
  /\ IsFiniteSet(ledger)

TotalsAgree == \A d \in DOMAIN doc.days : doc.days[d] = Total(ledger, d)

Publishing(t) ==
  /\ work = [pc |-> "publish", topic |-> t, view |-> View(doc)]
  /\ position[t] < Len(Log[t])

Shown ==
  /\ position \in [Topic -> Nat]
  /\ work \in {Ready, Down} \/ \E t \in Topic : Publishing(t)
  /\ work # Down => doc.sim_day \in DOMAIN doc.days
  /\ work = Ready => memory = View(doc)

DeliveredIsPublished == delivered => page # <<>> /\ Head(page) \in published

LInv ==
  /\ WellFormed /\ TotalsAgree /\ Shown /\ DeliveredIsPublished
  /\ ChargedOnce /\ FactsKept
-----------------------------------------------------------------------------
Charged ==
  {"gate_fee", "landing_fee", "ground_handling", "passenger_fee", "slot_revenue",
   "eu261_compensation", "holding_fuel", "staffing", "retail_revenue",
   "incident_direct", "incident_response", "flight_carbon", "terminal_carbon"}

(* An event charges items of a finite set.                                 *)
LEMMA ChargedFinite == IsFiniteSet(Charged)
<1> DEFINE list ==
  <<"gate_fee", "landing_fee", "ground_handling", "passenger_fee", "slot_revenue",
    "eu261_compensation", "holding_fuel", "staffing", "retail_revenue",
    "incident_direct", "incident_response", "flight_carbon", "terminal_carbon">>
<1>1. DOMAIN list = 1..13
  OBVIOUS
<1>2. list \in [1..13 -> Charged]
  BY DEF Charged
<1>3. \A i \in Charged : \E n \in 1..13 : list[n] = i
  <2>1. Charged = {list[1], list[2], list[3], list[4], list[5], list[6], list[7], list[8],
                   list[9], list[10], list[11], list[12], list[13]}
    BY DEF Charged
  <2> HIDE DEF list
  <2> QED BY <2>1
<1>4. list \in Surjection(1..13, Charged)
  BY <1>2, <1>3 DEF Surjection
<1>5. IsFiniteSet(1..13)
  <2>1. \A n \in Int : IsFiniteSet(1..n)
    BY FS_Interval
  <2>2. 13 \in Int
    OBVIOUS
  <2> QED BY <2>1, <2>2, Zenon
<1> HIDE DEF list
<1> QED BY <1>4, <1>5, FS_Surjection, Zenon

(* The items of an event are among them.                                   *)
LEMMA ItemsCharged ==
  ASSUME NEW e \in Event, NEW d, NEW holding \in BOOLEAN
  PROVE  Items(e, d, holding) \subseteq Charged
<1>1. on_clock_tick(e, d, holding) \cup terminal_emissions(e) \subseteq Charged
  BY DEF on_clock_tick, terminal_emissions, Charged
<1>2. on_flight_status_changed(e, d) \cup on_flight_departed(e) \subseteq Charged
  BY DEF on_flight_status_changed, on_flight_departed, Charged
<1>3. on_incident_resolved(e) \subseteq Charged
  BY DEF on_incident_resolved, Charged
<1>4. Envelope[e].type \in EventType
  BY LedgerAssumption
<1> QED BY <1>1, <1>2, <1>3, <1>4 DEF Items, EventType, Charged

(* The records of one event are finitely many.                             *)
LEMMA RecordsFinite ==
  ASSUME NEW e, NEW day, NEW r,
         NEW recs \in SUBSET [event : {e}, item : Charged, day : {day}, revision : {r}]
  PROVE  IsFiniteSet(recs)
<1> DEFINE all == [event : {e}, item : Charged, day : {day}, revision : {r}]
           rec == [i \in Charged |-> [event |-> e, item |-> i, day |-> day, revision |-> r]]
<1>1. rec \in Surjection(Charged, all)
  <2>1. rec \in [Charged -> all]
    OBVIOUS
  <2>2. ASSUME NEW n \in all PROVE n.item \in Charged /\ rec[n.item] = n
    OBVIOUS
  <2> HIDE DEF rec, all
  <2> QED BY <2>1, <2>2 DEF Surjection
<1>2. IsFiniteSet(all)
  BY <1>1, ChargedFinite, FS_Surjection
<1> QED BY <1>2, FS_Subset

(* The records of a day are counted separately in disjoint sets.           *)
LEMMA TotalAdds ==
  ASSUME NEW L, IsFiniteSet(L), NEW R, IsFiniteSet(R), L \cap R = {}, NEW day
  PROVE  /\ Total(L \cup R, day) = Total(L, day) + Total(R, day)
         /\ Total(L, day) \in Nat /\ Total(R, day) \in Nat
<1> DEFINE l == {n \in L : n.day = day}
           r == {n \in R : n.day = day}
<1>1. IsFiniteSet(l) /\ IsFiniteSet(r)
  <2>1. l \in SUBSET L /\ r \in SUBSET R
    OBVIOUS
  <2> HIDE DEF l, r
  <2> QED BY <2>1, FS_Subset
<1>2. Cardinality(l) \in Nat /\ Cardinality(r) \in Nat
  BY <1>1, FS_CardinalityType
<1>3. l \cap r = {} /\ {n \in L \cup R : n.day = day} = l \cup r
  OBVIOUS
<1>4. Cardinality(l \cup r) = Cardinality(l) + Cardinality(r) - Cardinality(l \cap r)
  BY <1>1, FS_Union
<1>5. Cardinality({}) = 0
  BY FS_EmptySet
<1> HIDE DEF l, r
<1>6. Cardinality(l \cup r) = Cardinality(l) + Cardinality(r)
  <2>1. Cardinality(l \cap r) = 0
    BY <1>3, <1>5, Zenon
  <2> QED BY <1>2, <1>4, <2>1
<1> USE DEF l, r
<1> QED BY <1>2, <1>3, <1>6 DEF Total

(* What a checkpoint contains, and what the trimming leaves of the days.   *)
LEMMA CheckpointIs ==
  ASSUME NEW G, NEW D, NEW d \in Document(G, D), NEW e \in Event, NEW records,
         NEW touched, touched = {d.sim_day} \cup {n.day : n \in records}
  PROVE  LET c == Checkpoint(e, d, records)
         IN  /\ c.sim_day = d.sim_day /\ c.clock_date = d.clock_date
             /\ c.days = Trimmed(Added(Restored(d.days, touched), records), d.sim_day)
             /\ \E H, T : c \in Document(H, T)
<1> DEFINE c       == Checkpoint(e, d, records)
           starts  == _gate_windows(e, d.gate_starts)
           days    == Trimmed(Added(Restored(d.days, touched), records), d.sim_day)
           hour    == IF NewHour(e, d) THEN Hour(At(e)) ELSE d.last_staffing_hour
<1>1. c = [d EXCEPT !.last_staffing_hour = hour, !.gate_starts = starts, !.days = days]
  BY DEF Checkpoint
<1>2. At(e) \in Nat
  BY LedgerAssumption DEF At
<1>3. hour \in Int
  BY <1>2, LedgerAssumption DEF Document, Hour
<1> HIDE DEF starts, days, hour, c
<1>4. c \in Document({starts}, {days}) /\ c.days = days
      /\ c.sim_day = d.sim_day /\ c.clock_date = d.clock_date
  BY <1>1, <1>3 DEF Document
<1> QED BY <1>4 DEF c, days

LEMMA DaysKept ==
  ASSUME NEW days, NEW touched, NEW records, NEW day \in touched
  PROVE  LET t == Trimmed(Added(Restored(days, touched), records), day)
         IN  /\ day \in DOMAIN t
             /\ \A x \in DOMAIN t :
                  t[x] = (IF x \in DOMAIN days THEN days[x] ELSE Total(ledger, x))
                         + Total(records, x)
<1> DEFINE all    == Added(Restored(days, touched), records)
           others == DOMAIN all \ {day}
           kept   == {day} \cup {x \in others : Cardinality({y \in others : y > x}) < KeptDays}
           t      == Trimmed(all, day)
<1>1. DOMAIN all = DOMAIN days \cup touched
  BY DEF Added, Restored
<1>2. t = [x \in kept |-> all[x]] /\ DOMAIN t = kept
  BY DEF Trimmed, Restrict
<1>3. kept \subseteq DOMAIN all
  BY <1>1
<1>4. \A x \in DOMAIN all :
        all[x] = (IF x \in DOMAIN days THEN days[x] ELSE Total(ledger, x)) + Total(records, x)
  BY DEF Added, Restored
<1> HIDE DEF all, kept, t
<1>5. day \in DOMAIN t
  BY <1>2 DEF kept
<1>6. \A x \in DOMAIN t : t[x] = all[x]
  BY <1>2
<1> QED BY <1>2, <1>3, <1>4, <1>5, <1>6 DEF t, all

-----------------------------------------------------------------------------
(* A transaction that applies an event.                                    *)

LEMMA Applied ==
  ASSUME LInv, NEW e \in Event, e \notin inbox, NEW holding \in BOOLEAN,
         revision' = revision + 1, Apply(e, holding), published' = published
  PROVE  /\ WellFormed' /\ TotalsAgree' /\ ChargedOnce' /\ FactsKept'
         /\ doc'.sim_day \in DOMAIN doc'.days
<1>1. PICK G, D : doc \in Document(G, D)
  BY DEF LInv, WellFormed
<1>3. PICK d : d = Selected(e, doc)
  OBVIOUS
<1>4. PICK items : items = Items(e, d, holding)
  OBVIOUS
<1>5. PICK records : records = {[event |-> e, item |-> i, day |-> BillingDay(e, d),
                                 revision |-> revision + 1] : i \in items}
  OBVIOUS
<1>6. PICK rows : rows = {Fact(e, i, d.rates) : i \in items \cup {"processed"}}
  OBVIOUS
<1>touched. PICK touched : touched = {d.sim_day} \cup {n.day : n \in records}
  OBVIOUS
<1>7. /\ doc' = Checkpoint(e, d, records) /\ ledger' = ledger \cup records
      /\ outbox' = outbox \cup rows /\ inbox' = inbox \cup {e}
  BY <1>3, <1>4, <1>5, <1>6 DEF Apply
<1>8. items \subseteq Charged
  BY <1>4, ItemsCharged
<1>9. d \in Document(G, D) /\ d.days = doc.days
  <2>1. Envelope[e].day \in Int /\ At(e) \in Int
    BY LedgerAssumption DEF At
  <2> QED BY <1>1, <1>3, <2>1 DEF Selected, Document
<1>10. revision \in Nat /\ revision' \in Nat
  BY DEF LInv, WellFormed
<1>11. /\ doc'.sim_day = d.sim_day /\ doc'.clock_date = d.clock_date
       /\ doc'.days = Trimmed(Added(Restored(d.days, touched), records), d.sim_day)
       /\ \E H, T : doc' \in Document(H, T)
  <2>1. LET c == Checkpoint(e, d, records)
        IN  /\ c.sim_day = d.sim_day /\ c.clock_date = d.clock_date
            /\ c.days = Trimmed(Added(Restored(d.days, touched), records), d.sim_day)
            /\ \E H, T : c \in Document(H, T)
    <3>1. d \in Document(G, D)
      BY <1>9
    <3> QED BY <3>1, <1>touched, CheckpointIs, ZenonT(60)
  <2> QED BY <1>7, <2>1, Zenon
<1>12. IsFiniteSet(records) /\ IsFiniteSet(ledger)
  <2>1. IsFiniteSet(records)
    <3>1. PICK day, r : records = {[event |-> e, item |-> i, day |-> day, revision |-> r] :
                                     i \in items}
      BY <1>5
    <3>2. records \in SUBSET [event : {e}, item : Charged, day : {day}, revision : {r}]
      BY <3>1, <1>8
    <3> QED BY <3>2, RecordsFinite
  <2> QED BY <2>1 DEF LInv, WellFormed
<1>13. \A n \in records : n.event = e /\ n.revision = revision + 1 /\ n.day = BillingDay(e, d)
  BY <1>5
<1>14. ledger \cap records = {}
  BY <1>13 DEF LInv, ChargedOnce
<1>15. WellFormed'
  <2>1. IsFiniteSet(ledger')
    BY <1>7, <1>12, FS_Union
  <2> QED BY <1>10, <1>11, <2>1 DEF WellFormed
<1>18. doc'.sim_day \in DOMAIN doc'.days /\ TotalsAgree'
  <2>1. d.sim_day \in touched
    BY <1>touched
  <2>2. /\ d.sim_day \in DOMAIN doc'.days
        /\ \A x \in DOMAIN doc'.days :
             doc'.days[x] = (IF x \in DOMAIN d.days THEN d.days[x] ELSE Total(ledger, x))
                            + Total(records, x)
    BY <1>11, <2>1, DaysKept
  <2>3. \A x \in DOMAIN doc'.days : doc'.days[x] = Total(ledger, x) + Total(records, x)
    BY <2>2, <1>9 DEF LInv, TotalsAgree
  <2>4. \A x : Total(ledger', x) = Total(ledger, x) + Total(records, x)
    BY <1>7, <1>12, <1>14, TotalAdds
  <2> QED BY <1>11, <2>2, <2>3, <2>4 DEF TotalsAgree
<1>19. ChargedOnce'
  BY <1>7, <1>13 DEF LInv, ChargedOnce
<1>20. FactsKept'
  <2> DEFINE told == {<<r.event, r.item>> : r \in outbox \cup published}
             tell == {<<r.event, r.item>> : r \in outbox' \cup published}
  <2>1. told \subseteq tell
    BY <1>7
  <2>2. ASSUME NEW i \in items \cup {"processed"} PROVE <<e, i>> \in tell
    <3>1. Fact(e, i, d.rates) \in outbox'
      BY <1>6, <1>7
    <3>2. Fact(e, i, d.rates).event = e /\ Fact(e, i, d.rates).item = i
      BY DEF Fact
    <3> HIDE DEF Fact
    <3> QED BY <3>1, <3>2
  <2>3. \A n \in records : n.event = e /\ n.item \in items
    BY <1>5
  <2>4. /\ \A x \in inbox : <<x, "processed">> \in told
        /\ \A n \in ledger : <<n.event, n.item>> \in told
    BY DEF LInv, FactsKept, Announced
  <2> HIDE DEF told, tell
  <2>5. /\ \A x \in inbox' : <<x, "processed">> \in tell
        /\ \A n \in ledger' : <<n.event, n.item>> \in tell
    BY <1>7, <2>1, <2>2, <2>3, <2>4
  <2> QED BY <2>5 DEF FactsKept, Announced, tell
<1> QED BY <1>15, <1>18, <1>19, <1>20

(* A transaction, whether it applies its event or finds it in the inbox.   *)
LEMMA Transacted ==
  ASSUME LInv, NEW e \in Event, work # Down, Transaction(e), published' = published
  PROVE  /\ WellFormed' /\ TotalsAgree' /\ ChargedOnce' /\ FactsKept'
         /\ doc'.sim_day \in DOMAIN doc'.days
<1>1. CASE ~Seen(e)
  <2>1. PICK holding \in BOOLEAN : Apply(e, holding)
    BY <1>1 DEF Transaction
  <2>2. e \notin inbox /\ revision' = revision + 1
    BY <1>1 DEF Seen, Transaction
  <2> QED BY <2>1, <2>2, Applied
<1>2. CASE Seen(e)
  <2>1. UNCHANGED <<doc, inbox, ledger, outbox, published>> /\ revision' = revision + 1
    BY <1>2 DEF Transaction
  <2>2. WellFormed'
    BY <2>1 DEF LInv, WellFormed
  <2>4. TotalsAgree' /\ ChargedOnce' /\ FactsKept'
    BY <2>1 DEF LInv, TotalsAgree, ChargedOnce, FactsKept, Announced, Total
  <2> QED BY <2>1, <2>2, <2>4 DEF LInv, Shown
<1> QED BY <1>1, <1>2

(* What the consumer reads is an event.                                    *)
LEMMA Logged ==
  ASSUME NEW t \in Topic, NEW p \in [Topic -> Nat], p[t] < Len(Log[t])
  PROVE  Log[t][p[t] + 1] \in Event
<1>1. Log[t] \in Seq(Event)
  BY LedgerAssumption
<1> QED BY <1>1

LEMMA Initially == LedgerInit => LInv
<1> SUFFICES ASSUME LedgerInit PROVE LInv
  OBVIOUS
<1>1. doc \in Document({<<>>}, {<<>>})
  BY DEF LedgerInit, Document, NoTime
<1>2. WellFormed
  BY <1>1, FS_EmptySet DEF LedgerInit, WellFormed
<1>4. doc.days = <<>> /\ DOMAIN doc.days = {}
  BY DEF LedgerInit
<1>5. TotalsAgree /\ ChargedOnce /\ FactsKept
  BY <1>4 DEF LedgerInit, TotalsAgree, ChargedOnce, FactsKept
<1>6. Shown /\ DeliveredIsPublished
  BY DEF LedgerInit, Shown, DeliveredIsPublished, Ready, Down
<1> QED BY <1>2, <1>5, <1>6 DEF LInv

LEMMA KeptByProcess ==
  ASSUME LInv, NEW t \in Topic, Process(t)
  PROVE  LInv'
<1>1. Log[t][position[t] + 1] \in Event
  BY Logged DEF LInv, Shown, Process
<1>2. work # Down /\ work' # Down /\ work' # Ready
  BY DEF Process, Ready, Down
<1>3. /\ WellFormed' /\ TotalsAgree' /\ ChargedOnce' /\ FactsKept'
      /\ doc'.sim_day \in DOMAIN doc'.days
  BY <1>1, <1>2, Transacted DEF Process
<1>4. Publishing(t)'
  BY DEF Publishing, Process
<1>5. Shown'
  BY <1>2, <1>3, <1>4 DEF LInv, Shown, Process
<1>6. DeliveredIsPublished'
  BY DEF LInv, DeliveredIsPublished, Process
<1> QED BY <1>3, <1>5, <1>6 DEF LInv

LEMMA KeptByTryAgain ==
  ASSUME LInv, TryAgain
  PROVE  LInv'
<1>1. PICK t \in Topic : Publishing(t)
  BY DEF LInv, Shown, TryAgain, Ready, Down
<1>2. work.topic = t /\ work # Down
  BY <1>1 DEF Publishing, Down
<1>3. Log[t][position[t] + 1] \in Event
  BY <1>1, Logged DEF LInv, Shown, Publishing
<1>4. /\ WellFormed' /\ TotalsAgree' /\ ChargedOnce' /\ FactsKept'
      /\ doc'.sim_day \in DOMAIN doc'.days
  BY <1>2, <1>3, Transacted DEF TryAgain
<1>5. Publishing(t)'
  <2> DEFINE view == View(doc')
  <2>1. work' = [work EXCEPT !.view = view] /\ position' = position
    BY DEF TryAgain
  <2> HIDE DEF view
  <2>2. work' = [pc |-> "publish", topic |-> t, view |-> view]
    BY <1>1, <2>1 DEF Publishing
  <2> QED BY <1>1, <2>1, <2>2 DEF Publishing, view
<1>6. work' # Down /\ work' # Ready
  BY <1>5 DEF Publishing, Down, Ready
<1>7. Shown'
  BY <1>4, <1>5, <1>6 DEF LInv, Shown, TryAgain
<1>8. DeliveredIsPublished'
  BY DEF LInv, DeliveredIsPublished, TryAgain
<1> QED BY <1>4, <1>7, <1>8 DEF LInv

LEMMA KeptByPublishState ==
  ASSUME LInv, publish_state
  PROVE  LInv'
<1>1. PICK t \in Topic : Publishing(t)
  BY DEF LInv, Shown, publish_state, Ready, Down
<1>2. work.view = View(doc) /\ work.topic = t /\ work # Down
  BY <1>1 DEF Publishing, Down
<1>3. memory' = View(doc) /\ work' = Ready /\ doc' = doc
  BY <1>2 DEF publish_state
<1>4. position' \in [Topic -> Nat]
  BY <1>2 DEF LInv, Shown, publish_state
<1>5. Shown'
  BY <1>2, <1>3, <1>4 DEF LInv, Shown, View
<1>6. WellFormed' /\ TotalsAgree' /\ ChargedOnce' /\ FactsKept' /\ DeliveredIsPublished'
  BY DEF LInv, WellFormed, TotalsAgree, ChargedOnce, FactsKept, Announced, Total,
         DeliveredIsPublished, publish_state
<1> QED BY <1>5, <1>6 DEF LInv

(* A change of the rates adds a fact and leaves the totals alone.          *)
LEMMA KeptByUpdateRates ==
  ASSUME LInv, UpdateRates
  PROVE  LInv'
<1>1. PICK G, D : doc \in Document(G, D)
  BY DEF LInv, WellFormed
<1>2. PICK row : row = Fact(NoEvent, "rates", doc.rates + 1)
  OBVIOUS
<1>3. outbox' = outbox \cup {row} /\ revision' = revision + 1
  BY <1>2 DEF UpdateRates
<1>4. doc' \in Document(G, D) /\ doc'.days = doc.days
      /\ doc'.sim_day = doc.sim_day /\ doc'.gate_starts = doc.gate_starts
  BY <1>1 DEF UpdateRates, Document
<1>5. View(doc') = View(doc)
  BY <1>4 DEF View
<1>6. WellFormed'
  BY <1>4 DEF LInv, WellFormed, UpdateRates
<1>8. TotalsAgree' /\ ChargedOnce' /\ DeliveredIsPublished'
  BY <1>4 DEF LInv, TotalsAgree, ChargedOnce, Total, DeliveredIsPublished, UpdateRates
<1>9. FactsKept'
  BY <1>3 DEF LInv, FactsKept, Announced, UpdateRates
<1>10. Shown'
  <2>1. ASSUME NEW t \in Topic, Publishing(t) PROVE Publishing(t)'
    BY <2>1, <1>5 DEF Publishing, UpdateRates
  <2>2. work' = work /\ position' = position /\ memory' = memory
    BY DEF UpdateRates
  <2> QED BY <2>1, <2>2, <1>4, <1>5 DEF LInv, Shown
<1> QED BY <1>6, <1>8, <1>9, <1>10 DEF LInv

(* Steps that leave the database alone, except for rows of the outbox.     *)
LEMMA Untouched ==
  ASSUME LInv, UNCHANGED <<revision, doc, inbox, ledger, work, memory, position>>
  PROVE  Shown' /\ TotalsAgree' /\ ChargedOnce'
<1>1. \A t \in Topic : Publishing(t) => Publishing(t)'
  BY DEF Publishing, View
<1> QED BY <1>1 DEF LInv, Shown, TotalsAgree, ChargedOnce, Total, View

LEMMA KeptByReadPage ==
  ASSUME LInv, ReadPage
  PROVE  LInv'
<1>1. Shown' /\ TotalsAgree' /\ ChargedOnce'
  BY Untouched DEF ReadPage
<1>2. WellFormed' /\ FactsKept'
  BY DEF LInv, WellFormed, FactsKept, Announced, ReadPage
<1>3. DeliveredIsPublished'
  BY DEF LInv, DeliveredIsPublished, ReadPage
<1> QED BY <1>1, <1>2, <1>3 DEF LInv

(* Publishing a row, and deleting one that is published, lose no fact.     *)
LEMMA KeptByPublishing ==
  ASSUME LInv, published \subseteq published', outbox' = outbox,
         UNCHANGED <<revision, doc, inbox, ledger, work, memory, position>>,
         delivered' => page' # <<>> /\ Head(page') \in published'
  PROVE  LInv'
<1>1. Shown' /\ TotalsAgree' /\ ChargedOnce'
  BY Untouched
<1>2. WellFormed'
  BY DEF LInv, WellFormed
<1>3. FactsKept'
  <2>1. Announced(outbox \cup published) \subseteq Announced(outbox' \cup published')
    BY DEF Announced
  <2> QED BY <2>1 DEF LInv, FactsKept
<1> QED BY <1>1, <1>2, <1>3 DEF LInv, DeliveredIsPublished

LEMMA KeptByPublishConfirmed ==
  ASSUME LInv, publish_confirmed
  PROVE  LInv'
BY KeptByPublishing DEF publish_confirmed

LEMMA KeptByDelete ==
  ASSUME LInv, Delete
  PROVE  LInv'
<1>1. Shown' /\ TotalsAgree' /\ ChargedOnce'
  BY Untouched DEF Delete
<1>2. outbox \cup published = outbox' \cup published'
  BY DEF LInv, DeliveredIsPublished, Delete
<1>3. FactsKept'
  BY <1>2 DEF LInv, FactsKept, Announced, Delete
<1>4. WellFormed' /\ DeliveredIsPublished'
  BY DEF LInv, WellFormed, DeliveredIsPublished, Delete
<1> QED BY <1>1, <1>3, <1>4 DEF LInv

LEMMA KeptByPageFails ==
  ASSUME LInv, PageFails
  PROVE  LInv'
BY KeptByPublishing DEF PageFails

LEMMA KeptByLateDelivery ==
  ASSUME LInv, LateDelivery
  PROVE  LInv'
<1>1. published \subseteq published'
  BY DEF LateDelivery
<1>2. UNCHANGED <<outbox, revision, doc, inbox, ledger, work, memory, position, page, delivered>>
  BY DEF LateDelivery
<1> QED BY <1>1, <1>2, KeptByPublishing DEF LInv, DeliveredIsPublished

LEMMA KeptByCrash ==
  ASSUME LInv, Crash
  PROVE  LInv'
<1>1. position' \in [Topic -> Nat]
  <2>1. UNION {0..position[t] : t \in Topic} \subseteq Nat
    BY DEF LInv, Shown
  <2> QED BY <2>1 DEF Crash
<1>2. Shown'
  BY <1>1 DEF Shown, Crash, Ready, Down
<1>3. WellFormed' /\ TotalsAgree' /\ ChargedOnce' /\ FactsKept' /\ DeliveredIsPublished'
  BY DEF LInv, WellFormed, TotalsAgree, ChargedOnce, Total, FactsKept, Announced,
         DeliveredIsPublished, Crash
<1> QED BY <1>2, <1>3 DEF LInv

(* A start computes the totals of the selected day afresh.                 *)
LEMMA KeptByInitialize ==
  ASSUME LInv, initialize
  PROVE  LInv'
<1>1. PICK G, D : doc \in Document(G, D)
  BY DEF LInv, WellFormed
<1> DEFINE day      == doc.sim_day
           rest     == Restrict(doc.days, DOMAIN doc.days \ {day})
           repaired == Restored(rest, {day})
           days     == Trimmed(repaired, day)
<1>2. doc' = [doc EXCEPT !.days = days]
  BY DEF initialize
<1>3. \A x \in DOMAIN repaired : repaired[x] = Total(ledger, x)
  BY DEF LInv, TotalsAgree, Restored, Restrict
<1>4. day \in DOMAIN repaired
  BY DEF Restored
<1>5. day \in DOMAIN days /\ \A x \in DOMAIN days : x \in DOMAIN repaired /\ days[x] = repaired[x]
  <2> HIDE DEF repaired
  <2> QED BY <1>4 DEF Trimmed, Restrict
<1> HIDE DEF days, repaired, rest
<1>6. doc' \in Document(G, {days}) /\ doc'.days = days /\ doc'.sim_day = day
  BY <1>1, <1>2 DEF Document
<1> HIDE DEF day
<1>7. WellFormed'
  BY <1>6 DEF LInv, WellFormed, initialize
<1>8. TotalsAgree'
  BY <1>3, <1>5, <1>6 DEF TotalsAgree, Total, initialize
<1>9. Shown'
  BY <1>5, <1>6 DEF LInv, Shown, initialize, Ready, Down
<1>10. ChargedOnce' /\ FactsKept' /\ DeliveredIsPublished'
  BY DEF LInv, ChargedOnce, FactsKept, Announced, DeliveredIsPublished, initialize
<1> QED BY <1>7, <1>8, <1>9, <1>10 DEF LInv

LEMMA Kept == LInv /\ [LedgerNext]_ledgerVars => LInv'
<1> SUFFICES ASSUME LInv, [LedgerNext]_ledgerVars PROVE LInv'
  OBVIOUS
<1>1. CASE initialize
  BY <1>1, KeptByInitialize
<1>2. CASE Crash
  BY <1>2, KeptByCrash
<1>3. CASE publish_state
  BY <1>3, KeptByPublishState
<1>4. CASE TryAgain
  BY <1>4, KeptByTryAgain
<1>5. CASE UpdateRates
  BY <1>5, KeptByUpdateRates
<1>6. CASE ReadPage
  BY <1>6, KeptByReadPage
<1>7. CASE publish_confirmed
  BY <1>7, KeptByPublishConfirmed
<1>8. CASE Delete
  BY <1>8, KeptByDelete
<1>9. CASE PageFails
  BY <1>9, KeptByPageFails
<1>10. CASE LateDelivery
  BY <1>10, KeptByLateDelivery
<1>11. CASE \E t \in Topic : Process(t)
  BY <1>11, KeptByProcess
<1>12. CASE UNCHANGED ledgerVars
  <2>1. Shown' /\ TotalsAgree' /\ ChargedOnce'
    BY <1>12, Untouched DEF ledgerVars
  <2>2. WellFormed' /\ FactsKept' /\ DeliveredIsPublished'
    BY <1>12 DEF LInv, WellFormed, FactsKept, Announced, DeliveredIsPublished, ledgerVars
  <2> QED BY <2>1, <2>2 DEF LInv
<1> QED BY <1>1, <1>2, <1>3, <1>4, <1>5, <1>6, <1>7, <1>8, <1>9, <1>10, <1>11, <1>12 DEF LedgerNext

THEOREM LedgerInductive == LedgerSpec => []LInv
<1>1. LedgerInit => LInv
  BY Initially
<1>2. LInv /\ [LedgerNext]_ledgerVars => LInv'
  BY Kept
<1> QED BY <1>1, <1>2, PTL DEF LedgerSpec

(* The totals of the checkpoint and of the memory are those of the ledger, *)
(* for any events, topics, days, crashes and lost acknowledgements: what   *)
(* ledger.process and ledger.initialize promise to the routers.            *)
THEOREM TotalsAlwaysMatch == LedgerSpec => []TotalsMatchLedger
<1>1. LInv => TotalsMatchLedger
  <2> SUFFICES ASSUME LInv PROVE TotalsMatchLedger
    OBVIOUS
  <2>1. \A d \in DOMAIN doc.days : doc.days[d] = Total(ledger, d)
    BY DEF LInv, TotalsAgree
  <2>2. ASSUME work = Ready PROVE memory = View(doc) /\ memory.total = Total(ledger, doc.sim_day)
    <3>1. memory = View(doc) /\ doc.sim_day \in DOMAIN doc.days
      BY <2>2 DEF LInv, Shown, Ready, Down
    <3> QED BY <3>1, <2>1 DEF View
  <2> QED BY <2>1, <2>2 DEF TotalsMatchLedger
<1> QED BY <1>1, LedgerInductive, PTL

(* An event is charged in one commit only, however often it is delivered.  *)
THEOREM AlwaysChargedOnce == LedgerSpec => []ChargedOnce
<1>1. LInv => ChargedOnce
  BY DEF LInv
<1> QED BY <1>1, LedgerInductive, PTL

(* The facts of every charge are in the outbox or on cost.events.          *)
THEOREM FactsAlwaysKept == LedgerSpec => []FactsKept
<1>1. LInv => FactsKept
  BY DEF LInv
<1> QED BY <1>1, LedgerInductive, PTL
-----------------------------------------------------------------------------
(* The facts that the worker publishes.  The rows of the outbox are of     *)
(* different ranks, so that the ones it takes by rank are among them.      *)

Facts == outbox \cup published

Typed(rows) == \A r \in rows : r.revision \in Nat /\ r.position \in Nat
Comparable(rows) == \A r, s \in rows : r = s \/ Earlier(r, s) \/ Earlier(s, r)

OInv ==
  /\ IsFiniteSet(outbox) /\ Comparable(outbox)
  /\ Typed(Facts) /\ \A r \in Facts : r.revision <= revision
  /\ page \in Seq(Facts) /\ unconfirmed \subseteq Facts

LEMMA EarlierIsAnOrder ==
  ASSUME NEW S, Typed(S)
  PROVE  /\ \A r \in S : ~Earlier(r, r)
         /\ \A r, s, t \in S : Earlier(r, s) /\ Earlier(s, t) => Earlier(r, t)
         /\ \A r, s \in S : ~(Earlier(r, s) /\ Earlier(s, r))
  BY DEF Earlier, Typed

(* The rank of a row, how many are before it, grows with the order.        *)
LEMMA RanksGrow ==
  ASSUME NEW S, IsFiniteSet(S), Typed(S), NEW r \in S
  PROVE  /\ Cardinality({x \in S : Earlier(x, r)}) \in 0..(Cardinality(S) - 1)
         /\ Cardinality({x \in S : Earlier(x, r)}) \in Nat
         /\ \A s \in S : Earlier(r, s) => Cardinality({x \in S : Earlier(x, r)})
                                            < Cardinality({x \in S : Earlier(x, s)})
<1> DEFINE before(q) == {x \in S : Earlier(x, q)}
           n == Cardinality(S)
<1>1. n \in Nat
  BY FS_CardinalityType
<1>2. \A q \in S : q \notin before(q) /\ before(q) \in SUBSET S
  BY EarlierIsAnOrder
<1>3. \A q \in S : IsFiniteSet(before(q)) /\ Cardinality(before(q)) \in Nat
  <2> HIDE DEF before
  <2> QED BY <1>2, FS_Subset, FS_CardinalityType
<1>4. Cardinality(before(r)) <= n - 1
  <2>1. before(r) \in SUBSET (S \ {r})
    BY <1>2
  <2>2. IsFiniteSet(S \ {r}) /\ Cardinality(S \ {r}) = n - 1
    BY FS_RemoveElement
  <2> HIDE DEF before, n
  <2> QED BY <2>1, <2>2, FS_Subset
<1>5. ASSUME NEW s \in S, Earlier(r, s)
      PROVE  Cardinality(before(r)) < Cardinality(before(s))
  <2>1. r \notin before(r) /\ before(r) \cup {r} \in SUBSET before(s)
    BY <1>5, EarlierIsAnOrder
  <2> HIDE DEF before
  <2>2. Cardinality(before(r) \cup {r}) = Cardinality(before(r)) + 1
    BY <1>3, <2>1, FS_AddElement
  <2>3. Cardinality(before(r) \cup {r}) <= Cardinality(before(s))
    BY <1>3, <2>1, FS_Subset
  <2> QED BY <1>3, <2>2, <2>3
<1>6. Cardinality(before(r)) \in 0..(n - 1)
  <2> HIDE DEF before, n
  <2> QED BY <1>1, <1>3, <1>4
<1> QED BY <1>3, <1>5, <1>6

(* Every rank, from none to all but one, is that of a row.                 *)
LEMMA Ranks ==
  ASSUME NEW S, IsFiniteSet(S), Typed(S), Comparable(S), NEW i \in 1..Cardinality(S)
  PROVE  \E r \in S : Cardinality({x \in S : Earlier(x, r)}) = i - 1
<1> DEFINE n    == Cardinality(S)
           rank == [r \in S |-> Cardinality({x \in S : Earlier(x, r)})]
<1>1. n \in Nat
  BY FS_CardinalityType
<1>2. \A r \in S : rank[r] \in 0..(n - 1) /\ rank[r] \in Nat
  BY RanksGrow
<1>3. \A r, s \in S : Earlier(r, s) => rank[r] < rank[s]
  BY RanksGrow
<1>4. rank \in Injection(S, 0..(n - 1))
  <2>1. rank \in [S -> 0..(n - 1)]
    BY <1>2
  <2>2. ASSUME NEW r \in S, NEW s \in S, rank[r] = rank[s] PROVE r = s
    <3>1. rank[r] \in Nat /\ rank[s] \in Nat
      BY <1>2
    <3>2. ~Earlier(r, s) /\ ~Earlier(s, r)
      BY <1>3, <2>2, <3>1
    <3> QED BY <3>2 DEF Comparable
  <2> HIDE DEF rank, n
  <2> QED BY <2>1, <2>2 DEF Injection, IsInjective
<1>5. IsFiniteSet(0..(n - 1)) /\ Cardinality(0..(n - 1)) = n
  <2> HIDE DEF n
  <2>1. n - 1 \in Int /\ 0 \in Int
    BY <1>1
  <2>2. IsFiniteSet(0..(n - 1)) /\ Cardinality(0..(n - 1)) = IF 0 > n - 1 THEN 0 ELSE (n - 1) - 0 + 1
    BY <2>1, FS_Interval
  <2> QED BY <1>1, <2>2
<1>6. rank \in Surjection(S, 0..(n - 1))
  <2> HIDE DEF rank
  <2> QED BY <1>4, <1>5, FS_Injection, Zenon
<1>7. i - 1 \in 0..(n - 1)
  BY <1>1
<1>8. PICK r \in S : rank[r] = i - 1
  <2> HIDE DEF rank, n
  <2> QED BY <1>6, <1>7 DEF Surjection
<1> QED BY <1>8

LEMMA RankedHasRank ==
  ASSUME NEW S, IsFiniteSet(S), Typed(S), Comparable(S), NEW i \in 1..Cardinality(S)
  PROVE  Ranked(i, S) \in S /\ Cardinality({x \in S : Earlier(x, Ranked(i, S))}) = i - 1
  BY Ranks DEF Ranked

(* The facts of a commit have a position each.                             *)
Position(item) == CHOOSE i \in DOMAIN Order : Order[i] = item

LEMMA Joined ==
  ASSUME NEW S, NEW s \in Seq(S), NEW t \in Seq(S)
  PROVE  s \o t \in Seq(S) /\ ToSet(s \o t) = ToSet(s) \cup ToSet(t)
<1>1. s \o t \in Seq(S) /\ DOMAIN (s \o t) = 1..(Len(s) + Len(t))
      /\ DOMAIN s = 1..Len(s) /\ DOMAIN t = 1..Len(t) /\ Len(s) \in Nat /\ Len(t) \in Nat
  OBVIOUS
<1>2. \A i \in DOMAIN s : i \in DOMAIN (s \o t) /\ (s \o t)[i] = s[i]
  OBVIOUS
<1>3. \A i \in DOMAIN t : Len(s) + i \in DOMAIN (s \o t) /\ (s \o t)[Len(s) + i] = t[i]
  OBVIOUS
<1>4. ASSUME NEW i \in DOMAIN (s \o t), i \notin DOMAIN s
      PROVE  i - Len(s) \in DOMAIN t /\ (s \o t)[i] = t[i - Len(s)]
  BY <1>1, <1>4
<1>5. ToSet(s \o t) \subseteq ToSet(s) \cup ToSet(t)
  BY <1>2, <1>4 DEF ToSet
<1>6. ToSet(s) \subseteq ToSet(s \o t) /\ ToSet(t) \subseteq ToSet(s \o t)
  BY <1>2, <1>3 DEF ToSet
<1> QED BY <1>1, <1>5, <1>6

LEMMA PositionIs ==
  ASSUME NEW item \in Charged \cup {"rates", "processed"}
  PROVE  Position(item) \in Nat /\ Order[Position(item)] = item
<1> DEFINE S == Charged \cup {"rates", "processed"}
<1>1. Cost \in Seq(S) /\ Carbon \in Seq(S) /\ <<"rates">> \in Seq(S) /\ <<"processed">> \in Seq(S)
  BY DEF Cost, Carbon, Charged
<1>2. ToSet(<<"rates">>) = {"rates"} /\ ToSet(<<"processed">>) = {"processed"}
  BY DEF ToSet
<1>3. Charged \subseteq ToSet(Cost) \cup ToSet(Carbon)
  <2>1. /\ DOMAIN Cost = 1..11 /\ DOMAIN Carbon = 1..2
        /\ Cost[1] = "gate_fee" /\ Cost[2] = "landing_fee" /\ Cost[3] = "ground_handling"
        /\ Cost[4] = "passenger_fee" /\ Cost[5] = "slot_revenue"
        /\ Cost[6] = "eu261_compensation" /\ Cost[7] = "holding_fuel" /\ Cost[8] = "staffing"
        /\ Cost[9] = "retail_revenue" /\ Cost[10] = "incident_direct"
        /\ Cost[11] = "incident_response"
        /\ Carbon[1] = "flight_carbon" /\ Carbon[2] = "terminal_carbon"
    BY DEF Cost, Carbon
  <2>2. \A i \in 1..11 : Cost[i] \in ToSet(Cost)
    BY <2>1 DEF ToSet
  <2>3. \A i \in 1..2 : Carbon[i] \in ToSet(Carbon)
    BY <2>1 DEF ToSet
  <2> QED BY <2>1, <2>2, <2>3 DEF Charged
<1> HIDE DEF S
<1> DEFINE first == <<"rates">>
           last  == <<"processed">>
           two   == first \o Cost
           three == two \o Carbon
           four  == three \o last
<1>4. first \in Seq(S) /\ last \in Seq(S) /\ Order = four
  BY <1>1 DEF Order
<1>5. ToSet(first) = {"rates"} /\ ToSet(last) = {"processed"}
  BY <1>2
<1> HIDE DEF first, last
<1>a. ToSet(two) = ToSet(first) \cup ToSet(Cost) /\ two \in Seq(S)
  BY <1>1, <1>4, Joined, ZenonT(60)
<1> HIDE DEF two
<1>b. ToSet(three) = ToSet(two) \cup ToSet(Carbon) /\ three \in Seq(S)
  <2>1. two \in Seq(S) /\ Carbon \in Seq(S)
    BY <1>1, <1>a
  <2> QED BY <2>1, Joined, ZenonT(60)
<1> HIDE DEF three
<1>c. ToSet(four) = ToSet(three) \cup ToSet(last) /\ four \in Seq(S)
  <2>1. three \in Seq(S) /\ last \in Seq(S)
    BY <1>4, <1>b
  <2> QED BY <2>1, Joined, ZenonT(60)
<1> HIDE DEF four
<1>6. ToSet(Cost) \cup ToSet(Carbon) \cup {"rates", "processed"} \subseteq ToSet(Order)
      /\ Order \in Seq(S)
  BY <1>4, <1>5, <1>a, <1>b, <1>c
<1>7. item \in ToSet(Order)
  BY <1>3, <1>6
<1>8. \E i \in DOMAIN Order : Order[i] = item
  BY <1>7 DEF ToSet
<1>9. DOMAIN Order \subseteq Nat
  BY <1>6
<1> QED BY <1>8, <1>9 DEF Position

LEMMA FactIs ==
  ASSUME NEW e, NEW item, NEW rates
  PROVE  /\ Fact(e, item, rates).event = e /\ Fact(e, item, rates).item = item
         /\ Fact(e, item, rates).revision = revision + 1
         /\ Fact(e, item, rates).position = Position(item)
  BY DEF Fact, Position

(* The rows that a commit writes for an event can be compared.             *)
LEMMA RowsOfEvent ==
  ASSUME NEW e, NEW rates, NEW items \in SUBSET (Charged \cup {"rates", "processed"}),
         revision \in Nat
  PROVE  LET rows == {Fact(e, i, rates) : i \in items}
         IN  /\ IsFiniteSet(rows) /\ Typed(rows) /\ Comparable(rows)
             /\ \A r \in rows : r.revision = revision + 1
<1> DEFINE row  == [i \in items |-> Fact(e, i, rates)]
           rows == {Fact(e, i, rates) : i \in items}
           S    == Charged \cup {"rates", "processed"}
<1>1. IsFiniteSet(items)
  <2>1. IsFiniteSet({"rates", "processed"})
    <3>1. IsFiniteSet({"rates"})
      BY FS_Singleton
    <3>2. {"rates", "processed"} = {"rates"} \cup {"processed"}
      OBVIOUS
    <3> QED BY <3>1, <3>2, FS_AddElement
  <2>2. IsFiniteSet(S)
    BY <2>1, ChargedFinite, FS_Union
  <2> QED BY <2>2, FS_Subset
<1>2. row \in Surjection(items, rows)
  BY DEF Surjection
<1>3. IsFiniteSet(rows)
  <2> HIDE DEF row, rows
  <2> QED BY <1>1, <1>2, FS_Surjection
<1>4. \A r \in rows : \E i \in items : r = Fact(e, i, rates)
  OBVIOUS
<1>5. Typed(rows) /\ \A r \in rows : r.revision = revision + 1
  BY <1>4, FactIs, PositionIs DEF Typed
<1>6. ASSUME NEW r \in rows, NEW s \in rows PROVE r = s \/ Earlier(r, s) \/ Earlier(s, r)
  <2>1. PICK i \in items, j \in items : r = Fact(e, i, rates) /\ s = Fact(e, j, rates)
    BY <1>4
  <2>2. r.revision = s.revision /\ r.position = Position(i) /\ s.position = Position(j)
    BY <2>1, FactIs
  <2>3. CASE i = j
    BY <2>1, <2>3
  <2>4. CASE i # j
    <3>1. /\ Position(i) \in Nat /\ Position(j) \in Nat
          /\ Order[Position(i)] = i /\ Order[Position(j)] = j
      BY PositionIs
    <3>2. Position(i) # Position(j)
      BY <2>4, <3>1
    <3> QED BY <2>2, <3>1, <3>2 DEF Earlier
  <2> QED BY <2>3, <2>4
<1> QED BY <1>3, <1>5, <1>6 DEF Comparable

(* A commit writes rows with a revision of their own.                      *)
LEMMA RowsWritten ==
  ASSUME LInv, OInv, NEW rows, IsFiniteSet(rows), Typed(rows), Comparable(rows),
         \A r \in rows : r.revision = revision + 1,
         revision' = revision + 1, outbox' = outbox \cup rows,
         UNCHANGED <<published, page, unconfirmed>>
  PROVE  OInv'
<1>1. revision \in Nat
  BY DEF LInv, WellFormed
<1>2. Typed(Facts) /\ \A r \in Facts : r.revision <= revision
  BY DEF OInv
<1>3. Facts' = Facts \cup rows
  BY DEF Facts
<1>4. Typed(Facts') /\ \A r \in Facts' : r.revision <= revision'
  BY <1>1, <1>2, <1>3 DEF Typed
<1>5. \A r \in Facts, s \in rows : Earlier(r, s) /\ ~Earlier(s, r)
  BY <1>1, <1>2 DEF Earlier, Typed
<1>6. Comparable(outbox')
  BY <1>5 DEF OInv, Comparable, Facts
<1>7. page' \in Seq(Facts') /\ unconfirmed' \subseteq Facts'
  <2> HIDE DEF Facts
  <2>1. page \in Seq(Facts) /\ unconfirmed \subseteq Facts
    BY DEF OInv
  <2>2. \A F, G : page \in Seq(F) /\ F \subseteq G => page \in Seq(G)
    OBVIOUS
  <2> QED BY <1>3, <2>1, <2>2
<1>8. IsFiniteSet(outbox')
  BY FS_Union DEF OInv
<1> QED BY <1>4, <1>6, <1>7, <1>8 DEF OInv

(* Steps that write no fact; a page or an unconfirmed fact may be given up.*)
LEMMA NoFact ==
  ASSUME LInv, OInv, UNCHANGED outbox, page' \in Seq(Facts), unconfirmed' \subseteq Facts,
         published \subseteq published', published' \subseteq Facts,
         revision' = revision \/ revision' = revision + 1
  PROVE  OInv'
<1>1. revision \in Nat
  BY DEF LInv, WellFormed
<1>2. Facts' = Facts
  BY DEF Facts
<1>3. Typed(Facts') /\ \A r \in Facts' : r.revision <= revision'
  BY <1>1, <1>2 DEF OInv, Typed
<1> QED BY <1>2, <1>3 DEF OInv, Comparable, Earlier

LEMMA FactsAlone ==
  ASSUME LInv, OInv, UNCHANGED <<outbox, published>>, page' = page \/ page' = <<>>,
         unconfirmed' = unconfirmed \/ unconfirmed' = {},
         revision' = revision \/ revision' = revision + 1
  PROVE  OInv'
<1>1. page' \in Seq(Facts) /\ unconfirmed' \subseteq Facts
  <2>1. <<>> \in Seq(Facts)
    OBVIOUS
  <2> QED BY <2>1 DEF OInv
<1>2. published' \subseteq Facts
  BY DEF Facts
<1> QED BY <1>1, <1>2, NoFact

(* A transaction writes the rows of one event, or none.                    *)
LEMMA TransactionRows ==
  ASSUME LInv, OInv, NEW e \in Event, Transaction(e), UNCHANGED <<published, page, unconfirmed>>
  PROVE  OInv'
<1>1. revision \in Nat /\ revision' = revision + 1
  BY DEF LInv, WellFormed, Transaction
<1>2. CASE Seen(e)
  BY <1>1, <1>2, FactsAlone DEF Transaction
<1>3. CASE ~Seen(e)
  <2>1. PICK holding \in BOOLEAN : Apply(e, holding)
    BY <1>3 DEF Transaction
  <2>2. PICK d : d = Selected(e, doc)
    OBVIOUS
  <2>3. PICK items : items = Items(e, d, holding) \cup {"processed"}
    OBVIOUS
  <2>4. PICK rates : rates = d.rates
    OBVIOUS
  <2> DEFINE rows == {Fact(e, i, rates) : i \in items}
  <2>6. outbox' = outbox \cup rows
    BY <2>1, <2>2, <2>3, <2>4 DEF Apply
  <2>7. items \in SUBSET (Charged \cup {"rates", "processed"})
    BY <2>3, ItemsCharged
  <2>8. /\ IsFiniteSet(rows) /\ Typed(rows) /\ Comparable(rows)
        /\ \A r \in rows : r.revision = revision + 1
    BY <1>1, <2>7, RowsOfEvent
  <2> HIDE DEF rows
  <2>9. revision' = revision + 1 /\ UNCHANGED <<published, page, unconfirmed>>
    BY <1>1
  <2> QED BY <2>6, <2>8, <2>9, RowsWritten
<1> QED BY <1>2, <1>3

LEMMA RatesRow ==
  ASSUME LInv, OInv, UpdateRates
  PROVE  OInv'
<1>1. revision \in Nat
  BY DEF LInv, WellFormed
<1>2. PICK rates : rates = doc.rates + 1
  OBVIOUS
<1> DEFINE rows == {Fact(NoEvent, i, rates) : i \in {"rates"}}
<1>3. outbox' = outbox \cup rows
  BY <1>2 DEF UpdateRates
<1>4. /\ IsFiniteSet(rows) /\ Typed(rows) /\ Comparable(rows)
      /\ \A r \in rows : r.revision = revision + 1
  <2>1. {"rates"} \in SUBSET (Charged \cup {"rates", "processed"})
    OBVIOUS
  <2> QED BY <1>1, <2>1, RowsOfEvent
<1> HIDE DEF rows
<1>5. revision' = revision + 1 /\ UNCHANGED <<published, page, unconfirmed>>
  BY DEF UpdateRates
<1> QED BY <1>3, <1>4, <1>5, RowsWritten

(* The worker takes the first rows, by their rank.                         *)
LEMMA ReadAreFacts ==
  ASSUME LInv, OInv, ReadPage
  PROVE  OInv'
<1> DEFINE n == Min({PageSize, Cardinality(outbox)})
<1>1. IsFiniteSet(outbox) /\ Typed(outbox) /\ Comparable(outbox) /\ Cardinality(outbox) \in Nat
  BY FS_CardinalityType DEF OInv, Facts, Typed
<1>2. n \in Nat /\ n <= Cardinality(outbox)
  <2>1. PageSize \in Nat /\ Cardinality(outbox) \in Nat
    BY <1>1, LedgerAssumption
  <2>2. n \in {PageSize, Cardinality(outbox)}
        /\ \A x \in {PageSize, Cardinality(outbox)} : n <= x
    <3> DEFINE S == {PageSize, Cardinality(outbox)}
    <3>1. \E x \in S : \A y \in S : x <= y
      BY <2>1
    <3> HIDE DEF S
    <3>2. Min(S) \in S /\ \A y \in S : Min(S) <= y
      BY <3>1 DEF Min
    <3> QED BY <3>2 DEF S
  <2> QED BY <2>1, <2>2
<1>3. page' = [i \in 1..n |-> Ranked(i, outbox)] /\ page = <<>>
  BY DEF ReadPage
<1> HIDE DEF n
<1>4. \A i \in 1..n : page'[i] \in outbox
  <2>1. \A i \in 1..n : i \in 1..Cardinality(outbox)
    BY <1>1, <1>2
  <2>2. \A i \in 1..n : page'[i] = Ranked(i, outbox)
    BY <1>3
  <2> QED BY <1>1, <2>1, <2>2, RankedHasRank
<1>5. page' \in Seq(outbox)
  <2>1. page' \in [1..n -> outbox]
    BY <1>3, <1>4
  <2> QED BY <1>2, <2>1
<1>10. page' \in Seq(Facts)
  BY <1>5 DEF Facts
<1>11. UNCHANGED <<outbox, published, unconfirmed, revision>>
  BY DEF ReadPage
<1>12. unconfirmed' \subseteq Facts /\ published' \subseteq Facts
  BY <1>11 DEF OInv, Facts
<1> QED BY <1>10, <1>11, <1>12, NoFact

(* The first row of the page is published, now or late.                    *)
LEMMA PublishedAreFacts ==
  ASSUME LInv, OInv, publish_confirmed \/ PageFails \/ LateDelivery
  PROVE  OInv' /\ Facts' = Facts
<1>1. page # <<>> => Head(page) \in Facts
  BY DEF OInv
<1>2. /\ UNCHANGED <<outbox, revision>> /\ (page' = page \/ page' = <<>>)
      /\ published \subseteq published' /\ published' \subseteq Facts
      /\ unconfirmed' \subseteq Facts
  <2>1. CASE publish_confirmed
    BY <1>1, <2>1 DEF publish_confirmed, OInv, Facts
  <2>2. CASE PageFails
    BY <1>1, <2>2 DEF PageFails, OInv, Facts
  <2>3. CASE LateDelivery
    BY <2>3 DEF LateDelivery, OInv, Facts
  <2> QED BY <2>1, <2>2, <2>3
<1>3. page' \in Seq(Facts)
  <2>1. <<>> \in Seq(Facts)
    OBVIOUS
  <2> QED BY <1>2, <2>1 DEF OInv
<1>4. OInv'
  BY <1>2, <1>3, NoFact
<1> QED BY <1>2, <1>4 DEF Facts

LEMMA DeletedAreFacts ==
  ASSUME LInv, OInv, Delete
  PROVE  OInv' /\ Facts' = Facts
<1>1. /\ page # <<>> /\ Head(page) \in published
      /\ outbox' = outbox \ {Head(page)} /\ page' = Tail(page)
      /\ UNCHANGED <<published, revision, unconfirmed>>
  BY DEF LInv, DeliveredIsPublished, Delete
<1>2. Facts' = Facts
  BY <1>1 DEF Facts
<1>3. page' \in Seq(Facts)
  BY <1>1 DEF OInv
<1>4. IsFiniteSet(outbox') /\ Comparable(outbox')
  BY <1>1, FS_Subset DEF OInv, Comparable
<1> QED BY <1>1, <1>2, <1>3, <1>4 DEF OInv, Typed

LEMMA RowsKept == LInv /\ OInv /\ [LedgerNext]_ledgerVars => OInv'
<1> SUFFICES ASSUME LInv, OInv, [LedgerNext]_ledgerVars PROVE OInv'
  OBVIOUS
<1>1. CASE initialize
  BY <1>1, FactsAlone DEF initialize
<1>2. CASE Crash
  BY <1>2, FactsAlone DEF Crash
<1>3. CASE publish_state
  BY <1>3, FactsAlone DEF publish_state
<1>4. CASE TryAgain
  <2>1. PICK t \in Topic : Publishing(t)
    BY <1>4 DEF LInv, Shown, TryAgain, Ready, Down
  <2>2. Log[t][position[t] + 1] \in Event /\ work.topic = t
    BY <2>1, Logged DEF LInv, Shown, Publishing
  <2>3. Transaction(Log[t][position[t] + 1]) /\ UNCHANGED <<published, page, unconfirmed>>
    BY <1>4, <2>2 DEF TryAgain
  <2> QED BY <2>2, <2>3, TransactionRows
<1>5. CASE UpdateRates
  BY <1>5, RatesRow
<1>6. CASE ReadPage
  BY <1>6, ReadAreFacts
<1>7. CASE publish_confirmed
  BY <1>7, PublishedAreFacts
<1>8. CASE Delete
  BY <1>8, DeletedAreFacts
<1>9. CASE PageFails \/ LateDelivery
  BY <1>9, PublishedAreFacts
<1>10. CASE \E t \in Topic : Process(t)
  <2>1. PICK t \in Topic : Process(t)
    BY <1>10
  <2>2. Log[t][position[t] + 1] \in Event
    BY <2>1, Logged DEF LInv, Shown, Process
  <2> QED BY <2>1, <2>2, TransactionRows DEF Process
<1>11. CASE UNCHANGED ledgerVars
  BY <1>11, FactsAlone DEF ledgerVars
<1> QED BY <1>1, <1>2, <1>3, <1>4, <1>5, <1>6, <1>7, <1>8, <1>9, <1>10, <1>11 DEF LedgerNext

LEMMA RowsInitially == LedgerInit => OInv
BY FS_EmptySet DEF LedgerInit, OInv, Facts, Typed, Comparable
-----------------------------------------------------------------------------
(* The day a record is billed on.  The day the checkpoint selects and its  *)
(* clock come from the same tick, so that they say on which date day 1 was;*)
(* as long as there was no tick, day 1 is the only one there is.           *)

TickFacts ==
  {r \in Facts : r.event # NoEvent /\ Envelope[r.event].type = "SimClockTick"}

ClockAgrees ==
  \/ doc.clock_date = NoTime /\ doc.sim_day = 1 /\ TickFacts = {}
  \/ /\ doc.clock_date \in Nat /\ TickFacts # {}
     /\ doc.sim_day = 1 + Date(doc.clock_date) - Date(StartTime)

BInv ==
  /\ ClockAgrees
  /\ \A n \in ledger : n.revision \in Nat /\ n.revision <= revision
  /\ \A n \in ledger :
       n.day = IF \A r \in TickFacts : n.revision < r.revision THEN 1 ELSE TrueDay(n.event)

LEMMA DateIs == \A t \in Nat : Date(t) \in Int
  BY LedgerAssumption DEF Date

(* Steps that tell no tick and charge nothing.                             *)
LEMMA NoTick ==
  ASSUME LInv, BInv, TickFacts' = TickFacts, ledger' = ledger,
         doc'.sim_day = doc.sim_day, doc'.clock_date = doc.clock_date,
         revision' = revision \/ revision' = revision + 1
  PROVE  BInv'
<1>1. revision \in Nat
  BY DEF LInv, WellFormed
<1>2. ClockAgrees'
  BY DEF BInv, ClockAgrees, Date
<1>3. \A n \in ledger' : n.revision \in Nat /\ n.revision <= revision'
  BY <1>1 DEF BInv
<1> QED BY <1>2, <1>3 DEF BInv, TrueDay, Date, At

LEMMA SameFacts ==
  ASSUME Facts' = Facts
  PROVE  TickFacts' = TickFacts
  BY DEF TickFacts

LEMMA ApplyBilled ==
  ASSUME LInv, OInv, BInv, NEW e \in Event, NEW holding \in BOOLEAN,
         revision' = revision + 1, Apply(e, holding), published' = published
  PROVE  BInv'
<1>1. revision \in Nat
  BY DEF LInv, WellFormed
<1>2. PICK G, D : doc \in Document(G, D)
  BY DEF LInv, WellFormed
<1>3. PICK d : d = Selected(e, doc)
  OBVIOUS
<1>4. PICK items : items = Items(e, d, holding)
  OBVIOUS
<1>5. PICK records : records = {[event |-> e, item |-> i, day |-> BillingDay(e, d),
                                 revision |-> revision + 1] : i \in items}
  OBVIOUS
<1>6. PICK rows : rows = {Fact(e, i, d.rates) : i \in items \cup {"processed"}}
  OBVIOUS
<1>touched. PICK touched : touched = {d.sim_day} \cup {n.day : n \in records}
  OBVIOUS
<1>7. /\ doc' = Checkpoint(e, d, records) /\ ledger' = ledger \cup records
      /\ outbox' = outbox \cup rows
  BY <1>3, <1>4, <1>5, <1>6 DEF Apply
<1>8. At(e) \in Nat /\ Envelope[e].day \in Nat
  BY LedgerAssumption DEF At
<1>9. d \in Document(G, D)
  <2>1. Envelope[e].day \in Int /\ At(e) \in Int
    BY <1>8
  <2> QED BY <1>2, <1>3, <2>1 DEF Selected, Document
<1>10. doc'.sim_day = d.sim_day /\ doc'.clock_date = d.clock_date
  <2>1. /\ Checkpoint(e, d, records).sim_day = d.sim_day
        /\ Checkpoint(e, d, records).clock_date = d.clock_date
    <3>1. d \in Document(G, D)
      BY <1>9
    <3> QED BY <3>1, <1>touched, CheckpointIs, ZenonT(60)
  <2> QED BY <1>7, <2>1, Zenon
<1>11. \A n \in records : n.event = e /\ n.revision = revision + 1 /\ n.day = BillingDay(e, d)
  BY <1>5
<1>12. \A r \in rows : r.event = e /\ r.revision = revision + 1
  BY <1>6, FactIs
<1>13. rows # {}
  BY <1>6
<1>14. Facts' = Facts \cup rows
  BY <1>7 DEF Facts
<1>15. \A r \in TickFacts : r.revision \in Nat /\ r.revision <= revision
  BY DEF OInv, Typed, TickFacts
<1>16. NoEvent # e
  BY LedgerAssumption
<1>17. CASE Envelope[e].type = "SimClockTick"
  <2>1. TickFacts' = TickFacts \cup rows
    BY <1>12, <1>14, <1>16, <1>17 DEF TickFacts
  <2>2. d.sim_day = TrueDay(e) /\ d.clock_date = At(e)
    <3>1. d.sim_day = Envelope[e].day /\ d.clock_date = At(e)
      BY <1>2, <1>3, <1>17 DEF Selected, Document
    <3> QED BY <3>1, <1>17, ClockTellsDay
  <2>3. ClockAgrees'
    BY <1>8, <1>10, <1>13, <2>1, <2>2 DEF ClockAgrees, TrueDay, Date
  <2>4. BillingDay(e, d) = TrueDay(e)
    <3>1. Date(At(e)) \in Int /\ d.sim_day \in Int
      BY <1>8, <1>9, DateIs DEF Document
    <3> QED BY <1>8, <2>2, <3>1 DEF BillingDay, NoTime
  <2>5. \A n \in records : ~\A r \in TickFacts' : n.revision < r.revision
    BY <1>1, <1>11, <1>12, <1>13, <2>1
  <2>6. \A n \in ledger : (\A r \in TickFacts' : n.revision < r.revision)
                            <=> (\A r \in TickFacts : n.revision < r.revision)
    BY <1>1, <1>12, <2>1 DEF BInv
  <2>7. \A n \in ledger' : n.revision \in Nat /\ n.revision <= revision'
    BY <1>1, <1>7, <1>11 DEF BInv
  <2>8. \A n \in ledger' :
          n.day = IF \A r \in TickFacts' : n.revision < r.revision THEN 1 ELSE TrueDay(n.event)
    BY <1>7, <1>11, <2>4, <2>5, <2>6 DEF BInv
  <2> QED BY <2>3, <2>7, <2>8 DEF BInv, TrueDay, Date, At
<1>18. CASE Envelope[e].type # "SimClockTick"
  <2>1. TickFacts' = TickFacts
    BY <1>12, <1>14, <1>18 DEF TickFacts
  <2>2. d = doc
    BY <1>3, <1>18 DEF Selected
  <2>3. ClockAgrees'
    BY <1>10, <2>1, <2>2 DEF BInv, ClockAgrees, Date
  <2>4. \A n \in records :
          n.day = IF \A r \in TickFacts' : n.revision < r.revision THEN 1 ELSE TrueDay(n.event)
    <3>1. CASE doc.clock_date = NoTime /\ doc.sim_day = 1 /\ TickFacts = {}
      BY <1>11, <2>1, <2>2, <3>1 DEF BillingDay
    <3>2. CASE /\ doc.clock_date \in Nat /\ TickFacts # {}
               /\ doc.sim_day = 1 + Date(doc.clock_date) - Date(StartTime)
      <4>1. BillingDay(e, d) = TrueDay(e)
        <5>1. Date(At(e)) \in Int /\ Date(doc.clock_date) \in Int /\ Date(StartTime) \in Int
          BY <1>8, <3>2, DateIs, LedgerAssumption
        <5> QED BY <2>2, <3>2, <5>1 DEF BillingDay, NoTime, TrueDay
      <4>2. \A n \in records : ~\A r \in TickFacts' : n.revision < r.revision
        BY <1>1, <1>11, <1>15, <2>1, <3>2
      <4> QED BY <1>11, <4>1, <4>2
    <3> QED BY <3>1, <3>2 DEF BInv, ClockAgrees
  <2>5. \A n \in ledger' : n.revision \in Nat /\ n.revision <= revision'
    BY <1>1, <1>7, <1>11 DEF BInv
  <2>6. \A n \in ledger' :
          n.day = IF \A r \in TickFacts' : n.revision < r.revision THEN 1 ELSE TrueDay(n.event)
    BY <1>7, <2>1, <2>4 DEF BInv
  <2> QED BY <2>3, <2>5, <2>6 DEF BInv, TrueDay, Date, At
<1> QED BY <1>17, <1>18

LEMMA TransactionBilled ==
  ASSUME LInv, OInv, BInv, NEW e \in Event, Transaction(e), published' = published
  PROVE  BInv'
<1>1. CASE Seen(e)
  <2>1. UNCHANGED <<doc, inbox, ledger, outbox, published>> /\ revision' = revision + 1
    BY <1>1 DEF Transaction
  <2>2. TickFacts' = TickFacts
    BY <2>1, SameFacts DEF Facts
  <2> QED BY <2>1, <2>2, NoTick
<1>2. CASE ~Seen(e)
  BY <1>2, ApplyBilled DEF Transaction
<1> QED BY <1>1, <1>2

LEMMA BilledKept == LInv /\ OInv /\ BInv /\ [LedgerNext]_ledgerVars => BInv'
<1> SUFFICES ASSUME LInv, OInv, BInv, [LedgerNext]_ledgerVars PROVE BInv'
  OBVIOUS
<1>1. ASSUME UNCHANGED <<doc, revision, ledger, outbox, published>> PROVE BInv'
  BY <1>1, SameFacts, NoTick DEF Facts
<1>2. CASE initialize
  <2>1. PICK days : doc' = [doc EXCEPT !.days = days]
    BY <1>2 DEF initialize
  <2>2. PICK G, D : doc \in Document(G, D)
    BY DEF LInv, WellFormed
  <2>3. doc'.sim_day = doc.sim_day /\ doc'.clock_date = doc.clock_date
    BY <2>1, <2>2 DEF Document
  <2>4. TickFacts' = TickFacts
    BY <1>2, SameFacts DEF Facts, initialize
  <2> QED BY <1>2, <2>3, <2>4, NoTick DEF initialize
<1>3. CASE TryAgain
  <2>1. PICK t \in Topic : Publishing(t)
    BY <1>3 DEF LInv, Shown, TryAgain, Ready, Down
  <2>2. Log[t][position[t] + 1] \in Event /\ work.topic = t
    BY <2>1, Logged DEF LInv, Shown, Publishing
  <2>3. Transaction(Log[t][position[t] + 1]) /\ published' = published
    BY <1>3, <2>2 DEF TryAgain
  <2> QED BY <2>2, <2>3, TransactionBilled
<1>4. CASE UpdateRates
  <2>1. PICK row : row = Fact(NoEvent, "rates", doc.rates + 1)
    OBVIOUS
  <2>2. row.event = NoEvent /\ Facts' = Facts \cup {row}
    BY <1>4, <2>1, FactIs DEF Facts, UpdateRates
  <2>3. TickFacts' = TickFacts
    BY <2>2 DEF TickFacts
  <2>4. PICK rates : doc' = [doc EXCEPT !.rates = rates]
    BY <1>4 DEF UpdateRates
  <2>5. PICK G, D : doc \in Document(G, D)
    BY DEF LInv, WellFormed
  <2>6. doc'.sim_day = doc.sim_day /\ doc'.clock_date = doc.clock_date
    BY <2>4, <2>5 DEF Document
  <2> QED BY <1>4, <2>3, <2>6, NoTick DEF UpdateRates
<1>5. CASE Delete
  BY <1>5, DeletedAreFacts, SameFacts, NoTick DEF Delete
<1>6. CASE publish_confirmed
  BY <1>6, PublishedAreFacts, SameFacts, NoTick DEF publish_confirmed
<1>7. CASE PageFails \/ LateDelivery
  BY <1>7, PublishedAreFacts, SameFacts, NoTick DEF PageFails, LateDelivery
<1>8. CASE \E t \in Topic : Process(t)
  <2>1. PICK t \in Topic : Process(t)
    BY <1>8
  <2>2. Log[t][position[t] + 1] \in Event
    BY <2>1, Logged DEF LInv, Shown, Process
  <2> QED BY <2>1, <2>2, TransactionBilled DEF Process
<1>9. CASE Crash
  BY <1>1, <1>9 DEF Crash
<1>10. CASE publish_state
  BY <1>1, <1>10 DEF publish_state
<1>11. CASE ReadPage
  BY <1>1, <1>11 DEF ReadPage
<1>12. CASE UNCHANGED ledgerVars
  BY <1>1, <1>12 DEF ledgerVars
<1> QED BY <1>2, <1>3, <1>4, <1>5, <1>6, <1>7, <1>8, <1>9, <1>10, <1>11, <1>12 DEF LedgerNext

(* Once a tick has told the day, a record is billed on the day of its      *)
(* event, in whatever order the topics are read; before, on day 1.         *)
THEOREM AlwaysBilledOnItsDay == LedgerSpec => []BilledOnItsDay
<1>1. LedgerInit => BInv
  <2> SUFFICES ASSUME LedgerInit PROVE BInv
    OBVIOUS
  <2>1. published = {} /\ outbox = {} /\ ledger = {}
    BY DEF LedgerInit
  <2>2. TickFacts = {}
    BY <2>1 DEF TickFacts, Facts
  <2> QED BY <2>1, <2>2 DEF LedgerInit, BInv, ClockAgrees
<1>2. LedgerInit => OInv
  BY RowsInitially
<1>3. LInv /\ OInv /\ BInv /\ [LedgerNext]_ledgerVars => (OInv /\ BInv)'
  BY RowsKept, BilledKept
<1>4. BInv => BilledOnItsDay
  BY DEF BInv, BilledOnItsDay, TickFacts, Facts
<1> QED BY <1>1, <1>2, <1>3, <1>4, LedgerInductive, PTL DEF LedgerSpec
=============================================================================
