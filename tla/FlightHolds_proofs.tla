-------------------------- MODULE FlightHolds_proofs --------------------------
(***************************************************************************)
(* Proofs about FlightHolds, for any flights, schedules, pairings, steps   *)
(* of the clock, requests and samples of the noise.                        *)
(***************************************************************************)
EXTENDS FlightHolds, SequenceTheorems, TLAPS

Node ==
  [status : Status, direction : {"arrival", "departure"}, sched : Nat, est : Nat, actual : Int,
   duration : Nat, delay : Nat, hold : BOOLEAN]
(* A departure never approaches, so it is never diverted.                  *)
MayBe(f, status) == Direction[f] = "departure" => status \notin {"approach", "diverted"}
Nodes == {n \in [Flight -> Node] :
            \A f \in Flight : n[f].direction = Direction[f] /\ MayBe(f, n[f].status)}

(* An update of a query names the status, and clears the manual hold       *)
(* unless it writes 'delayed'.                                             *)
UpdateOK(u) ==
  /\ DOMAIN u \subseteq {"status", "hold", "delay", "est", "actual"}
  /\ "status" \in DOMAIN u /\ u["status"] \in Status
  /\ "hold" \in DOMAIN u => u["hold"] = FALSE
  /\ "delay" \in DOMAIN u => u["delay"] \in Nat
  /\ "est" \in DOMAIN u => u["est"] \in Nat
  /\ "actual" \in DOMAIN u => u["actual"] \in Int
  /\ "hold" \notin DOMAIN u => u["status"] = "delayed"
Members(s) == {s[i] : i \in 1..Len(s)}
IsSeq(s) == s \in Seq(Members(s))
Writes == Members(tick.writes)

TickOK ==
  /\ tick.pc \in {"idle", "next", "decide", "paired", "write"}
  /\ tick.pc = "idle" => tick = Idle
  /\ tick.pc # "idle" => tick.snapshot \in Nodes /\ tick.todo \in SUBSET Flight
  /\ tick.pc \in {"decide", "paired"} => tick.f \in Flight /\ tick.f \notin tick.todo
  /\ tick.pc = "decide" => tick.held \in BOOLEAN
  /\ tick.pc = "paired" => Pair[tick.f] \in Flight /\ tick.snapshot[tick.f].status = "taxiing"
  /\ tick.pc = "write" =>
       /\ IsSeq(tick.writes) /\ Len(tick.writes) > 0
       /\ \A w \in Writes : w.f \in Flight /\ UpdateOK(w.update) /\ MayBe(w.f, w.update["status"])
RequestOK(t) ==
  /\ request[t].pc \in {"idle", "read", "store", "remember", "release", "forget"}
  /\ request[t].pc = "idle" => request[t] = Idle
  /\ request[t].pc # "idle" => request[t].f \in Flight
  /\ request[t].pc = "store" => request[t].est \in Nat /\ request[t].delay \in Nat
Types ==
  /\ flight \in Nodes /\ sim_time \in 0..LastMinute /\ held_flights \in SUBSET Flight
  /\ callers \in {{}, FlightRest} /\ overdue \in [Flight -> Nat]
  /\ request = [t \in Caller |-> request[t]] /\ \A t \in Caller : RequestOK(t)
  /\ TickOK

(* Requests run only where the behaviour has them; the consumer is either  *)
(* at a tick or at a command, and does not release.                        *)
TakeTurns ==
  /\ \A t \in FlightRest : callers = {} => request[t] = Idle
  /\ request[HoldConsumer].pc # "idle" => tick = Idle
  /\ request[HoldConsumer].pc \notin {"release", "forget"}

(* Who has a hold is delayed, in the nodes and in what the tick has read.  *)
HeldAreDelayed(nodes) == \A f \in Flight : nodes[f].hold => nodes[f].status = "delayed"

(* A tick ends only flights that are not ended, each by its last query.    *)
EndsOnce ==
  /\ tick.pc # "idle" => \A f \in tick.todo : flight[f].status \notin Ended
  /\ tick.pc \in {"decide", "paired"} => flight[tick.f].status \notin Ended
  /\ tick.pc = "write" => \A w \in Writes :
       /\ flight[w.f].status \notin Ended
       /\ w.f \in tick.todo => "hold" \notin DOMAIN w.update
       /\ w.update["status"] \in Ended => Len(tick.writes) = 1
  /\ request[HoldConsumer].pc \in {"read", "store"} =>
       flight[request[HoldConsumer].f].status \notin Ended

(* Without requests, a tick knows who is held, and ends a hold only by the *)
(* cancellation that it has taken out of the memory already.               *)
Held == {f \in Flight : flight[f].hold}
Cancelling == IF tick.pc = "write" THEN {w.f : w \in {v \in Writes : v.update["status"] = "cancelled"}} ELSE {}
Known(f) == flight[f].hold = tick.snapshot[f].hold
HoldsKnown ==
  /\ tick.pc # "idle" => \A f \in tick.todo : Known(f)
  /\ tick.pc \in {"decide", "paired"} => Known(tick.f)
  /\ tick.pc = "decide" => tick.held = flight[tick.f].hold
  /\ tick.pc = "write" => \A w \in Writes :
       flight[w.f].hold /\ "hold" \in DOMAIN w.update => w.update["status"] = "cancelled"
  /\ IF request[HoldConsumer].pc = "remember"
     THEN held_flights \cup {request[HoldConsumer].f} = Held
     ELSE held_flights = Held \ Cancelling

HInv ==
  /\ Types /\ TakeTurns
  /\ HeldAreDelayed(flight) /\ (tick.pc # "idle" => HeldAreDelayed(tick.snapshot))
  /\ EndsOnce
  /\ callers = {} => HoldsKnown
-----------------------------------------------------------------------------
LEMMA Minutes ==
  /\ NominalMin \in Nat /\ BufferMin \in Nat /\ LastMinute \in Nat
  /\ \A d \in Steps : d \in Nat /\ d > 0
  /\ \A d \in HoldMinutes : d \in Nat /\ d > 0
  /\ \A d \in NoiseMinutes : d \in Nat /\ d > 0
<1>1. /\ NominalMin \in Nat /\ BufferMin \in Nat /\ LastMinute \in Nat
      /\ Steps \subseteq Nat \ {0} /\ HoldMinutes \subseteq Nat \ {0} /\ NoiseMinutes \subseteq Nat \ {0}
  BY FlightAssumption
<1> QED BY <1>1

LEMMA Pairs == \A f \in Flight : Pair[f] # NoFlight => Pair[f] \in Flight /\ Pair[f] # f
<1>1. Pair \in [Flight -> Flight \cup {NoFlight}]
  BY FlightAssumption
<1>2. \A f \in Flight : Pair[f] # NoFlight => Direction[f] = "arrival" /\ Direction[Pair[f]] = "departure"
  BY FlightAssumption
<1> QED BY <1>1, <1>2

(* What an update leaves of a node. *)
LEMMA UpdatedNode ==
  ASSUME NEW node \in Node, NEW u, UpdateOK(u)
  PROVE  /\ Updated(node, u) \in Node
         /\ Updated(node, u).status = u["status"] /\ Updated(node, u).direction = node.direction
         /\ Updated(node, u).hold = IF "hold" \in DOMAIN u THEN FALSE ELSE node.hold
         /\ Updated(node, u).est = IF "est" \in DOMAIN u THEN u["est"] ELSE node.est
         /\ Updated(node, u).delay = IF "delay" \in DOMAIN u THEN u["delay"] ELSE node.delay
         /\ Updated(node, u).sched = node.sched
BY DEF Node, Updated, UpdateOK

LEMMA StatusUpdateOK ==
  ASSUME NEW s \in Status, NEW more, DOMAIN more \subseteq {"delay", "est", "actual"},
         "delay" \in DOMAIN more => more["delay"] \in Nat,
         "est" \in DOMAIN more => more["est"] \in Nat,
         "actual" \in DOMAIN more => more["actual"] \in Int
  PROVE  /\ UpdateOK(StatusUpdate(s, more)) /\ StatusUpdate(s, more)["status"] = s
         /\ "hold" \in DOMAIN StatusUpdate(s, more) <=> s # "delayed"
         /\ "est" \in DOMAIN StatusUpdate(s, more) => "est" \in DOMAIN more /\ StatusUpdate(s, more)["est"] = more["est"]
         /\ "est" \in DOMAIN more => "est" \in DOMAIN StatusUpdate(s, more)
         /\ "delay" \in DOMAIN more => /\ "delay" \in DOMAIN StatusUpdate(s, more)
                                       /\ StatusUpdate(s, more)["delay"] = more["delay"]
<1> DEFINE u == StatusUpdate(s, more)
<1>1. u = [k \in {"status"} \cup (IF s = "delayed" THEN {} ELSE {"hold"}) \cup DOMAIN more |->
             CASE k = "status" -> s [] k = "hold" -> FALSE [] OTHER -> more[k]]
  BY DEF StatusUpdate
<1>2. DOMAIN u = {"status"} \cup (IF s = "delayed" THEN {} ELSE {"hold"}) \cup DOMAIN more
  BY <1>1
<1>3. u["status"] = s
  BY <1>1
<1>4. /\ "hold" \in DOMAIN u => u["hold"] = FALSE
      /\ "hold" \in DOMAIN u <=> s # "delayed"
  BY <1>1
<1>5. \A k \in DOMAIN more : k \in DOMAIN u /\ u[k] = more[k]
  BY <1>1
<1>6. \A k \in {"delay", "est", "actual"} : k \in DOMAIN u => k \in DOMAIN more
  BY <1>2
<1> HIDE DEF u
<1>7. UpdateOK(u)
  BY <1>2, <1>3, <1>4, <1>5, <1>6 DEF UpdateOK
<1> QED BY <1>3, <1>4, <1>5, <1>6, <1>7 DEF u

(* Sequences of queries. *)
LEMMA ShortSequences ==
  /\ IsSeq(<<>>) /\ Members(<<>>) = {} /\ Len(<<>>) = 0
  /\ \A a : IsSeq(<<a>>) /\ Members(<<a>>) = {a} /\ Len(<<a>>) = 1
  /\ \A a, b : IsSeq(<<a, b>>) /\ Members(<<a, b>>) = {a, b} /\ Len(<<a, b>>) = 2
  /\ \A a, b, c : IsSeq(<<a, b, c>>) /\ Members(<<a, b, c>>) = {a, b, c} /\ Len(<<a, b, c>>) = 3
<1>1. IsSeq(<<>>) /\ Members(<<>>) = {} /\ Len(<<>>) = 0
  BY DEF IsSeq, Members
<1>2. ASSUME NEW a PROVE IsSeq(<<a>>) /\ Members(<<a>>) = {a} /\ Len(<<a>>) = 1
  BY DEF IsSeq, Members
<1>3. ASSUME NEW a, NEW b PROVE IsSeq(<<a, b>>) /\ Members(<<a, b>>) = {a, b} /\ Len(<<a, b>>) = 2
  BY DEF IsSeq, Members
<1>4. ASSUME NEW a, NEW b, NEW c
      PROVE  IsSeq(<<a, b, c>>) /\ Members(<<a, b, c>>) = {a, b, c} /\ Len(<<a, b, c>>) = 3
  BY DEF IsSeq, Members
<1> QED BY <1>1, <1>2, <1>3, <1>4

LEMMA TwoAndThree ==
  ASSUME NEW S, NEW a \in S, NEW b \in S, NEW c \in S, NEW x \in Seq(S), x[1] = a, x[2] = b
  PROVE  /\ Len(x) = 2 => x = <<a, b>>
         /\ Len(x) = 3 /\ x[3] = c => x = <<a, b, c>>
<1>1. ASSUME NEW y \in Seq(S), Len(x) = Len(y), \A i \in 1..Len(x) : x[i] = y[i] PROVE x = y
  BY <1>1, SeqEqual
<1>2. /\ <<a, b>> \in Seq(S) /\ Len(<<a, b>>) = 2 /\ <<a, b>>[1] = a /\ <<a, b>>[2] = b
      /\ <<a, b, c>> \in Seq(S) /\ Len(<<a, b, c>>) = 3
      /\ <<a, b, c>>[1] = a /\ <<a, b, c>>[2] = b /\ <<a, b, c>>[3] = c
  OBVIOUS
<1>3. CASE Len(x) = 2
  <2>1. \A i \in 1..Len(x) : x[i] = <<a, b>>[i]
    BY <1>2, <1>3
  <2> QED BY <1>1, <1>2, <1>3, <2>1
<1>4. CASE Len(x) = 3 /\ x[3] = c
  <2>1. \A i \in 1..Len(x) : x[i] = <<a, b, c>>[i]
    BY <1>2, <1>4
  <2> QED BY <1>1, <1>2, <1>4, <2>1
<1> QED BY <1>3, <1>4

LEMMA Joined == \A a, b, c : <<a>> \o <<b>> = <<a, b>> /\ <<a, b>> \o <<c>> = <<a, b, c>>
<1> SUFFICES ASSUME NEW a, NEW b, NEW c
             PROVE  <<a>> \o <<b>> = <<a, b>> /\ <<a, b>> \o <<c>> = <<a, b, c>>
  OBVIOUS
<1> DEFINE S == {a, b, c}
<1>1. /\ <<a>> \in Seq(S) /\ <<b>> \in Seq(S) /\ <<c>> \in Seq(S)
      /\ <<a, b>> \in Seq(S) /\ a \in S /\ b \in S /\ c \in S
  OBVIOUS
<1> HIDE DEF S
<1>2. /\ <<a>> \o <<b>> \in Seq(S) /\ Len(<<a>> \o <<b>>) = 2
      /\ (<<a>> \o <<b>>)[1] = a /\ (<<a>> \o <<b>>)[2] = b
  <2>1. Len(<<a>>) = 1 /\ Len(<<b>>) = 1 /\ <<a>>[1] = a /\ <<b>>[1] = b
    OBVIOUS
  <2>2. /\ <<a>> \o <<b>> \in Seq(S)
        /\ Len(<<a>> \o <<b>>) = Len(<<a>>) + Len(<<b>>)
        /\ \A i \in 1 .. Len(<<a>>) + Len(<<b>>) : (<<a>> \o <<b>>)[i] =
                     IF i <= Len(<<a>>) THEN <<a>>[i] ELSE <<b>>[i - Len(<<a>>)]
    BY <1>1, ConcatProperties
  <2> QED BY <2>1, <2>2
<1>3. /\ <<a, b>> \o <<c>> \in Seq(S) /\ Len(<<a, b>> \o <<c>>) = 3
      /\ (<<a, b>> \o <<c>>)[1] = a /\ (<<a, b>> \o <<c>>)[2] = b /\ (<<a, b>> \o <<c>>)[3] = c
  <2>1. Len(<<a, b>>) = 2 /\ Len(<<c>>) = 1 /\ <<a, b>>[1] = a /\ <<a, b>>[2] = b /\ <<c>>[1] = c
    OBVIOUS
  <2>2. /\ <<a, b>> \o <<c>> \in Seq(S)
        /\ Len(<<a, b>> \o <<c>>) = Len(<<a, b>>) + Len(<<c>>)
        /\ \A i \in 1 .. Len(<<a, b>>) + Len(<<c>>) : (<<a, b>> \o <<c>>)[i] =
                     IF i <= Len(<<a, b>>) THEN <<a, b>>[i] ELSE <<c>>[i - Len(<<a, b>>)]
    BY <1>1, ConcatProperties
  <2> QED BY <2>1, <2>2
<1>4. ASSUME NEW x, x = <<a>> \o <<b>> PROVE x = <<a, b>>
  <2>1. x \in Seq(S) /\ Len(x) = 2 /\ x[1] = a /\ x[2] = b
    BY <1>2, <1>4
  <2> QED BY ONLY <2>1, <1>1, TwoAndThree
<1>5. ASSUME NEW x, x = <<a, b>> \o <<c>> PROVE x = <<a, b, c>>
  <2>1. x \in Seq(S) /\ Len(x) = 3 /\ x[1] = a /\ x[2] = b /\ x[3] = c
    BY <1>3, <1>5
  <2> QED BY ONLY <2>1, <1>1, TwoAndThree
<1> QED BY <1>4, <1>5

LEMMA SequenceOfItsMembers == ASSUME NEW S, NEW s \in Seq(S) PROVE IsSeq(s)
<1>1. Len(s) \in Nat /\ s \in [1..Len(s) -> S]
  BY LenProperties
<1>2. s = [i \in 1..Len(s) |-> s[i]] /\ \A i \in 1..Len(s) : s[i] \in Members(s)
  BY <1>1 DEF Members
<1> HIDE DEF Members
<1>3. [i \in 1..Len(s) |-> s[i]] \in Seq(Members(s))
  BY <1>1, <1>2
<1> QED BY <1>2, <1>3 DEF IsSeq

LEMMA FirstAndRest ==
  ASSUME NEW s, IsSeq(s), Len(s) > 0
  PROVE  /\ IsSeq(Tail(s)) /\ Len(Tail(s)) = Len(s) - 1 /\ Len(s) \in Nat
         /\ Head(s) \in Members(s) /\ Members(Tail(s)) \subseteq Members(s)
         /\ Members(s) = {Head(s)} \cup Members(Tail(s))
         /\ Len(s) = 1 => Members(Tail(s)) = {}
<1>1. s \in Seq(Members(s)) /\ s # <<>>
  BY DEF IsSeq
<1>2. /\ Head(s) \in Members(s) /\ Tail(s) \in Seq(Members(s)) /\ Len(s) \in Nat
      /\ Len(Tail(s)) = Len(s) - 1
      /\ \A i \in 1..Len(Tail(s)) : Tail(s)[i] = s[i + 1]
  BY <1>1, HeadTailProperties
<1>3. Head(s) = s[1]
  BY <1>1
<1>4. Members(s) = {Head(s)} \cup Members(Tail(s))
  <2>1. \A x \in Members(s) : x = Head(s) \/ x \in Members(Tail(s))
    <3>1. SUFFICES ASSUME NEW i \in 1..Len(s) PROVE s[i] = Head(s) \/ s[i] \in Members(Tail(s))
      BY DEF Members
    <3>2. CASE i = 1
      BY <1>3, <3>2
    <3>3. CASE i # 1
      <4>1. i - 1 \in 1..Len(Tail(s)) /\ Tail(s)[i - 1] = s[i]
        BY <1>2, <3>3
      <4> QED BY <4>1 DEF Members
    <3> QED BY <3>2, <3>3
  <2>2. \A x \in Members(Tail(s)) : x \in Members(s)
    BY <1>2 DEF Members
  <2> QED BY <1>2, <2>1, <2>2
<1>5. Tail(s) \in Seq(Members(Tail(s)))
  BY <1>2, SequenceOfItsMembers DEF IsSeq
<1>6. Len(s) = 1 => Members(Tail(s)) = {}
  <2>1. Len(s) = 1 => Len(Tail(s)) = 0
    BY <1>2
  <2>2. Len(Tail(s)) = 0 => Members(Tail(s)) = {}
    BY DEF Members
  <2> QED BY <2>1, <2>2
<1> QED BY <1>2, <1>4, <1>5, <1>6 DEF IsSeq

LEMMA QueriesLeave ==
  ASSUME NEW ws, IsSeq(ws), Queries(ws)
  PROVE  /\ tick'.pc \in {"next", "write"} /\ tick' # Idle
         /\ tick'.snapshot = tick.snapshot /\ tick'.todo = tick.todo
         /\ tick'.pc = "write" => tick'.writes = ws /\ Len(ws) > 0
         /\ tick'.pc = "next" => ws = <<>>
<1>1. ws # <<>> => Len(ws) > 0
  BY DEF IsSeq
<1> QED BY <1>1 DEF Queries, Idle
(* What the state machine may answer.                                      *)
Answers == Status \cup {Stay}

LEMMA EvaluationIs ==
  ASSUME NEW s \in Node, NEW now, NEW c
  PROVE  LET new == evaluate_transition(s, now, c) IN
           /\ new \in Answers
           /\ new = "departed" => s.status = "boarding"
           /\ new = "at_gate" => s.status = "taxiing"
           /\ s.status = "delayed" /\ c.held => new \in {Stay, "cancelled"}
           /\ s.status \in Ended => new = Stay
           /\ new # "diverted" /\ (s.direction = "departure" => new # "approach")
<1>0. s.status \in Status /\ s.direction \in {"arrival", "departure"} /\ s.delay \in Nat
  BY DEF Node
<1>1. /\ eval_scheduled(s, now, c) \in {"boarding", "approach", Stay}
      /\ s.direction = "departure" => eval_scheduled(s, now, c) # "approach"
  BY <1>0 DEF eval_scheduled, Stay
<1>2. eval_boarding(s, now, c) \in {"delayed", "cancelled", "departed", Stay}
  BY <1>0 DEF eval_boarding
<1>3. /\ eval_delayed(s, c) \in {"cancelled", "boarding", "approach", Stay}
      /\ c.held => eval_delayed(s, c) \in {Stay, "cancelled"}
      /\ s.direction = "departure" => eval_delayed(s, c) # "approach"
  BY <1>0 DEF eval_delayed, Stay
<1>4. /\ eval_airborne(s, now) \in {"approach", "arrived", Stay}
      /\ s.direction = "departure" => eval_airborne(s, now) # "approach"
  BY <1>0 DEF eval_airborne, Stay
<1>5. eval_approach(s, now, c) \in {"landed", "delayed", Stay}
  BY <1>0 DEF eval_approach
<1>6. CASE s.status = "scheduled"
  BY <1>1, <1>6 DEF evaluate_transition, Answers, Status, Stay, Ended
<1>7. CASE s.status = "boarding"
  BY <1>2, <1>7 DEF evaluate_transition, Answers, Status, Stay, Ended
<1>8. CASE s.status = "delayed"
  BY <1>3, <1>8 DEF evaluate_transition, Answers, Status, Stay, Ended
<1>9. CASE s.status = "airborne"
  BY <1>4, <1>9 DEF evaluate_transition, Answers, Status, Stay, Ended
<1>10. CASE s.status = "approach"
  BY <1>5, <1>10 DEF evaluate_transition, Answers, Status, Stay, Ended
<1>11. CASE s.status \in {"departed", "landed", "taxiing", "at_gate", "arrived", "cancelled", "diverted"}
  BY <1>11 DEF evaluate_transition, Answers, Status, Stay, Ended
<1> QED BY <1>0, <1>6, <1>7, <1>8, <1>9, <1>10, <1>11 DEF Status

LEMMA OutcomesAre ==
  ASSUME NEW s \in Node, NEW held \in BOOLEAN, NEW boarded, NEW new \in Outcomes(s, held, boarded)
  PROVE  /\ new \in Answers
         /\ new = "departed" => s.status = "boarding"
         /\ new = "at_gate" => s.status = "taxiing"
         /\ s.status = "delayed" /\ held => new \in {Stay, "cancelled"}
         /\ s.status \in Ended => new = Stay
         /\ new # "diverted" /\ (s.direction = "departure" => new # "approach")
<1> DEFINE Ctx(gate, runway, taxi) ==
             [held |-> held, gate |-> gate, runway |-> runway, boarded |-> boarded,
              initial |-> taxi, total |-> 2 * taxi]
<1>1. PICK gate \in BOOLEAN, runway \in BOOLEAN, taxi \in TaxiMinutes :
        new = evaluate_transition(s, sim_time, Ctx(gate, runway, taxi)) \/ new = Stay
  BY DEF Outcomes
<1>2. CASE new = Stay
  BY <1>2 DEF Answers, Stay
<1>3. CASE new = evaluate_transition(s, sim_time, Ctx(gate, runway, taxi))
  <2>1. Ctx(gate, runway, taxi).held = held
    OBVIOUS
  <2> HIDE DEF Ctx
  <2> QED BY <1>3, <2>1, EvaluationIs
<1> QED BY <1>1, <1>2, <1>3

LEMMA DelayUpdateIs ==
  ASSUME NEW s \in Node, NEW now \in Nat, NEW boarded
  PROVE  LET u == boarding_delay_update(s, now, boarded) IN
           u # NoDelay => u \in Nat /\ s.status = "boarding" /\ u > s.delay
BY DEF boarding_delay_update, NoDelay, Node
(* What a decision may write, and what it takes out of the memory.         *)
Cancelled(ws) == {w.f : w \in {v \in Members(ws) : v.update["status"] = "cancelled"}}
Decided(ws) ==
  /\ IsSeq(ws)
  /\ \A w \in Members(ws) :
       /\ w.f = tick.f /\ UpdateOK(w.update) /\ MayBe(w.f, w.update["status"])
       /\ w.update["status"] \in Ended => Len(ws) = 1
       /\ tick.snapshot[tick.f].hold /\ tick.held /\ "hold" \in DOMAIN w.update =>
            w.update["status"] = "cancelled"

LEMMA OneQuery ==
  ASSUME NEW s \in Status, NEW more, DOMAIN more \subseteq {"delay", "est", "actual"},
         "delay" \in DOMAIN more => more["delay"] \in Nat,
         "est" \in DOMAIN more => more["est"] \in Nat,
         "actual" \in DOMAIN more => more["actual"] \in Int,
         tick.snapshot[tick.f].hold /\ tick.held => s \in {"delayed", "cancelled"},
         MayBe(tick.f, s)
  PROVE  Decided(<<Write(tick.f, StatusUpdate(s, more))>>)
<1> DEFINE w == Write(tick.f, StatusUpdate(s, more))
<1>1. w.f = tick.f /\ w.update = StatusUpdate(s, more)
  BY DEF Write
<1> HIDE DEF w
<1>2. Members(<<w>>) = {w} /\ IsSeq(<<w>>) /\ Len(<<w>>) = 1
  BY ShortSequences
<1>3. Decided(<<w>>)
  BY <1>1, <1>2, StatusUpdateOK DEF Decided
<1> QED BY <1>3 DEF w

LEMMA OneCancelled ==
  ASSUME NEW s \in Status, NEW f, NEW more, DOMAIN more \subseteq {"delay", "est", "actual"}
  PROVE  Cancelled(<<Write(f, StatusUpdate(s, more))>>) = IF s = "cancelled" THEN {f} ELSE {}
<1> DEFINE w == Write(f, StatusUpdate(s, more))
<1>1. w.f = f /\ w.update["status"] = s
  BY DEF Write, StatusUpdate
<1> HIDE DEF w
<1>2. Members(<<w>>) = {w}
  BY ShortSequences
<1>3. Cancelled(<<w>>) = IF s = "cancelled" THEN {f} ELSE {}
  BY <1>1, <1>2 DEF Cancelled
<1> QED BY <1>3 DEF w

(* Queries that keep a departure boarding. *)
Boards(ws) ==
  IsSeq(ws) /\ \A w \in Members(ws) : w.f = tick.f /\ UpdateOK(w.update) /\ w.update["status"] = "boarding"

LEMMA BoardsIsDecided ==
  ASSUME NEW ws, Boards(ws), ~tick.snapshot[tick.f].hold
  PROVE  Decided(ws) /\ Cancelled(ws) = {}
BY DEF Boards, Decided, Cancelled, Ended, MayBe

LEMMA BoardingUpdates ==
  ASSUME NEW d \in Nat, NEW e \in Nat
  PROVE  \A u \in {StatusUpdate("boarding", Delay(d)), StatusUpdate("boarding", [delay |-> d, est |-> e])} :
           UpdateOK(u) /\ u["status"] = "boarding"
<1>1. "boarding" \in Status
  BY DEF Status
<1> QED BY <1>1, StatusUpdateOK DEF Delay

LEMMA BoardingQueries ==
  ASSUME NEW f, f = tick.f,
         NEW U, \A u \in U : UpdateOK(u) /\ u["status"] = "boarding",
         NEW a \in U, NEW b \in U, NEW c \in U
  PROVE  Boards(<<>>) /\ Boards(<<Write(f, a)>>) /\ Boards(<<Write(f, a), Write(f, b)>>)
         /\ Boards(<<Write(f, a), Write(f, b), Write(f, c)>>)
<1>1. \A u \in U : Write(f, u).f = f /\ Write(f, u).update = u
  BY DEF Write
<1> QED BY <1>1, ShortSequences DEF Boards

LEMMA NoiseBoards ==
  ASSUME NEW f, f = tick.f, tick.snapshot[f] \in Node, sim_time \in Nat, NEW minutes \in NoiseMinutes, NEW boarded
  PROVE  /\ CrewDelay(f, minutes, boarded) => \E ws : Boards(ws) /\ Queries(ws)
         /\ CtotDelay(f, minutes, boarded) => \E ws : Boards(ws) /\ Queries(ws)
         /\ Remain(f, boarded) => \E ws : Boards(ws) /\ Queries(ws)
<1> DEFINE s == tick.snapshot[f]
           u == boarding_delay_update(s, sim_time, boarded)
           first == StatusUpdate("boarding", Delay(s.delay + minutes))
           pushed == StatusUpdate("boarding", [delay |-> s.delay + minutes, est |-> s.est + minutes])
           late == StatusUpdate("boarding", Delay(u))
           U == {first, pushed} \cup (IF u = NoDelay THEN {} ELSE {late})
<1>1. s.delay + minutes \in Nat /\ s.est + minutes \in Nat
  BY Minutes DEF Node
<1>2. u # NoDelay => u \in Nat
  BY DelayUpdateIs
<1>3. \A x \in U : UpdateOK(x) /\ x["status"] = "boarding"
  <2> HIDE DEF u
  <2>1. \A x \in {first, pushed} : UpdateOK(x) /\ x["status"] = "boarding"
    BY <1>1, BoardingUpdates
  <2>2. u # NoDelay => UpdateOK(late) /\ late["status"] = "boarding"
    BY <1>2, <1>1, BoardingUpdates
  <2> QED BY <2>1, <2>2
<1>4. CrewDelay(f, minutes, boarded) =>
        Queries(<<Write(f, first), Write(f, pushed)>> \o
             IF u = NoDelay THEN <<>> ELSE <<Write(f, late)>>)
  BY DEF CrewDelay
<1>5. CtotDelay(f, minutes, boarded) =>
        Queries(<<Write(f, pushed)>> \o
             IF u = NoDelay THEN <<>> ELSE <<Write(f, late)>>)
  BY DEF CtotDelay
<1>6. Remain(f, boarded) => Queries(IF u = NoDelay THEN <<>> ELSE <<Write(f, late)>>)
  BY DEF Remain
<1> HIDE DEF first, pushed, late, u
<1>7. \A x, y : /\ <<Write(f, x), Write(f, y)>> \o <<>> = <<Write(f, x), Write(f, y)>>
                /\ <<Write(f, x)>> \o <<>> = <<Write(f, x)>>
  OBVIOUS
<1>8. CASE u = NoDelay
  <2>1. first \in U /\ pushed \in U
    OBVIOUS
  <2> HIDE DEF U
  <2>2. Boards(<<>>) /\ Boards(<<Write(f, first), Write(f, pushed)>>) /\ Boards(<<Write(f, pushed)>>)
    BY <1>3, <2>1, BoardingQueries
  <2> QED BY <1>4, <1>5, <1>6, <1>7, <1>8, <2>2
<1>9. CASE u # NoDelay
  <2>1. first \in U /\ pushed \in U /\ late \in U
    BY <1>9
  <2> HIDE DEF U
  <2>2. Boards(<<Write(f, late)>>) /\ Boards(<<Write(f, first), Write(f, pushed), Write(f, late)>>)
        /\ Boards(<<Write(f, pushed), Write(f, late)>>)
    BY <1>3, <2>1, BoardingQueries
  <2>3. /\ CrewDelay(f, minutes, boarded) => Queries(<<Write(f, first), Write(f, pushed), Write(f, late)>>)
        /\ CtotDelay(f, minutes, boarded) => Queries(<<Write(f, pushed), Write(f, late)>>)
        /\ Remain(f, boarded) => Queries(<<Write(f, late)>>)
    BY <1>4, <1>5, <1>6, <1>9, Joined
  <2> QED BY <2>2, <2>3
<1> QED BY <1>8, <1>9
LEMMA NodesAre ==
  ASSUME NEW n \in Nodes, NEW f \in Flight
  PROVE  n[f] \in Node /\ n[f].status \in Status /\ n[f].delay \in Nat /\ n[f].est \in Nat
         /\ n[f].hold \in BOOLEAN /\ n[f].direction = Direction[f]
         /\ MayBe(f, n[f].status)
BY DEF Nodes, Node

(* A decision leads to queries, or to the delay of the outbound flight.    *)
ToPaired ==
  /\ tick'.pc = "paired" /\ tick'.snapshot = tick.snapshot /\ tick'.todo = tick.todo /\ tick'.f = tick.f
  /\ Pair[tick.f] \in Flight /\ tick.snapshot[tick.f].status = "taxiing"
  /\ held_flights' = held_flights

LEMMA DecideLeaves ==
  ASSUME Types, tick.pc = "decide", HeldAreDelayed(tick.snapshot), Decide
  PROVE  \/ ToPaired
         \/ \E ws : Decided(ws) /\ Queries(ws) /\ held_flights' = held_flights \ Cancelled(ws)
<1> DEFINE f == tick.f
           s == tick.snapshot[f]
<1>0. /\ f \in Flight /\ s \in Node /\ s.delay \in Nat /\ tick.held \in BOOLEAN /\ sim_time \in Nat
      /\ s.status \in Status /\ (s.hold => s.status = "delayed") /\ s.hold \in BOOLEAN
      /\ s.direction = Direction[f] /\ MayBe(f, s.status)
  BY NodesAre DEF Types, TickOK, HeldAreDelayed
<1>1. PICK boarded : \E new \in Outcomes(s, tick.held, boarded) :
        LET diverts == s.status = "approach" /\ new # "landed"
        IN  \/ /\ diverts /\ Queries(Diversion(f)) /\ UNCHANGED held_flights
            \/ /\ new = "departed" /\ Departing(f, boarded) /\ UNCHANGED held_flights
            \/ /\ new # "departed"
               /\ held_flights' = IF new = "cancelled" THEN held_flights \ {f} ELSE held_flights
               /\ CASE new = Stay -> Remain(f, boarded)
                    [] Propagating(f, new) ->
                         tick' = [pc |-> "paired", snapshot |-> tick.snapshot,
                                  todo |-> tick.todo, f |-> f]
                    [] OTHER -> Queries(<<Transition(f, new)>>)
  BY DEF Decide
<1>11. PICK new \in Outcomes(s, tick.held, boarded) :
        LET diverts == s.status = "approach" /\ new # "landed"
        IN  \/ /\ diverts /\ Queries(Diversion(f)) /\ UNCHANGED held_flights
            \/ /\ new = "departed" /\ Departing(f, boarded) /\ UNCHANGED held_flights
            \/ /\ new # "departed"
               /\ held_flights' = IF new = "cancelled" THEN held_flights \ {f} ELSE held_flights
               /\ CASE new = Stay -> Remain(f, boarded)
                    [] Propagating(f, new) ->
                         tick' = [pc |-> "paired", snapshot |-> tick.snapshot,
                                  todo |-> tick.todo, f |-> f]
                    [] OTHER -> Queries(<<Transition(f, new)>>)
  BY <1>1
<1>2. /\ new \in Answers
      /\ new = "departed" => s.status = "boarding"
      /\ new = "at_gate" => s.status = "taxiing"
      /\ s.status = "delayed" /\ tick.held => new \in {Stay, "cancelled"}
      /\ MayBe(f, new)
  BY <1>0, <1>11, OutcomesAre DEF MayBe
<1>3. CASE s.status = "approach" /\ Queries(Diversion(f)) /\ UNCHANGED held_flights
  <2>1. Diversion(f) = <<Write(tick.f, StatusUpdate("diverted", NoMore))>>
    BY DEF Diversion
  <2>2. "diverted" \in Status /\ DOMAIN NoMore = {}
    BY DEF Status, NoMore
  <2>3. /\ Decided(<<Write(tick.f, StatusUpdate("diverted", NoMore))>>)
        /\ Cancelled(<<Write(tick.f, StatusUpdate("diverted", NoMore))>>) = {}
    <3>1. ~s.hold /\ MayBe(f, "diverted")
      BY <1>0, <1>3 DEF MayBe
    <3> QED BY <3>1, <2>2, OneQuery, OneCancelled
  <2> QED BY <1>3, <2>1, <2>3
<1>4. CASE new = "departed" /\ Departing(f, boarded) /\ UNCHANGED held_flights
  <2>1. ~s.hold
    BY <1>0, <1>2, <1>4
  <2>2. CASE \E minutes \in NoiseMinutes : CrewDelay(f, minutes, boarded) \/ CtotDelay(f, minutes, boarded)
    BY <1>0, <1>4, <2>1, <2>2, NoiseBoards, BoardsIsDecided
  <2>3. CASE Queries(<<Transition(f, "departed")>>)
    <3>1. Transition(f, "departed") = Write(tick.f, StatusUpdate("departed", [delay |-> s.delay, actual |-> sim_time]))
      BY DEF Transition
    <3>2. "departed" \in Status /\ MayBe(f, "departed")
      BY DEF Status, MayBe
    <3>3. Decided(<<Transition(f, "departed")>>) /\ Cancelled(<<Transition(f, "departed")>>) = {}
      <4> DEFINE more == [delay |-> s.delay, actual |-> sim_time]
      <4>1. DOMAIN more = {"delay", "actual"} /\ more["delay"] \in Nat /\ more["actual"] \in Int
        BY <1>0
      <4> HIDE DEF more
      <4>2. Decided(<<Write(f, StatusUpdate("departed", more))>>)
            /\ Cancelled(<<Write(f, StatusUpdate("departed", more))>>) = {}
        BY <2>1, <3>2, <4>1, OneQuery, OneCancelled
      <4> QED BY <3>1, <4>2 DEF more
    <3> QED BY <1>4, <2>3, <3>3
  <2> QED BY <1>4, <2>2, <2>3 DEF Departing
<1>5. CASE /\ new # "departed"
           /\ held_flights' = IF new = "cancelled" THEN held_flights \ {f} ELSE held_flights
           /\ CASE new = Stay -> Remain(f, boarded)
                [] Propagating(f, new) ->
                     tick' = [pc |-> "paired", snapshot |-> tick.snapshot,
                              todo |-> tick.todo, f |-> f]
                [] OTHER -> Queries(<<Transition(f, new)>>)
  <2>1. CASE new = Stay
    <3>1. Remain(f, boarded) /\ held_flights' = held_flights
      BY <1>5, <2>1 DEF Stay, Propagating
    <3> DEFINE u == boarding_delay_update(s, sim_time, boarded)
               late == StatusUpdate("boarding", Delay(u))
    <3>2. Queries(IF u = NoDelay THEN <<>> ELSE <<Write(f, late)>>)
      BY <3>1 DEF Remain
    <3>3. u # NoDelay => u \in Nat /\ s.status = "boarding"
      BY <1>0, DelayUpdateIs
    <3> HIDE DEF u
    <3>4. CASE u = NoDelay
      <4>1. Decided(<<>>) /\ Cancelled(<<>>) = {}
        BY ShortSequences DEF Decided, Cancelled
      <4> QED BY <3>1, <3>2, <3>4, <4>1
    <3>5. CASE u # NoDelay
      <4>1. ~s.hold /\ "boarding" \in Status /\ MayBe(f, "boarding")
        BY <1>0, <3>3, <3>5 DEF Status, MayBe
      <4>2. /\ late = StatusUpdate("boarding", [delay |-> u]) /\ DOMAIN [delay |-> u] = {"delay"}
            /\ [delay |-> u]["delay"] \in Nat
        BY <3>3, <3>5 DEF Delay
      <4>3. /\ Decided(<<Write(tick.f, StatusUpdate("boarding", [delay |-> u]))>>)
            /\ Cancelled(<<Write(tick.f, StatusUpdate("boarding", [delay |-> u]))>>) = {}
        <5> DEFINE more == [delay |-> u]
        <5>1. DOMAIN more = {"delay"} /\ more["delay"] \in Nat
          BY <4>2
        <5> HIDE DEF more
        <5>2. /\ Decided(<<Write(tick.f, StatusUpdate("boarding", more))>>)
              /\ Cancelled(<<Write(tick.f, StatusUpdate("boarding", more))>>) = {}
          BY <4>1, <5>1, OneQuery, OneCancelled
        <5> QED BY <5>2 DEF more
      <4>4. Decided(<<Write(f, late)>>) /\ Cancelled(<<Write(f, late)>>) = {}
        BY <4>2, <4>3
      <4> QED BY <3>1, <3>2, <3>5, <4>4
    <3> QED BY <3>4, <3>5
  <2>2. CASE Propagating(f, new)
    <3>1. new # Stay /\ new = "at_gate" /\ Pair[f] \in Flight
      BY <1>0, <2>2, Pairs DEF Propagating, Stay
    <3>2. tick' = [pc |-> "paired", snapshot |-> tick.snapshot, todo |-> tick.todo, f |-> f]
      BY <1>5, <2>2, <3>1
    <3> QED BY <1>2, <1>5, <3>1, <3>2 DEF ToPaired
  <2>3. CASE new # Stay /\ ~Propagating(f, new)
    <3>1. Queries(<<Transition(f, new)>>) /\ new \in Status
      BY <1>2, <1>5, <2>3 DEF Answers
    <3>2. s.hold /\ tick.held => new = "cancelled"
      BY <1>0, <1>2, <2>3
    <3>3. PICK more : /\ Transition(f, new) = Write(tick.f, StatusUpdate(new, more))
                      /\ DOMAIN more \subseteq {"delay", "est", "actual"}
                      /\ "delay" \in DOMAIN more => more["delay"] \in Nat
                      /\ "est" \in DOMAIN more => more["est"] \in Nat
                      /\ "actual" \in DOMAIN more => more["actual"] \in Int
      <4>1. CASE new \in {"departed", "landed"}
        <5> DEFINE more == [delay |-> s.delay, actual |-> sim_time]
        <5>1. Transition(f, new) = Write(tick.f, StatusUpdate(new, more))
          BY <4>1 DEF Transition
        <5>2. DOMAIN more = {"delay", "actual"} /\ more["delay"] \in Nat /\ more["actual"] \in Int
          BY <1>0
        <5> HIDE DEF more
        <5> QED BY <5>1, <5>2
      <4>2. CASE new \notin {"departed", "landed"}
        <5> DEFINE more == [delay |-> s.delay]
        <5>1. Transition(f, new) = Write(tick.f, StatusUpdate(new, more))
          BY <4>2 DEF Transition, Delay
        <5>2. DOMAIN more = {"delay"} /\ more["delay"] \in Nat
          BY <1>0
        <5> HIDE DEF more
        <5> QED BY <5>1, <5>2
      <4> QED BY <4>1, <4>2
    <3>4. Decided(<<Transition(f, new)>>)
      BY <1>2, <3>1, <3>2, <3>3, OneQuery
    <3>5. Cancelled(<<Transition(f, new)>>) = IF new = "cancelled" THEN {f} ELSE {}
      BY <3>1, <3>3, OneCancelled
    <3> QED BY <1>5, <3>1, <3>4, <3>5
  <2> QED BY <2>1, <2>2, <2>3
<1> QED BY <1>11, <1>3, <1>4, <1>5
-----------------------------------------------------------------------------
(* What a query makes of the nodes, and a step of a caller of the requests. *)
LEMMA NodeWritten ==
  ASSUME flight \in Nodes, HeldAreDelayed(flight), NEW f \in Flight, NEW u, UpdateOK(u), MayBe(f, u["status"]),
         flight' = [flight EXCEPT ![f] = Updated(@, u)]
  PROVE  /\ flight' \in Nodes /\ HeldAreDelayed(flight')
         /\ \A g \in Flight : g # f => flight'[g] = flight[g]
         /\ flight'[f].status = u["status"]
         /\ flight'[f].hold = IF "hold" \in DOMAIN u THEN FALSE ELSE flight[f].hold
         /\ flight'[f].est = IF "est" \in DOMAIN u THEN u["est"] ELSE flight[f].est
         /\ flight'[f].delay = IF "delay" \in DOMAIN u THEN u["delay"] ELSE flight[f].delay
         /\ flight'[f].sched = flight[f].sched
<1>1. flight[f] \in Node /\ flight \in [Flight -> Node]
  BY DEF Nodes
<1>2. flight' = [flight EXCEPT ![f] = Updated(flight[f], u)]
  OBVIOUS
<1>3. /\ Updated(flight[f], u) \in Node
      /\ Updated(flight[f], u).status = u["status"] /\ Updated(flight[f], u).direction = flight[f].direction
      /\ Updated(flight[f], u).hold = IF "hold" \in DOMAIN u THEN FALSE ELSE flight[f].hold
      /\ Updated(flight[f], u).est = IF "est" \in DOMAIN u THEN u["est"] ELSE flight[f].est
      /\ Updated(flight[f], u).delay = IF "delay" \in DOMAIN u THEN u["delay"] ELSE flight[f].delay
      /\ Updated(flight[f], u).sched = flight[f].sched
  BY <1>1, UpdatedNode
<1>4. /\ flight' \in [Flight -> Node] /\ flight'[f] = Updated(flight[f], u)
      /\ \A g \in Flight : g # f => flight'[g] = flight[g]
  BY <1>1, <1>2, <1>3
<1>5. flight' \in Nodes
  BY <1>3, <1>4 DEF Nodes
<1>6. "hold" \in DOMAIN u \/ u["status"] = "delayed"
  BY DEF UpdateOK
<1> QED BY <1>3, <1>4, <1>5, <1>6 DEF HeldAreDelayed

LEMMA NodeHeld ==
  ASSUME flight \in Nodes, HeldAreDelayed(flight), NEW f \in Flight, NEW e \in Nat, NEW d \in Nat,
         flight' = [flight EXCEPT ![f] =
              Updated(@, [status |-> "delayed", est |-> e, delay |-> d, hold |-> TRUE])]
  PROVE  /\ flight' \in Nodes /\ HeldAreDelayed(flight')
         /\ \A g \in Flight : g # f => flight'[g] = flight[g]
         /\ flight'[f].status = "delayed" /\ flight'[f].hold /\ flight'[f].sched = flight[f].sched
<1> DEFINE u == [status |-> "delayed", est |-> e, delay |-> d, hold |-> TRUE]
           n == Updated(flight[f], u)
<1>1. flight[f] \in Node /\ flight \in [Flight -> Node]
  BY DEF Nodes
<1>2. n \in Node /\ n.status = "delayed" /\ n.direction = flight[f].direction /\ n.hold
      /\ n.sched = flight[f].sched
  BY <1>1 DEF Node, Updated, Status
<1> HIDE DEF n
<1>3. flight' = [flight EXCEPT ![f] = n]
  BY DEF n
<1>4. /\ flight' \in [Flight -> Node] /\ flight'[f] = n
      /\ \A g \in Flight : g # f => flight'[g] = flight[g]
  BY <1>1, <1>2, <1>3
<1>5. flight' \in Nodes
  BY <1>2, <1>4 DEF Nodes, MayBe
<1> QED BY <1>2, <1>4, <1>5 DEF HeldAreDelayed

LEMMA RequestMoved ==
  ASSUME Types, NEW t \in Caller, NEW r, request' = [request EXCEPT ![t] = r]
  PROVE  /\ request' = [u \in Caller |-> request'[u]]
         /\ request'[t] = r /\ \A u \in Caller : u # t => request'[u] = request[u]
BY DEF Types

LEMMA Callers ==
  /\ HoldConsumer \in Caller /\ HoldConsumer \notin FlightRest
  /\ \A t \in Caller : t \in FlightRest \/ t = HoldConsumer
  /\ \A t \in FlightRest : t \in Caller
<1>1. HoldConsumer \notin FlightRest
  BY FlightAssumption
<1> QED BY <1>1 DEF Caller

LEMMA IdleIs == Idle.pc = "idle"
BY DEF Idle

(* While a tick runs, the consumer is not at a command.                    *)
LEMMA NoCommandInATick ==
  ASSUME HInv, tick.pc # "idle" PROVE request[HoldConsumer] = Idle /\ tick # Idle
<1>1. tick # Idle
  BY IdleIs
<1> QED BY <1>1, Callers DEF HInv, TakeTurns, Types, RequestOK
-----------------------------------------------------------------------------
LEMMA HoldsStart == HoldsInit => HInv
<1> SUFFICES ASSUME HoldsInit PROVE HInv
  OBVIOUS
<1>1. /\ Scheduled \in [Flight -> Nat] /\ Duration \in [Flight -> Nat]
      /\ Direction \in [Flight -> {"arrival", "departure"}]
  BY FlightAssumption
<1>2. flight \in Nodes /\ \A f \in Flight : flight[f].hold = FALSE
  <2>1. flight = [f \in Flight |->
          [status |-> "scheduled", direction |-> Direction[f], sched |-> Scheduled[f],
           est |-> Scheduled[f], actual |-> NoTime, duration |-> Duration[f], delay |-> 0, hold |-> FALSE]]
    BY DEF HoldsInit
  <2>2. \A f \in Flight :
          [status |-> "scheduled", direction |-> Direction[f], sched |-> Scheduled[f],
           est |-> Scheduled[f], actual |-> NoTime, duration |-> Duration[f], delay |-> 0, hold |-> FALSE] \in Node
    BY <1>1 DEF Node, Status, NoTime
  <2> QED BY <2>1, <2>2 DEF Nodes, MayBe
<1>3. tick = Idle /\ tick.pc = "idle" /\ request = [t \in Caller |-> Idle]
  BY IdleIs DEF HoldsInit
<1>4. \A t \in Caller : request[t] = Idle /\ request[t].pc = "idle"
  BY <1>3, IdleIs
<1>5. Types
  <2>1. TickOK
    BY <1>3 DEF TickOK
  <2>2. \A t \in Caller : RequestOK(t)
    BY <1>4 DEF RequestOK
  <2> QED BY <1>2, <1>3, <1>4, <2>1, <2>2, Minutes DEF HoldsInit, Types
<1>6. TakeTurns
  BY <1>4, Callers DEF TakeTurns
<1>7. EndsOnce
  BY <1>3, <1>4, Callers DEF EndsOnce
<1>8. HoldsKnown
  BY <1>2, <1>3, <1>4, Callers DEF HoldsKnown, HoldsInit, Held, Cancelling
<1> QED BY <1>2, <1>3, <1>5, <1>6, <1>7, <1>8 DEF HInv, HeldAreDelayed

LEMMA TickKeeps == HInv /\ Tick => HInv'
<1> SUFFICES ASSUME HInv, Tick PROVE HInv'
  OBVIOUS
<1>1. /\ tick = Idle /\ tick.pc = "idle" /\ request[HoldConsumer] = Idle /\ request[HoldConsumer].pc = "idle"
      /\ tick'.pc = "next" /\ tick'.snapshot = flight /\ tick' # Idle
      /\ tick'.todo = {f \in Flight : flight[f].status \notin TERMINAL_STATES}
      /\ UNCHANGED <<flight, held_flights, request, callers, overdue>>
  BY IdleIs DEF Tick
<1>2. sim_time' \in 0..LastMinute
  <2>1. PICK d \in Steps : sim_time + d <= LastMinute /\ sim_time' = sim_time + d
    BY DEF Tick
  <2> QED BY <2>1, Minutes DEF HInv, Types
<1>3. Types'
  <2>1. TickOK'
    BY <1>1 DEF TickOK, HInv, Types
  <2>2. \A t \in Caller : RequestOK(t)'
    BY <1>1 DEF RequestOK, HInv, Types
  <2> QED BY <1>1, <1>2, <2>1, <2>2 DEF Types, HInv
<1>4. TakeTurns'
  BY <1>1 DEF TakeTurns, HInv
<1>5. EndsOnce'
  BY <1>1 DEF EndsOnce, Ended, TERMINAL_STATES
<1>6. callers' = {} => HoldsKnown'
  BY <1>1 DEF HoldsKnown, HInv, Held, Cancelling, Known
<1> QED BY <1>1, <1>3, <1>4, <1>5, <1>6 DEF HInv, HeldAreDelayed

LEMMA EndTickKeeps == HInv /\ EndTick => HInv'
<1> SUFFICES ASSUME HInv, EndTick PROVE HInv'
  OBVIOUS
<1>1. /\ tick.pc = "next" /\ tick.pc # "idle" /\ tick' = Idle /\ tick'.pc = "idle"
      /\ UNCHANGED <<flight, sim_time, held_flights, request, callers>>
  BY IdleIs DEF EndTick
<1>2. request[HoldConsumer] = Idle /\ request[HoldConsumer].pc = "idle"
  BY <1>1, IdleIs, NoCommandInATick
<1>3. overdue' \in [Flight -> Nat]
  <2>1. \A f \in Flight : overdue[f] \in Nat /\ overdue[f] + 1 \in Nat
    BY DEF HInv, Types
  <2> QED BY <2>1 DEF EndTick
<1>4. Types'
  <2>1. TickOK'
    BY <1>1 DEF TickOK
  <2>2. \A t \in Caller : RequestOK(t)'
    BY <1>1 DEF RequestOK, HInv, Types
  <2> QED BY <1>1, <1>3, <2>1, <2>2 DEF Types, HInv
<1>5. TakeTurns'
  BY <1>1 DEF TakeTurns, HInv
<1>6. EndsOnce'
  BY <1>1, <1>2 DEF EndsOnce
<1>7. callers' = {} => HoldsKnown'
  BY <1>1, <1>2 DEF HoldsKnown, HInv, Held, Cancelling, Known
<1> QED BY <1>1, <1>4, <1>5, <1>6, <1>7 DEF HInv, HeldAreDelayed

LEMMA ProcessKeeps == ASSUME NEW f \in Flight PROVE HInv /\ Process(f) => HInv'
<1> SUFFICES ASSUME HInv, Process(f) PROVE HInv'
  OBVIOUS
<1>1. /\ tick.pc = "next" /\ tick.pc # "idle" /\ tick'.pc = "decide" /\ tick' # Idle /\ f \in tick.todo
      /\ tick'.snapshot = tick.snapshot /\ tick'.todo = tick.todo \ {f} /\ tick'.f = f
      /\ tick'.held = (f \in held_flights)
      /\ UNCHANGED <<flight, sim_time, held_flights, request, callers, overdue>>
  BY IdleIs DEF Process
<1>2. request[HoldConsumer] = Idle /\ request[HoldConsumer].pc = "idle"
  BY <1>1, IdleIs, NoCommandInATick
<1>4. Types'
  <2>1. TickOK'
    BY <1>1 DEF TickOK, HInv, Types
  <2>2. \A t \in Caller : RequestOK(t)'
    BY <1>1 DEF RequestOK, HInv, Types
  <2> QED BY <1>1, <2>1, <2>2 DEF Types, HInv
<1>5. TakeTurns'
  BY <1>1, <1>2 DEF TakeTurns, HInv, Idle
<1>6. EndsOnce'
  BY <1>1, <1>2 DEF EndsOnce, HInv
<1>7. callers' = {} => HoldsKnown'
  <2> SUFFICES ASSUME callers = {} PROVE HoldsKnown'
    BY <1>1
  <2>1. held_flights = Held /\ Held' = Held /\ Cancelling' = {} /\ flight[f].hold \in BOOLEAN
    BY <1>1, <1>2, NodesAre DEF HoldsKnown, HInv, Types, Held, Cancelling
  <2>2. tick'.held = flight[f].hold
    BY <1>1, <2>1 DEF Held
  <2>3. \A g \in tick.todo : Known(g) /\ Known(g)'
    BY <1>1 DEF HoldsKnown, HInv, Known
  <2> QED BY <1>1, <1>2, <2>1, <2>2, <2>3 DEF HoldsKnown
<1> QED BY <1>1, <1>4, <1>5, <1>6, <1>7 DEF HInv, HeldAreDelayed

LEMMA DecideKeeps == HInv /\ Decide => HInv'
<1> SUFFICES ASSUME HInv, Decide PROVE HInv'
  OBVIOUS
<1>1. /\ tick.pc = "decide" /\ tick.pc # "idle"
      /\ UNCHANGED <<flight, sim_time, request, callers, overdue>>
  BY DEF Decide
<1>2. request[HoldConsumer] = Idle /\ request[HoldConsumer].pc = "idle"
  BY <1>1, IdleIs, NoCommandInATick
<1>3. /\ tick.f \in Flight /\ tick.f \notin tick.todo /\ tick.snapshot \in Nodes /\ tick.todo \in SUBSET Flight
      /\ flight[tick.f].status \notin Ended /\ (\A g \in tick.todo : flight[g].status \notin Ended)
  BY <1>1 DEF HInv, Types, TickOK, EndsOnce
<1>4. HeldAreDelayed(tick.snapshot) /\ held_flights \in SUBSET Flight
  BY <1>1 DEF HInv, Types
<1>5. \A t \in Caller : RequestOK(t)'
  BY <1>1 DEF RequestOK, HInv, Types
<1>6. callers = {} => /\ held_flights = Held /\ Held' = Held
                      /\ \A g \in tick.todo : Known(g)
                      /\ Known(tick.f) /\ tick.held = flight[tick.f].hold
  BY <1>1, <1>2 DEF HoldsKnown, HInv, Held, Cancelling
<1>7. CASE ToPaired
  <2>1. /\ tick'.pc = "paired" /\ tick' # Idle /\ tick'.snapshot = tick.snapshot /\ tick'.todo = tick.todo
        /\ tick'.f = tick.f /\ held_flights' = held_flights
        /\ Pair[tick.f] \in Flight /\ tick.snapshot[tick.f].status = "taxiing"
    BY <1>7, IdleIs DEF ToPaired
  <2>2. Types'
    <3>1. TickOK'
      BY <1>3, <2>1 DEF TickOK
    <3> QED BY <1>1, <1>5, <2>1, <3>1 DEF Types, HInv
  <2>3. TakeTurns'
    BY <1>1, <1>2 DEF TakeTurns, HInv, Idle
  <2>4. EndsOnce'
    BY <1>1, <1>2, <1>3, <2>1 DEF EndsOnce
  <2>5. callers' = {} => HoldsKnown'
    BY <1>1, <1>2, <1>6, <2>1 DEF HoldsKnown, Known, Cancelling
  <2> QED BY <1>1, <1>4, <2>1, <2>2, <2>3, <2>4, <2>5 DEF HInv, HeldAreDelayed
<1>8. CASE \E ws : Decided(ws) /\ Queries(ws) /\ held_flights' = held_flights \ Cancelled(ws)
  <2>1. PICK ws : Decided(ws) /\ Queries(ws) /\ held_flights' = held_flights \ Cancelled(ws)
    BY <1>8
  <2>2. /\ IsSeq(ws)
        /\ \A w \in Members(ws) :
             /\ w.f = tick.f /\ UpdateOK(w.update) /\ MayBe(w.f, w.update["status"])
             /\ w.update["status"] \in Ended => Len(ws) = 1
             /\ tick.snapshot[tick.f].hold /\ tick.held /\ "hold" \in DOMAIN w.update =>
                  w.update["status"] = "cancelled"
    BY <2>1 DEF Decided
  <2>3. /\ tick'.pc \in {"next", "write"} /\ tick' # Idle
        /\ tick'.snapshot = tick.snapshot /\ tick'.todo = tick.todo
        /\ tick'.pc = "write" => tick'.writes = ws /\ Len(ws) > 0
        /\ tick'.pc = "next" => ws = <<>>
    BY <2>1, <2>2, QueriesLeave
  <2>4. /\ tick'.pc = "write" => Writes' = Members(ws)
        /\ tick'.pc = "next" => Cancelled(ws) = {}
    BY <2>3, ShortSequences DEF Writes, Members, Cancelled
  <2>5. Cancelling' = Cancelled(ws)
    BY <2>3, <2>4 DEF Cancelling, Cancelled
  <2>6. Types'
    <3>1. TickOK'
      BY <1>3, <2>2, <2>3, <2>4 DEF TickOK
    <3> QED BY <1>1, <1>4, <1>5, <2>1, <3>1 DEF Types, HInv
  <2>7. TakeTurns'
    BY <1>1, <1>2 DEF TakeTurns, HInv, Idle
  <2>8. EndsOnce'
    <3>1. \A w \in Members(ws) : /\ flight[w.f].status \notin Ended /\ w.f \notin tick.todo
                                 /\ w.update["status"] \in Ended => Len(ws) = 1
      BY <1>3, <2>2
    <3> QED BY <1>1, <1>2, <1>3, <2>3, <2>4, <3>1 DEF EndsOnce
  <2>9. callers' = {} => HoldsKnown'
    <3> SUFFICES ASSUME callers = {} PROVE HoldsKnown'
      BY <1>1
    <3>1. \A g \in tick'.todo : Known(g)'
      BY <1>1, <1>6, <2>3 DEF Known
    <3>2. \A w \in Members(ws) : flight[w.f].hold /\ "hold" \in DOMAIN w.update =>
                                   w.update["status"] = "cancelled"
      BY <1>6, <2>2 DEF Known
    <3>3. held_flights' = Held' \ Cancelling'
      BY <1>6, <2>1, <2>5
    <3>4. tick'.pc = "write" => \A w \in Writes' : flight'[w.f].hold /\ "hold" \in DOMAIN w.update =>
                                   w.update["status"] = "cancelled"
      BY <1>1, <2>4, <3>2
    <3> QED BY <1>1, <1>2, <2>3, <3>1, <3>3, <3>4, IdleIs DEF HoldsKnown
  <2> QED BY <1>1, <1>4, <2>3, <2>6, <2>7, <2>8, <2>9 DEF HInv, HeldAreDelayed
<1> QED BY <1>1, <1>4, <1>7, <1>8, DecideLeaves DEF HInv

(* The delay an arrival passes on, and the end of its taxiing. *)
LEMMA PairedLeaves ==
  ASSUME HInv, tick.pc = "paired", ReadPaired
  PROVE  \E ws : /\ IsSeq(ws) /\ Len(ws) > 0 /\ Queries(ws)
                 /\ \A w \in Members(ws) :
                      /\ w.f \in Flight /\ UpdateOK(w.update) /\ MayBe(w.f, w.update["status"])
                      /\ w.update["status"] \notin Ended
                      /\ \/ w.f = tick.f
                         \/ /\ "hold" \notin DOMAIN w.update
                            /\ flight[w.f].status \notin Ended
<1> DEFINE f == tick.f
           out == Pair[f]
           s == tick.snapshot[f]
           late == [status |-> "delayed", delay |-> Propagated(f), est |-> flight[out].est + Propagated(f)]
           a == Write(out, late)
           b == Transition(f, "at_gate")
<1>1. /\ f \in Flight /\ out \in Flight /\ s.delay \in Nat /\ Direction[f] = "arrival" /\ Direction[out] = "departure"
      /\ flight[out].est \in Nat /\ flight[out].status \in Status /\ MayBe(out, flight[out].status)
  <2>1. f \in Flight /\ out \in Flight /\ tick.snapshot \in Nodes /\ flight \in Nodes
    BY DEF HInv, Types, TickOK
  <2>2. out # NoFlight /\ (out # NoFlight => Direction[f] = "arrival" /\ Direction[out] = "departure")
    BY <2>1, FlightAssumption
  <2> QED BY <2>1, <2>2, NodesAre
<1>2. Propagated(f) \in Nat
  BY <1>1, Minutes DEF Propagated, PropagatedDelay
<1>3. b = Write(f, StatusUpdate("at_gate", Delay(s.delay)))
  BY DEF Transition
<1>4. UpdateOK(late) /\ late["status"] = "delayed" /\ "hold" \notin DOMAIN late
  BY <1>1, <1>2 DEF UpdateOK, Status
<1>5. UpdateOK(StatusUpdate("at_gate", Delay(s.delay))) /\ StatusUpdate("at_gate", Delay(s.delay))["status"] = "at_gate"
  <2> DEFINE more == [delay |-> s.delay]
  <2>1. DOMAIN more = {"delay"} /\ more["delay"] \in Nat /\ "at_gate" \in Status
    BY <1>1 DEF Status
  <2> HIDE DEF more
  <2>2. UpdateOK(StatusUpdate("at_gate", more)) /\ StatusUpdate("at_gate", more)["status"] = "at_gate"
    BY <2>1, StatusUpdateOK
  <2> QED BY <2>2 DEF Delay, more
<1>6. /\ b.f = f /\ UpdateOK(b.update) /\ b.update["status"] = "at_gate"
      /\ a.f = out /\ a.update = late
  BY <1>3, <1>5 DEF Write
<1>7. \A w \in {a, b} :
        /\ w.f \in Flight /\ UpdateOK(w.update) /\ MayBe(w.f, w.update["status"])
        /\ w.update["status"] \notin Ended
  BY <1>1, <1>4, <1>6 DEF MayBe, Ended
<1>8. Propagates(flight[out].status) => "hold" \notin DOMAIN a.update /\ flight[out].status \notin Ended
  BY <1>1, <1>4, <1>6 DEF Propagates, Ended, MayBe
<1>9. Queries((IF Propagates(flight[out].status) THEN <<a>> ELSE <<>>) \o <<b>>)
  BY DEF ReadPaired
<1> HIDE DEF late, a, b
<1>10. CASE Propagates(flight[out].status)
  <2>1. Queries(<<a, b>>)
    BY <1>9, <1>10, Joined
  <2>2. IsSeq(<<a, b>>) /\ Members(<<a, b>>) = {a, b} /\ Len(<<a, b>>) > 0
    BY ShortSequences
  <2> QED BY <1>6, <1>7, <1>8, <1>10, <2>1, <2>2
<1>11. CASE ~Propagates(flight[out].status)
  <2>1. Queries(<<b>>)
    <3>1. <<>> \o <<b>> = <<b>>
      OBVIOUS
    <3> QED BY <1>9, <1>11, <3>1
  <2>2. IsSeq(<<b>>) /\ Members(<<b>>) = {b} /\ Len(<<b>>) > 0
    BY ShortSequences
  <2> QED BY <1>6, <1>7, <2>1, <2>2
<1> QED BY <1>10, <1>11

LEMMA ReadPairedKeeps == HInv /\ ReadPaired => HInv'
<1> SUFFICES ASSUME HInv, ReadPaired PROVE HInv'
  OBVIOUS
<1>1. /\ tick.pc = "paired" /\ tick.pc # "idle"
      /\ UNCHANGED <<flight, sim_time, held_flights, request, callers, overdue>>
  BY DEF ReadPaired
<1>2. request[HoldConsumer] = Idle /\ request[HoldConsumer].pc = "idle"
  BY <1>1, IdleIs, NoCommandInATick
<1>3. /\ tick.f \in Flight /\ tick.f \notin tick.todo /\ tick.snapshot \in Nodes /\ tick.todo \in SUBSET Flight
      /\ tick.snapshot[tick.f].status = "taxiing" /\ HeldAreDelayed(tick.snapshot)
      /\ flight[tick.f].status \notin Ended /\ (\A g \in tick.todo : flight[g].status \notin Ended)
      /\ flight[tick.f].hold \in BOOLEAN /\ tick.snapshot[tick.f].hold \in BOOLEAN
  BY <1>1, NodesAre DEF HInv, Types, TickOK, EndsOnce
<1>4. PICK ws : /\ IsSeq(ws) /\ Len(ws) > 0 /\ Queries(ws)
                 /\ \A w \in Members(ws) :
                      /\ w.f \in Flight /\ UpdateOK(w.update) /\ MayBe(w.f, w.update["status"])
                      /\ w.update["status"] \notin Ended
                      /\ \/ w.f = tick.f
                         \/ /\ "hold" \notin DOMAIN w.update
                            /\ flight[w.f].status \notin Ended
  BY <1>1, PairedLeaves
<1>5. /\ tick'.pc = "write" /\ tick'.writes = ws /\ tick' # Idle
      /\ tick'.snapshot = tick.snapshot /\ tick'.todo = tick.todo
  <2>1. ws # <<>>
    BY <1>4, ShortSequences
  <2> QED BY <1>4, <2>1, QueriesLeave
<1>6. Writes' = Members(ws)
  BY <1>5 DEF Writes, Members
<1>7. Types'
  <2>1. TickOK'
    BY <1>3, <1>4, <1>5, <1>6 DEF TickOK
  <2>2. \A t \in Caller : RequestOK(t)'
    BY <1>1 DEF RequestOK, HInv, Types
  <2> QED BY <1>1, <2>1, <2>2 DEF Types, HInv
<1>8. TakeTurns'
  BY <1>1, <1>2 DEF TakeTurns, HInv, Idle
<1>9. EndsOnce'
  <2>1. \A w \in Members(ws) : /\ flight[w.f].status \notin Ended
                               /\ w.f \in tick.todo => "hold" \notin DOMAIN w.update
                               /\ w.update["status"] \notin Ended
    BY <1>3, <1>4
  <2> QED BY <1>1, <1>2, <1>3, <1>5, <1>6, <2>1 DEF EndsOnce
<1>10. callers' = {} => HoldsKnown'
  <2> SUFFICES ASSUME callers = {} PROVE HoldsKnown'
    BY <1>1
  <2>1. /\ held_flights = Held /\ Held' = Held /\ (\A g \in tick.todo : Known(g)) /\ Known(tick.f)
    BY <1>1, <1>2 DEF HoldsKnown, HInv, Held, Cancelling
  <2>2. ~flight[tick.f].hold
    BY <1>3, <2>1 DEF Known, HeldAreDelayed
  <2>3. \A w \in Members(ws) : ~(flight[w.f].hold /\ "hold" \in DOMAIN w.update)
    BY <1>4, <2>2
  <2>4. Cancelling' = {}
    <3>1. \A w \in Writes' : w.update["status"] # "cancelled"
      BY <1>4, <1>6 DEF Ended
    <3> QED BY <3>1 DEF Cancelling
  <2>5. \A g \in tick'.todo : Known(g)'
    BY <1>1, <1>5, <2>1 DEF Known
  <2>6. held_flights' = Held' \ Cancelling'
    BY <1>1, <2>1, <2>4
  <2> QED BY <1>1, <1>2, <1>5, <1>6, <2>3, <2>5, <2>6, IdleIs DEF HoldsKnown
<1> QED BY <1>1, <1>5, <1>7, <1>8, <1>9, <1>10 DEF HInv, HeldAreDelayed

LEMMA WriteNextKeeps ==
  ASSUME HInv, WriteNext
  PROVE  /\ HInv'
         /\ \A f \in Flight :
              /\ callers = {} /\ flight[f].hold => flight'[f].hold \/ flight'[f].status = "cancelled"
              /\ flight[f].status \in Ended => flight'[f].status = flight[f].status
<1> DEFINE w == Head(tick.writes)
<1>1. /\ tick.pc = "write" /\ tick.pc # "idle" /\ Queries(Tail(tick.writes))
      /\ flight' = [flight EXCEPT ![w.f] = Updated(@, w.update)]
      /\ overdue' = [overdue EXCEPT ![w.f] =
           IF w.update["status"] = "boarding" /\ "est" \notin DOMAIN w.update THEN @ ELSE 0]
      /\ UNCHANGED <<sim_time, held_flights, request, callers>>
  BY DEF WriteNext
<1>2. request[HoldConsumer] = Idle /\ request[HoldConsumer].pc = "idle"
  BY <1>1, IdleIs, NoCommandInATick
<1>3. /\ flight \in Nodes /\ HeldAreDelayed(flight) /\ HeldAreDelayed(tick.snapshot) /\ TickOK /\ EndsOnce
      /\ callers = {} => HoldsKnown
  BY <1>1 DEF HInv, Types
<1>4. /\ tick.snapshot \in Nodes /\ tick.todo \in SUBSET Flight
      /\ IsSeq(tick.writes) /\ Len(tick.writes) > 0
      /\ \A v \in Writes : v.f \in Flight /\ UpdateOK(v.update) /\ MayBe(v.f, v.update["status"])
  BY <1>1, <1>3 DEF TickOK
<1>5. /\ IsSeq(Tail(tick.writes)) /\ Len(Tail(tick.writes)) = Len(tick.writes) - 1 /\ Len(tick.writes) \in Nat
      /\ w \in Writes /\ Members(Tail(tick.writes)) \subseteq Writes
      /\ Writes = {w} \cup Members(Tail(tick.writes))
      /\ Len(tick.writes) = 1 => Members(Tail(tick.writes)) = {}
  BY <1>4, FirstAndRest DEF Writes
<1>6. /\ tick'.pc \in {"next", "write"} /\ tick' # Idle
      /\ tick'.snapshot = tick.snapshot /\ tick'.todo = tick.todo
      /\ tick'.pc = "write" => tick'.writes = Tail(tick.writes) /\ Len(Tail(tick.writes)) > 0
      /\ tick'.pc = "next" => Tail(tick.writes) = <<>>
  BY <1>1, <1>5, QueriesLeave
<1>7. /\ tick'.pc = "write" => Writes' = Members(Tail(tick.writes))
      /\ tick'.pc = "next" => Members(Tail(tick.writes)) = {}
  <2>1. tick'.pc = "write" => Writes' = Members(Tail(tick.writes))
    BY <1>6 DEF Writes, Members
  <2>2. Tail(tick.writes) = <<>> => Members(Tail(tick.writes)) = {}
    BY ShortSequences
  <2> QED BY <1>6, <2>1, <2>2
<1>8. w.f \in Flight /\ UpdateOK(w.update) /\ MayBe(w.f, w.update["status"])
  BY <1>4, <1>5
<1> HIDE DEF w
<1>9. /\ flight' \in Nodes /\ HeldAreDelayed(flight')
      /\ \A g \in Flight : g # w.f => flight'[g] = flight[g]
      /\ flight'[w.f].status = w.update["status"]
      /\ flight'[w.f].hold = IF "hold" \in DOMAIN w.update THEN FALSE ELSE flight[w.f].hold
  BY <1>1, <1>3, <1>8, NodeWritten
<1>10. "hold" \in DOMAIN w.update \/ w.update["status"] = "delayed"
  BY <1>8 DEF UpdateOK
<1>11. /\ \A g \in tick.todo : flight[g].status \notin Ended
       /\ \A v \in Writes :
            /\ flight[v.f].status \notin Ended
            /\ v.f \in tick.todo => "hold" \notin DOMAIN v.update
            /\ v.update["status"] \in Ended => Len(tick.writes) = 1
  BY <1>1, <1>3 DEF EndsOnce
<1>12. \A v \in Members(Tail(tick.writes)) : v.update["status"] \notin Ended /\ w.update["status"] \notin Ended
  BY <1>5, <1>11
<1>13. Types'
  <2>1. TickOK'
    BY <1>4, <1>5, <1>6, <1>7 DEF TickOK
  <2>2. \A t \in Caller : RequestOK(t)'
    BY <1>1 DEF RequestOK, HInv, Types
  <2>3. overdue' \in [Flight -> Nat]
    BY <1>1, <1>8 DEF HInv, Types
  <2> QED BY <1>1, <1>9, <2>1, <2>2, <2>3 DEF Types, HInv
<1>14. TakeTurns'
  BY <1>1, <1>2 DEF TakeTurns, HInv, Idle
<1>15. EndsOnce'
  <2>1. \A g \in tick.todo : flight'[g].status \notin Ended
    <3>1. SUFFICES ASSUME NEW g \in tick.todo PROVE flight'[g].status \notin Ended
      OBVIOUS
    <3>2. CASE g = w.f
      <4>1. w.update["status"] = "delayed"
        BY <1>5, <1>10, <1>11, <3>2
      <4> QED BY <1>9, <3>2, <4>1 DEF Ended
    <3>3. CASE g # w.f
      BY <1>4, <1>9, <1>11, <3>3
    <3> QED BY <3>2, <3>3
  <2>2. \A v \in Members(Tail(tick.writes)) : flight'[v.f].status \notin Ended
    <3>1. SUFFICES ASSUME NEW v \in Members(Tail(tick.writes)) PROVE flight'[v.f].status \notin Ended
      OBVIOUS
    <3>2. v \in Writes /\ v.f \in Flight
      BY <1>4, <1>5
    <3> QED BY <1>9, <1>11, <1>12, <3>2
  <2> QED BY <1>1, <1>2, <1>5, <1>6, <1>7, <1>11, <1>12, <2>1, <2>2 DEF EndsOnce
<1>16. ASSUME callers = {}
       PROVE  /\ HoldsKnown'
              /\ \A f \in Flight : flight[f].hold => flight'[f].hold \/ flight'[f].status = "cancelled"
  <2>1. /\ \A g \in tick.todo : Known(g)
        /\ \A v \in Writes : flight[v.f].hold /\ "hold" \in DOMAIN v.update => v.update["status"] = "cancelled"
        /\ held_flights = Held \ {x.f : x \in {v \in Writes : v.update["status"] = "cancelled"}}
    BY <1>1, <1>2, <1>3, <1>16 DEF HoldsKnown, Cancelling
  <2>2. flight[w.f].hold \in BOOLEAN /\ flight'[w.f].hold \in BOOLEAN
    BY <1>3, <1>8, <1>9, NodesAre
  <2>3. \A g \in tick'.todo : Known(g)'
    <3>1. SUFFICES ASSUME NEW g \in tick.todo PROVE flight'[g].hold = flight[g].hold
      BY <1>6, <2>1 DEF Known
    <3>2. g \in Flight /\ (g = w.f => "hold" \notin DOMAIN w.update)
      BY <1>4, <1>5, <1>11
    <3> QED BY <1>9, <3>2
  <2>4. \A v \in Members(Tail(tick.writes)) : flight'[v.f].hold /\ "hold" \in DOMAIN v.update => v.update["status"] = "cancelled"
    <3>1. SUFFICES ASSUME NEW v \in Members(Tail(tick.writes)), flight'[v.f].hold, "hold" \in DOMAIN v.update
                   PROVE  v.update["status"] = "cancelled"
      OBVIOUS
    <3>2. v \in Writes /\ v.f \in Flight
      BY <1>4, <1>5
    <3>3. flight[v.f].hold
      BY <1>9, <2>2, <3>1, <3>2
    <3> QED BY <2>1, <3>1, <3>2, <3>3
  <2>5. held_flights' = Held' \ Cancelling'
    <3>1. CASE w.update["status"] = "cancelled"
      <4>1. Len(tick.writes) = 1 /\ Members(Tail(tick.writes)) = {} /\ Writes = {w}
        BY <1>5, <1>11, <3>1 DEF Ended
      <4>2. "hold" \in DOMAIN w.update
        BY <1>10, <3>1
      <4>3. Held' = Held \ {w.f}
        BY <1>8, <1>9, <4>2 DEF Held
      <4>4. Cancelling' = {}
        BY <1>6, <1>7, <4>1 DEF Cancelling
      <4>5. held_flights = Held \ {w.f}
        BY <2>1, <3>1, <4>1
      <4> QED BY <1>1, <4>3, <4>4, <4>5
    <3>2. CASE w.update["status"] # "cancelled"
      <4>1. ~(flight[w.f].hold /\ "hold" \in DOMAIN w.update)
        BY <1>5, <2>1, <3>2
      <4>2. flight'[w.f].hold = flight[w.f].hold
        BY <1>9, <2>2, <4>1
      <4>3. Held' = Held
        BY <1>9, <4>2 DEF Held
      <4>4. {v \in Writes : v.update["status"] = "cancelled"}
              = {v \in Members(Tail(tick.writes)) : v.update["status"] = "cancelled"}
        BY <1>5, <3>2
      <4>5. Cancelling' = {x.f : x \in {v \in Members(Tail(tick.writes)) : v.update["status"] = "cancelled"}}
        BY <1>6, <1>7 DEF Cancelling
      <4> QED BY <1>1, <2>1, <4>3, <4>4, <4>5
    <3> QED BY <3>1, <3>2
  <2>6. HoldsKnown'
    BY <1>1, <1>2, <1>6, <1>7, <2>3, <2>4, <2>5, IdleIs DEF HoldsKnown
  <2>7. ASSUME NEW f \in Flight, flight[f].hold PROVE flight'[f].hold \/ flight'[f].status = "cancelled"
    <3>1. CASE f # w.f
      BY <1>9, <2>7, <3>1
    <3>2. CASE f = w.f /\ "hold" \in DOMAIN w.update
      BY <1>5, <1>9, <2>1, <2>7, <3>2
    <3>3. CASE f = w.f /\ "hold" \notin DOMAIN w.update
      BY <1>9, <2>7, <3>3
    <3> QED BY <3>1, <3>2, <3>3
  <2> QED BY <2>6, <2>7
<1>17. HInv'
  BY <1>1, <1>3, <1>6, <1>9, <1>13, <1>14, <1>15, <1>16 DEF HInv
<1>18. \A f \in Flight : flight[f].status \in Ended => flight'[f].status = flight[f].status
  BY <1>5, <1>9, <1>11
<1> QED BY <1>16, <1>17, <1>18
-----------------------------------------------------------------------------
(* The requests.  What a step of a caller leaves alone is written once.    *)
Apart(t) ==
  /\ request' = [u \in Caller |-> request'[u]]
  /\ \A u \in Caller : u # t => request'[u] = request[u]
  /\ UNCHANGED <<sim_time, tick, callers>>

(* Only a caller of the behaviour is anywhere but idle. *)
LEMMA WhoCalls ==
  ASSUME HInv, NEW t \in Caller, request[t].pc # "idle" \/ MayCall(t)
  PROVE  callers = {} \/ t = HoldConsumer => t = HoldConsumer /\ tick = Idle /\ tick.pc = "idle"
<1>1. t \in FlightRest => callers # {}
  <2>1. t \in FlightRest /\ callers = {} => request[t] = Idle /\ t # HoldConsumer
    BY Callers DEF HInv, TakeTurns
  <2> QED BY <2>1, IdleIs DEF MayCall
<1>2. t = HoldConsumer => tick = Idle
  BY DEF HInv, TakeTurns, MayCall
<1> QED BY <1>1, <1>2, Callers, IdleIs

LEMMA KeptApart ==
  ASSUME HInv, NEW t \in Caller, Apart(t), RequestOK(t)', flight' \in Nodes, HeldAreDelayed(flight'),
         overdue' \in [Flight -> Nat], held_flights' \in SUBSET Flight,
         \A f \in Flight : flight'[f].status \in Ended => flight'[f] = flight[f],
         t \in FlightRest /\ callers = {} => request'[t] = Idle,
         t = HoldConsumer /\ request'[t].pc # "idle" => tick = Idle,
         t = HoldConsumer => request'[t].pc \notin {"release", "forget"},
         t = HoldConsumer /\ request'[t].pc \in {"read", "store"} => flight'[request'[t].f].status \notin Ended,
         callers = {} => HoldsKnown'
  PROVE  HInv'
<1>1. \A u \in Caller : RequestOK(u)'
  <2>1. SUFFICES ASSUME NEW u \in Caller PROVE RequestOK(u)'
    OBVIOUS
  <2>2. CASE u # t
    BY <2>2 DEF Apart, RequestOK, HInv, Types
  <2> QED BY <2>2
<1>2. Types'
  <2>1. TickOK'
    BY DEF TickOK, Apart, HInv, Types, Writes, Members, IsSeq
  <2> QED BY <1>1, <2>1 DEF Types, Apart, HInv
<1>3. TakeTurns'
  BY Callers DEF TakeTurns, Apart, HInv
<1>4. EndsOnce'
  <2>1. EndsOnce /\ tick' = tick /\ tick.pc \in {"idle", "next", "decide", "paired", "write"}
    BY DEF HInv, Apart, Types, TickOK
  <2>2. \A f \in Flight : flight[f].status \notin Ended => flight'[f].status \notin Ended
    OBVIOUS
  <2>3. /\ tick.pc # "idle" => tick.todo \in SUBSET Flight
        /\ tick.pc \in {"decide", "paired"} => tick.f \in Flight
        /\ tick.pc = "write" => \A w \in Writes : w.f \in Flight
    BY DEF HInv, Types, TickOK
  <2>4. Writes' = Writes
    BY <2>1 DEF Writes, Members
  <2>5. request'[HoldConsumer].pc \in {"read", "store"} =>
          flight'[request'[HoldConsumer].f].status \notin Ended
    <3>1. CASE t = HoldConsumer
      BY <3>1
    <3>2. CASE t # HoldConsumer
      <4>1. request'[HoldConsumer] = request[HoldConsumer] /\ RequestOK(HoldConsumer)
        BY <3>2, Callers DEF Apart, HInv, Types
      <4>2. request[HoldConsumer].pc \in {"read", "store"} => request[HoldConsumer].f \in Flight
        BY <4>1 DEF RequestOK
      <4> QED BY <2>1, <2>2, <4>1, <4>2 DEF EndsOnce
    <3> QED BY <3>1, <3>2
  <2> QED BY <2>1, <2>2, <2>3, <2>4, <2>5 DEF EndsOnce
<1> QED BY <1>2, <1>3, <1>4 DEF HInv, Apart, HeldAreDelayed

(* Between messages the memory is what the nodes hold, or a hold short. *)
LEMMA KnownBetween ==
  ASSUME tick = Idle
  PROVE  HoldsKnown <=> IF request[HoldConsumer].pc = "remember"
                        THEN held_flights \cup {request[HoldConsumer].f} = Held
                        ELSE held_flights = Held
BY IdleIs DEF HoldsKnown, Cancelling

LEMMA KnownBetweenNext ==
  ASSUME tick' = Idle
  PROVE  HoldsKnown' <=> IF request'[HoldConsumer].pc = "remember"
                         THEN held_flights' \cup {request'[HoldConsumer].f} = Held'
                         ELSE held_flights' = Held'
BY IdleIs DEF HoldsKnown, Cancelling

LEMMA BeginHoldKeeps == ASSUME HInv, NEW t \in Caller, NEW f \in Flight, BeginHold(t, f) PROVE HInv'
<1>1. /\ MayCall(t) /\ validate_hold_precondition(flight[f].status) /\ request[t] = Idle
      /\ request' = [request EXCEPT ![t] = [pc |-> "read", f |-> f]]
      /\ UNCHANGED <<flight, sim_time, held_flights, tick, callers, overdue>>
  BY DEF BeginHold, MayCall
<1>2. callers = {} \/ t = HoldConsumer => t = HoldConsumer /\ tick = Idle
  BY <1>1, WhoCalls
<1>3. /\ Apart(t) /\ request'[t].pc = "read" /\ request'[t].f = f
  BY <1>1, RequestMoved DEF Apart, HInv
<1>4. flight[f].status \notin Ended
  BY <1>1 DEF validate_hold_precondition, HOLDABLE_STATUSES, Ended
<1>5. callers = {} => HoldsKnown'
  BY <1>1, <1>2, <1>3, KnownBetween, KnownBetweenNext, IdleIs DEF HInv, Held
<1>6. RequestOK(t)'
  BY <1>3 DEF RequestOK
<1>7. /\ flight' \in Nodes /\ HeldAreDelayed(flight') /\ overdue' \in [Flight -> Nat]
      /\ held_flights' \in SUBSET Flight /\ \A g \in Flight : flight'[g] = flight[g]
  BY <1>1 DEF HInv, Types
<1> QED BY <1>1, <1>2, <1>3, <1>4, <1>5, <1>6, <1>7, KeptApart, Callers

LEMMA BeginReleaseKeeps == ASSUME HInv, NEW t \in Caller, NEW f \in Flight, BeginRelease(t, f) PROVE HInv'
<1>1. /\ t \in FlightRest /\ MayCall(t)
      /\ request' = [request EXCEPT ![t] = [pc |-> "release", f |-> f]]
      /\ UNCHANGED <<flight, sim_time, held_flights, tick, callers, overdue>>
  BY DEF BeginRelease
<1>2. callers # {} /\ t # HoldConsumer
  BY <1>1, WhoCalls, Callers
<1>3. /\ Apart(t) /\ request'[t].pc = "release" /\ request'[t].f = f
  BY <1>1, RequestMoved DEF Apart, HInv
<1>6. RequestOK(t)'
  BY <1>3 DEF RequestOK
<1>7. /\ flight' \in Nodes /\ HeldAreDelayed(flight') /\ overdue' \in [Flight -> Nat]
      /\ held_flights' \in SUBSET Flight /\ \A g \in Flight : flight'[g] = flight[g]
  BY <1>1 DEF HInv, Types
<1> QED BY <1>1, <1>2, <1>3, <1>6, <1>7, KeptApart

LEMMA ReadForHoldKeeps == ASSUME HInv, NEW t \in Caller, ReadForHold(t) PROVE HInv'
<1>1. PICK minutes \in HoldMinutes :
        request' = [request EXCEPT ![t] =
             [pc |-> "store", f |-> request[t].f, est |-> flight[request[t].f].est + minutes,
              delay |-> flight[request[t].f].delay + minutes]]
  BY DEF ReadForHold
<1>2. /\ request[t].pc = "read"
      /\ UNCHANGED <<flight, sim_time, held_flights, tick, callers, overdue>>
  BY DEF ReadForHold
<1>3. /\ Apart(t) /\ request'[t].pc = "store" /\ request'[t].f = request[t].f
      /\ request'[t].est = flight[request[t].f].est + minutes
      /\ request'[t].delay = flight[request[t].f].delay + minutes
  BY <1>1, <1>2, RequestMoved DEF Apart, HInv
<1>4. callers = {} \/ t = HoldConsumer => t = HoldConsumer /\ tick = Idle
  BY <1>2, WhoCalls
<1>5. callers = {} => HoldsKnown'
  BY <1>2, <1>3, <1>4, KnownBetween, KnownBetweenNext DEF HInv, Held
<1>6. RequestOK(t)'
  <2>1. request[t].f \in Flight
    BY <1>2 DEF HInv, Types, RequestOK
  <2>2. flight[request[t].f].est \in Nat /\ flight[request[t].f].delay \in Nat /\ minutes \in Nat
    BY <2>1, NodesAre, Minutes DEF HInv, Types
  <2> QED BY <1>3, <2>1, <2>2 DEF RequestOK
<1>7. /\ flight' \in Nodes /\ HeldAreDelayed(flight') /\ overdue' \in [Flight -> Nat]
      /\ held_flights' \in SUBSET Flight /\ \A g \in Flight : flight'[g] = flight[g]
  BY <1>2 DEF HInv, Types
<1>8. t = HoldConsumer => flight'[request'[t].f].status \notin Ended
  BY <1>2, <1>3 DEF HInv, EndsOnce
<1> QED BY <1>2, <1>3, <1>4, <1>5, <1>6, <1>7, <1>8, KeptApart, Callers

LEMMA StoreHoldKeeps ==
  ASSUME HInv, NEW t \in Caller, StoreHold(t)
  PROVE  /\ HInv'
         /\ \A f \in Flight :
              /\ flight[f].hold => flight'[f].hold
              /\ flight[f].status \in Ended /\ ~WrittenByRequest(f) => flight'[f].status = flight[f].status
<1> DEFINE r == request[t]
<1>1. /\ r.pc = "store"
      /\ flight' = [flight EXCEPT ![r.f] =
              Updated(@, [status |-> "delayed", est |-> r.est, delay |-> r.delay, hold |-> TRUE])]
      /\ request' = [request EXCEPT ![t] = [pc |-> "remember", f |-> r.f]]
      /\ overdue' = [overdue EXCEPT ![r.f] = 0]
      /\ UNCHANGED <<sim_time, held_flights, tick, callers>>
  BY DEF StoreHold
<1>2. r.f \in Flight /\ r.est \in Nat /\ r.delay \in Nat
  BY <1>1 DEF HInv, Types, RequestOK
<1>3. /\ Apart(t) /\ request'[t].pc = "remember" /\ request'[t].f = r.f
  BY <1>1, RequestMoved DEF Apart, HInv
<1>4. callers = {} \/ t = HoldConsumer => t = HoldConsumer /\ tick = Idle
  BY <1>1, WhoCalls
<1>5. /\ flight' \in Nodes /\ HeldAreDelayed(flight')
      /\ \A g \in Flight : g # r.f => flight'[g] = flight[g]
      /\ flight'[r.f].status = "delayed" /\ flight'[r.f].hold
  BY <1>1, <1>2, NodeHeld DEF HInv, Types
<1>6. callers = {} => HoldsKnown'
  <2> SUFFICES ASSUME callers = {} PROVE HoldsKnown'
    OBVIOUS
  <2>1. t = HoldConsumer /\ tick = Idle /\ HoldsKnown
    BY <1>4 DEF HInv
  <2>2. held_flights = Held
    BY <1>1, <2>1, KnownBetween
  <2>3. Held' = Held \cup {r.f}
    BY <1>2, <1>5 DEF Held
  <2> QED BY <1>1, <1>3, <2>1, <2>2, <2>3, KnownBetweenNext
<1>7. RequestOK(t)'
  BY <1>2, <1>3 DEF RequestOK
<1>8. /\ overdue' \in [Flight -> Nat] /\ held_flights' \in SUBSET Flight
      /\ \A g \in Flight : flight'[g].status \in Ended => flight'[g] = flight[g]
  BY <1>1, <1>2, <1>5 DEF HInv, Types, Ended
<1>9. HInv'
  BY <1>1, <1>3, <1>4, <1>5, <1>6, <1>7, <1>8, KeptApart, Callers
<1>10. \A f \in Flight : flight[f].hold => flight'[f].hold
  BY <1>2, <1>5
<1>11. ASSUME NEW f \in Flight, flight[f].status \in Ended, ~WrittenByRequest(f)
       PROVE  flight'[f].status = flight[f].status
  <2>1. f # r.f
    <3>1. CASE t = HoldConsumer
      BY <1>1, <1>11, <3>1 DEF HInv, EndsOnce
    <3>2. CASE t \in FlightRest
      BY <1>1, <1>11, <3>2 DEF WrittenByRequest
    <3> QED BY <3>1, <3>2, Callers
  <2> QED BY <1>5, <2>1
<1> QED BY <1>9, <1>10, <1>11

LEMMA RememberHoldKeeps == ASSUME HInv, NEW t \in Caller, RememberHold(t) PROVE HInv'
<1>1. /\ request[t].pc = "remember" /\ held_flights' = held_flights \cup {request[t].f}
      /\ request' = [request EXCEPT ![t] = Idle]
      /\ UNCHANGED <<flight, sim_time, tick, callers, overdue>>
  BY DEF RememberHold
<1>2. request[t].f \in Flight
  BY <1>1 DEF HInv, Types, RequestOK
<1>3. Apart(t) /\ request'[t] = Idle /\ request'[t].pc = "idle"
  BY <1>1, RequestMoved, IdleIs DEF Apart, HInv
<1>4. callers = {} \/ t = HoldConsumer => t = HoldConsumer /\ tick = Idle
  BY <1>1, WhoCalls
<1>5. callers = {} => HoldsKnown'
  BY <1>1, <1>3, <1>4, KnownBetween, KnownBetweenNext DEF HInv, Held
<1>6. RequestOK(t)'
  BY <1>3 DEF RequestOK
<1>7. /\ flight' \in Nodes /\ HeldAreDelayed(flight') /\ overdue' \in [Flight -> Nat]
      /\ held_flights' \in SUBSET Flight /\ \A g \in Flight : flight'[g] = flight[g]
  BY <1>1, <1>2 DEF HInv, Types
<1> QED BY <1>3, <1>4, <1>5, <1>6, <1>7, KeptApart

LEMMA ReleaseKeeps ==
  ASSUME HInv, NEW t \in Caller, Release(t)
  PROVE  /\ HInv' /\ callers # {}
         /\ \A f \in Flight : flight[f].status \in Ended /\ ~WrittenByRequest(f)
                                => flight'[f].status = flight[f].status
<1> DEFINE f == request[t].f
           new == IF Direction[f] = "departure" THEN "boarding" ELSE "approach"
           u == StatusUpdate(new, NoMore)
<1>1. /\ request[t].pc = "release"
      /\ flight' = [flight EXCEPT ![f] = Updated(@, u)]
      /\ request' = [request EXCEPT ![t] = [pc |-> "forget", f |-> f]]
      /\ overdue' = [overdue EXCEPT ![f] = 0]
      /\ UNCHANGED <<sim_time, held_flights, tick, callers>>
  BY DEF Release
<1>2. f \in Flight
  BY <1>1 DEF HInv, Types, RequestOK
<1>3. t # HoldConsumer /\ t \in FlightRest /\ callers # {}
  <2>1. t # HoldConsumer
    BY <1>1 DEF HInv, TakeTurns
  <2> QED BY <1>1, <2>1, WhoCalls, Callers
<1>4. /\ Apart(t) /\ request'[t].pc = "forget" /\ request'[t].f = f
  BY <1>1, RequestMoved DEF Apart, HInv
<1>5. UpdateOK(u) /\ u["status"] = new /\ MayBe(f, new) /\ new \notin Ended
  <2>1. DOMAIN NoMore = {} /\ new \in Status /\ new \notin Ended /\ MayBe(f, new)
    BY DEF NoMore, Status, Ended, MayBe
  <2> QED BY <2>1, StatusUpdateOK
<1> HIDE DEF u, new, f
<1>6. /\ flight' \in Nodes /\ HeldAreDelayed(flight')
      /\ \A g \in Flight : g # f => flight'[g] = flight[g]
      /\ flight'[f].status = new
  BY <1>1, <1>2, <1>5, NodeWritten DEF HInv, Types
<1>7. RequestOK(t)'
  BY <1>2, <1>4 DEF RequestOK
<1>8. /\ overdue' \in [Flight -> Nat] /\ held_flights' \in SUBSET Flight
      /\ \A g \in Flight : flight'[g].status \in Ended => flight'[g] = flight[g]
  BY <1>1, <1>2, <1>5, <1>6 DEF HInv, Types
<1>9. HInv'
  BY <1>3, <1>4, <1>6, <1>7, <1>8, KeptApart
<1>10. ASSUME NEW g \in Flight, flight[g].status \in Ended, ~WrittenByRequest(g)
       PROVE  flight'[g].status = flight[g].status
  <2>1. g # f
    BY <1>1, <1>3, <1>10 DEF WrittenByRequest, f
  <2> QED BY <1>6, <2>1
<1> QED BY <1>3, <1>9, <1>10

LEMMA ForgetKeeps == ASSUME HInv, NEW t \in Caller, Forget(t) PROVE HInv'
<1>1. /\ request[t].pc = "forget" /\ held_flights' = held_flights \ {request[t].f}
      /\ request' = [request EXCEPT ![t] = Idle]
      /\ UNCHANGED <<flight, sim_time, tick, callers, overdue>>
  BY DEF Forget
<1>2. t # HoldConsumer /\ callers # {}
  <2>1. t # HoldConsumer
    BY <1>1 DEF HInv, TakeTurns
  <2> QED BY <1>1, <2>1, WhoCalls
<1>3. Apart(t) /\ request'[t] = Idle /\ request'[t].pc = "idle"
  BY <1>1, RequestMoved, IdleIs DEF Apart, HInv
<1>6. RequestOK(t)'
  BY <1>3 DEF RequestOK
<1>7. /\ flight' \in Nodes /\ HeldAreDelayed(flight') /\ overdue' \in [Flight -> Nat]
      /\ held_flights' \in SUBSET Flight /\ \A g \in Flight : flight'[g] = flight[g]
  BY <1>1 DEF HInv, Types
<1> QED BY <1>2, <1>3, <1>6, <1>7, KeptApart

LEMMA RestartKeeps == HInv /\ FlightRestart => HInv'
<1> SUFFICES ASSUME HInv, FlightRestart PROVE HInv'
  OBVIOUS
<1>1. /\ tick' = Idle /\ tick'.pc = "idle" /\ request' = [t \in Caller |-> Idle]
      /\ held_flights' = get_manual_holds /\ UNCHANGED <<flight, sim_time, callers, overdue>>
  BY IdleIs DEF FlightRestart
<1>2. \A t \in Caller : request'[t] = Idle /\ request'[t].pc = "idle"
  BY <1>1, IdleIs
<1>3. held_flights' = Held'
  BY <1>1 DEF get_manual_holds, Held, HInv, HeldAreDelayed
<1>4. Types'
  <2>1. TickOK'
    BY <1>1 DEF TickOK
  <2>2. \A t \in Caller : RequestOK(t)'
    BY <1>2 DEF RequestOK
  <2>3. held_flights' \in SUBSET Flight
    BY <1>1 DEF get_manual_holds
  <2> QED BY <1>1, <1>2, <2>1, <2>2, <2>3 DEF Types, HInv
<1>5. TakeTurns'
  BY <1>2, Callers DEF TakeTurns
<1>6. EndsOnce'
  BY <1>1, <1>2, Callers DEF EndsOnce
<1>7. HoldsKnown'
  BY <1>1, <1>2, <1>3, Callers, KnownBetweenNext
<1> QED BY <1>1, <1>4, <1>5, <1>6, <1>7 DEF HInv, HeldAreDelayed
-----------------------------------------------------------------------------
LEMMA HoldsStep ==
  ASSUME HInv, [HoldsNext]_holdVars
  PROVE  /\ HInv'
         /\ \A f \in Flight :
              /\ callers = {} /\ flight[f].hold => flight'[f].hold \/ flight'[f].status = "cancelled"
              /\ flight[f].status \in Ended /\ ~WrittenByRequest(f)
                   => flight'[f].status = flight[f].status
<1> DEFINE Last == \A f \in Flight :
              /\ callers = {} /\ flight[f].hold => flight'[f].hold \/ flight'[f].status = "cancelled"
              /\ flight[f].status \in Ended /\ ~WrittenByRequest(f)
                   => flight'[f].status = flight[f].status
<1>0. flight' = flight => Last
  OBVIOUS
<1>1. CASE Tick
  BY <1>0, <1>1, TickKeeps DEF Tick
<1>2. CASE EndTick
  BY <1>0, <1>2, EndTickKeeps DEF EndTick
<1>3. CASE \E f \in Flight : Process(f)
  BY <1>0, <1>3, ProcessKeeps DEF Process
<1>4. CASE Decide
  BY <1>0, <1>4, DecideKeeps DEF Decide
<1>5. CASE ReadPaired
  BY <1>0, <1>5, ReadPairedKeeps DEF ReadPaired
<1>6. CASE WriteNext
  BY <1>6, WriteNextKeeps
<1>7. ASSUME NEW t \in Caller, HoldStep(t) PROVE HInv' /\ Last
  <2>1. CASE \E f \in Flight : BeginHold(t, f)
    BY <1>0, <2>1, BeginHoldKeeps DEF BeginHold
  <2>2. CASE \E f \in Flight : BeginRelease(t, f)
    BY <1>0, <2>2, BeginReleaseKeeps DEF BeginRelease
  <2>3. CASE ReadForHold(t)
    BY <1>0, <2>3, ReadForHoldKeeps DEF ReadForHold
  <2>4. CASE StoreHold(t)
    BY <2>4, StoreHoldKeeps
  <2>5. CASE RememberHold(t)
    BY <1>0, <2>5, RememberHoldKeeps DEF RememberHold
  <2>6. CASE Release(t)
    BY <2>6, ReleaseKeeps
  <2>7. CASE Forget(t)
    BY <1>0, <2>7, ForgetKeeps DEF Forget
  <2> QED BY <1>7, <2>1, <2>2, <2>3, <2>4, <2>5, <2>6, <2>7 DEF HoldStep
<1>8. CASE FlightRestart
  BY <1>0, <1>8, RestartKeeps DEF FlightRestart
<1>9. CASE UNCHANGED holdVars
  <2>1. /\ UNCHANGED <<flight, sim_time, held_flights, drawn, tick, request, callers, overdue, calls>>
    BY <1>9 DEF holdVars
  <2>2. Types'
    BY <2>1 DEF HInv, Types, TickOK, RequestOK, Writes, Members, IsSeq
  <2>3. TakeTurns' /\ EndsOnce' /\ (callers' = {} => HoldsKnown')
    BY <2>1 DEF HInv, TakeTurns, EndsOnce, HoldsKnown, Known, Held, Cancelling, Writes, Members
  <2> QED BY <1>0, <2>1, <2>2, <2>3 DEF HInv, HeldAreDelayed
<1> QED BY <1>1, <1>2, <1>3, <1>4, <1>5, <1>6, <1>7, <1>8, <1>9 DEF HoldsNext

LEMMA HoldsInvariant == HoldsSpec => []HInv
<1>1. HInv /\ [HoldsNext]_holdVars => HInv'
  BY HoldsStep
<1> QED BY <1>1, HoldsStart, PTL DEF HoldsSpec

(* The holds: who has one is delayed; and without requests the memory is   *)
(* what the nodes say whenever the consumer is between messages.           *)
THEOREM HoldsMatchProved == HoldsSpec => []HoldsMatch
<1>1. HInv => HoldsMatch
  <2> SUFFICES ASSUME HInv PROVE HoldsMatch
    OBVIOUS
  <2>1. ASSUME callers = {}, Quiet PROVE held_flights = get_manual_holds
    <3>1. held_flights = Held
      BY <2>1, KnownBetween, IdleIs DEF HInv, Quiet
    <3> QED BY <3>1 DEF Held, get_manual_holds, HInv, HeldAreDelayed
  <2> QED BY <2>1 DEF HoldsMatch, HInv, HeldAreDelayed
<1> QED BY <1>1, HoldsInvariant, PTL

(* A hold ends by a release or by the cancellation of the flight, and what *)
(* is cancelled or diverted stays so unless a request was under way.       *)
THEOREM HoldsAndEndsLastProved == HoldsSpec => HoldsAndEndsLast
<1>1. HInv /\ [HoldsNext]_holdVars =>
        [\A f \in Flight :
          /\ callers = {} /\ flight[f].hold => flight'[f].hold \/ flight'[f].status = "cancelled"
          /\ flight[f].status \in Ended /\ ~WrittenByRequest(f)
               => flight'[f].status = flight[f].status]_holdVars
  BY HoldsStep
<1> QED BY <1>1, HoldsInvariant, PTL DEF HoldsSpec, HoldsAndEndsLast
-----------------------------------------------------------------------------
(* The doors, while nobody but the consumer holds a flight.  Each query of *)
(* a tick moves an estimate only later than the snapshot has it, and keeps *)
(* boarding only a departure, with no less delay.                          *)
Onward(w) ==
  LET s == tick.snapshot[w.f] IN
  /\ "est" \in DOMAIN w.update => w.update["est"] > s.est
  /\ w.update["status"] = "boarding" =>
       Direction[w.f] = "departure" /\ "delay" \in DOMAIN w.update /\ w.update["delay"] >= s.delay
PendingOf(f) == IF tick.pc = "write" THEN {w \in Writes : w.f = f} ELSE {}
Boarding(nodes) == \A f \in Flight :
  nodes[f].sched = Scheduled[f] /\ (nodes[f].status = "boarding" => Direction[f] = "departure")

(* Once a due departure has been processed, its estimate is pushed, or it  *)
(* leaves, or this was the tick that brought its delay up to 90 minutes.   *)
Processed(f) == f \notin tick.todo /\ ~(tick.pc = "decide" /\ tick.f = f)
Moved(f) ==
  \/ flight[f].est > tick.snapshot[f].est
  \/ \E w \in PendingOf(f) : "est" \in DOMAIN w.update
  \/ /\ flight[f].status # "boarding" \/ PendingOf(f) # {}
     /\ \A w \in PendingOf(f) : w.update["status"] # "boarding"
  \/ /\ overdue[f] = 0
     /\ flight[f].delay >= 90 \/ PendingOf(f) # {}
     /\ \A w \in PendingOf(f) : "delay" \in DOMAIN w.update /\ w.update["delay"] >= 90
InTick(f) ==
  /\ flight[f].est >= tick.snapshot[f].est
  /\ overdue[f] = 1 => tick.snapshot[f].delay >= 90
  /\ tick.snapshot[f].status = "boarding" /\ Due(f) /\ Processed(f) => Moved(f)

DoorInv ==
  /\ Boarding(flight)
  /\ \A f \in Flight : overdue[f] \in {0, 1} /\ (overdue[f] = 1 => flight[f].delay >= 90)
  /\ tick.pc # "idle" => Boarding(tick.snapshot) /\ \A f \in Flight : InTick(f)
  /\ tick.pc = "paired" => Propagated(tick.f) > 0
  /\ tick.pc = "write" => \A w \in Writes : Onward(w)
DInv == HInv /\ (callers = {} => DoorInv)
-----------------------------------------------------------------------------
(* The doors close on a departure that is past its estimate with 90        *)
(* minutes of delay; nothing boards but a departure.                       *)
LEMMA WaitsForPassengers ==
  ASSUME NEW s \in Node, NEW held \in BOOLEAN, NEW boarded \in 0..100, NEW new \in Outcomes(s, held, boarded),
         sim_time \in Nat
  PROVE  /\ s.status = "boarding" /\ new = Stay /\ sim_time >= s.est => boarded < 95 /\ s.delay < 90
         /\ s.status = "boarding" => new # "boarding"
         /\ new = "boarding" => s.direction = "departure"
<1> DEFINE Ctx(gate, runway, taxi) ==
             [held |-> held, gate |-> gate, runway |-> runway, boarded |-> boarded,
              initial |-> taxi, total |-> 2 * taxi]
<1>1. PICK gate \in BOOLEAN, runway \in BOOLEAN, taxi \in TaxiMinutes, deplaned \in BOOLEAN, ready \in BOOLEAN :
        new = IF suppress_transition_for_turnaround(evaluate_transition(s, sim_time, Ctx(gate, runway, taxi)),
                    s.direction, deplaned, ready)
              THEN Stay ELSE evaluate_transition(s, sim_time, Ctx(gate, runway, taxi))
  BY DEF Outcomes
<1>2. /\ Ctx(gate, runway, taxi).held = held /\ Ctx(gate, runway, taxi).boarded = boarded
      /\ s.delay \in Nat /\ s.est \in Nat /\ s.status \in Status /\ s.direction \in {"arrival", "departure"}
  BY DEF Node
<1> DEFINE c == Ctx(gate, runway, taxi)
           e == evaluate_transition(s, sim_time, c)
<1> HIDE DEF Ctx, c
<1>3. CASE s.status = "boarding"
  <2>1. e = eval_boarding(s, sim_time, c) /\ e # "boarding" /\ e # "arrived"
    BY <1>2, <1>3 DEF evaluate_transition, eval_boarding, Stay
  <2>2. new = e
    BY <1>1, <2>1 DEF suppress_transition_for_turnaround, c
  <2>3. e = Stay /\ sim_time >= s.est => ~DoorsClose(s, boarded)
    BY <1>2, <2>1 DEF eval_boarding, Stay, c
  <2>4. ~DoorsClose(s, boarded) => boarded < 95 /\ s.delay < 90
    BY <1>2 DEF DoorsClose
  <2> QED BY <1>3, <2>1, <2>2, <2>3, <2>4
<1>4. CASE s.status # "boarding"
  <2>1. new = "boarding" => e = "boarding"
    BY <1>1 DEF Stay, c
  <2>2. eval_airborne(s, sim_time) # "boarding" /\ eval_approach(s, sim_time, c) # "boarding"
    BY DEF eval_airborne, eval_approach, Stay
  <2>3. eval_scheduled(s, sim_time, c) = "boarding" \/ eval_delayed(s, c) = "boarding" => s.direction = "departure"
    BY <1>2 DEF eval_scheduled, eval_delayed, Stay
  <2>4. e = "boarding" => s.direction = "departure"
    BY <1>2, <1>4, <2>2, <2>3 DEF evaluate_transition, Status, Stay
  <2> QED BY <1>4, <2>1, <2>4
<1> QED BY <1>3, <1>4

(* The queries of a decision that keeps a departure boarding.              *)
Onwards(ws) == IsSeq(ws) /\ \A w \in Members(ws) : w.f = tick.f /\ Onward(w)
Moves(ws) ==
  \/ \E w \in Members(ws) : "est" \in DOMAIN w.update
  \/ Members(ws) # {} /\ \A w \in Members(ws) : w.update["status"] # "boarding"
  \/ /\ tick.snapshot[tick.f].delay < 90 /\ Members(ws) # {}
     /\ \A w \in Members(ws) : "delay" \in DOMAIN w.update /\ w.update["delay"] >= 90

LEMMA OnwardUpdates ==
  /\ \A d \in Nat : LET u == StatusUpdate("boarding", Delay(d)) IN
       u["status"] = "boarding" /\ "est" \notin DOMAIN u /\ "delay" \in DOMAIN u /\ u["delay"] = d
  /\ \A d, e \in Nat : LET u == StatusUpdate("boarding", [delay |-> d, est |-> e]) IN
       /\ u["status"] = "boarding" /\ "est" \in DOMAIN u /\ u["est"] = e
       /\ "delay" \in DOMAIN u /\ u["delay"] = d
BY DEF StatusUpdate, Delay

LEMMA OnwardQueries ==
  ASSUME NEW f, f = tick.f, NEW U, \A u \in U : Onward(Write(f, u)), NEW a \in U, NEW b \in U, NEW c \in U
  PROVE  /\ Onwards(<<>>) /\ Onwards(<<Write(f, a)>>) /\ Onwards(<<Write(f, a), Write(f, b)>>)
         /\ Onwards(<<Write(f, a), Write(f, b), Write(f, c)>>)
<1>1. \A u \in U : Write(f, u).f = f /\ Write(f, u).update = u
  BY DEF Write
<1> QED BY <1>1, ShortSequences DEF Onwards

(* The noise pushes the estimate; waiting for passengers brings the delay  *)
(* up to the time that has passed.                                         *)
LEMMA NoisePushes ==
  ASSUME NEW f, f = tick.f, tick.snapshot[f] \in Node, tick.snapshot[f].status = "boarding",
         Direction[f] = "departure", sim_time \in Nat, NEW minutes \in NoiseMinutes, NEW boarded,
         CrewDelay(f, minutes, boarded) \/ CtotDelay(f, minutes, boarded)
  PROVE  \E ws : Onwards(ws) /\ Queries(ws) /\ Moves(ws)
<1> DEFINE s == tick.snapshot[f]
           u == boarding_delay_update(s, sim_time, boarded)
           first == StatusUpdate("boarding", Delay(s.delay + minutes))
           pushed == StatusUpdate("boarding", [delay |-> s.delay + minutes, est |-> s.est + minutes])
           late == StatusUpdate("boarding", Delay(u))
           U == {first, pushed} \cup (IF u = NoDelay THEN {} ELSE {late})
<1>1. /\ s.delay \in Nat /\ s.est \in Nat /\ minutes \in Nat /\ minutes > 0
      /\ s.delay + minutes \in Nat /\ s.est + minutes \in Nat
  BY Minutes DEF Node
<1>2. u # NoDelay => u \in Nat /\ u > s.delay
  BY DelayUpdateIs
<1>3. \A x \in U : Onward(Write(f, x))
  <2> HIDE DEF u
  <2>0. \A x : Write(f, x).f = f /\ Write(f, x).update = x
    BY DEF Write
  <2>1. /\ first["status"] = "boarding" /\ "est" \notin DOMAIN first
        /\ "delay" \in DOMAIN first /\ first["delay"] = s.delay + minutes
    BY <1>1, OnwardUpdates
  <2>2. /\ pushed["status"] = "boarding" /\ pushed["est"] = s.est + minutes
        /\ "delay" \in DOMAIN pushed /\ pushed["delay"] = s.delay + minutes
    BY <1>1, OnwardUpdates
  <2>3. u # NoDelay => /\ late["status"] = "boarding" /\ "est" \notin DOMAIN late
                       /\ "delay" \in DOMAIN late /\ late["delay"] = u
    BY <1>2, OnwardUpdates
  <2> HIDE DEF first, pushed, late
  <2>4. Onward(Write(f, first))
    BY <1>1, <2>0, <2>1 DEF Onward
  <2>5. Onward(Write(f, pushed))
    BY <1>1, <2>0, <2>2 DEF Onward
  <2>6. u # NoDelay => Onward(Write(f, late))
    BY <1>1, <1>2, <2>0, <2>3 DEF Onward
  <2> QED BY <2>4, <2>5, <2>6
<1>4. "est" \in DOMAIN Write(f, pushed).update
  BY <1>1, OnwardUpdates DEF Write
<1>5. CrewDelay(f, minutes, boarded) =>
        Queries(<<Write(f, first), Write(f, pushed)>> \o
             IF u = NoDelay THEN <<>> ELSE <<Write(f, late)>>)
  BY DEF CrewDelay
<1>6. CtotDelay(f, minutes, boarded) =>
        Queries(<<Write(f, pushed)>> \o
             IF u = NoDelay THEN <<>> ELSE <<Write(f, late)>>)
  BY DEF CtotDelay
<1>7. first \in U /\ pushed \in U /\ (u # NoDelay => late \in U)
  OBVIOUS
<1> HIDE DEF first, pushed, late, u, U
<1>8. \A x, y : /\ <<Write(f, x), Write(f, y)>> \o <<>> = <<Write(f, x), Write(f, y)>>
                /\ <<Write(f, x)>> \o <<>> = <<Write(f, x)>>
  OBVIOUS
<1>9. CASE u = NoDelay
  <2>1. Onwards(<<Write(f, first), Write(f, pushed)>>) /\ Onwards(<<Write(f, pushed)>>)
    BY <1>3, <1>7, OnwardQueries
  <2>2. Moves(<<Write(f, first), Write(f, pushed)>>) /\ Moves(<<Write(f, pushed)>>)
    BY <1>4, ShortSequences DEF Moves
  <2> QED BY <1>5, <1>6, <1>8, <1>9, <2>1, <2>2
<1>10. CASE u # NoDelay
  <2>1. /\ Onwards(<<Write(f, first), Write(f, pushed), Write(f, late)>>)
        /\ Onwards(<<Write(f, pushed), Write(f, late)>>)
    BY <1>3, <1>7, <1>10, OnwardQueries
  <2>2. /\ Moves(<<Write(f, first), Write(f, pushed), Write(f, late)>>)
        /\ Moves(<<Write(f, pushed), Write(f, late)>>)
    BY <1>4, ShortSequences DEF Moves
  <2>3. /\ CrewDelay(f, minutes, boarded) => Queries(<<Write(f, first), Write(f, pushed), Write(f, late)>>)
        /\ CtotDelay(f, minutes, boarded) => Queries(<<Write(f, pushed), Write(f, late)>>)
    BY <1>5, <1>6, <1>10, Joined
  <2> QED BY <2>1, <2>2, <2>3
<1> QED BY <1>9, <1>10

LEMMA WaitingUpdates ==
  ASSUME NEW f \in Flight, f = tick.f, tick.snapshot \in Nodes, Boarding(tick.snapshot), sim_time \in Nat,
         NEW boarded \in 0..100, Remain(f, boarded),
         tick.snapshot[f].status = "boarding" /\ Due(f) => boarded < 95 /\ tick.snapshot[f].delay < 90
  PROVE  \E ws : /\ Onwards(ws) /\ Queries(ws)
                 /\ tick.snapshot[f].status = "boarding" /\ Due(f) => Moves(ws)
<1> DEFINE s == tick.snapshot[f]
           u == boarding_delay_update(s, sim_time, boarded)
           late == StatusUpdate("boarding", Delay(u))
<1>1. /\ s \in Node /\ s.delay \in Nat /\ s.sched = Scheduled[f] /\ s.direction = Direction[f] /\ s.sched \in Nat
      /\ s.status = "boarding" => Direction[f] = "departure"
  BY NodesAre DEF Boarding, Node
<1>2. u # NoDelay => u \in Nat /\ s.status = "boarding" /\ u > s.delay
  BY <1>1, DelayUpdateIs
<1>3. Queries(IF u = NoDelay THEN <<>> ELSE <<Write(f, late)>>)
  BY DEF Remain
<1>4. ASSUME s.status = "boarding", Due(f) PROVE u # NoDelay /\ u >= 90
  <2>1. boarded < 95 /\ s.delay < 90 /\ sim_time >= Scheduled[f] + 90 /\ Scheduled[f] \in Nat
    BY <1>4, <1>1 DEF Due
  <2> QED BY <1>1, <1>4, <2>1 DEF boarding_delay_update, NoDelay
<1> HIDE DEF u
<1>5. CASE u = NoDelay
  <2>1. ~(s.status = "boarding" /\ Due(f))
    BY <1>4, <1>5
  <2> QED BY <1>3, <1>5, <2>1, ShortSequences DEF Onwards
<1>6. CASE u # NoDelay
  <2>1. late["status"] = "boarding" /\ "est" \notin DOMAIN late /\ "delay" \in DOMAIN late /\ late["delay"] = u
    BY <1>2, <1>6, OnwardUpdates
  <2> HIDE DEF late
  <2>2. Write(f, late).f = f /\ Write(f, late).update = late
    BY DEF Write
  <2>3. Onward(Write(f, late))
    BY <1>1, <1>2, <1>6, <2>1, <2>2 DEF Onward
  <2>4. Onwards(<<Write(f, late)>>) /\ Members(<<Write(f, late)>>) = {Write(f, late)}
    BY <2>2, <2>3, ShortSequences DEF Onwards
  <2>5. s.status = "boarding" /\ Due(f) => Moves(<<Write(f, late)>>)
    BY <1>4, <2>1, <2>2, <2>4 DEF Moves
  <2> QED BY <1>3, <1>6, <2>4, <2>5
<1> QED BY <1>5, <1>6

LEMMA OneMoves ==
  ASSUME NEW new, NEW more, tick.snapshot[tick.f] \in Node, new = "boarding" => Direction[tick.f] = "departure",
         "est" \notin DOMAIN more,
         new = "boarding" => "delay" \in DOMAIN more /\ more["delay"] = tick.snapshot[tick.f].delay
  PROVE  /\ Onwards(<<Write(tick.f, StatusUpdate(new, more))>>)
         /\ new # "boarding" => Moves(<<Write(tick.f, StatusUpdate(new, more))>>)
<1> DEFINE u == StatusUpdate(new, more)
           w == Write(tick.f, u)
<1>1. /\ u["status"] = new /\ "est" \notin DOMAIN u
      /\ new = "boarding" => "delay" \in DOMAIN u /\ u["delay"] = more["delay"]
  BY DEF StatusUpdate
<1>2. w.f = tick.f /\ w.update = u
  BY DEF Write
<1> HIDE DEF u, w
<1>3. tick.snapshot[tick.f].delay \in Nat
  BY DEF Node
<1>4. Onward(w)
  BY <1>1, <1>2, <1>3 DEF Onward
<1>5. Onwards(<<w>>) /\ (new # "boarding" => Moves(<<w>>))
  BY <1>1, <1>2, <1>4, ShortSequences DEF Onwards, Moves
<1> QED BY <1>5 DEF w, u

LEMMA DecideMoves ==
  ASSUME Types, tick.pc = "decide", Boarding(tick.snapshot), Decide
  PROVE  \/ ToPaired /\ Propagated(tick.f) > 0
         \/ \E ws : /\ Onwards(ws) /\ Queries(ws)
                    /\ tick.snapshot[tick.f].status = "boarding" /\ Due(tick.f) => Moves(ws)
<1> DEFINE f == tick.f
           s == tick.snapshot[f]
<1>0. /\ f \in Flight /\ tick.snapshot \in Nodes /\ s \in Node /\ tick.held \in BOOLEAN /\ sim_time \in Nat
      /\ s.direction = Direction[f] /\ (s.status = "boarding" => Direction[f] = "departure")
  BY NodesAre DEF Types, TickOK, Boarding
<1>1. PICK boarded \in IF s.status = "boarding" THEN BoardedPct ELSE {100} : \E new \in Outcomes(s, tick.held, boarded) :
        LET diverts == s.status = "approach" /\ new # "landed"
        IN  \/ /\ diverts /\ Queries(Diversion(f))
            \/ /\ new = "departed" /\ Departing(f, boarded)
            \/ /\ new # "departed"
               /\ held_flights' = IF new = "cancelled" THEN held_flights \ {f} ELSE held_flights
               /\ CASE new = Stay -> Remain(f, boarded)
                    [] Propagating(f, new) ->
                         tick' = [pc |-> "paired", snapshot |-> tick.snapshot,
                                  todo |-> tick.todo, f |-> f]
                    [] OTHER -> Queries(<<Transition(f, new)>>)
  BY DEF Decide
<1>2. PICK new \in Outcomes(s, tick.held, boarded) :
        LET diverts == s.status = "approach" /\ new # "landed"
        IN  \/ /\ diverts /\ Queries(Diversion(f))
            \/ /\ new = "departed" /\ Departing(f, boarded)
            \/ /\ new # "departed"
               /\ held_flights' = IF new = "cancelled" THEN held_flights \ {f} ELSE held_flights
               /\ CASE new = Stay -> Remain(f, boarded)
                    [] Propagating(f, new) ->
                         tick' = [pc |-> "paired", snapshot |-> tick.snapshot,
                                  todo |-> tick.todo, f |-> f]
                    [] OTHER -> Queries(<<Transition(f, new)>>)
  BY <1>1
<1>21. boarded \in 0..100
  <2>1. BoardedPct \subseteq 0..100 /\ 100 \in 0..100
    BY FlightAssumption
  <2> QED BY <1>1, <2>1
<1>3. /\ s.status = "boarding" /\ new = Stay /\ sim_time >= s.est => boarded < 95 /\ s.delay < 90
      /\ s.status = "boarding" => new # "boarding"
      /\ new = "boarding" => Direction[f] = "departure"
      /\ new = "departed" => s.status = "boarding"
      /\ new = "at_gate" => s.status = "taxiing"
  BY <1>0, <1>2, <1>21, WaitsForPassengers, OutcomesAre
<1>4. CASE s.status = "approach" /\ Queries(Diversion(f))
  <2>1. Onwards(Diversion(f))
    <3>1. "est" \notin DOMAIN NoMore
      BY DEF NoMore
    <3>2. Onwards(<<Write(tick.f, StatusUpdate("diverted", NoMore))>>)
      BY <1>0, <3>1, OneMoves
    <3> QED BY <3>2 DEF Diversion
  <2> QED BY <1>4, <2>1
<1>5. Onwards(<<Transition(f, new)>>) /\ (new # "boarding" => Moves(<<Transition(f, new)>>))
  <2>1. CASE new \in {"departed", "landed"}
    <3> DEFINE more == [delay |-> s.delay, actual |-> sim_time]
    <3>1. Transition(f, new) = Write(tick.f, StatusUpdate(new, more))
      BY <2>1 DEF Transition
    <3>2. DOMAIN more = {"delay", "actual"}
      OBVIOUS
    <3> HIDE DEF more
    <3> QED BY <1>0, <2>1, <3>1, <3>2, OneMoves
  <2>2. CASE new \notin {"departed", "landed"}
    <3> DEFINE more == [delay |-> s.delay]
    <3>1. Transition(f, new) = Write(tick.f, StatusUpdate(new, more))
      BY <2>2 DEF Transition, Delay
    <3>2. DOMAIN more = {"delay"} /\ more["delay"] = s.delay
      OBVIOUS
    <3> HIDE DEF more
    <3> QED BY <1>0, <1>3, <3>1, <3>2, OneMoves
  <2> QED BY <2>1, <2>2
<1>6. CASE new = "departed" /\ Departing(f, boarded)
  <2>1. CASE \E minutes \in NoiseMinutes : CrewDelay(f, minutes, boarded) \/ CtotDelay(f, minutes, boarded)
    BY <1>0, <1>3, <1>6, <2>1, NoisePushes
  <2>2. CASE Queries(<<Transition(f, "departed")>>)
    BY <1>5, <1>6, <2>2
  <2> QED BY <1>6, <2>1, <2>2 DEF Departing
<1>7. CASE /\ new # "departed"
           /\ held_flights' = IF new = "cancelled" THEN held_flights \ {f} ELSE held_flights
           /\ CASE new = Stay -> Remain(f, boarded)
                [] Propagating(f, new) ->
                     tick' = [pc |-> "paired", snapshot |-> tick.snapshot,
                              todo |-> tick.todo, f |-> f]
                [] OTHER -> Queries(<<Transition(f, new)>>)
  <2>1. CASE new = Stay
    <3>1. Remain(f, boarded)
      BY <1>7, <2>1 DEF Stay, Propagating
    <3>2. s.status = "boarding" /\ Due(f) => boarded < 95 /\ s.delay < 90
      BY <1>3, <2>1 DEF Due
    <3> QED BY <1>0, <1>21, <3>1, <3>2, WaitingUpdates
  <2>2. CASE Propagating(f, new)
    <3>1. /\ new # Stay /\ new = "at_gate" /\ Pair[f] \in Flight /\ Propagated(f) > 0
          /\ UNCHANGED held_flights
      BY <1>0, <1>7, <2>2, Pairs DEF Propagating, Stay
    <3>2. tick' = [pc |-> "paired", snapshot |-> tick.snapshot, todo |-> tick.todo, f |-> f]
      BY <1>7, <2>2, <3>1
    <3> QED BY <1>3, <3>1, <3>2 DEF ToPaired
  <2>3. CASE new # Stay /\ ~Propagating(f, new)
    <3>1. Queries(<<Transition(f, new)>>)
      BY <1>7, <2>3
    <3> QED BY <1>3, <1>5, <3>1
  <2> QED BY <2>1, <2>2, <2>3
<1> QED BY <1>2, <1>4, <1>6, <1>7

(* A propagated delay pushes the estimate of the outbound flight.          *)
LEMMA PairedMoves ==
  ASSUME HInv, DoorInv, tick.pc = "paired", ReadPaired
  PROVE  \E ws : /\ IsSeq(ws) /\ Len(ws) > 0 /\ Queries(ws)
                 /\ \A w \in Members(ws) : /\ w.f \in Flight /\ Onward(w)
                                           /\ w.f = tick.f \/ "est" \in DOMAIN w.update
<1> DEFINE f == tick.f
           out == Pair[f]
           s == tick.snapshot[f]
           late == [status |-> "delayed", delay |-> Propagated(f), est |-> flight[out].est + Propagated(f)]
           a == Write(out, late)
           b == Transition(f, "at_gate")
<1>1. /\ f \in Flight /\ out \in Flight /\ s \in Node
      /\ flight[out].est \in Nat /\ tick.snapshot[out].est \in Nat
      /\ flight[out].est >= tick.snapshot[out].est /\ Propagated(f) > 0
  <2>1. f \in Flight /\ out \in Flight /\ tick.snapshot \in Nodes /\ flight \in Nodes
    BY DEF HInv, Types, TickOK
  <2> QED BY <2>1, NodesAre DEF DoorInv, InTick
<1>2. Propagated(f) \in Nat
  <2>1. s.delay \in Nat
    BY <1>1 DEF Node
  <2> QED BY <2>1, Minutes DEF Propagated, PropagatedDelay
<1>3. a.f = out /\ "est" \in DOMAIN a.update /\ Onward(a)
  <2>1. a.f = out /\ a.update = late /\ late["est"] = flight[out].est + Propagated(f) /\ late["status"] = "delayed"
    BY DEF Write
  <2> HIDE DEF a
  <2> QED BY <1>1, <1>2, <2>1 DEF Onward
<1>4. b.f = f /\ Onward(b)
  <2>1. b = Write(f, StatusUpdate("at_gate", Delay(s.delay)))
    BY DEF Transition
  <2> DEFINE u == StatusUpdate("at_gate", Delay(s.delay))
  <2>2. u["status"] = "at_gate" /\ "est" \notin DOMAIN u
    BY DEF StatusUpdate, Delay
  <2>3. b.f = f /\ b.update = u
    BY <2>1 DEF Write
  <2> HIDE DEF u, b
  <2> QED BY <2>2, <2>3 DEF Onward
<1>5. Queries((IF Propagates(flight[out].status) THEN <<a>> ELSE <<>>) \o <<b>>)
  BY DEF ReadPaired
<1> HIDE DEF late, a, b
<1>6. CASE Propagates(flight[out].status)
  <2>1. Queries(<<a, b>>)
    BY <1>5, <1>6, Joined
  <2>2. IsSeq(<<a, b>>) /\ Members(<<a, b>>) = {a, b} /\ Len(<<a, b>>) > 0
    BY ShortSequences
  <2> QED BY <1>1, <1>3, <1>4, <2>1, <2>2
<1>7. CASE ~Propagates(flight[out].status)
  <2>1. Queries(<<b>>)
    <3>1. <<>> \o <<b>> = <<b>>
      OBVIOUS
    <3> QED BY <1>5, <1>7, <3>1
  <2>2. IsSeq(<<b>>) /\ Members(<<b>>) = {b} /\ Len(<<b>>) > 0
    BY ShortSequences
  <2> QED BY <1>1, <1>4, <2>1, <2>2
<1> QED BY <1>6, <1>7
-----------------------------------------------------------------------------
LEMMA DoorsStart == HoldsInit => DoorInv
<1> SUFFICES ASSUME HoldsInit PROVE DoorInv
  OBVIOUS
<1>1. /\ \A f \in Flight : flight[f].sched = Scheduled[f] /\ flight[f].status = "scheduled" /\ overdue[f] = 0
      /\ tick.pc = "idle"
  BY IdleIs DEF HoldsInit
<1> QED BY <1>1 DEF DoorInv, Boarding

LEMMA TickDoors == ASSUME HInv, DoorInv, Tick PROVE DoorInv'
<1>1. /\ tick'.pc = "next" /\ tick'.snapshot = flight
      /\ tick'.todo = {f \in Flight : flight[f].status \notin TERMINAL_STATES}
      /\ UNCHANGED <<flight, overdue>>
  BY DEF Tick
<1>2. ASSUME NEW f \in Flight PROVE InTick(f)'
  <2>1. flight[f].est \in Nat /\ (overdue[f] = 1 => flight[f].delay >= 90)
    BY NodesAre DEF HInv, Types, DoorInv
  <2>2. flight[f].status = "boarding" => ~Processed(f)'
    BY <1>1 DEF Processed, TERMINAL_STATES
  <2> QED BY <1>1, <2>1, <2>2 DEF InTick
<1> QED BY <1>1, <1>2 DEF DoorInv, Boarding

LEMMA EndTickDoors == ASSUME HInv, DoorInv, EndTick PROVE DoorInv'
<1>1. /\ tick.pc = "next" /\ tick.todo = {} /\ tick'.pc = "idle" /\ UNCHANGED flight
      /\ \A f \in Flight : overdue'[f] =
            IF \/ {tick.snapshot[f].status, flight[f].status} # {"boarding"}
               \/ flight[f].est # tick.snapshot[f].est
            THEN 0 ELSE IF Due(f) THEN overdue[f] + 1 ELSE overdue[f]
  BY IdleIs DEF EndTick
<1>2. ASSUME NEW f \in Flight PROVE overdue'[f] \in {0, 1} /\ (overdue'[f] = 1 => flight[f].delay >= 90)
  <2>1. /\ overdue[f] \in {0, 1} /\ (overdue[f] = 1 => flight[f].delay >= 90) /\ InTick(f)
        /\ flight[f].est \in Nat /\ tick.snapshot[f].est \in Nat
    BY <1>1, NodesAre DEF HInv, Types, TickOK, DoorInv
  <2>2. CASE /\ tick.snapshot[f].status = "boarding" /\ flight[f].status = "boarding"
             /\ flight[f].est = tick.snapshot[f].est /\ Due(f)
    <3>1. Processed(f) /\ PendingOf(f) = {}
      BY <1>1 DEF Processed, PendingOf
    <3>2. Moved(f)
      BY <2>1, <2>2, <3>1 DEF InTick
    <3>3. overdue[f] = 0 /\ flight[f].delay >= 90
      BY <2>1, <2>2, <3>1, <3>2 DEF Moved
    <3> QED BY <1>1, <2>2, <3>3
  <2>3. CASE ~(/\ tick.snapshot[f].status = "boarding" /\ flight[f].status = "boarding"
               /\ flight[f].est = tick.snapshot[f].est /\ Due(f))
    <3>1. {tick.snapshot[f].status, flight[f].status} # {"boarding"}
            <=> ~(tick.snapshot[f].status = "boarding" /\ flight[f].status = "boarding")
      OBVIOUS
    <3> QED BY <1>1, <2>1, <2>3, <3>1
  <2> QED BY <2>2, <2>3
<1> QED BY <1>1, <1>2 DEF DoorInv, Boarding

LEMMA ProcessDoors == ASSUME HInv, DoorInv, NEW g \in Flight, Process(g) PROVE DoorInv'
<1>1. /\ tick.pc = "next" /\ tick'.pc = "decide" /\ tick'.f = g
      /\ tick'.snapshot = tick.snapshot /\ tick'.todo = tick.todo \ {g}
      /\ UNCHANGED <<flight, overdue, sim_time>>
  BY DEF Process
<1>2. ASSUME NEW f \in Flight PROVE InTick(f)'
  <2>1. InTick(f) /\ (Due(f)' <=> Due(f)) /\ PendingOf(f)' = {} /\ PendingOf(f) = {}
    BY <1>1 DEF DoorInv, Due, PendingOf
  <2>2. Processed(f)' => Processed(f)
    BY <1>1 DEF Processed
  <2>3. Moved(f) => Moved(f)'
    BY <1>1, <2>1 DEF Moved
  <2> QED BY <1>1, <2>1, <2>2, <2>3 DEF InTick
<1> QED BY <1>1, <1>2 DEF DoorInv, Boarding

LEMMA DecideDoors == ASSUME HInv, DoorInv, Decide PROVE DoorInv'
<1>1. tick.pc = "decide" /\ UNCHANGED <<flight, overdue, sim_time>>
  BY DEF Decide
<1>2. \A f \in Flight : InTick(f) /\ PendingOf(f) = {}
  BY <1>1 DEF DoorInv, PendingOf
<1>3. tick.f \in Flight /\ Boarding(tick.snapshot) /\ Types
  BY <1>1 DEF HInv, Types, TickOK, DoorInv
<1>4. CASE ToPaired /\ Propagated(tick.f) > 0
  <2>1. /\ tick'.pc = "paired" /\ tick'.snapshot = tick.snapshot /\ tick'.todo = tick.todo /\ tick'.f = tick.f
        /\ tick.snapshot[tick.f].status = "taxiing" /\ Propagated(tick.f)' > 0
    BY <1>4 DEF ToPaired, Propagated
  <2>2. ASSUME NEW f \in Flight PROVE InTick(f)'
    <3>1. (Due(f)' <=> Due(f)) /\ PendingOf(f)' = {}
      BY <1>1, <2>1 DEF Due, PendingOf
    <3>2. Moved(f) => Moved(f)'
      BY <1>1, <1>2, <2>1, <3>1 DEF Moved
    <3>3. tick.snapshot[f].status = "boarding" /\ Processed(f)' => Processed(f)
      BY <2>1 DEF Processed
    <3> QED BY <1>1, <1>2, <2>1, <3>1, <3>2, <3>3 DEF InTick
  <2> QED BY <1>1, <1>3, <2>1, <2>2 DEF DoorInv, Boarding
<1>5. CASE \E ws : /\ Onwards(ws) /\ Queries(ws)
                   /\ tick.snapshot[tick.f].status = "boarding" /\ Due(tick.f) => Moves(ws)
  <2>1. PICK ws : /\ Onwards(ws) /\ Queries(ws)
                  /\ tick.snapshot[tick.f].status = "boarding" /\ Due(tick.f) => Moves(ws)
    BY <1>5
  <2>2. IsSeq(ws) /\ \A w \in Members(ws) : w.f = tick.f /\ Onward(w)
    BY <2>1 DEF Onwards
  <2>3. /\ tick'.pc \in {"next", "write"}
        /\ tick'.snapshot = tick.snapshot /\ tick'.todo = tick.todo
        /\ tick'.pc = "write" => tick'.writes = ws
        /\ tick'.pc = "next" => ws = <<>>
    BY <2>1, <2>2, QueriesLeave
  <2>4. /\ tick'.pc = "write" => Writes' = Members(ws)
        /\ tick'.pc = "next" => Members(ws) = {}
    BY <2>3, ShortSequences DEF Writes, Members
  <2>5. \A f \in Flight : PendingOf(f)' = IF f = tick.f THEN Members(ws) ELSE {}
    BY <2>2, <2>3, <2>4 DEF PendingOf
  <2>6. ASSUME NEW f \in Flight PROVE InTick(f)'
    <3>1. Due(f)' <=> Due(f)
      BY <1>1, <2>3 DEF Due
    <3>2. CASE f # tick.f
      <4>1. Moved(f) => Moved(f)'
        BY <1>1, <1>2, <2>3, <2>5, <3>2 DEF Moved
      <4>2. Processed(f)' => Processed(f)
        BY <2>3, <3>2 DEF Processed
      <4> QED BY <1>1, <1>2, <2>3, <3>1, <4>1, <4>2 DEF InTick
    <3>3. CASE f = tick.f
      <4>1. ASSUME tick.snapshot[f].status = "boarding", Due(f) PROVE Moved(f)'
        <5>1. Moves(ws)
          BY <2>1, <3>3, <4>1
        <5>2. tick.snapshot[f].delay < 90 => overdue[f] = 0
          <6>1. overdue[f] \in {0, 1} /\ tick.snapshot[f].delay \in Nat
            BY <1>1, NodesAre DEF DoorInv, HInv, Types, TickOK
          <6> QED BY <1>2, <6>1 DEF InTick
        <5> QED BY <1>1, <2>5, <3>3, <5>1, <5>2 DEF Moves, Moved
      <4> QED BY <1>1, <1>2, <2>3, <3>1, <4>1 DEF InTick
    <3> QED BY <3>2, <3>3
  <2>7. tick'.pc = "write" => \A w \in Writes' : Onward(w)'
    BY <2>2, <2>3, <2>4 DEF Onward
  <2> QED BY <1>1, <1>3, <2>3, <2>6, <2>7 DEF DoorInv, Boarding
<1> QED BY <1>1, <1>3, <1>4, <1>5, DecideMoves

LEMMA ReadPairedDoors == ASSUME HInv, DoorInv, ReadPaired PROVE DoorInv'
<1>1. tick.pc = "paired" /\ UNCHANGED <<flight, overdue, sim_time>>
  BY DEF ReadPaired
<1>2. \A f \in Flight : InTick(f) /\ PendingOf(f) = {}
  BY <1>1 DEF DoorInv, PendingOf
<1>3. tick.f \in Flight /\ Boarding(tick.snapshot) /\ tick.snapshot[tick.f].status = "taxiing"
  BY <1>1 DEF HInv, Types, TickOK, DoorInv
<1>4. PICK ws : /\ IsSeq(ws) /\ Len(ws) > 0 /\ Queries(ws)
                /\ \A w \in Members(ws) : /\ w.f \in Flight /\ Onward(w)
                                          /\ w.f = tick.f \/ "est" \in DOMAIN w.update
  BY <1>1, PairedMoves
<1>5. /\ tick'.pc \in {"next", "write"} /\ tick'.snapshot = tick.snapshot /\ tick'.todo = tick.todo
      /\ tick'.pc = "write" => tick'.writes = ws
      /\ tick'.pc = "next" => ws = <<>>
  BY <1>4, QueriesLeave
<1>6. tick'.pc = "write" /\ Writes' = Members(ws)
  BY <1>4, <1>5, ShortSequences DEF Writes, Members
<1>7. ASSUME NEW f \in Flight PROVE InTick(f)'
  <2>1. (Due(f)' <=> Due(f)) /\ (Processed(f)' => Processed(f))
    BY <1>1, <1>5, <1>6 DEF Due, Processed
  <2>2. ASSUME tick.snapshot[f].status = "boarding", Moved(f) PROVE Moved(f)'
    <3>1. \A w \in PendingOf(f)' : "est" \in DOMAIN w.update
      BY <1>3, <1>4, <1>6, <2>2 DEF PendingOf
    <3> QED BY <1>1, <1>2, <1>5, <2>2, <3>1 DEF Moved
  <2> QED BY <1>1, <1>2, <1>5, <2>1, <2>2 DEF InTick
<1>8. \A w \in Writes' : Onward(w)'
  BY <1>4, <1>5, <1>6 DEF Onward
<1> QED BY <1>1, <1>3, <1>5, <1>6, <1>7, <1>8 DEF DoorInv, Boarding

LEMMA WriteNextDoors == ASSUME HInv, DoorInv, WriteNext PROVE DoorInv'
<1> DEFINE w == Head(tick.writes)
<1>1. /\ tick.pc = "write" /\ Queries(Tail(tick.writes)) /\ UNCHANGED sim_time
      /\ flight' = [flight EXCEPT ![w.f] = Updated(@, w.update)]
      /\ overdue' = [overdue EXCEPT ![w.f] =
           IF w.update["status"] = "boarding" /\ "est" \notin DOMAIN w.update THEN @ ELSE 0]
  BY DEF WriteNext
<1>2. /\ flight \in Nodes /\ HeldAreDelayed(flight) /\ overdue \in [Flight -> Nat] /\ tick.snapshot \in Nodes
      /\ IsSeq(tick.writes) /\ Len(tick.writes) > 0
      /\ \A v \in Writes : v.f \in Flight /\ UpdateOK(v.update) /\ MayBe(v.f, v.update["status"])
  BY <1>1 DEF HInv, Types, TickOK
<1>3. IsSeq(Tail(tick.writes)) /\ w \in Writes /\ Writes = {w} \cup Members(Tail(tick.writes))
  BY <1>2, FirstAndRest DEF Writes
<1>4. /\ tick'.pc \in {"next", "write"} /\ tick'.snapshot = tick.snapshot /\ tick'.todo = tick.todo
      /\ tick'.pc = "write" => tick'.writes = Tail(tick.writes)
      /\ tick'.pc = "next" => Tail(tick.writes) = <<>>
  BY <1>1, <1>3, QueriesLeave
<1>5. /\ tick'.pc = "write" => Writes' = Members(Tail(tick.writes))
      /\ tick'.pc = "next" => Members(Tail(tick.writes)) = {}
  <2>1. tick'.pc = "write" => Writes' = Members(Tail(tick.writes))
    BY <1>4 DEF Writes, Members
  <2>2. Tail(tick.writes) = <<>> => Members(Tail(tick.writes)) = {}
    BY ShortSequences
  <2> QED BY <1>4, <2>1, <2>2
<1>6. w.f \in Flight /\ UpdateOK(w.update) /\ MayBe(w.f, w.update["status"]) /\ Onward(w)
      /\ \A v \in Writes : Onward(v)
  BY <1>1, <1>2, <1>3 DEF DoorInv
<1>7. \A f \in Flight : PendingOf(f) = PendingOf(f)' \cup (IF f = w.f THEN {w} ELSE {})
  BY <1>1, <1>3, <1>4, <1>5 DEF PendingOf
<1> HIDE DEF w
<1>8. /\ \A g \in Flight : g # w.f => flight'[g] = flight[g] /\ overdue'[g] = overdue[g]
      /\ flight'[w.f].status = w.update["status"] /\ flight'[w.f].sched = flight[w.f].sched
      /\ flight'[w.f].est = IF "est" \in DOMAIN w.update THEN w.update["est"] ELSE flight[w.f].est
      /\ flight'[w.f].delay = IF "delay" \in DOMAIN w.update THEN w.update["delay"] ELSE flight[w.f].delay
      /\ overdue'[w.f] = IF w.update["status"] = "boarding" /\ "est" \notin DOMAIN w.update THEN overdue[w.f] ELSE 0
  BY <1>1, <1>2, <1>6, NodeWritten
<1>9. /\ Boarding(flight) /\ Boarding(tick.snapshot)
      /\ \A f \in Flight : /\ overdue[f] \in {0, 1} /\ (overdue[f] = 1 => flight[f].delay >= 90) /\ InTick(f)
                           /\ flight[f].est \in Nat /\ flight[f].delay \in Nat
                           /\ tick.snapshot[f].est \in Nat /\ tick.snapshot[f].delay \in Nat
  BY <1>1, <1>2, NodesAre DEF DoorInv
<1>10. /\ "est" \in DOMAIN w.update => w.update["est"] > tick.snapshot[w.f].est
       /\ "est" \in DOMAIN w.update => w.update["est"] \in Nat
       /\ "delay" \in DOMAIN w.update => w.update["delay"] \in Nat
       /\ w.update["status"] = "boarding" =>
            /\ Direction[w.f] = "departure" /\ "delay" \in DOMAIN w.update
            /\ w.update["delay"] >= tick.snapshot[w.f].delay
  BY <1>6 DEF Onward, UpdateOK
<1>11. Boarding(flight')
  BY <1>6, <1>8, <1>9, <1>10 DEF Boarding
<1>12. ASSUME NEW f \in Flight
       PROVE  overdue'[f] \in {0, 1} /\ (overdue'[f] = 1 => flight'[f].delay >= 90) /\ InTick(f)'
  <2>1. CASE f # w.f
    <3>1. (Due(f)' <=> Due(f)) /\ PendingOf(f)' = PendingOf(f) /\ flight'[f] = flight[f] /\ overdue'[f] = overdue[f]
      BY <1>1, <1>4, <1>7, <1>8, <2>1 DEF Due
    <3>2. Processed(f)' => Processed(f)
      BY <1>1, <1>4 DEF Processed
    <3>3. Moved(f) => Moved(f)'
      BY <1>4, <3>1 DEF Moved
    <3> QED BY <1>4, <1>9, <3>1, <3>2, <3>3 DEF InTick
  <2>2. CASE f = w.f
    <3>1. (Due(f)' <=> Due(f)) /\ (Processed(f)' => Processed(f))
      BY <1>1, <1>4 DEF Due, Processed
    <3>2. overdue'[f] = 1 => /\ overdue[f] = 1 /\ "delay" \in DOMAIN w.update /\ w.update["delay"] >= 90
      BY <1>8, <1>9, <1>10, <2>2 DEF InTick
    <3>3. overdue'[f] \in {0, 1} /\ (overdue'[f] = 1 => flight'[f].delay >= 90 /\ tick.snapshot[f].delay >= 90)
      BY <1>8, <1>9, <2>2, <3>2 DEF InTick
    <3>4. flight'[f].est >= tick.snapshot[f].est
      BY <1>8, <1>9, <1>10, <2>2 DEF InTick
    <3>5. ASSUME Moved(f) PROVE Moved(f)'
      <4>0. PendingOf(f) = PendingOf(f)' \cup {w} /\ tick'.snapshot = tick.snapshot
        BY <1>4, <1>7, <2>2
      <4>1. CASE flight[f].est > tick.snapshot[f].est
        <5>1. flight'[f].est > tick.snapshot[f].est
          BY <1>8, <1>10, <2>2, <4>1
        <5> QED BY <4>0, <5>1 DEF Moved
      <4>2. CASE \E v \in PendingOf(f) : "est" \in DOMAIN v.update
        <5>1. CASE "est" \in DOMAIN w.update
          <6>1. flight'[f].est > tick.snapshot[f].est
            BY <1>8, <1>10, <2>2, <5>1
          <6> QED BY <4>0, <6>1 DEF Moved
        <5>2. CASE "est" \notin DOMAIN w.update
          BY <4>0, <4>2, <5>2 DEF Moved
        <5> QED BY <5>1, <5>2
      <4>3. CASE \A v \in PendingOf(f) : v.update["status"] # "boarding"
        BY <1>8, <2>2, <4>0, <4>3 DEF Moved
      <4>4. CASE overdue[f] = 0 /\ \A v \in PendingOf(f) : "delay" \in DOMAIN v.update /\ v.update["delay"] >= 90
        <5>1. overdue'[f] = 0 /\ flight'[f].delay >= 90
          BY <1>8, <2>2, <4>0, <4>4
        <5> QED BY <4>0, <4>4, <5>1 DEF Moved
      <4> QED BY <3>5, <4>1, <4>2, <4>3, <4>4 DEF Moved
    <3> QED BY <1>4, <1>9, <3>1, <3>3, <3>4, <3>5 DEF InTick
  <2> QED BY <2>1, <2>2
<1>13. tick'.pc = "write" => \A v \in Writes' : Onward(v)'
  BY <1>3, <1>4, <1>5, <1>6 DEF Onward
<1> QED BY <1>4, <1>9, <1>11, <1>12, <1>13 DEF DoorInv, Boarding

(* Without requests, only a command of the consumer holds a flight, and no *)
(* tick runs meanwhile.                                                    *)
LEMMA HoldStepDoors == ASSUME HInv, DoorInv, callers = {}, NEW t \in Caller, HoldStep(t) PROVE DoorInv'
<1>1. tick = Idle /\ tick' = tick /\ tick.pc = "idle" /\ t = HoldConsumer
  <2>1. request[t].pc # "idle" \/ MayCall(t)
    BY DEF HoldStep, BeginHold, BeginRelease, ReadForHold, StoreHold, RememberHold, Release, Forget
  <2>2. tick' = tick
    BY DEF HoldStep, BeginHold, BeginRelease, ReadForHold, StoreHold, RememberHold, Release, Forget
  <2> QED BY <2>1, <2>2, WhoCalls
<1>2. CASE UNCHANGED <<flight, overdue>>
  BY <1>1, <1>2 DEF DoorInv, Boarding
<1>3. CASE StoreHold(t)
  <2> DEFINE r == request[t]
  <2>1. /\ flight' = [flight EXCEPT ![r.f] =
             Updated(@, [status |-> "delayed", est |-> r.est, delay |-> r.delay, hold |-> TRUE])]
        /\ overdue' = [overdue EXCEPT ![r.f] = 0]
    BY <1>3 DEF StoreHold
  <2>2. /\ r.f \in Flight /\ r.est \in Nat /\ r.delay \in Nat /\ overdue \in [Flight -> Nat]
        /\ flight \in Nodes /\ HeldAreDelayed(flight)
    BY <1>3 DEF HInv, Types, RequestOK, StoreHold
  <2>3. /\ \A g \in Flight : g # r.f => flight'[g] = flight[g] /\ overdue'[g] = overdue[g]
        /\ flight'[r.f].status = "delayed" /\ flight'[r.f].sched = flight[r.f].sched /\ overdue'[r.f] = 0
    BY <2>1, <2>2, NodeHeld
  <2> QED BY <1>1, <2>2, <2>3 DEF DoorInv, Boarding
<1>4. CASE Release(t)
  BY <1>4, ReleaseKeeps
<1> QED BY <1>2, <1>3, <1>4 DEF HoldStep, BeginHold, BeginRelease, ReadForHold, RememberHold, Forget

LEMMA DoorsStep == ASSUME DInv, [HoldsNext]_holdVars PROVE DInv'
<1>1. HInv' /\ callers' = callers
  <2>1. callers' = callers
    BY DEF HoldsNext, holdVars, Tick, EndTick, Process, Decide, ReadPaired, WriteNext, HoldStep, FlightRestart,
           BeginHold, BeginRelease, ReadForHold, StoreHold, RememberHold, Release, Forget
  <2> QED BY <2>1, HoldsStep DEF DInv
<1>2. ASSUME callers = {} PROVE DoorInv'
  <2>0. HInv /\ DoorInv
    BY <1>2 DEF DInv
  <2>1. CASE Tick
    BY <2>0, <2>1, TickDoors
  <2>2. CASE EndTick
    BY <2>0, <2>2, EndTickDoors
  <2>3. CASE \E f \in Flight : Process(f)
    BY <2>0, <2>3, ProcessDoors
  <2>4. CASE Decide
    BY <2>0, <2>4, DecideDoors
  <2>5. CASE ReadPaired
    BY <2>0, <2>5, ReadPairedDoors
  <2>6. CASE WriteNext
    BY <2>0, <2>6, WriteNextDoors
  <2>7. CASE \E t \in Caller : HoldStep(t)
    BY <1>2, <2>0, <2>7, HoldStepDoors
  <2>8. CASE FlightRestart
    <3>1. tick'.pc = "idle" /\ UNCHANGED <<flight, overdue>>
      BY <2>8, IdleIs DEF FlightRestart
    <3> QED BY <2>0, <3>1 DEF DoorInv, Boarding
  <2>9. CASE UNCHANGED holdVars
    BY <2>0, <2>9 DEF holdVars, DoorInv, Boarding, InTick, Due, Processed, Moved, PendingOf, Propagated, Onward,
                      Writes, Members
  <2> QED BY <2>1, <2>2, <2>3, <2>4, <2>5, <2>6, <2>7, <2>8, <2>9 DEF HoldsNext
<1> QED BY <1>1, <1>2 DEF DInv

(* The doors close (_eval_boarding): without requests a due departure     *)
(* boards for at most one more tick, whatever the noise, the holds by      *)
(* commands and the restarts do.                                           *)
THEOREM DoorsCloseInTimeProved == HoldsSpec => []DoorsCloseInTime
<1>1. HoldsInit => DInv
  BY HoldsStart, DoorsStart DEF DInv
<1>2. DInv /\ [HoldsNext]_holdVars => DInv'
  BY DoorsStep
<1>3. DInv => DoorsCloseInTime
  BY DEF DInv, DoorInv, DoorsCloseInTime
<1> QED BY <1>1, <1>2, <1>3, PTL DEF HoldsSpec
===============================================================================
