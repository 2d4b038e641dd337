---------------------------- MODULE Journeys_proofs ----------------------------
(***************************************************************************)
(* Proofs about PassengerJourney, for any passengers, flights,             *)
(* checkpoints, incidents, chairs and number of faults, and about          *)
(* BaggageConveyor, for any bags, flights, terminals, zones, incidents and *)
(* number of faults and redirections.  The two share what is said of       *)
(* queues and of the announcements of incidents.                           *)
(***************************************************************************)
EXTENDS PassengerJourney, BaggageConveyor, FiniteSetTheorems, SequenceTheorems,
        WellFoundedInduction, TLAPS

(* A queue: nobody stands in it twice.                                     *)
Lines(S) == {q \in Seq(S) : IsInjective(q)}
-----------------------------------------------------------------------------
(* Queues as sequences, and who stands in them.                            *)

LEMMA SetInLine ==
  ASSUME NEW S, IsFiniteSet(S)
  PROVE  SetToSeq(S) \in Lines(S) /\ ToSet(SetToSeq(S)) = S /\ Len(SetToSeq(S)) = Cardinality(S)
<1> DEFINE n == Cardinality(S)
<1>1. n \in Nat /\ ExistsBijection(1..n, S)
  BY FS_CardinalityType
<1>2. PICK f \in Bijection(1..n, S) : TRUE
  BY <1>1 DEF ExistsBijection
<1> HIDE DEF n
<1>3. f \in [1..n -> S] /\ IsInjective(f)
  BY <1>2 DEF Bijection, Injection
<1>4. SetToSeq(S) = CHOOSE g \in [1..n -> S] : IsInjective(g)
  BY DEF SetToSeq, n
<1>5. SetToSeq(S) \in [1..n -> S] /\ IsInjective(SetToSeq(S))
  BY <1>3, <1>4
<1>6. SetToSeq(S) \in Seq(S) /\ Len(SetToSeq(S)) = n
  BY <1>1, <1>5
<1>7. SetToSeq(S) \in Injection(1..n, S)
  BY <1>5 DEF Injection
<1>8. IsFiniteSet(1..n) /\ Cardinality(1..n) = n
  BY <1>1, FS_Interval
<1>9. SetToSeq(S) \in Surjection(1..n, S)
  BY <1>7, <1>8, FS_Injection DEF n
<1>10. \A x \in S : \E i \in 1..n : SetToSeq(S)[i] = x
  BY <1>9 DEF Surjection
<1>11. ToSet(SetToSeq(S)) = S
  BY <1>5, <1>10 DEF ToSet
<1> QED BY <1>5, <1>6, <1>11 DEF Lines, n

LEMMA LinesJoined ==
  ASSUME NEW S, NEW s \in Lines(S), NEW t \in Lines(S), ToSet(s) \cap ToSet(t) = {}
  PROVE  s \o t \in Lines(S) /\ ToSet(s \o t) = ToSet(s) \cup ToSet(t)
<1>1. s \in Seq(S) /\ t \in Seq(S) /\ Len(s) \in Nat /\ Len(t) \in Nat
      /\ DOMAIN s = 1..Len(s) /\ DOMAIN t = 1..Len(t)
  BY DEF Lines
<1>2. /\ s \o t \in Seq(S) /\ DOMAIN (s \o t) = 1..(Len(s) + Len(t))
      /\ \A i \in 1..(Len(s) + Len(t)) :
           (s \o t)[i] = IF i <= Len(s) THEN s[i] ELSE t[i - Len(s)]
  BY <1>1, ConcatProperties
<1>3. \A i \in DOMAIN s : i \in DOMAIN (s \o t) /\ (s \o t)[i] = s[i]
  BY <1>1, <1>2
<1>4. \A i \in DOMAIN t : Len(s) + i \in DOMAIN (s \o t) /\ (s \o t)[Len(s) + i] = t[i]
  BY <1>1, <1>2
<1>5. \A i \in DOMAIN (s \o t) : i \notin DOMAIN s =>
        i - Len(s) \in DOMAIN t /\ (s \o t)[i] = t[i - Len(s)] /\ i \in Int
  BY <1>1, <1>2
<1>6. ToSet(s \o t) = ToSet(s) \cup ToSet(t)
  BY <1>3, <1>4, <1>5 DEF ToSet
<1>7. ASSUME NEW i \in DOMAIN (s \o t), NEW j \in DOMAIN (s \o t), (s \o t)[i] = (s \o t)[j]
      PROVE  i = j
  <2>1. CASE i \in DOMAIN s /\ j \in DOMAIN s
    BY <1>3, <1>7, <2>1 DEF Lines, IsInjective
  <2>2. CASE i \notin DOMAIN s /\ j \notin DOMAIN s
    <3>1. i - Len(s) = j - Len(s)
      BY <1>5, <1>7, <2>2 DEF Lines, IsInjective
    <3> QED BY <1>1, <1>5, <2>2, <3>1
  <2>3. CASE i \in DOMAIN s /\ j \notin DOMAIN s
    <3>1. (s \o t)[i] \in ToSet(s) /\ (s \o t)[j] \in ToSet(t)
      BY <1>3, <1>5, <2>3 DEF ToSet
    <3> QED BY <1>7, <3>1
  <2>4. CASE i \notin DOMAIN s /\ j \in DOMAIN s
    <3>1. (s \o t)[j] \in ToSet(s) /\ (s \o t)[i] \in ToSet(t)
      BY <1>3, <1>5, <2>4 DEF ToSet
    <3> QED BY <1>7, <3>1
  <2> QED BY <2>1, <2>2, <2>3, <2>4
<1> QED BY <1>2, <1>6, <1>7 DEF Lines, IsInjective

(* The first n of a queue, and the rest of it.                             *)
LEMMA LineCut ==
  ASSUME NEW S, NEW s \in Lines(S), NEW n \in 0..Len(s)
  PROVE  /\ SubSeq(s, 1, n) \in Lines(S) /\ SubSeq(s, n + 1, Len(s)) \in Lines(S)
         /\ Len(SubSeq(s, 1, n)) = n
         /\ ToSet(SubSeq(s, 1, n)) \cup ToSet(SubSeq(s, n + 1, Len(s))) = ToSet(s)
         /\ ToSet(SubSeq(s, 1, n)) \cap ToSet(SubSeq(s, n + 1, Len(s))) = {}
<1> DEFINE a == SubSeq(s, 1, n)
           b == SubSeq(s, n + 1, Len(s))
<1>1. s \in Seq(S) /\ Len(s) \in Nat /\ DOMAIN s = 1..Len(s) /\ n \in Nat /\ n <= Len(s)
      /\ \A i \in 1..Len(s) : s[i] \in S
  BY DEF Lines
<1>2. a \in Seq(S) /\ Len(a) = n /\ \A i \in 1..n : a[i] = s[i]
  <2>1. \A i \in 1..n : s[i] \in S
    BY <1>1
  <2>2. /\ a \in Seq(S) /\ Len(a) = IF 1 <= n THEN n - 1 + 1 ELSE 0
        /\ \A i \in 1..(n - 1 + 1) : a[i] = s[1 + i - 1]
    BY <1>1, <2>1, SubSeqProperties, SMT
  <2> HIDE DEF a
  <2> QED BY <1>1, <2>2
<1>3. b \in Seq(S) /\ Len(b) = Len(s) - n /\ \A i \in 1..(Len(s) - n) : b[i] = s[n + i]
  <2>1. \A i \in (n + 1)..Len(s) : s[i] \in S
    BY <1>1
  <2>2. /\ b \in Seq(S)
        /\ Len(b) = IF n + 1 <= Len(s) THEN Len(s) - (n + 1) + 1 ELSE 0
        /\ \A i \in 1..(Len(s) - (n + 1) + 1) : b[i] = s[(n + 1) + i - 1]
    BY <1>1, <2>1, SubSeqProperties, SMT
  <2> HIDE DEF b
  <2>3. Len(b) = Len(s) - n
    <3>1. \A l, k \in Nat : k <= l => (IF k + 1 <= l THEN l - (k + 1) + 1 ELSE 0) = l - k
      OBVIOUS
    <3>2. (IF n + 1 <= Len(s) THEN Len(s) - (n + 1) + 1 ELSE 0) = Len(s) - n
      BY <1>1, <3>1
    <3> QED BY <2>2, <3>2
  <2>4. ASSUME NEW i \in 1..(Len(s) - n) PROVE b[i] = s[n + i]
    <3>1. i \in 1..(Len(s) - (n + 1) + 1) /\ (n + 1) + i - 1 = n + i
      BY <1>1
    <3> QED BY <2>2, <3>1
  <2> QED BY <2>2, <2>3, <2>4
<1> HIDE DEF a, b
<1>4. DOMAIN a = 1..n /\ DOMAIN b = 1..(Len(s) - n)
  BY <1>1, <1>2, <1>3
<1>5. \A i, j \in 1..Len(s) : s[i] = s[j] => i = j
  BY <1>1 DEF Lines, IsInjective
<1>6. a \in Lines(S)
  BY <1>1, <1>2, <1>4, <1>5 DEF Lines, IsInjective
<1>7. b \in Lines(S)
  <2>1. ASSUME NEW i \in 1..(Len(s) - n), NEW j \in 1..(Len(s) - n), b[i] = b[j] PROVE i = j
    <3>1. n + i \in 1..Len(s) /\ n + j \in 1..Len(s) /\ s[n + i] = s[n + j]
      BY <1>1, <1>3, <2>1
    <3> QED BY <1>1, <1>5, <3>1
  <2> QED BY <1>3, <1>4, <2>1 DEF Lines, IsInjective
<1>8. ToSet(a) \cup ToSet(b) = ToSet(s)
  <2>1. ASSUME NEW i \in 1..Len(s) PROVE s[i] \in ToSet(a) \cup ToSet(b)
    <3>1. CASE i <= n
      <4>1. i \in DOMAIN a /\ a[i] = s[i]
        BY <1>1, <1>2, <1>4, <3>1
      <4> QED BY <4>1 DEF ToSet
    <3>2. CASE ~(i <= n)
      <4>1. i - n \in DOMAIN b /\ n + (i - n) = i
        BY <1>1, <1>4, <3>2
      <4>2. b[i - n] = s[i]
        BY <1>3, <1>4, <4>1
      <4> QED BY <4>1, <4>2 DEF ToSet
    <3> QED BY <3>1, <3>2
  <2>2. \A i \in 1..n : a[i] = s[i] /\ i \in 1..Len(s)
    BY <1>1, <1>2
  <2>3. \A i \in 1..(Len(s) - n) : b[i] = s[n + i] /\ n + i \in 1..Len(s)
    BY <1>1, <1>3
  <2>4. ToSet(a) \cup ToSet(b) \subseteq ToSet(s)
    BY <1>1, <1>4, <2>2, <2>3 DEF ToSet
  <2>5. ToSet(s) \subseteq ToSet(a) \cup ToSet(b)
    <3> SUFFICES ASSUME NEW i \in DOMAIN s PROVE s[i] \in ToSet(a) \cup ToSet(b)
      BY DEF ToSet
    <3> QED BY <1>1, <2>1
  <2> QED BY <2>4, <2>5
<1>9. ToSet(a) \cap ToSet(b) = {}
  <2> SUFFICES ASSUME NEW i \in 1..n, NEW j \in 1..(Len(s) - n), a[i] = b[j] PROVE FALSE
    BY <1>4 DEF ToSet
  <2>1. i \in 1..Len(s) /\ n + j \in 1..Len(s) /\ i # n + j /\ s[i] = s[n + j]
    BY <1>1, <1>2, <1>3
  <2> QED BY <1>5, <2>1
<1> QED BY <1>2, <1>6, <1>7, <1>8, <1>9 DEF a, b

(* The rank of a place among some places of a queue.                       *)
LEMMA PlacesRanked ==
  ASSUME NEW n \in Nat, NEW P \in SUBSET (1..n)
  PROVE  /\ IsFiniteSet(P) /\ Cardinality(P) \in Nat
         /\ \A k \in 1..Cardinality(P) : \E i \in P : Cardinality({j \in P : j <= i}) = k
<1> DEFINE upto(i) == {j \in P : j <= i}
           rank    == [i \in P |-> Cardinality(upto(i))]
           m       == Cardinality(P)
<1>1. IsFiniteSet(P) /\ m \in Nat
  <2>1. IsFiniteSet(1..n)
    BY FS_Interval
  <2>2. IsFiniteSet(P)
    BY <2>1, FS_Subset
  <2> QED BY <2>2, FS_CardinalityType
<1>2. \A i \in P : /\ upto(i) \in SUBSET P /\ i \in upto(i)
                  /\ IsFiniteSet(upto(i)) /\ Cardinality(upto(i)) \in 1..m
  <2> TAKE i \in P
  <2>1. upto(i) \in SUBSET P /\ i \in upto(i)
    OBVIOUS
  <2> HIDE DEF upto, m
  <2>2. IsFiniteSet(upto(i)) /\ Cardinality(upto(i)) \in Nat /\ Cardinality(upto(i)) <= m
    BY <1>1, <2>1, FS_Subset, FS_CardinalityType DEF m
  <2>3. Cardinality(upto(i)) # 0
    BY <2>1, <2>2, FS_EmptySet
  <2> QED BY <1>1, <2>1, <2>2, <2>3
<1>3. ASSUME NEW i \in P, NEW j \in P, i < j
      PROVE  Cardinality(upto(i)) < Cardinality(upto(j))
  <2>1. j \notin upto(i) /\ upto(i) \cup {j} \in SUBSET upto(j)
    <3>1. \A k \in P : k \in Int
      OBVIOUS
    <3>2. j \in upto(j) /\ j \notin upto(i)
      BY <1>3, <3>1
    <3>3. ASSUME NEW k \in upto(i) PROVE k \in upto(j)
      BY <1>3, <3>1
    <3> HIDE DEF upto
    <3> QED BY <3>2, <3>3
  <2> HIDE DEF upto, m
  <2>2. Cardinality(upto(i) \cup {j}) = Cardinality(upto(i)) + 1
    BY <1>2, <2>1, FS_AddElement
  <2>3. Cardinality(upto(i) \cup {j}) <= Cardinality(upto(j))
    BY <1>2, <2>1, FS_Subset
  <2> QED BY <1>1, <1>2, <2>2, <2>3
<1>4. rank \in Injection(P, 1..m)
  <2> HIDE DEF upto, m
  <2>1. rank \in [P -> 1..m]
    BY <1>2
  <2>2. ASSUME NEW i \in P, NEW j \in P, rank[i] = rank[j] PROVE i = j
    <3>1. i \in Int /\ j \in Int /\ rank[i] \in Nat /\ rank[j] \in Nat
      BY <1>1, <1>2
    <3>2. ~(i < j) /\ ~(j < i)
      BY <1>3, <2>2, <3>1
    <3> QED BY <3>1, <3>2
  <2> QED BY <2>1, <2>2 DEF Injection, IsInjective
<1>5. IsFiniteSet(1..m) /\ Cardinality(1..m) = m
  <2> HIDE DEF m
  <2> QED BY <1>1, FS_Interval
<1>6. rank \in Surjection(P, 1..m)
  <2>1. Cardinality(P) = Cardinality(1..m)
    BY <1>5
  <2> HIDE DEF rank, m
  <2> QED BY <1>4, <1>5, <2>1, FS_Injection
<1>7. \A k \in 1..m : \E i \in P : Cardinality(upto(i)) = k
  <2> HIDE DEF upto, m
  <2> QED BY <1>6 DEF Surjection
<1> QED BY <1>1, <1>7

LEMMA OnlyThose ==
  ASSUME NEW S, NEW s \in Lines(S), NEW G
  PROVE  Only(s, G) \in Lines(S) /\ ToSet(Only(s, G)) = ToSet(s) \cap G
<1> DEFINE P      == {i \in DOMAIN s : s[i] \in G}
           nth(k) == CHOOSE i \in P : Cardinality({j \in P : j <= i}) = k
           m      == Cardinality(P)
           q      == Only(s, G)
<1>1. s \in Seq(S) /\ Len(s) \in Nat /\ DOMAIN s = 1..Len(s) /\ P \in SUBSET (1..Len(s))
      /\ \A i \in DOMAIN s : s[i] \in S
  BY DEF Lines
<1>2. m \in Nat /\ IsFiniteSet(P) /\ \A k \in 1..m : \E i \in P : Cardinality({j \in P : j <= i}) = k
  <2> HIDE DEF P
  <2> QED BY <1>1, PlacesRanked
<1>3. q = [k \in 1..m |-> s[nth(k)]]
  BY DEF Only
<1>4. \A k \in 1..m : nth(k) \in P /\ Cardinality({j \in P : j <= nth(k)}) = k
  <2> HIDE DEF P, m
  <2> QED BY <1>2
<1>5. \A i \in P : s[i] \in S /\ s[i] \in G /\ i \in DOMAIN s
  BY <1>1
<1> HIDE DEF P, nth, m, q
<1>6. q \in Seq(S) /\ DOMAIN q = 1..m
  <2>1. q \in [1..m -> S] /\ DOMAIN q = 1..m
    BY <1>3, <1>4, <1>5
  <2> QED BY <1>2, <2>1
<1>7. \A k, l \in 1..m : nth(k) = nth(l) => k = l
  BY <1>4
<1>8. \A k, l \in 1..m : s[nth(k)] = s[nth(l)] => nth(k) = nth(l)
  BY <1>4, <1>5 DEF Lines, IsInjective
<1>9. IsInjective(q)
  BY <1>3, <1>6, <1>7, <1>8 DEF IsInjective
<1>10. ASSUME NEW i \in P PROVE \E k \in 1..m : nth(k) = i
  <2> DEFINE f == [k \in 1..m |-> nth(k)]
  <2>1. f \in Injection(1..m, P)
    BY <1>4, <1>7 DEF Injection, IsInjective
  <2>2. IsFiniteSet(1..m) /\ Cardinality(1..m) = m
    BY <1>2, FS_Interval
  <2>3. f \in Surjection(1..m, P)
    <3> HIDE DEF f
    <3> QED BY <1>2, <2>1, <2>2, FS_Injection DEF m
  <2>4. PICK k \in 1..m : f[k] = i
    <3> HIDE DEF f
    <3> QED BY <2>3 DEF Surjection
  <2> QED BY <2>4
<1>11. ToSet(q) \subseteq ToSet(s) \cap G
  BY <1>3, <1>4, <1>5, <1>6 DEF ToSet
<1>12. ToSet(s) \cap G \subseteq ToSet(q)
  <2> SUFFICES ASSUME NEW i \in DOMAIN s, s[i] \in G PROVE s[i] \in ToSet(q)
    BY DEF ToSet
  <2>1. i \in P
    BY DEF P
  <2>2. PICK k \in 1..m : nth(k) = i
    BY <1>10, <2>1
  <2> QED BY <1>3, <1>6, <2>2 DEF ToSet
<1> QED BY <1>6, <1>9, <1>11, <1>12 DEF Lines, q

LEMMA LineTail ==
  ASSUME NEW S, NEW s \in Lines(S), s # <<>>
  PROVE  /\ Tail(s) \in Lines(S) /\ Head(s) \in S /\ Head(s) \notin ToSet(Tail(s))
         /\ ToSet(s) = ToSet(Tail(s)) \cup {Head(s)}
<1>1. s \in Seq(S) /\ Len(s) \in Nat /\ Len(s) >= 1 /\ 1 \in 0..Len(s)
  BY DEF Lines
<1>2. Tail(s) = SubSeq(s, 1 + 1, Len(s)) /\ Head(s) = s[1] /\ s[1] \in S
  BY <1>1, TailIsSubSeq
<1>3. \A i \in 1..1 : s[i] \in S
  BY <1>2
<1>4. SubSeq(s, 1, 1) \in Seq(S) /\ Len(SubSeq(s, 1, 1)) = 1 /\ SubSeq(s, 1, 1)[1] = s[1]
  BY <1>3, SubSeqProperties
<1>5. ToSet(SubSeq(s, 1, 1)) = {Head(s)}
  <2>1. DOMAIN SubSeq(s, 1, 1) = {1}
    BY <1>4
  <2> QED BY <1>2, <1>4, <2>1 DEF ToSet
<1>6. /\ SubSeq(s, 1 + 1, Len(s)) \in Lines(S)
      /\ ToSet(SubSeq(s, 1, 1)) \cup ToSet(SubSeq(s, 1 + 1, Len(s))) = ToSet(s)
      /\ ToSet(SubSeq(s, 1, 1)) \cap ToSet(SubSeq(s, 1 + 1, Len(s))) = {}
  BY <1>1, LineCut
<1>7. /\ Tail(s) \in Lines(S)
      /\ ToSet(s) = ToSet(Tail(s)) \cup {Head(s)}
      /\ {Head(s)} \cap ToSet(Tail(s)) = {}
  BY <1>2, <1>5, <1>6, Zenon
<1> QED BY <1>2, <1>7
-----------------------------------------------------------------------------
(* The lanes of the checkpoints, and the queues for the wheelchairs.       *)

Standing(lane) == UNION {ToSet(lane[c]) : c \in AnyCheckpoint}

LanesOK(lane, group) ==
  /\ lane \in [AnyCheckpoint -> Lines(Pax)]
  /\ \A c \in AnyCheckpoint : \A p \in ToSet(lane[c]) :
       p \in Departures \cap group /\ CheckpointOfPax(p) = c

LEMMA OwnCheckpoint ==
  ASSUME NEW p \in Departures PROVE CheckpointOfPax(p) \in AnyCheckpoint
  BY PassengerAssumption DEF Departures, CheckpointOfPax

LEMMA SomeArePax ==
  ASSUME NEW G \in SUBSET Pax PROVE IsFiniteSet(G) /\ Cardinality(G) \in Nat
  BY PassengerAssumption, FS_Subset, FS_CardinalityType

LEMMA InOwnLane ==
  ASSUME NEW lane, NEW G, LanesOK(lane, G), NEW p
  PROVE  p \in Standing(lane) <=> p \in Departures /\ p \in ToSet(lane[CheckpointOfPax(p)])
<1>1. p \in Standing(lane) => p \in Departures /\ p \in ToSet(lane[CheckpointOfPax(p)])
  BY DEF Standing, LanesOK
<1>2. p \in Departures /\ p \in ToSet(lane[CheckpointOfPax(p)]) => p \in Standing(lane)
  BY OwnCheckpoint DEF Standing
<1> QED BY <1>1, <1>2

LEMMA LinePax ==
  ASSUME NEW S \in SUBSET Pax, NEW q \in Lines(S) PROVE q \in Lines(Pax)
  BY DEF Lines

LEMMA NobodyStands ==
  ASSUME NEW G
  PROVE  /\ LanesOK([c \in AnyCheckpoint |-> <<>>], G)
         /\ Standing([c \in AnyCheckpoint |-> <<>>]) = {}
<1>1. <<>> \in Lines(Pax) /\ ToSet(<<>>) = {}
  BY DEF Lines, IsInjective, ToSet
<1> QED BY <1>1 DEF LanesOK, Standing

LEMMA JoinedLanes ==
  ASSUME NEW lane, NEW G, LanesOK(lane, G), NEW group \in SUBSET (Departures \cap G)
  PROVE  /\ LanesOK(Joined(lane, group), G)
         /\ Standing(Joined(lane, group)) = Standing(lane) \cup group
<1> DEFINE new(c) == {p \in group \ ToSet(lane[c]) : CheckpointOfPax(p) = c}
           to     == Joined(lane, group)
<1>1. to = [c \in AnyCheckpoint |-> lane[c] \o SetToSeq(new(c))]
  BY DEF Joined
<1>2. ASSUME NEW c \in AnyCheckpoint
      PROVE  to[c] \in Lines(Pax) /\ ToSet(to[c]) = ToSet(lane[c]) \cup new(c)
  <2>1. new(c) \in SUBSET Pax /\ new(c) \cap ToSet(lane[c]) = {} /\ lane[c] \in Lines(Pax)
    BY DEF Departures, LanesOK
  <2> HIDE DEF new, to
  <2>2. SetToSeq(new(c)) \in Lines(Pax) /\ ToSet(SetToSeq(new(c))) = new(c)
    BY <2>1, SomeArePax, SetInLine, LinePax
  <2>3. /\ lane[c] \o SetToSeq(new(c)) \in Lines(Pax)
        /\ ToSet(lane[c] \o SetToSeq(new(c))) = ToSet(lane[c]) \cup new(c)
    BY <2>1, <2>2, LinesJoined
  <2> QED BY <1>1, <2>3
<1>3. to \in [AnyCheckpoint -> Lines(Pax)]
  <2> HIDE DEF new
  <2> QED BY <1>1, <1>2
<1>4. \A c \in AnyCheckpoint : \A p \in ToSet(to[c]) :
        p \in Departures \cap G /\ CheckpointOfPax(p) = c
  <2> HIDE DEF to
  <2> QED BY <1>2 DEF LanesOK
<1>5. Standing(to) \subseteq Standing(lane) \cup group
  <2> HIDE DEF to
  <2> QED BY <1>2 DEF Standing
<1>6. Standing(lane) \subseteq Standing(to)
  <2> HIDE DEF to
  <2> QED BY <1>2 DEF Standing
<1>7. group \subseteq Standing(to)
  <2> SUFFICES ASSUME NEW p \in group PROVE p \in Standing(to)
    OBVIOUS
  <2>1. CheckpointOfPax(p) \in AnyCheckpoint
    BY OwnCheckpoint
  <2>2. p \in ToSet(to[CheckpointOfPax(p)])
    <3> HIDE DEF to
    <3> QED BY <1>2, <2>1
  <2> HIDE DEF to
  <2> QED BY <2>1, <2>2 DEF Standing
<1> HIDE DEF to
<1>8. LanesOK(to, G)
  BY <1>3, <1>4 DEF LanesOK
<1> QED BY <1>5, <1>6, <1>7, <1>8 DEF to

LEMMA KeptLanes ==
  ASSUME NEW lane, NEW G, LanesOK(lane, G), NEW group
  PROVE  LET kept == [c \in AnyCheckpoint |-> Only(lane[c], group)]
         IN  LanesOK(kept, G) /\ Standing(kept) = Standing(lane) \cap group
<1> DEFINE kept == [c \in AnyCheckpoint |-> Only(lane[c], group)]
<1>1. \A c \in AnyCheckpoint :
        kept[c] \in Lines(Pax) /\ ToSet(kept[c]) = ToSet(lane[c]) \cap group
  BY OnlyThose DEF LanesOK
<1>2. kept \in [AnyCheckpoint -> Lines(Pax)]
  BY <1>1
<1> HIDE DEF kept
<1>3. LanesOK(kept, G)
  BY <1>1, <1>2 DEF LanesOK
<1>4. Standing(kept) = Standing(lane) \cap group
  BY <1>1 DEF Standing
<1> QED BY <1>3, <1>4 DEF kept

LEMMA DrainedLanes ==
  ASSUME NEW lane, NEW G, LanesOK(lane, G), NEW stopped, NEW n \in FrontOf(lane, stopped)
  PROVE  /\ LanesOK(Rest(lane, n), G)
         /\ \A c \in AnyCheckpoint : Drained(lane, n, c) \subseteq Standing(lane)
         /\ Standing(Rest(lane, n))
              = Standing(lane) \ UNION {Drained(lane, n, c) : c \in AnyCheckpoint}
<1> DEFINE rest == Rest(lane, n)
<1>1. \A c \in AnyCheckpoint : lane[c] \in Lines(Pax) /\ n[c] \in 0..Len(lane[c])
  <2> TAKE c \in AnyCheckpoint
  <2>1. lane[c] \in Lines(Pax) /\ Len(lane[c]) \in Nat
    BY DEF LanesOK, Lines
  <2>2. n[c] = 0 \/ n[c] \in 1..Len(lane[c])
    BY DEF FrontOf
  <2> QED BY <2>1, <2>2
<1>2. ASSUME NEW c \in AnyCheckpoint
      PROVE  /\ rest[c] \in Lines(Pax)
             /\ Drained(lane, n, c) \cup ToSet(rest[c]) = ToSet(lane[c])
             /\ Drained(lane, n, c) \cap ToSet(rest[c]) = {}
  <2>1. rest[c] = SubSeq(lane[c], n[c] + 1, Len(lane[c]))
        /\ Drained(lane, n, c) = ToSet(SubSeq(lane[c], 1, n[c]))
    BY DEF Rest, Drained
  <2> HIDE DEF rest
  <2> QED BY <1>1, <2>1, LineCut
<1>3. rest \in [AnyCheckpoint -> Lines(Pax)]
  BY <1>2 DEF Rest
<1> HIDE DEF rest
<1>4. LanesOK(rest, G)
  BY <1>2, <1>3 DEF LanesOK
<1>5. \A c \in AnyCheckpoint : Drained(lane, n, c) \subseteq Standing(lane)
  BY <1>2 DEF Standing
<1>6. Standing(rest) = Standing(lane) \ UNION {Drained(lane, n, c) : c \in AnyCheckpoint}
  <2>1. ASSUME NEW p \in Standing(rest), NEW c \in AnyCheckpoint
        PROVE  p \notin Drained(lane, n, c)
    <3>1. PICK d \in AnyCheckpoint : p \in ToSet(rest[d])
      BY DEF Standing
    <3>2. CheckpointOfPax(p) = d
      BY <1>2, <3>1 DEF LanesOK
    <3>3. p \in Drained(lane, n, c) => CheckpointOfPax(p) = c
      BY <1>2 DEF LanesOK
    <3> QED BY <1>2, <3>1, <3>2, <3>3
  <2>2. Standing(rest) \subseteq Standing(lane)
    BY <1>2 DEF Standing
  <2>3. Standing(lane) \subseteq Standing(rest) \cup UNION {Drained(lane, n, c) : c \in AnyCheckpoint}
    BY <1>2 DEF Standing
  <2> QED BY <2>1, <2>2, <2>3
<1> QED BY <1>4, <1>5, <1>6 DEF rest
-----------------------------------------------------------------------------
(* The passengers and the lanes they stand in.                             *)

DepartureStatus ==
  {"booked", "checked_in", "security_queue", "airside", "at_gate", "boarded",
   "departed_airport", "disrupted"}
ArrivalStatus ==
  {"airborne", "deplaning", "customs", "baggage_claim", "departed_airport", "disrupted"}
StatusOK ==
  /\ pax \in [Pax -> DepartureStatus \cup ArrivalStatus]
  /\ \A p \in Pax : pax[p] \in IF p \in Departures THEN DepartureStatus ELSE ArrivalStatus

(* Those who stand in a lane have been queued since the process started    *)
(* and have not been drained; those who have not been written either are   *)
(* among the ones a failed write left behind; and nobody else is missing.  *)
InLanes == Standing(main_queue) \cup Standing(sa_queue)
Queuing ==
  /\ LanesOK(main_queue, Pax \ Assisted) /\ LanesOK(sa_queue, Assisted)
  /\ InLanes \subseteq security_enqueued
  /\ \A p \in InLanes : pax[p] \in {"checked_in", "security_queue", "disrupted"}
  /\ \A p \in InLanes : pax[p] = "checked_in" => p \in unwritten
  /\ \A p \in Departures \ unwritten : pax[p] = "security_queue" => p \in InLanes

LanesInv == StatusOK /\ Queuing

(* What a step does to the status of a passenger.                          *)
Moves(p) ==
  \/ pax[p] = "booked" /\ pax'[p] \in {"checked_in", "airside", "at_gate", "boarded"}
  \/ pax[p] = "checked_in" /\ pax'[p] = "security_queue" /\ p \notin security_enqueued
  \/ p \in InLanes /\ pax'[p] = "airside"
  \/ pax[p] = "airside" /\ pax'[p] = "at_gate"
  \/ pax[p] = "at_gate" /\ pax'[p] \in {"boarded", "departed_airport"}
  \/ pax[p] = "boarded" /\ pax'[p] = "departed_airport"
  \/ pax[p] = "airborne" /\ pax'[p] = "deplaning"
  \/ pax[p] = "deplaning" /\ pax'[p] \in {"customs", "baggage_claim"}
  \/ pax[p] = "customs" /\ pax'[p] = "baggage_claim"
  \/ pax[p] = "baggage_claim" /\ pax'[p] = "departed_airport"
  \/ pax[p] \notin {"boarded", "departed_airport"} /\ pax'[p] = "disrupted"

OneMoves == pax' \in [Pax -> DepartureStatus \cup ArrivalStatus]
            /\ \A p \in Pax : pax'[p] = pax[p] \/ Moves(p)

LEMMA LanesMembers ==
  ASSUME LanesInv
  PROVE  InLanes \subseteq Departures /\ Departures \subseteq Pax
  BY DEF LanesInv, Queuing, LanesOK, InLanes, Standing, Departures

(* Whoever moves to a status stays one of the departing or the landing.    *)
LEMMA StatusStays ==
  ASSUME LanesInv, OneMoves
  PROVE  StatusOK'
<1>1. pax' \in [Pax -> DepartureStatus \cup ArrivalStatus]
  BY DEF OneMoves
<1>2. ASSUME NEW p \in Pax
      PROVE  pax'[p] \in IF p \in Departures THEN DepartureStatus ELSE ArrivalStatus
  <2>1. pax[p] \in IF p \in Departures THEN DepartureStatus ELSE ArrivalStatus
    BY DEF LanesInv, StatusOK
  <2>2. p \in InLanes => p \in Departures
    BY LanesMembers
  <2>3. pax'[p] = pax[p] \/ Moves(p)
    BY DEF OneMoves
  <2> QED BY <2>1, <2>2, <2>3 DEF Moves, DepartureStatus, ArrivalStatus
<1> QED BY <1>1, <1>2 DEF StatusOK, Departures

LEMMA Drains ==
  ASSUME LanesInv,
         NEW n \in FrontOf(main_queue, frozen), NEW m \in FrontOf(sa_queue, {}),
         NEW i \in Int, NEW j \in Int, 1 <= i, j <= Len(Checkpoints)
  PROVE  UNION {Drained(main_queue, n, Checkpoints[k]) \cup Drained(sa_queue, m, Checkpoints[k])
                : k \in i..j} \subseteq InLanes
<1>1. \A k \in i..j : Checkpoints[k] \in AnyCheckpoint
  BY PassengerAssumption DEF AnyCheckpoint, ToSet
<1>2. \A c \in AnyCheckpoint : Drained(main_queue, n, c) \subseteq Standing(main_queue)
                              /\ Drained(sa_queue, m, c) \subseteq Standing(sa_queue)
  BY DrainedLanes DEF LanesInv, Queuing
<1> QED BY <1>1, <1>2 DEF InLanes

LEMMA PaxMoves ==
  ASSUME LanesInv, PassengersNext
  PROVE  OneMoves
<1> USE DEF bulk_update_status, WithStatus, Moves
<1>0. pax \in [Pax -> DepartureStatus \cup ArrivalStatus]
      /\ \A p \in Pax : pax[p] \in IF p \in Departures THEN DepartureStatus ELSE ArrivalStatus
  BY DEF LanesInv, StatusOK
<1>00. pax' = pax => OneMoves
  BY <1>0 DEF OneMoves
<1>a. FlightOutcome \/ BreachesChange \/ BeginTick \/ DispatchChair \/ _wheelchair_tick
      \/ _sync_security_from_db \/ OnBreach \/ RestartPassengers => pax' = pax
  BY DEF FlightOutcome, BreachesChange, BeginTick, DispatchChair, _wheelchair_tick,
         _sync_security_from_db, OnBreach, RestartPassengers
<1>1. ASSUME _warm_start_departures PROVE OneMoves
  <2>1. PICK target \in [Leaving -> {"booked", "checked_in", "airside", "at_gate", "boarded"}] :
          pax' = [p \in Pax |-> IF p \in Departures /\ pax[p] = "booked"
                                THEN target[ON_FLIGHT[p]] ELSE pax[p]]
    BY <1>1 DEF _warm_start_departures
  <2>2. \A p \in Departures : target[ON_FLIGHT[p]] \in {"booked", "checked_in", "airside", "at_gate", "boarded"}
    BY DEF Departures
  <2> QED BY <1>0, <2>1, <2>2 DEF OneMoves, DepartureStatus
<1>2. ASSUME _advance_booked_to_checkin PROVE OneMoves
  BY <1>0, <1>2 DEF _advance_booked_to_checkin, OneMoves, DepartureStatus
<1>3. ASSUME _advance_checkin_to_security PROVE OneMoves
  <2>1. PICK due \in SUBSET ((WithStatus("checked_in") \cap Departures) \ security_enqueued) :
          \E G \in SUBSET due : bulk_update_status(G, "security_queue")
    <3>1. PICK due \in SUBSET ((WithStatus("checked_in") \cap Departures) \ security_enqueued) :
             \/ bulk_update_status(due, "security_queue")
             \/ \E f \in Leaving :
                  bulk_update_status(due \ {p \in due : ON_FLIGHT[p] = f}, "security_queue")
      BY <1>3 DEF _advance_checkin_to_security
    <3>2. due \in SUBSET due /\ \A f \in Leaving : due \ {p \in due : ON_FLIGHT[p] = f} \in SUBSET due
      OBVIOUS
    <3> HIDE DEF bulk_update_status
    <3> QED BY <3>1, <3>2
  <2> QED BY <1>0, <2>1 DEF OneMoves, DepartureStatus
<1>4. ASSUME _drain_security_queues PROVE OneMoves
  <2> DEFINE Out(n, m, i, j) ==
        UNION {Drained(main_queue, n, Checkpoints[k]) \cup Drained(sa_queue, m, Checkpoints[k])
               : k \in i..j}
  <2>1. PICK n \in FrontOf(main_queue, frozen), m \in FrontOf(sa_queue, {}) :
          \/ bulk_update_status(Out(n, m, 1, Len(Checkpoints)), "airside")
          \/ \E i \in 1..Len(Checkpoints) : bulk_update_status(Out(n, m, 1, i - 1), "airside")
    <3> HIDE DEF bulk_update_status
    <3> QED BY <1>4, Zenon DEF _drain_security_queues
  <2>2. Len(Checkpoints) \in Nat
    BY PassengerAssumption
  <2>3. PICK j \in Int : j <= Len(Checkpoints) /\ bulk_update_status(Out(n, m, 1, j), "airside")
    <3>1. \A i \in 1..Len(Checkpoints) : i - 1 \in Int /\ i - 1 <= Len(Checkpoints)
      BY <2>2
    <3> HIDE DEF Out, bulk_update_status
    <3> QED BY <2>1, <2>2, <3>1
  <2>4. Out(n, m, 1, j) \subseteq InLanes
    BY <2>3, Drains
  <2> HIDE DEF Out
  <2> QED BY <1>0, <2>3, <2>4 DEF OneMoves, DepartureStatus
<1>5. ASSUME _advance_airside_to_gate PROVE OneMoves
  BY <1>0, <1>5 DEF _advance_airside_to_gate, OneMoves, DepartureStatus
<1>6. ASSUME _advance_boarding PROVE OneMoves
  <2>1. PICK noshow \in SUBSET WithStatus("at_gate"), boarding \in SUBSET WithStatus("at_gate") :
          Boards(noshow, boarding)
    <3> DEFINE group(due) == UNION {AtGate(f) : f \in Called(due)}
    <3>1. PICK due \in SUBSET Leaving :
            \E noshow \in SUBSET {p \in group(due) : ON_FLIGHT[p] \notin noshow_drawn_flights} :
            \E boarding \in SUBSET (group(due) \ noshow) :
              Boards(noshow, boarding)
      BY <1>6, Zenon DEF _advance_boarding
    <3>2. group(due) \subseteq WithStatus("at_gate")
      BY DEF AtGate
    <3> HIDE DEF group
    <3>3. PICK noshow \in SUBSET {p \in group(due) : ON_FLIGHT[p] \notin noshow_drawn_flights} :
            \E boarding \in SUBSET (group(due) \ noshow) :
              Boards(noshow, boarding)
      BY <3>1
    <3>4. noshow \in SUBSET WithStatus("at_gate")
          /\ \A boarding \in SUBSET (group(due) \ noshow) : boarding \in SUBSET WithStatus("at_gate")
      BY <3>2
    <3> QED BY <3>3, <3>4
  <2>2. \A p \in Pax :
          \/ p \in noshow /\ pax'[p] = "departed_airport"
          \/ p \in boarding /\ pax'[p] = "boarded"
          \/ pax'[p] = pax[p]
    BY <2>1 DEF Boards
  <2>3. DOMAIN pax' = Pax /\ pax' = [p \in Pax |-> pax'[p]]
    BY <2>1 DEF Boards
  <2> QED BY <1>0, <2>1, <2>2, <2>3 DEF OneMoves, DepartureStatus
<1>7. ASSUME _advance_arrivals PROVE OneMoves
  <2>1. PICK customs \in SUBSET WithStatus("deplaning"), away \in SUBSET WithStatus("baggage_claim") :
        \E claim \in SUBSET ((WithStatus("deplaning") \ customs) \cup WithStatus("customs")) :
          pax' = [p \in Pax |-> CASE p \in customs -> "customs" [] p \in claim -> "baggage_claim"
                                   [] p \in away -> "departed_airport" [] OTHER -> pax[p]]
    BY <1>7 DEF _advance_arrivals
  <2>2. PICK claim \in SUBSET ((WithStatus("deplaning") \ customs) \cup WithStatus("customs")) :
          pax' = [p \in Pax |-> CASE p \in customs -> "customs" [] p \in claim -> "baggage_claim"
                                   [] p \in away -> "departed_airport" [] OTHER -> pax[p]]
    BY <2>1
  <2>3. \A p \in Pax :
          \/ p \in customs /\ pax'[p] = "customs"
          \/ p \in claim /\ pax'[p] = "baggage_claim"
          \/ p \in away /\ pax'[p] = "departed_airport"
          \/ pax'[p] = pax[p]
    BY <2>2
  <2>4. DOMAIN pax' = Pax /\ pax' = [p \in Pax |-> pax'[p]]
    BY <2>2
  <2> QED BY <1>0, <2>3, <2>4 DEF OneMoves, ArrivalStatus
<1>8. ASSUME _on_flight_status_changed PROVE OneMoves
  <2>1. CASE \E f \in Landing : bulk_update_status(Deplaning(f), "deplaning")
    <3>1. PICK f \in Landing : bulk_update_status(Deplaning(f), "deplaning")
      BY <2>1
    <3>2. \A p \in Deplaning(f) : pax[p] = "airborne"
      BY <1>0, PassengerAssumption DEF Deplaning, Departures, ArrivalStatus
    <3> QED BY <1>0, <3>1, <3>2 DEF OneMoves, ArrivalStatus
  <2>2. CASE \E f \in Leaving : bulk_update_status(Flown(f), "departed_airport")
    BY <1>0, <2>2 DEF OneMoves, DepartureStatus, Flown
  <2> QED BY <1>8, <2>1, <2>2 DEF _on_flight_status_changed
<1>9. ASSUME _on_flight_cancelled PROVE OneMoves
  <2>1. PICK f \in Leaving \cup Landing : \E told \in SUBSET Stranded(f) :
          bulk_update_status(told, "disrupted")
    <3>1. PICK f \in Leaving \cup Landing :
             \/ bulk_update_status(Stranded(f), "disrupted")
             \/ \E told \in SUBSET Stranded(f) : bulk_update_status(told, "disrupted")
      BY <1>9 DEF _on_flight_cancelled
    <3>2. Stranded(f) \in SUBSET Stranded(f)
      OBVIOUS
    <3> HIDE DEF bulk_update_status
    <3> QED BY <3>1, <3>2
  <2> QED BY <1>0, <2>1 DEF OneMoves, DepartureStatus, Stranded
<1> HIDE DEF bulk_update_status, WithStatus, Moves
<1> QED BY <1>00, <1>a, <1>1, <1>2, <1>3, <1>4, <1>5, <1>6, <1>7, <1>8, <1>9 DEF PassengersNext

LEMMA InLaneHasTurn ==
  ASSUME LanesInv, NEW p \in InLanes
  PROVE  Turns(main_queue, p) \cup Turns(sa_queue, p) # {}
<1>1. PICK c \in AnyCheckpoint : p \in ToSet(main_queue[c]) \/ p \in ToSet(sa_queue[c])
  BY DEF InLanes, Standing
<1>2. CASE p \in ToSet(main_queue[c])
  <2>1. PICK i \in DOMAIN main_queue[c] : main_queue[c][i] = p
    BY <1>2 DEF ToSet
  <2>2. <<c, i>> \in Turns(main_queue, p)
    BY <2>1 DEF Turns
  <2> QED BY <2>2
<1>3. CASE p \in ToSet(sa_queue[c])
  <2>1. PICK i \in DOMAIN sa_queue[c] : sa_queue[c][i] = p
    BY <1>3 DEF ToSet
  <2>2. <<c, i>> \in Turns(sa_queue, p)
    BY <2>1 DEF Turns
  <2> QED BY <2>2
<1> QED BY <1>1, <1>2, <1>3

(* What JourneyForward says of a step.                                     *)
Forward ==
  \A p \in Pax :
       \/ Progress[pax[p]] <= Progress[pax'[p]]
       \/ /\ pax[p] = "disrupted" /\ pax'[p] = "airside"
          /\ Turns(main_queue, p) \cup Turns(sa_queue, p) # {}

LEMMA ProgressOf ==
  /\ Progress["booked"] = 0 /\ Progress["checked_in"] = 1 /\ Progress["security_queue"] = 2
  /\ Progress["airside"] = 3 /\ Progress["at_gate"] = 4 /\ Progress["boarded"] = 5
  /\ Progress["airborne"] = 0 /\ Progress["deplaning"] = 6 /\ Progress["customs"] = 7
  /\ Progress["baggage_claim"] = 8 /\ Progress["disrupted"] = 8
  /\ Progress["departed_airport"] = 9
  BY DEF Progress

LEMMA MovesForward ==
  ASSUME LanesInv, OneMoves
  PROVE  Forward
<1> SUFFICES ASSUME NEW p \in Pax
             PROVE  \/ Progress[pax[p]] <= Progress[pax'[p]]
                    \/ /\ pax[p] = "disrupted" /\ pax'[p] = "airside"
                       /\ Turns(main_queue, p) \cup Turns(sa_queue, p) # {}
  BY DEF Forward
<1>1. pax[p] \in DepartureStatus \cup ArrivalStatus
  BY DEF LanesInv, StatusOK
<1>2. CASE pax'[p] = pax[p]
  BY <1>1, <1>2, ProgressOf DEF DepartureStatus, ArrivalStatus
<1>3. CASE p \in InLanes /\ pax'[p] = "airside"
  <2>1. pax[p] \in {"checked_in", "security_queue", "disrupted"}
    BY <1>3 DEF LanesInv, Queuing
  <2> QED BY <1>3, <2>1, ProgressOf, InLaneHasTurn
<1>4. CASE Moves(p) /\ ~(p \in InLanes /\ pax'[p] = "airside")
  BY <1>1, <1>4, ProgressOf DEF Moves, DepartureStatus, ArrivalStatus
<1> QED BY <1>2, <1>3, <1>4 DEF OneMoves
-----------------------------------------------------------------------------
(* The lanes as the steps leave them.                                      *)

(* Nobody is written into the security queue, or out of it but as disrupted. *)
LanesQuiet ==
  \A p \in Pax : \/ pax'[p] = pax[p]
                \/ /\ pax'[p] # "security_queue"
                   /\ pax'[p] = "airside" => pax[p] = "booked"

LEMMA LanesStand ==
  ASSUME LanesInv, OneMoves, LanesQuiet, UNCHANGED <<main_queue, sa_queue, security_enqueued>>,
         unwritten \subseteq unwritten'
  PROVE  Queuing'
<1>1. LanesOK(main_queue, Pax \ Assisted)' /\ LanesOK(sa_queue, Assisted)' /\ InLanes' = InLanes
  BY DEF LanesInv, Queuing, LanesOK, InLanes, Standing, CheckpointOfPax, Departures
<1>2. InLanes' \subseteq security_enqueued'
  BY <1>1 DEF LanesInv, Queuing
<1>3. ASSUME NEW p \in InLanes PROVE pax'[p] = pax[p] \/ pax'[p] = "disrupted"
  <2>1. pax[p] \in {"checked_in", "security_queue", "disrupted"} /\ p \in security_enqueued
    BY DEF LanesInv, Queuing
  <2>2. p \in Pax
    BY LanesMembers
  <2> QED BY <2>1, <2>2 DEF OneMoves, Moves, LanesQuiet
<1>4. \A p \in InLanes : pax'[p] \in {"checked_in", "security_queue", "disrupted"}
                        /\ (pax'[p] = "checked_in" => p \in unwritten')
  BY <1>3 DEF LanesInv, Queuing
<1>5. ASSUME NEW p \in Departures \ unwritten', pax'[p] = "security_queue" PROVE p \in InLanes
  <2>1. p \in Pax /\ pax[p] = "security_queue" /\ p \notin unwritten
    BY <1>5 DEF LanesQuiet, Departures
  <2> QED BY <2>1 DEF LanesInv, Queuing
<1> QED BY <1>1, <1>2, <1>4, <1>5 DEF Queuing, Departures

LEMMA QueuesAtSecurity ==
  ASSUME LanesInv, _advance_checkin_to_security
  PROVE  Queuing'
<1>1. PICK due \in SUBSET ((WithStatus("checked_in") \cap Departures) \ security_enqueued) :
        /\ enqueue(due)
        /\ \/ unwritten' = unwritten /\ bulk_update_status(due, "security_queue")
           \/ \E f \in Leaving :
                LET left == {p \in due : ON_FLIGHT[p] = f}
                IN  unwritten' = unwritten \cup left
                    /\ bulk_update_status(due \ left, "security_queue")
  BY DEF _advance_checkin_to_security, Works, Breaks
<1>2. PICK left \in SUBSET due :
        unwritten' = unwritten \cup left /\ bulk_update_status(due \ left, "security_queue")
  <2> HIDE DEF bulk_update_status
  <2>1. CASE unwritten' = unwritten /\ bulk_update_status(due, "security_queue")
    <3>1. {} \in SUBSET due /\ due \ {} = due /\ unwritten' = unwritten \cup {}
      BY <2>1
    <3> QED BY <2>1, <3>1
  <2>2. CASE \E f \in Leaving :
                LET left == {p \in due : ON_FLIGHT[p] = f}
                IN  unwritten' = unwritten \cup left
                    /\ bulk_update_status(due \ left, "security_queue")
    BY <2>2
  <2> QED BY <1>1, <2>1, <2>2
<1>3. /\ LanesOK(main_queue', Pax \ Assisted) /\ LanesOK(sa_queue', Assisted)
      /\ Standing(main_queue') = Standing(main_queue) \cup (due \ Assisted)
      /\ Standing(sa_queue') = Standing(sa_queue) \cup (due \cap Assisted)
  <2>1. due \ Assisted \in SUBSET (Departures \cap (Pax \ Assisted))
        /\ due \cap Assisted \in SUBSET (Departures \cap Assisted)
    BY DEF Departures
  <2>2. main_queue' = Joined(main_queue, due \ Assisted) /\ sa_queue' = Joined(sa_queue, due \cap Assisted)
    BY <1>1 DEF enqueue
  <2> QED BY <2>1, <2>2, JoinedLanes DEF LanesInv, Queuing
<1>4. InLanes' = InLanes \cup due /\ security_enqueued' = security_enqueued \cup due
  BY <1>1, <1>3 DEF InLanes, Standing, enqueue
<1>5. /\ \A p \in due \ left : pax'[p] = "security_queue"
      /\ \A p \in Pax : p \notin due \ left => pax'[p] = pax[p]
      /\ \A p \in due : p \in Pax /\ pax[p] = "checked_in"
  BY <1>2 DEF bulk_update_status, WithStatus
<1>6. ASSUME NEW p \in InLanes'
      PROVE  /\ pax'[p] \in {"checked_in", "security_queue", "disrupted"}
             /\ pax'[p] = "checked_in" => p \in unwritten'
  BY <1>2, <1>4, <1>5, LanesMembers DEF LanesInv, Queuing
<1>7. ASSUME NEW p \in Departures \ unwritten', pax'[p] = "security_queue" PROVE p \in InLanes'
  BY <1>2, <1>4, <1>5, <1>7 DEF LanesInv, Queuing, Departures
<1>8. InLanes' \subseteq security_enqueued'
  BY <1>4 DEF LanesInv, Queuing
<1> QED BY <1>3, <1>6, <1>7, <1>8 DEF Queuing, LanesOK, Departures, CheckpointOfPax

LEMMA LanesSynced ==
  ASSUME LanesInv, _sync_security_from_db
  PROVE  Queuing'
<1> DEFINE queued == WithStatus("security_queue")
           fresh  == queued \ security_enqueued
           Checked(lane) == [c \in AnyCheckpoint |-> Only(lane[c], queued)]
<1>1. /\ main_queue' = Checked(Joined(main_queue, fresh \ Assisted))
      /\ sa_queue' = Checked(Joined(sa_queue, fresh \cap Assisted))
      /\ security_enqueued' = security_enqueued \cup fresh
      /\ UNCHANGED <<pax, unwritten>>
  BY DEF _sync_security_from_db, Works
<1>2. queued \subseteq Departures
  BY DEF LanesInv, StatusOK, WithStatus, ArrivalStatus
<1>3. /\ LanesOK(main_queue', Pax \ Assisted) /\ LanesOK(sa_queue', Assisted)
      /\ Standing(main_queue') = (Standing(main_queue) \cup (fresh \ Assisted)) \cap queued
      /\ Standing(sa_queue') = (Standing(sa_queue) \cup (fresh \cap Assisted)) \cap queued
  <2>1. fresh \ Assisted \in SUBSET (Departures \cap (Pax \ Assisted))
        /\ fresh \cap Assisted \in SUBSET (Departures \cap Assisted)
    BY <1>2 DEF Departures
  <2> DEFINE m == Joined(main_queue, fresh \ Assisted)
             s == Joined(sa_queue, fresh \cap Assisted)
  <2> HIDE DEF queued
  <2>2. /\ LanesOK(m, Pax \ Assisted) /\ Standing(m) = Standing(main_queue) \cup (fresh \ Assisted)
        /\ LanesOK(s, Assisted) /\ Standing(s) = Standing(sa_queue) \cup (fresh \cap Assisted)
    BY <2>1, JoinedLanes DEF LanesInv, Queuing
  <2> HIDE DEF m, s
  <2>3. /\ LanesOK(Checked(m), Pax \ Assisted) /\ Standing(Checked(m)) = Standing(m) \cap queued
        /\ LanesOK(Checked(s), Assisted) /\ Standing(Checked(s)) = Standing(s) \cap queued
    BY <2>2, KeptLanes
  <2> HIDE DEF Checked, fresh
  <2> QED BY <1>1, <2>2, <2>3 DEF m, s
<1>4. InLanes' = (InLanes \cup fresh) \cap queued
  BY <1>3 DEF InLanes, Standing
<1>5. \A p \in InLanes' : pax'[p] = "security_queue"
  BY <1>1, <1>4 DEF WithStatus
<1>6. InLanes' \subseteq security_enqueued'
  BY <1>1, <1>4 DEF LanesInv, Queuing
<1>7. \A p \in Departures \ unwritten' : pax'[p] = "security_queue" => p \in InLanes'
  BY <1>1, <1>4 DEF LanesInv, Queuing, WithStatus, Departures
<1> QED BY <1>3, <1>5, <1>6, <1>7 DEF Queuing, LanesOK, Departures, CheckpointOfPax

LEMMA LanesDrained ==
  ASSUME LanesInv, _drain_security_queues
  PROVE  Queuing'
<1> DEFINE Out(n, m, i, j) ==
      UNION {Drained(main_queue, n, Checkpoints[k]) \cup Drained(sa_queue, m, Checkpoints[k])
             : k \in i..j}
    last == Len(Checkpoints)
<1>1. PICK n \in FrontOf(main_queue, frozen), m \in FrontOf(sa_queue, {}) :
        /\ main_queue' = Rest(main_queue, n) /\ sa_queue' = Rest(sa_queue, m)
        /\ security_enqueued' = security_enqueued
        /\ \/ Works("gates") /\ bulk_update_status(Out(n, m, 1, last), "airside")
           \/ \E i \in 1..last :
                Breaks(Out(n, m, i, last)) /\ bulk_update_status(Out(n, m, 1, i - 1), "airside")
  BY Zenon DEF _drain_security_queues
<1>2. /\ last \in Nat
      /\ \A h \in 1..last : Checkpoints[h] \in AnyCheckpoint
      /\ \A c \in AnyCheckpoint : \E h \in 1..last : c = Checkpoints[h]
  BY PassengerAssumption DEF AnyCheckpoint, ToSet
<1> DEFINE fromMain == UNION {Drained(main_queue, n, c) : c \in AnyCheckpoint}
           fromSa   == UNION {Drained(sa_queue, m, c) : c \in AnyCheckpoint}
           all      == fromMain \cup fromSa
           D(c)     == Drained(main_queue, n, c) \cup Drained(sa_queue, m, c)
<1>a. /\ \A i, j : \A p : p \in Out(n, m, i, j) <=> \E h \in i..j : p \in D(Checkpoints[h])
      /\ \A p : p \in all <=> \E c \in AnyCheckpoint : p \in D(c)
  OBVIOUS
<1>b. \A i \in 1..last, h \in 1..last : h \in i..last \/ h \in 1..(i - 1)
  BY <1>2
<1>c. \A i \in 1..last : (\A h \in i..last : h \in 1..last) /\ (\A h \in 1..(i - 1) : h \in 1..last)
  BY <1>2
<1> HIDE DEF D, Out, all, last
<1>3. Out(n, m, 1, last) = all
  <2>1. \A p : p \in all => p \in Out(n, m, 1, last)
    BY <1>2, <1>a
  <2>2. \A p : p \in Out(n, m, 1, last) => p \in all
    BY <1>2, <1>a
  <2> QED BY <2>1, <2>2
<1>4. ASSUME NEW i \in 1..last PROVE Out(n, m, i, last) \cup Out(n, m, 1, i - 1) = all
  <2>1. \A p : p \in all => p \in Out(n, m, i, last) \cup Out(n, m, 1, i - 1)
    BY <1>2, <1>a, <1>b
  <2>2. \A p : p \in Out(n, m, i, last) \cup Out(n, m, 1, i - 1) => p \in all
    BY <1>2, <1>a, <1>c
  <2> QED BY <2>1, <2>2
<1>5. PICK written, left :
        /\ written \cup left = all
        /\ bulk_update_status(written, "airside") /\ unwritten' = unwritten \cup left
  <2>1. CASE Works("gates") /\ bulk_update_status(Out(n, m, 1, last), "airside")
    <3>1. unwritten' = unwritten \cup {} /\ all \cup {} = all
      BY <2>1 DEF Works
    <3> QED BY <1>3, <2>1, <3>1
  <2>2. CASE \E i \in 1..last :
               Breaks(Out(n, m, i, last)) /\ bulk_update_status(Out(n, m, 1, i - 1), "airside")
    <3>1. PICK i \in 1..last :
            Breaks(Out(n, m, i, last)) /\ bulk_update_status(Out(n, m, 1, i - 1), "airside")
      BY <2>2
    <3>2. unwritten' = unwritten \cup Out(n, m, i, last)
      BY <3>1 DEF Breaks
    <3>3. Out(n, m, 1, i - 1) \cup Out(n, m, i, last) = all
      BY <1>4
    <3> QED BY <3>1, <3>2, <3>3
  <2> QED BY <1>1, <2>1, <2>2
<1>6. /\ LanesOK(main_queue', Pax \ Assisted) /\ LanesOK(sa_queue', Assisted)
      /\ Standing(main_queue')
           = Standing(main_queue) \ fromMain
      /\ Standing(sa_queue')
           = Standing(sa_queue) \ fromSa
      /\ \A c \in AnyCheckpoint : Drained(main_queue, n, c) \subseteq Standing(main_queue)
      /\ \A c \in AnyCheckpoint : Drained(sa_queue, m, c) \subseteq Standing(sa_queue)
  BY <1>1, DrainedLanes DEF LanesInv, Queuing
<1>7. Standing(main_queue) \cap Standing(sa_queue) = {}
  BY DEF LanesInv, Queuing, LanesOK, Standing
<1>8. InLanes' = InLanes \ all
  <2>1. fromMain \subseteq Standing(main_queue) /\ fromSa \subseteq Standing(sa_queue)
    BY <1>6
  <2>2. InLanes' = Standing(main_queue') \cup Standing(sa_queue')
    BY DEF InLanes, Standing
  <2> HIDE DEF fromMain, fromSa
  <2> QED BY <1>6, <1>7, <2>1, <2>2 DEF InLanes, all
<1>9. \A p \in Pax : pax'[p] = IF p \in written THEN "airside" ELSE pax[p]
  BY <1>5 DEF bulk_update_status
<1>10. \A p \in InLanes' : p \in Pax /\ pax'[p] = pax[p] /\ p \in InLanes
  BY <1>5, <1>8, <1>9, LanesMembers
<1>11. InLanes' \subseteq security_enqueued'
  BY <1>1, <1>8 DEF LanesInv, Queuing
<1>12. \A p \in InLanes' : pax'[p] \in {"checked_in", "security_queue", "disrupted"}
                          /\ (pax'[p] = "checked_in" => p \in unwritten')
  BY <1>5, <1>10 DEF LanesInv, Queuing
<1>13. ASSUME NEW p \in Departures \ unwritten', pax'[p] = "security_queue" PROVE p \in InLanes'
  <2>1. p \in Pax /\ p \notin written /\ pax[p] = "security_queue"
    BY <1>9, <1>13 DEF Departures
  <2>2. p \notin unwritten /\ p \notin left
    BY <1>5
  <2>3. p \in InLanes
    BY <2>1, <2>2 DEF LanesInv, Queuing
  <2> QED BY <1>5, <1>8, <2>1, <2>2, <2>3
<1> QED BY <1>6, <1>11, <1>12, <1>13 DEF Queuing, LanesOK, Departures, CheckpointOfPax

LEMMA LanesRebuilt ==
  ASSUME LanesInv, RestartPassengers
  PROVE  Queuing'
<1> DEFINE queued == WithStatus("security_queue")
<1>1. /\ main_queue' = Requeued(queued \ Assisted) /\ sa_queue' = Requeued(queued \cap Assisted)
      /\ security_enqueued' = queued /\ UNCHANGED pax
  BY DEF RestartPassengers
<1>2. queued \subseteq Departures
  BY DEF LanesInv, StatusOK, WithStatus, ArrivalStatus
<1>3. /\ LanesOK(main_queue', Pax \ Assisted) /\ LanesOK(sa_queue', Assisted)
      /\ Standing(main_queue') = queued \ Assisted /\ Standing(sa_queue') = queued \cap Assisted
  <2>1. queued \ Assisted \in SUBSET (Departures \cap (Pax \ Assisted))
        /\ queued \cap Assisted \in SUBSET (Departures \cap Assisted)
    BY <1>2 DEF Departures
  <2> DEFINE empty == [c \in AnyCheckpoint |-> <<>>]
  <2>2. /\ LanesOK(empty, Pax \ Assisted) /\ LanesOK(empty, Assisted) /\ Standing(empty) = {}
    BY NobodyStands
  <2> HIDE DEF empty, queued
  <2>3. /\ LanesOK(Joined(empty, queued \ Assisted), Pax \ Assisted)
        /\ LanesOK(Joined(empty, queued \cap Assisted), Assisted)
        /\ Standing(Joined(empty, queued \ Assisted)) = {} \cup (queued \ Assisted)
        /\ Standing(Joined(empty, queued \cap Assisted)) = {} \cup (queued \cap Assisted)
    BY <2>1, <2>2, JoinedLanes
  <2>4. main_queue' = Joined(empty, queued \ Assisted) /\ sa_queue' = Joined(empty, queued \cap Assisted)
    BY <1>1 DEF Requeued, empty
  <2> QED BY <2>3, <2>4
<1>4. InLanes' = queued
  BY <1>3 DEF InLanes, Standing
<1> QED BY <1>1, <1>3, <1>4 DEF Queuing, LanesOK, Departures, CheckpointOfPax, WithStatus

LEMMA LanesInitially ==
  ASSUME PassengersInit
  PROVE  LanesInv
<1>1. StatusOK
  BY DEF PassengersInit, NewDay, StatusOK, DepartureStatus, ArrivalStatus
<1>2. /\ main_queue = [c \in AnyCheckpoint |-> <<>>] /\ sa_queue = [c \in AnyCheckpoint |-> <<>>]
      /\ security_enqueued = {}
  BY DEF PassengersInit, ProcessStarts
<1>3. /\ LanesOK(main_queue, Pax \ Assisted) /\ LanesOK(sa_queue, Assisted) /\ InLanes = {}
  BY <1>2, NobodyStands DEF InLanes
<1>4. \A p \in Departures : pax[p] = "booked"
  BY DEF PassengersInit, NewDay, Departures
<1> QED BY <1>1, <1>3, <1>4 DEF LanesInv, Queuing

LEMMA LanesNext ==
  ASSUME LanesInv, [PassengersNext]_paxVars
  PROVE  LanesInv' /\ Forward
<1>1. CASE UNCHANGED paxVars
  <2>1. UNCHANGED <<pax, main_queue, sa_queue, security_enqueued, unwritten>>
    BY <1>1 DEF paxVars, paxMemory, security
  <2>2. OneMoves /\ LanesQuiet
    BY <2>1 DEF LanesInv, StatusOK, OneMoves, LanesQuiet
  <2> QED BY <2>1, <2>2, StatusStays, MovesForward, LanesStand DEF LanesInv
<1>2. CASE PassengersNext
  <2>1. OneMoves
    BY <1>2, PaxMoves
  <2>2. StatusOK' /\ Forward
    BY <2>1, StatusStays, MovesForward
  <2> DEFINE Stands == UNCHANGED <<main_queue, sa_queue, security_enqueued>>
                       /\ unwritten \subseteq unwritten' /\ LanesQuiet
  <2>3. Stands => Queuing'
    BY <2>1, LanesStand
  <2> USE DEF Works, Breaks, security, outside, wheelchair, paxMemory
  <2>4. ASSUME UNCHANGED pax PROVE LanesQuiet
    BY <2>4 DEF LanesQuiet
  <2>5. FlightOutcome \/ BreachesChange \/ BeginTick \/ DispatchChair \/ _wheelchair_tick
        \/ OnBreach => Stands
    BY <2>4 DEF FlightOutcome, BreachesChange, BeginTick, DispatchChair, _wheelchair_tick, OnBreach
  <2>6. ASSUME _warm_start_departures PROVE Stands
    <3>1. UNCHANGED security /\ unwritten \subseteq unwritten'
      BY <2>6 DEF _warm_start_departures
    <3>2. PICK target \in [Leaving -> {"booked", "checked_in", "airside", "at_gate", "boarded"}] :
            pax' = [p \in Pax |-> IF p \in Departures /\ pax[p] = "booked"
                                  THEN target[ON_FLIGHT[p]] ELSE pax[p]]
      BY <2>6 DEF _warm_start_departures
    <3>3. \A p \in Departures : target[ON_FLIGHT[p]] # "security_queue"
      BY DEF Departures
    <3> QED BY <3>1, <3>2, <3>3 DEF LanesQuiet
  <2>7. ASSUME _advance_booked_to_checkin PROVE Stands
    <3>1. UNCHANGED security /\ unwritten \subseteq unwritten'
      BY <2>7 DEF _advance_booked_to_checkin
    <3>2. PICK due : bulk_update_status(due, "checked_in")
      BY <2>7 DEF _advance_booked_to_checkin
    <3> QED BY <3>1, <3>2 DEF LanesQuiet, bulk_update_status
  <2>8. ASSUME _advance_airside_to_gate PROVE Stands
    <3>1. UNCHANGED security /\ unwritten \subseteq unwritten'
      BY <2>8 DEF _advance_airside_to_gate
    <3>2. PICK due : bulk_update_status(due, "at_gate")
      BY <2>8 DEF _advance_airside_to_gate
    <3> QED BY <3>1, <3>2 DEF LanesQuiet, bulk_update_status
  <2>9. ASSUME _advance_boarding PROVE Stands
    <3>1. UNCHANGED security /\ unwritten \subseteq unwritten'
      BY <2>9 DEF _advance_boarding
    <3>2. PICK noshow, boarding : Boards(noshow, boarding)
      BY <2>9 DEF _advance_boarding
    <3> QED BY <3>1, <3>2 DEF LanesQuiet, Boards
  <2>10. ASSUME _advance_arrivals PROVE Stands
    <3>1. UNCHANGED security /\ unwritten \subseteq unwritten'
      BY <2>10 DEF _advance_arrivals
    <3>2. PICK customs \in SUBSET WithStatus("deplaning"), away \in SUBSET WithStatus("baggage_claim") :
          \E claim \in SUBSET ((WithStatus("deplaning") \ customs) \cup WithStatus("customs")) :
            pax' = [p \in Pax |-> CASE p \in customs -> "customs" [] p \in claim -> "baggage_claim"
                                     [] p \in away -> "departed_airport" [] OTHER -> pax[p]]
      BY <2>10 DEF _advance_arrivals
    <3>3. \A p \in Pax : pax'[p] \in {"customs", "baggage_claim", "departed_airport", pax[p]}
      BY <3>2
    <3> QED BY <3>1, <3>3 DEF LanesQuiet
  <2>11. ASSUME _on_flight_status_changed PROVE Stands
    <3>1. UNCHANGED security /\ unwritten \subseteq unwritten'
      BY <2>11 DEF _on_flight_status_changed
    <3>2. PICK group : bulk_update_status(group, "deplaning")
                       \/ bulk_update_status(group, "departed_airport")
      BY <2>11 DEF _on_flight_status_changed
    <3> QED BY <3>1, <3>2 DEF LanesQuiet, bulk_update_status
  <2>12. ASSUME _on_flight_cancelled PROVE Stands
    <3>1. UNCHANGED security /\ unwritten \subseteq unwritten'
      BY <2>12 DEF _on_flight_cancelled
    <3>2. PICK group : bulk_update_status(group, "disrupted")
      BY <2>12 DEF _on_flight_cancelled
    <3> QED BY <3>1, <3>2 DEF LanesQuiet, bulk_update_status
  <2> HIDE DEF Stands
  <2> QED BY <1>2, <2>2, <2>3, <2>5, <2>6, <2>7, <2>8, <2>9, <2>10, <2>11, <2>12, QueuesAtSecurity,
             LanesSynced, LanesDrained, LanesRebuilt DEF PassengersNext, LanesInv
<1> QED BY <1>1, <1>2

(* Nobody goes backwards, whatever is written, announced again or skipped: *)
(* whoever stands in a lane has not been drained since.                    *)
THEOREM JourneyForwardProved == PassengersSpec => JourneyForward
<1>1. PassengersInit => LanesInv
  BY LanesInitially
<1>2. LanesInv /\ [PassengersNext]_paxVars => LanesInv'
  BY LanesNext
<1>3. LanesInv /\ [PassengersNext]_paxVars => Forward
  BY LanesNext
<1>4. Forward => [\A p \in Pax :
       \/ Progress[pax[p]] <= Progress[pax'[p]]
       \/ /\ pax[p] = "disrupted" /\ pax'[p] = "airside"
          /\ Turns(main_queue, p) \cup Turns(sa_queue, p) # {}]_paxVars
  BY DEF Forward
<1> QED BY <1>1, <1>2, <1>3, <1>4, PTL DEF PassengersSpec, JourneyForward
-----------------------------------------------------------------------------
(* What is announced of an incident.                                       *)

Messages == [kind : Kind, incident : Incident, id : Nat]
NewsTypes ==
  /\ node \in [Incident -> {"none"} \cup Kind] /\ log \in [Incident -> Seq(Messages)]
  /\ decided \in [Incident -> [Kind -> Nat]] /\ unsent \in [Incident -> [Kind -> Nat]]

(* Tasks and announcements are those of incidents that exist, and a        *)
(* resolution that still holds is announced, will be, or is lost.          *)
NewsIsTrue(i) ==
  /\ \A k \in Kind : decided[i][k] > 0 \/ unsent[i][k] > 0 \/ Logged(i, k) => node[i] # "none"
  /\ node[i] = "resolved" => unsent[i]["resolved"] > 0 \/ Logged(i, "resolved") \/ i \in lost
NewsInv == NewsTypes /\ \A i \in Incident : NewsIsTrue(i)

(* What is left to hear of an incident for a consumer who is at p.         *)
ToCome(i, p, kind) ==
  unsent[i][kind] > 0 \/ \E q \in 1..Len(log[i]) : q > p /\ log[i][q].kind = kind

(* For a consumer who is at p and takes the incidents of K to be open: one *)
(* that is open and not in K is still to come, or was resolved before; one *)
(* of K that is not open has its resolution to come, or had it early.      *)
Agrees(i, p, K) ==
  /\ p \in Nat /\ p <= Len(log[i])
  /\ i \in Open /\ i \notin K =>
       \/ ToCome(i, p, "active") \/ i \in lost
       \/ unsent[i]["resolved"] > 0 \/ Logged(i, "resolved")
  /\ i \in K =>
       /\ node[i] # "none"
       /\ node[i] = "resolved" => ToCome(i, p, "resolved") \/ Misordered(i) \/ i \in lost

(* What a step of incident-service may do, as such a consumer sees it.     *)
Evolves(i) ==
  /\ Len(log[i]) <= Len(log'[i]) /\ \A q \in 1..Len(log[i]) : log'[i][q] = log[i][q]
  /\ \A k \in Kind : unsent[i][k] > 0 =>
       \/ unsent'[i][k] > 0 \/ i \in lost'
       \/ \E q \in 1..Len(log'[i]) : q > Len(log[i]) /\ log'[i][q].kind = k
  /\ i \in lost => i \in lost'
  /\ i \in Open' =>
       \/ i \in Open \/ i \in lost' \/ unsent'[i]["active"] > 0
       \/ unsent'[i]["resolved"] > 0 \/ Logged(i, "resolved")'
  /\ node[i] # "none" => node'[i] # "none"
  /\ node'[i] = "resolved" => node[i] = "resolved" \/ unsent'[i]["resolved"] > 0

LEMMA LogAppended ==
  ASSUME NEW s \in Seq(Messages), NEW m \in Messages
  PROVE  /\ Append(s, m) \in Seq(Messages) /\ Len(Append(s, m)) = Len(s) + 1 /\ Len(s) \in Nat
         /\ \A q \in 1..Len(s) : Append(s, m)[q] = s[q]
         /\ Append(s, m)[Len(s) + 1] = m
         /\ \A q \in 1..Len(Append(s, m)) : q \in 1..Len(s) \/ q = Len(s) + 1
OBVIOUS

(* One count of one incident changes. *)
LEMMA OneCount ==
  ASSUME NEW f \in [Incident -> [Kind -> Nat]], NEW i \in Incident, NEW k \in Kind, NEW c \in Nat,
         NEW g, g = [f EXCEPT ![i][k] = c]
  PROVE  /\ g \in [Incident -> [Kind -> Nat]] /\ g[i][k] = c
         /\ \A l \in Kind : l # k => g[i][l] = f[i][l]
         /\ \A j \in Incident : j # i => g[j] = f[j]
<1>1. g = [f EXCEPT ![i] = [f[i] EXCEPT ![k] = c]]
  OBVIOUS
<1>2. f[i] \in [Kind -> Nat]
  OBVIOUS
<1> DEFINE h == [f[i] EXCEPT ![k] = c]
<1>3. h \in [Kind -> Nat] /\ h[k] = c /\ \A l \in Kind : l # k => h[l] = f[i][l]
  BY <1>2
<1>4. g = [f EXCEPT ![i] = h]
  BY <1>1
<1> HIDE DEF h
<1> QED BY <1>3, <1>4

LEMMA LoggedAt ==
  ASSUME NewsTypes, NEW i \in Incident
  PROVE  /\ DOMAIN log[i] = 1..Len(log[i]) /\ Len(log[i]) \in Nat
         /\ \A k : Logged(i, k) <=> \E q \in 1..Len(log[i]) : log[i][q].kind = k
<1>1. log[i] \in Seq(Messages)
  BY DEF NewsTypes
<1> QED BY <1>1 DEF Logged

(* What is not touched of an incident. *)
LEMMA IncidentStays ==
  ASSUME NewsTypes, NEW i \in Incident, NewsIsTrue(i), node'[i] = node[i], log'[i] = log[i],
         unsent'[i] = unsent[i], i \in lost => i \in lost',
         \A k \in Kind : decided'[i][k] > 0 => decided[i][k] > 0 \/ node[i] # "none"
  PROVE  NewsIsTrue(i)' /\ Evolves(i)
<1>1. \A k : Logged(i, k)' <=> Logged(i, k)
  BY DEF Logged
<1>2. i \in Open' <=> i \in Open
  BY DEF Open
<1>3. NewsIsTrue(i)'
  BY <1>1 DEF NewsIsTrue
<1>4. Len(log[i]) <= Len(log'[i])
  BY LoggedAt
<1> QED BY <1>1, <1>2, <1>3, <1>4 DEF Evolves

LEMMA NewsCreated ==
  ASSUME NewsInv, NEW i \in Incident, CreateIncident(i)
  PROVE  NewsInv' /\ \A j \in Incident : Evolves(j)
<1>1. /\ node[i] = "none" /\ node' = [node EXCEPT ![i] = "active"]
      /\ unsent' = [unsent EXCEPT ![i]["active"] = unsent[i]["active"] + 1]
      /\ UNCHANGED <<decided, log, lost>>
  BY DEF CreateIncident
<1>2. NewsTypes /\ \A j \in Incident : NewsIsTrue(j)
  BY DEF NewsInv
<1>3. "active" \in Kind /\ unsent \in [Incident -> [Kind -> Nat]] /\ unsent[i]["active"] + 1 \in Nat
      /\ unsent[i]["active"] \in Nat
  BY <1>2 DEF NewsTypes, Kind
<1>4. /\ unsent' \in [Incident -> [Kind -> Nat]] /\ unsent'[i]["active"] = unsent[i]["active"] + 1
      /\ \A k \in Kind : k # "active" => unsent'[i][k] = unsent[i][k]
      /\ \A j \in Incident : j # i => unsent'[j] = unsent[j]
  BY <1>1, <1>3, OneCount
<1>5. node' \in [Incident -> {"none"} \cup Kind] /\ node'[i] = "active"
      /\ \A j \in Incident : j # i => node'[j] = node[j]
  BY <1>1, <1>2 DEF NewsTypes, Kind
<1>6. NewsTypes'
  BY <1>1, <1>2, <1>4, <1>5 DEF NewsTypes
<1>7. ASSUME NEW j \in Incident, j # i PROVE NewsIsTrue(j)' /\ Evolves(j)
  BY <1>1, <1>2, <1>4, <1>5, <1>7, IncidentStays
<1>8. NewsIsTrue(i)'
  BY <1>5 DEF NewsIsTrue
<1>9. Evolves(i)
  <2>1. unsent'[i]["active"] > 0 /\ \A k \in Kind : unsent[i][k] > 0 => unsent'[i][k] > 0
    BY <1>3, <1>4
  <2>2. Len(log[i]) <= Len(log'[i])
    BY <1>1, <1>2, LoggedAt
  <2> QED BY <1>1, <1>5, <2>1, <2>2 DEF Evolves
<1> QED BY <1>6, <1>7, <1>8, <1>9 DEF NewsInv

LEMMA NewsRead ==
  ASSUME NewsInv, NEW i \in Incident, NEW new \in Kind, ReadStatus(i, new)
  PROVE  NewsInv' /\ \A j \in Incident : Evolves(j)
<1>1. /\ new \in Transitions[node[i]]
      /\ decided' = [decided EXCEPT ![i][new] = decided[i][new] + 1]
      /\ UNCHANGED <<node, unsent, log, lost>>
  BY DEF ReadStatus
<1>2. NewsTypes /\ \A j \in Incident : NewsIsTrue(j)
  BY DEF NewsInv
<1>3. decided \in [Incident -> [Kind -> Nat]] /\ decided[i][new] + 1 \in Nat
  BY <1>2 DEF NewsTypes
<1>4. /\ decided' \in [Incident -> [Kind -> Nat]]
      /\ \A j \in Incident : j # i => decided'[j] = decided[j]
  BY <1>1, <1>3, OneCount
<1>5. NewsTypes'
  BY <1>1, <1>2, <1>4 DEF NewsTypes
<1>6. node[i] # "none"
  BY <1>1 DEF Transitions
<1>7. ASSUME NEW j \in Incident PROVE NewsIsTrue(j)' /\ Evolves(j)
  BY <1>1, <1>2, <1>4, <1>6, IncidentStays
<1> QED BY <1>5, <1>7 DEF NewsInv

LEMMA NewsChanged ==
  ASSUME NewsInv, NEW i \in Incident, NEW new \in {"contained", "resolved"}, ChangeStatus(i, new)
  PROVE  NewsInv' /\ \A j \in Incident : Evolves(j)
<1>1. /\ decided[i][new] > 0 /\ decided' = [decided EXCEPT ![i][new] = decided[i][new] - 1]
      /\ node' = [node EXCEPT ![i] = new]
      /\ unsent' = [unsent EXCEPT ![i][new] = unsent[i][new] + 1]
      /\ UNCHANGED <<log, lost>>
  BY DEF ChangeStatus
<1>2. NewsTypes /\ \A j \in Incident : NewsIsTrue(j)
  BY DEF NewsInv
<1>3. /\ new \in Kind /\ decided \in [Incident -> [Kind -> Nat]] /\ unsent \in [Incident -> [Kind -> Nat]]
      /\ unsent[i][new] + 1 \in Nat /\ decided[i][new] - 1 \in Nat /\ unsent[i][new] \in Nat
      /\ node \in [Incident -> {"none"} \cup Kind]
  <2>1. new \in Kind /\ decided \in [Incident -> [Kind -> Nat]] /\ unsent \in [Incident -> [Kind -> Nat]]
    BY <1>2 DEF NewsTypes, Kind
  <2>2. decided[i][new] \in Nat /\ unsent[i][new] \in Nat
    BY <2>1
  <2> QED BY <1>1, <1>2, <2>1, <2>2 DEF NewsTypes
<1>4. /\ decided' \in [Incident -> [Kind -> Nat]]
      /\ \A j \in Incident : j # i => decided'[j] = decided[j]
  BY <1>1, <1>3, OneCount
<1>5. /\ unsent' \in [Incident -> [Kind -> Nat]] /\ unsent'[i][new] = unsent[i][new] + 1
      /\ \A k \in Kind : k # new => unsent'[i][k] = unsent[i][k]
      /\ \A j \in Incident : j # i => unsent'[j] = unsent[j]
  BY <1>1, <1>3, OneCount
<1>6. node'[i] = new /\ \A j \in Incident : j # i => node'[j] = node[j]
  BY <1>1, <1>3
<1>7. NewsTypes'
  BY <1>1, <1>2, <1>3, <1>4, <1>5 DEF NewsTypes
<1>8. ASSUME NEW j \in Incident, j # i PROVE NewsIsTrue(j)' /\ Evolves(j)
  BY <1>1, <1>2, <1>4, <1>5, <1>6, <1>8, IncidentStays
<1>9. \A k : Logged(i, k)' <=> Logged(i, k)
  BY <1>1 DEF Logged
<1>10. \A k \in Kind : unsent[i][k] > 0 => unsent'[i][k] > 0
  BY <1>3, <1>5
<1>11. unsent'[i][new] > 0 /\ node[i] # "none"
  <2>1. node[i] # "none"
    BY <1>1, <1>2, <1>3 DEF NewsIsTrue
  <2> QED BY <1>3, <1>5, <2>1
<1>12. NewsIsTrue(i)'
  BY <1>6, <1>11 DEF NewsIsTrue
<1>13. Evolves(i)
  <2>1. Len(log[i]) <= Len(log'[i])
    BY <1>1, <1>2, LoggedAt
  <2>2. node'[i] # "none" /\ (node'[i] = "resolved" => unsent'[i]["resolved"] > 0)
    BY <1>6, <1>11
  <2>3. ASSUME i \in Open', i \notin Open
        PROVE  unsent'[i]["resolved"] > 0 \/ Logged(i, "resolved")' \/ i \in lost'
    <3>1. node[i] = "resolved"
      BY <1>3, <1>11, <2>3 DEF Open, Kind
    <3>2. unsent[i]["resolved"] > 0 \/ Logged(i, "resolved") \/ i \in lost
      BY <1>2, <3>1 DEF NewsIsTrue
    <3> QED BY <1>1, <1>9, <1>10, <3>2 DEF Kind
  <2> QED BY <1>1, <1>10, <2>1, <2>2, <2>3 DEF Evolves
<1> QED BY <1>7, <1>8, <1>12, <1>13 DEF NewsInv

LEMMA NewsLost ==
  ASSUME NewsInv, NEW i \in Incident, NEW kind \in Kind, Lose(i, kind)
  PROVE  NewsInv' /\ \A j \in Incident : Evolves(j)
<1>1. /\ unsent[i][kind] > 0 /\ unsent' = [unsent EXCEPT ![i][kind] = unsent[i][kind] - 1]
      /\ lost' = lost \cup {i} /\ UNCHANGED <<node, decided, log>>
  BY DEF Lose
<1>2. NewsTypes /\ \A j \in Incident : NewsIsTrue(j)
  BY DEF NewsInv
<1>3. unsent \in [Incident -> [Kind -> Nat]] /\ unsent[i][kind] - 1 \in Nat
  <2>1. unsent \in [Incident -> [Kind -> Nat]]
    BY <1>2 DEF NewsTypes
  <2>2. unsent[i][kind] \in Nat
    BY <2>1
  <2> QED BY <1>1, <2>1, <2>2
<1>4. /\ unsent' \in [Incident -> [Kind -> Nat]] /\ unsent'[i][kind] = unsent[i][kind] - 1
      /\ \A k \in Kind : k # kind => unsent'[i][k] = unsent[i][k]
      /\ \A j \in Incident : j # i => unsent'[j] = unsent[j]
  BY <1>1, <1>3, OneCount
<1>5. NewsTypes'
  BY <1>1, <1>2, <1>4 DEF NewsTypes
<1>6. ASSUME NEW j \in Incident, j # i PROVE NewsIsTrue(j)' /\ Evolves(j)
  BY <1>1, <1>2, <1>4, <1>6, IncidentStays
<1>7. i \in lost' /\ node[i] # "none" /\ Len(log[i]) <= Len(log'[i])
  BY <1>1, <1>2, LoggedAt DEF NewsIsTrue
<1>8. NewsIsTrue(i)'
  BY <1>1, <1>7 DEF NewsIsTrue
<1>9. Evolves(i)
  BY <1>1, <1>7 DEF Evolves
<1> QED BY <1>5, <1>6, <1>8, <1>9 DEF NewsInv

LEMMA NewsAnnounced ==
  ASSUME NewsInv, NEW i \in Incident, NEW kind \in Kind, Announce(i, kind)
  PROVE  NewsInv' /\ \A j \in Incident : Evolves(j)
<1> DEFINE m == [kind |-> kind, incident |-> i, id |-> Len(log[i]) + 1]
<1>1. /\ unsent[i][kind] > 0 /\ unsent' = [unsent EXCEPT ![i][kind] = unsent[i][kind] - 1]
      /\ log' = [log EXCEPT ![i] = Append(log[i], m)] /\ UNCHANGED <<node, decided, lost>>
  BY DEF Announce
<1>2. NewsTypes /\ \A j \in Incident : NewsIsTrue(j)
  BY DEF NewsInv
<1>3. log[i] \in Seq(Messages) /\ log \in [Incident -> Seq(Messages)]
  BY <1>2 DEF NewsTypes
<1>4. m \in Messages /\ m.kind = kind
  BY <1>3 DEF Messages
<1> HIDE DEF m
<1>5. /\ Append(log[i], m) \in Seq(Messages) /\ Len(Append(log[i], m)) = Len(log[i]) + 1
      /\ Len(log[i]) \in Nat /\ \A q \in 1..Len(log[i]) : Append(log[i], m)[q] = log[i][q]
      /\ Append(log[i], m)[Len(log[i]) + 1] = m
  BY <1>3, <1>4, LogAppended
<1>6. log' \in [Incident -> Seq(Messages)] /\ log'[i] = Append(log[i], m)
      /\ \A j \in Incident : j # i => log'[j] = log[j]
  BY <1>1, <1>3, <1>5
<1>7. unsent \in [Incident -> [Kind -> Nat]] /\ unsent[i][kind] - 1 \in Nat
  <2>1. unsent \in [Incident -> [Kind -> Nat]]
    BY <1>2 DEF NewsTypes
  <2>2. unsent[i][kind] \in Nat
    BY <2>1
  <2> QED BY <1>1, <2>1, <2>2
<1>8. /\ unsent' \in [Incident -> [Kind -> Nat]] /\ unsent'[i][kind] = unsent[i][kind] - 1
      /\ \A k \in Kind : k # kind => unsent'[i][k] = unsent[i][k]
      /\ \A j \in Incident : j # i => unsent'[j] = unsent[j]
  BY <1>1, <1>7, OneCount
<1>9. NewsTypes'
  BY <1>1, <1>2, <1>6, <1>8 DEF NewsTypes
<1>10. ASSUME NEW j \in Incident, j # i PROVE NewsIsTrue(j)' /\ Evolves(j)
  BY <1>1, <1>2, <1>6, <1>8, <1>10, IncidentStays
<1>11. node[i] # "none"
  BY <1>1, <1>2 DEF NewsIsTrue
<1>12. /\ Len(log'[i]) = Len(log[i]) + 1 /\ \A q \in 1..Len(log[i]) : log'[i][q] = log[i][q]
       /\ Len(log[i]) + 1 \in 1..Len(log'[i]) /\ log'[i][Len(log[i]) + 1].kind = kind
  BY <1>4, <1>5, <1>6
<1>13. NewsIsTrue(i)'
  <2>0. DOMAIN log'[i] = 1..Len(log'[i]) /\ DOMAIN log[i] = 1..Len(log[i])
    BY <1>3, <1>5, <1>6
  <2>1. ASSUME node[i] = "resolved"
        PROVE  unsent'[i]["resolved"] > 0 \/ Logged(i, "resolved")' \/ i \in lost'
    <3>1. CASE kind = "resolved"
      <4>1. \E q \in 1..Len(log'[i]) : log'[i][q].kind = "resolved"
        BY <1>12, <3>1
      <4> QED BY <2>0, <4>1 DEF Logged
    <3>2. CASE kind # "resolved"
      <4>1. unsent'[i]["resolved"] = unsent[i]["resolved"]
        BY <1>8, <3>2 DEF Kind
      <4>2. Logged(i, "resolved") => Logged(i, "resolved")'
        <5>1. SUFFICES ASSUME NEW q \in 1..Len(log[i]), log[i][q].kind = "resolved"
                       PROVE  \E r \in 1..Len(log'[i]) : log'[i][r].kind = "resolved"
          BY <2>0 DEF Logged
        <5>2. q \in 1..Len(log'[i]) /\ log'[i][q].kind = "resolved"
          BY <1>5, <1>12, <5>1
        <5> QED BY <5>2
      <4> QED BY <1>1, <1>2, <2>1, <4>1, <4>2 DEF NewsIsTrue
    <3> QED BY <3>1, <3>2
  <2> QED BY <1>1, <1>11, <2>1 DEF NewsIsTrue
<1>14. Evolves(i)
  <2>1. \E q \in 1..Len(log'[i]) : q > Len(log[i]) /\ log'[i][q].kind = kind
    BY <1>5, <1>12
  <2>2. Len(log[i]) <= Len(log'[i])
    BY <1>5, <1>12
  <2>3. Open' = Open
    BY <1>1 DEF Open
  <2> QED BY <1>1, <1>8, <1>11, <1>12, <2>1, <2>2, <2>3 DEF Evolves
<1> QED BY <1>9, <1>10, <1>13, <1>14 DEF NewsInv

LEMMA NewsSteps ==
  ASSUME NewsInv, NewsNext \/ UNCHANGED newsVars
  PROVE  NewsInv' /\ \A i \in Incident : Evolves(i)
<1>1. CASE NewsNext
  <2>1. PICK i \in Incident :
          \/ CreateIncident(i)
          \/ \E new \in {"contained", "resolved"} : ReadStatus(i, new) \/ ChangeStatus(i, new)
          \/ \E kind \in Kind : Announce(i, kind) \/ Lose(i, kind)
    BY <1>1 DEF NewsNext
  <2>2. "contained" \in Kind /\ "resolved" \in Kind
    BY DEF Kind
  <2> QED BY <2>1, <2>2, NewsCreated, NewsRead, NewsChanged, NewsAnnounced, NewsLost
<1>2. CASE UNCHANGED newsVars
  <2>1. UNCHANGED <<node, decided, unsent, log, lost>>
    BY <1>2 DEF newsVars
  <2>2. NewsTypes'
    BY <2>1 DEF NewsInv, NewsTypes
  <2>3. ASSUME NEW i \in Incident PROVE NewsIsTrue(i)' /\ Evolves(i)
    BY <2>1, IncidentStays DEF NewsInv
  <2> QED BY <2>2, <2>3 DEF NewsInv
<1> QED BY <1>1, <1>2

LEMMA NewsStarts ==
  ASSUME NewsInit
  PROVE  NewsInv /\ \A i \in Incident : Agrees(i, 0, {})
<1>1. /\ node = [i \in Incident |-> "none"] /\ log = [i \in Incident |-> <<>>] /\ lost = {}
      /\ decided = [i \in Incident |-> [k \in Kind |-> 0]]
      /\ unsent = [i \in Incident |-> [k \in Kind |-> 0]]
  BY DEF NewsInit, NoTask
<1>2. decided \in [Incident -> [Kind -> Nat]] /\ unsent \in [Incident -> [Kind -> Nat]]
  BY <1>1
<1>3. node \in [Incident -> {"none"} \cup Kind] /\ log \in [Incident -> Seq(Messages)]
  <2>1. <<>> \in Seq(Messages)
    OBVIOUS
  <2> QED BY <1>1, <2>1
<1>4. NewsTypes
  BY <1>2, <1>3 DEF NewsTypes
<1>5. \A i \in Incident : node[i] = "none" /\ Len(log[i]) = 0
                          /\ \A k \in Kind : decided[i][k] = 0 /\ unsent[i][k] = 0
  BY <1>1
<1>6. ASSUME NEW i \in Incident PROVE NewsIsTrue(i) /\ Agrees(i, 0, {})
  <2>1. \A k : ~Logged(i, k)
    BY <1>4, <1>5, LoggedAt
  <2>2. i \notin Open
    BY <1>5 DEF Open
  <2> QED BY <1>5, <2>1, <2>2 DEF NewsIsTrue, Agrees
<1> QED BY <1>4, <1>6 DEF NewsInv

(* Who heard what was said so far still agrees.                            *)
LEMMA StillAgrees ==
  ASSUME NewsInv, NewsNext \/ UNCHANGED newsVars, NEW i \in Incident, NEW p, NEW K, Agrees(i, p, K)
  PROVE  Agrees(i, p, K)'
<1>1. NewsInv' /\ Evolves(i)
  BY NewsSteps
<1>2. /\ NewsTypes /\ NewsTypes'
      /\ Len(log[i]) <= Len(log'[i]) /\ \A q \in 1..Len(log[i]) : log'[i][q] = log[i][q]
      /\ i \in lost => i \in lost'
      /\ node[i] # "none" => node'[i] # "none"
      /\ node'[i] = "resolved" => node[i] = "resolved" \/ unsent'[i]["resolved"] > 0
  BY <1>1 DEF NewsInv, Evolves
<1>3. Len(log[i]) \in Nat /\ Len(log'[i]) \in Nat /\ DOMAIN log[i] = 1..Len(log[i])
      /\ DOMAIN log'[i] = 1..Len(log'[i])
  <2>1. log[i] \in Seq(Messages) /\ log'[i] \in Seq(Messages)
    BY <1>2 DEF NewsTypes
  <2> QED BY <2>1
<1>4. p \in Nat /\ p <= Len(log[i]) /\ p <= Len(log'[i])
  <2>1. p \in Nat /\ p <= Len(log[i])
    BY DEF Agrees
  <2> QED BY <1>2, <1>3, <2>1
<1>5. \A q \in 1..Len(log[i]) : q \in 1..Len(log'[i]) /\ log'[i][q] = log[i][q]
  BY <1>2, <1>3
<1>6. ASSUME NEW k \in Kind, unsent[i][k] > 0
      PROVE  \/ unsent'[i][k] > 0 \/ i \in lost'
             \/ \E q \in 1..Len(log'[i]) : q > Len(log[i]) /\ log'[i][q].kind = k
  BY <1>1, <1>6 DEF Evolves
<1>7. ASSUME NEW k \in Kind, ToCome(i, p, k) PROVE ToCome(i, p, k)' \/ i \in lost'
  <2>1. CASE unsent[i][k] > 0
    <3>1. ASSUME NEW q \in 1..Len(log'[i]), q > Len(log[i]) PROVE q > p
      BY <1>3, <1>4, <3>1
    <3> QED BY <1>6, <2>1, <3>1 DEF ToCome
  <2>2. CASE \E q \in 1..Len(log[i]) : q > p /\ log[i][q].kind = k
    BY <1>5, <2>2 DEF ToCome
  <2> QED BY <1>7, <2>1, <2>2 DEF ToCome
<1>8. Misordered(i) => Misordered(i)'
  BY <1>3, <1>5 DEF Misordered
<1>9. Logged(i, "resolved") => Logged(i, "resolved")'
  BY <1>3, <1>5 DEF Logged
<1>10. ASSUME i \in Open', i \notin K
       PROVE  \/ ToCome(i, p, "active")' \/ i \in lost'
              \/ unsent'[i]["resolved"] > 0 \/ Logged(i, "resolved")'
  <2>1. "active" \in Kind /\ "resolved" \in Kind
    BY DEF Kind
  <2>2. CASE i \in Open
    <3>1. \/ ToCome(i, p, "active") \/ i \in lost
          \/ unsent[i]["resolved"] > 0 \/ Logged(i, "resolved")
      BY <1>10, <2>2 DEF Agrees
    <3>2. unsent[i]["resolved"] > 0 => unsent'[i]["resolved"] > 0 \/ i \in lost' \/ Logged(i, "resolved")'
      BY <1>3, <1>6, <2>1 DEF Logged
    <3> QED BY <1>2, <1>7, <1>9, <2>1, <3>1, <3>2
  <2>3. CASE i \notin Open
    <3>1. \/ i \in lost' \/ unsent'[i]["active"] > 0
          \/ unsent'[i]["resolved"] > 0 \/ Logged(i, "resolved")'
      BY <1>1, <1>10, <2>3 DEF Evolves
    <3> QED BY <3>1 DEF ToCome
  <2> QED BY <2>2, <2>3
<1>11. ASSUME i \in K
       PROVE  /\ node'[i] # "none"
              /\ node'[i] = "resolved" => ToCome(i, p, "resolved")' \/ Misordered(i)' \/ i \in lost'
  <2>1. node[i] # "none" /\ (node[i] = "resolved" => ToCome(i, p, "resolved") \/ Misordered(i) \/ i \in lost)
    BY <1>11 DEF Agrees
  <2>2. unsent'[i]["resolved"] > 0 => ToCome(i, p, "resolved")'
    BY DEF ToCome
  <2> QED BY <1>2, <1>7, <1>8, <2>1, <2>2 DEF Kind
<1> QED BY <1>4, <1>10, <1>11 DEF Agrees

(* The next announcement is heard.                                         *)
LEMMA HeardAgrees ==
  ASSUME NewsInv, NEW i \in Incident, NEW p, NEW K, Agrees(i, p, K), p < Len(log[i]), NEW L,
         log[i][p + 1].kind = "active" => L = K \cup {i},
         log[i][p + 1].kind = "resolved" => L = K \ {i},
         log[i][p + 1].kind = "contained" => L = K
  PROVE  Agrees(i, p + 1, L)
<1>1. NewsTypes /\ NewsIsTrue(i) /\ p \in Nat
  BY DEF NewsInv, Agrees
<1>2. DOMAIN log[i] = 1..Len(log[i]) /\ Len(log[i]) \in Nat /\ p + 1 \in 1..Len(log[i])
  BY <1>1, LoggedAt
<1>3. \A q \in 1..Len(log[i]) : q > p => q > p + 1 \/ q = p + 1
  BY <1>1, <1>2
<1>4. \A k \in Kind : ToCome(i, p, k) => ToCome(i, p + 1, k) \/ log[i][p + 1].kind = k
  BY <1>3 DEF ToCome
<1>5. p + 1 \in Nat /\ p + 1 <= Len(log[i])
  BY <1>1, <1>2
<1>6. CASE log[i][p + 1].kind = "active"
  <2>1. i \in L /\ Logged(i, "active") /\ node[i] # "none"
    BY <1>1, <1>2, <1>6 DEF Logged, NewsIsTrue, Kind
  <2>2. ASSUME node[i] = "resolved"
        PROVE  ToCome(i, p + 1, "resolved") \/ Misordered(i) \/ i \in lost
    <3>1. unsent[i]["resolved"] > 0 \/ Logged(i, "resolved") \/ i \in lost
      BY <1>1, <2>2 DEF NewsIsTrue
    <3>2. ASSUME NEW q \in 1..Len(log[i]), log[i][q].kind = "resolved"
          PROVE  ToCome(i, p + 1, "resolved") \/ Misordered(i)
      <4>1. q # p + 1
        BY <1>6, <3>2
      <4>2. q < p + 1 \/ q > p + 1
        BY <1>2, <4>1
      <4>3. CASE q < p + 1
        BY <1>2, <1>6, <3>2, <4>3 DEF Misordered
      <4>4. CASE q > p + 1
        BY <3>2, <4>4 DEF ToCome
      <4> QED BY <4>2, <4>3, <4>4
    <3> QED BY <1>1, <3>1, <3>2, LoggedAt DEF ToCome
  <2> QED BY <1>5, <2>1, <2>2 DEF Agrees
<1>7. CASE log[i][p + 1].kind = "resolved"
  <2>1. i \notin L /\ Logged(i, "resolved")
    BY <1>2, <1>7 DEF Logged
  <2> QED BY <1>5, <2>1 DEF Agrees
<1>8. CASE log[i][p + 1].kind = "contained"
  <2>1. L = K
    BY <1>8
  <2>2. \A k \in {"active", "resolved"} : ToCome(i, p, k) => ToCome(i, p + 1, k)
    BY <1>4, <1>8 DEF Kind
  <2> QED BY <1>5, <2>1, <2>2 DEF Agrees
<1>9. log[i][p + 1].kind \in Kind
  <2>1. log[i] \in Seq(Messages) /\ p + 1 \in DOMAIN log[i]
    BY <1>1, <1>2 DEF NewsTypes
  <2>2. log[i][p + 1] \in Messages
    BY <2>1
  <2> QED BY <2>2 DEF Messages
<1> QED BY <1>6, <1>7, <1>8, <1>9 DEF Kind

(* What is known after a restart is the open incidents, wherever the       *)
(* consumer goes on.                                                       *)
LEMMA RestartAgrees ==
  ASSUME NEW i \in Incident, NEW p \in Nat, p <= Len(log[i])
  PROVE  Agrees(i, p, Open)
BY DEF Agrees, Open

(* Once all of an incident is told and heard it is known if it is open.    *)
LEMMA KnownIsOpen ==
  ASSUME NewsInv, NEW i \in Incident, NEW position, NEW K, Agrees(i, position[i], K), Settled(i, position)
  PROVE  i \in K <=> i \in Open
<1>1. \A k \in Kind : unsent[i][k] = 0
  BY DEF Settled, NoTask
<1>2. \A k \in Kind : ~ToCome(i, position[i], k)
  <2>1. Len(log[i]) \in Nat /\ position[i] = Len(log[i])
    BY LoggedAt DEF NewsInv, Settled
  <2> QED BY <1>1, <2>1 DEF ToCome
<1>3. i \notin lost /\ ~Misordered(i) /\ (i \in Open => ~Logged(i, "resolved"))
  BY DEF Settled, Revived
<1>4. i \in Open => i \in K
  BY <1>1, <1>2, <1>3 DEF Agrees, Kind
<1>5. i \in K => node[i] \in {"active", "contained"}
  <2>1. node[i] \in {"none"} \cup Kind
    BY DEF NewsInv, NewsTypes
  <2> QED BY <1>2, <1>3, <2>1 DEF Agrees, Kind
<1> QED BY <1>4, <1>5 DEF Open
-----------------------------------------------------------------------------
(* The breaches and the checkpoints they freeze.                           *)

BreachInv ==
  /\ NewsInv /\ heard \in [Leaving \cup Landing \cup Incident -> Nat]
  /\ security_breaches \subseteq Incident /\ frozen = {BreachAt[b] : b \in security_breaches}
  /\ \A b \in Incident : Agrees(b, heard[b], security_breaches)

LEMMA BreachesInitially ==
  ASSUME PassengersInit
  PROVE  BreachInv
<1>1. /\ NewsInit /\ heard = [k \in Leaving \cup Landing \cup Incident |-> 0]
      /\ security_breaches = {} /\ frozen = {}
  BY DEF PassengersInit, ProcessStarts
<1>2. NewsInv /\ \A b \in Incident : Agrees(b, 0, {})
  BY <1>1, NewsStarts
<1>3. \A b \in Incident : Agrees(b, heard[b], security_breaches)
  BY <1>1, <1>2
<1> QED BY <1>1, <1>2, <1>3 DEF BreachInv

(* Only incident-service goes on, or nothing of the breaches is touched.   *)
LEMMA BreachesStand ==
  ASSUME BreachInv, NewsNext \/ UNCHANGED newsVars, UNCHANGED <<security_breaches, frozen>>,
         heard' \in [Leaving \cup Landing \cup Incident -> Nat],
         \A b \in Incident : heard'[b] = heard[b]
  PROVE  BreachInv'
<1>1. NewsInv'
  BY NewsSteps DEF BreachInv
<1>2. ASSUME NEW b \in Incident PROVE Agrees(b, heard[b], security_breaches)'
  <2>1. NewsInv /\ Agrees(b, heard[b], security_breaches)
    BY DEF BreachInv
  <2>2. \A p, K : Agrees(b, p, K) => Agrees(b, p, K)'
    BY <2>1, StillAgrees
  <2> QED BY <2>1, <2>2 DEF Agrees, ToCome
<1> QED BY <1>1, <1>2 DEF BreachInv

LEMMA BreachesNext ==
  ASSUME BreachInv, [PassengersNext]_paxVars
  PROVE  BreachInv'
<1> DEFINE Key == Leaving \cup Landing \cup Incident
<1>0. /\ heard \in [Key -> Nat] /\ NewsInv /\ security_breaches \subseteq Incident
      /\ frozen = {BreachAt[b] : b \in security_breaches}
      /\ \A b \in Incident : b \in Key /\ b \notin Leaving \cup Landing
                             /\ Agrees(b, heard[b], security_breaches)
  BY PassengerAssumption DEF BreachInv
<1>1. UNCHANGED paxVars \/ FlightOutcome \/ _warm_start_departures \/ BeginTick
      \/ _advance_booked_to_checkin
      \/ DispatchChair \/ _wheelchair_tick \/ _advance_checkin_to_security
      \/ _sync_security_from_db \/ _drain_security_queues \/ _advance_airside_to_gate
      \/ _advance_boarding \/ _advance_arrivals
      => UNCHANGED <<newsVars, heard, security_breaches, frozen>>
  BY DEF FlightOutcome, _warm_start_departures, BeginTick, _advance_booked_to_checkin,
         DispatchChair, _wheelchair_tick, _advance_checkin_to_security, _sync_security_from_db,
         _drain_security_queues, _advance_airside_to_gate, _advance_boarding, _advance_arrivals,
         paxVars, paxMemory, outside, security, enqueue
<1>2. UNCHANGED <<newsVars, heard, security_breaches, frozen>> => BreachInv'
  BY <1>0, BreachesStand
<1>3. ASSUME BreachesChange PROVE BreachInv'
  <2>1. NewsNext /\ UNCHANGED <<heard, security_breaches, frozen>>
    BY <1>3 DEF BreachesChange, paxMemory, security
  <2> QED BY <1>0, <2>1, BreachesStand
<1>4. ASSUME _on_flight_status_changed \/ _on_flight_cancelled PROVE BreachInv'
  <2>1. UNCHANGED <<newsVars, security_breaches, frozen>>
    BY <1>4 DEF _on_flight_status_changed, _on_flight_cancelled, outside, security
  <2>2. PICK f \in Leaving \cup Landing : heard' = [heard EXCEPT ![f] = @ + 1]
    BY <1>4 DEF _on_flight_status_changed, _on_flight_cancelled, Hears
  <2>3. heard' \in [Key -> Nat] /\ \A b \in Incident : heard'[b] = heard[b]
    BY <1>0, <2>2
  <2> QED BY <2>1, <2>3, BreachesStand
<1>5. ASSUME OnBreach PROVE BreachInv'
  <2>1. PICK x \in Incident :
          /\ heard[x] < Len(log[x]) /\ heard' = [heard EXCEPT ![x] = @ + 1]
          /\ IF log[x][heard'[x]].kind = "active" THEN _on_incident_created(x)
             ELSE _on_incident_status_changed(x, log[x][heard'[x]].kind)
          /\ UNCHANGED newsVars
    BY <1>5 DEF OnBreach, outside
  <2>2. /\ heard' \in [Key -> Nat] /\ heard'[x] = heard[x] + 1
        /\ \A b \in Incident : b # x => heard'[b] = heard[b]
    BY <1>0, <2>1
  <2> DEFINE kind == log[x][heard[x] + 1].kind
  <2>3. IF kind = "active" THEN _on_incident_created(x) ELSE _on_incident_status_changed(x, kind)
    BY <2>1, <2>2
  <2>4. /\ kind = "active" => security_breaches' = security_breaches \cup {x}
        /\ kind = "resolved" => security_breaches' = security_breaches \ {x}
        /\ kind = "contained" => security_breaches' = security_breaches
        /\ \A b \in Incident : b # x => (b \in security_breaches' <=> b \in security_breaches)
    BY <2>3 DEF _on_incident_created, _on_incident_status_changed
  <2>5. security_breaches' \subseteq Incident /\ frozen' = {BreachAt[b] : b \in security_breaches'}
    <3>1. CASE kind = "active"
      BY <1>0, <2>3, <3>1 DEF _on_incident_created
    <3>2. CASE kind # "active"
      BY <1>0, <2>3, <3>2 DEF _on_incident_status_changed, Thawed
    <3> QED BY <3>1, <3>2
  <2>6. Agrees(x, heard[x] + 1, security_breaches')
    <3> HIDE DEF kind
    <3>1. \A L : /\ kind = "active" => L = security_breaches \cup {x}
                 /\ kind = "resolved" => L = security_breaches \ {x}
                 /\ kind = "contained" => L = security_breaches
                 => Agrees(x, heard[x] + 1, L)
      BY <1>0, <2>1, HeardAgrees DEF kind
    <3> QED BY <2>4, <3>1
  <2>7. UNCHANGED <<node, unsent, log, lost>>
    BY <2>1 DEF newsVars
  <2>8. NewsInv'
    BY <1>0, <2>1, NewsSteps
  <2>9. ASSUME NEW b \in Incident PROVE Agrees(b, heard[b], security_breaches)'
    <3>1. Agrees(b, heard'[b], security_breaches')
      <4>1. CASE b = x
        BY <2>2, <2>6, <4>1
      <4>2. CASE b # x
        <5>1. Agrees(b, heard[b], security_breaches) /\ heard'[b] = heard[b]
              /\ (b \in security_breaches' <=> b \in security_breaches)
          BY <1>0, <2>2, <2>4, <4>2
        <5> QED BY <5>1 DEF Agrees
      <4> QED BY <4>1, <4>2
    <3>2. (b \in Open' <=> b \in Open) /\ (Misordered(b)' <=> Misordered(b))
          /\ \A k : Logged(b, k)' <=> Logged(b, k)
      BY <2>7 DEF Open, Misordered, Logged
    <3> QED BY <2>7, <3>1, <3>2 DEF Agrees, ToCome
  <2> QED BY <2>2, <2>5, <2>8, <2>9 DEF BreachInv
<1>6. ASSUME RestartPassengers PROVE BreachInv'
  <2>1. /\ security_breaches' = Open /\ frozen' = {BreachAt[b] : b \in Open} /\ UNCHANGED newsVars
    BY <1>6 DEF RestartPassengers, outside, load_security_breaches
  <2>2. PICK k \in DOMAIN heard : \E n \in 0..Len(PaxPartition(k)) : heard' = [heard EXCEPT ![k] = n]
    BY <1>6 DEF RestartPassengers
  <2>3. PICK n \in 0..Len(PaxPartition(k)) : heard' = [heard EXCEPT ![k] = n]
    BY <2>2
  <2>4. heard' \in [Key -> Nat]
    BY <1>0, <2>3
  <2>5. ASSUME NEW b \in Incident PROVE heard'[b] \in Nat /\ heard'[b] <= Len(log[b])
    <3>1. CASE b = k
      BY <1>0, <2>3, <3>1 DEF PaxPartition
    <3>2. CASE b # k
      BY <1>0, <2>3, <3>2 DEF Agrees
    <3> QED BY <3>1, <3>2
  <2>6. UNCHANGED <<node, unsent, log, lost>> /\ Open' = Open
    BY <2>1 DEF newsVars, Open
  <2>7. ASSUME NEW b \in Incident PROVE Agrees(b, heard[b], security_breaches)'
    <3>1. Agrees(b, heard'[b], Open)
      BY <2>5, RestartAgrees
    <3>2. (Misordered(b)' <=> Misordered(b)) /\ \A j : Logged(b, j)' <=> Logged(b, j)
      BY <2>6 DEF Misordered, Logged
    <3> QED BY <2>1, <2>6, <3>1, <3>2 DEF Agrees, ToCome
  <2>8. NewsInv'
    BY <1>0, <2>1, NewsSteps
  <2>9. security_breaches' \subseteq Incident
    BY <2>1 DEF Open
  <2> QED BY <2>1, <2>4, <2>7, <2>8, <2>9 DEF BreachInv
<1> QED BY <1>1, <1>2, <1>3, <1>4, <1>5, <1>6 DEF PassengersNext

LEMMA TurnsInLane ==
  ASSUME NEW lane, NEW G, LanesOK(lane, G), NEW p
  PROVE  /\ p \notin Standing(lane) => Turns(lane, p) = {}
         /\ p \in Standing(lane) =>
              /\ Turns(lane, p) # {} /\ Cardinality(Turns(lane, p)) = 1
              /\ \A t \in Turns(lane, p) : t[1] = CheckpointOfPax(p)
         /\ Cardinality(Turns(lane, p)) <= 1
<1>1. ASSUME p \notin Standing(lane) PROVE Turns(lane, p) = {}
  BY <1>1 DEF Standing, ToSet, Turns
<1>2. ASSUME p \in Standing(lane)
      PROVE  \E i : Turns(lane, p) = {<<CheckpointOfPax(p), i>>}
  <2>1. PICK c \in AnyCheckpoint : p \in ToSet(lane[c])
    BY <1>2 DEF Standing
  <2>2. c = CheckpointOfPax(p) /\ IsInjective(lane[c])
    BY <2>1 DEF LanesOK, Lines
  <2>3. PICK i \in DOMAIN lane[c] : lane[c][i] = p
    BY <2>1 DEF ToSet
  <2>4. {n \in DOMAIN lane[c] : lane[c][n] = p} = {i}
    BY <2>2, <2>3 DEF IsInjective
  <2>5. \A d \in AnyCheckpoint : d # c => {n \in DOMAIN lane[d] : lane[d][n] = p} = {}
    BY <2>2 DEF LanesOK, ToSet
  <2>6. Turns(lane, p) = {<<c, i>>}
    BY <2>4, <2>5 DEF Turns
  <2> QED BY <2>2, <2>6
<1>3. Cardinality({}) = 0 /\ \A x : Cardinality({x}) = 1
  BY FS_EmptySet, FS_Singleton
<1>4. CASE p \notin Standing(lane)
  <2>1. Turns(lane, p) = {}
    BY <1>1, <1>4
  <2> QED BY <1>3, <1>4, <2>1
<1>5. CASE p \in Standing(lane)
  <2>1. PICK i : Turns(lane, p) = {<<CheckpointOfPax(p), i>>}
    BY <1>2, <1>5
  <2>2. Cardinality(Turns(lane, p)) = 1
    BY <1>3, <2>1
  <2>3. \A t \in Turns(lane, p) : t[1] = CheckpointOfPax(p)
    BY <2>1
  <2> QED BY <1>5, <2>1, <2>2, <2>3
<1> QED BY <1>4, <1>5

LEMMA SecurityFollows ==
  ASSUME LanesInv, BreachInv
  PROVE  SecurityMatches
<1>1. ASSUME NEW p \in Departures \ unwritten
      PROVE  LET own   == IF p \in Assisted THEN sa_queue ELSE main_queue
                 other == IF p \in Assisted THEN main_queue ELSE sa_queue
             IN  /\ Turns(other, p) = {} /\ Cardinality(Turns(own, p)) <= 1
                 /\ \A t \in Turns(own, p) :
                      t[1] = CheckpointOfPax(p) /\ pax[p] \in {"security_queue", "disrupted"}
                 /\ pax[p] = "security_queue" => Turns(own, p) # {}
  <2>1. /\ LanesOK(main_queue, Pax \ Assisted) /\ LanesOK(sa_queue, Assisted)
        /\ p \in InLanes => pax[p] \in {"security_queue", "disrupted"}
        /\ pax[p] = "security_queue" => p \in InLanes
    BY DEF LanesInv, Queuing
  <2>2. /\ p \in Assisted => p \notin Standing(main_queue)
        /\ p \notin Assisted => p \notin Standing(sa_queue)
    BY <2>1 DEF LanesOK, Standing
  <2> QED BY <2>1, <2>2, TurnsInLane DEF InLanes
<1>2. \A b \in Open : Settled(b, heard) => BreachAt[b] \in frozen
  BY KnownIsOpen DEF BreachInv, Open
<1>3. frozen \subseteq {BreachAt[b] : b \in {x \in Incident : x \in Open \/ ~Settled(x, heard)}}
  <2>1. \A b \in security_breaches : b \in Incident /\ (b \in Open \/ ~Settled(b, heard))
    BY KnownIsOpen DEF BreachInv
  <2> QED BY <2>1 DEF BreachInv
<1> QED BY <1>1, <1>2, <1>3 DEF SecurityMatches

(* The lanes are those that a restart would rebuild, and so are the frozen *)
(* checkpoints once what was announced of their breaches was heard: in     *)
(* whatever order requests contain, resolve and announce the breaches, and *)
(* however often _on_incident_created and _on_incident_status_changed hear *)
(* of it, but for the exceptions that SecurityMatches names.               *)
THEOREM SecurityMatchesProved == PassengersSpec => []SecurityMatches
<1>1. PassengersInit => LanesInv /\ BreachInv
  BY LanesInitially, BreachesInitially
<1>2. LanesInv /\ BreachInv /\ [PassengersNext]_paxVars => LanesInv' /\ BreachInv'
  BY LanesNext, BreachesNext
<1>3. LanesInv /\ BreachInv => SecurityMatches
  BY SecurityFollows
<1> QED BY <1>1, <1>2, <1>3, PTL DEF PassengersSpec
-----------------------------------------------------------------------------
(* The wheelchairs.  Whoever has asked for one has checked in, and does    *)
(* not ask again.                                                          *)

Using(c) == {p \in Departures : CheckpointOfPax(p) = c /\ _assignments[p] = "dispatched"}

ChairsInv ==
  /\ LanesOK(chair_queue, Assisted)
  /\ in_use \in [AnyCheckpoint -> Nat]
  /\ _assignments \in [Pax -> {"none", "requested", "dispatched"}]
  /\ \A c \in AnyCheckpoint : in_use[c] <= Chairs[c] /\ in_use[c] = Cardinality(Using(c))
  /\ \A p \in Pax :
       /\ p \in Standing(chair_queue) \/ _assignments[p] # "none" => pax[p] # "booked"
       /\ _assignments[p] = "requested" => p \in Standing(chair_queue)
       /\ _assignments[p] = "dispatched" => p \notin Standing(chair_queue)

LEMMA Larger ==
  ASSUME NEW x \in Nat PROVE Max({0, x}) = x
<1>1. \A y \in {0, x} : (\A z \in {0, x} : y >= z) <=> y = x
  OBVIOUS
<1> QED BY <1>1 DEF Max

LEMMA Smaller ==
  ASSUME NEW x \in Nat, NEW y \in Nat
  PROVE  Min({x, y}) \in Nat /\ Min({x, y}) <= x /\ Min({x, y}) <= y
<1>1. \E z \in {x, y} : \A w \in {x, y} : z =< w
  OBVIOUS
<1>2. Min({x, y}) \in {x, y} /\ \A w \in {x, y} : Min({x, y}) =< w
  BY <1>1 DEF Min
<1> QED BY <1>2

LEMMA LineLength ==
  ASSUME NEW S, NEW s \in Lines(S)
  PROVE  IsFiniteSet(ToSet(s)) /\ Cardinality(ToSet(s)) = Len(s)
<1>1. Len(s) \in Nat /\ DOMAIN s = 1..Len(s) /\ s \in [1..Len(s) -> S] /\ IsInjective(s)
  BY DEF Lines
<1>2. s \in [1..Len(s) -> ToSet(s)] /\ \A x \in ToSet(s) : \E i \in 1..Len(s) : s[i] = x
  BY <1>1 DEF ToSet
<1>3. s \in Bijection(1..Len(s), ToSet(s))
  BY <1>1, <1>2 DEF Bijection, Injection, Surjection, IsInjective
<1>4. ExistsBijection(1..Len(s), ToSet(s))
  BY <1>3 DEF ExistsBijection
<1> QED BY <1>1, <1>4, FS_NatBijection, FS_CountingElements

LEMMA NotBookedAgain ==
  ASSUME LanesInv, OneMoves, NEW p \in Pax, pax[p] # "booked"
  PROVE  pax'[p] # "booked"
  BY DEF OneMoves, Moves

LEMMA ChairsStand ==
  ASSUME LanesInv, OneMoves, ChairsInv, UNCHANGED wheelchair
  PROVE  ChairsInv'
<1>1. UNCHANGED <<chair_queue, in_use, _assignments>>
  BY DEF wheelchair
<1>2. LanesOK(chair_queue, Assisted)' /\ Standing(chair_queue)' = Standing(chair_queue)
  BY <1>1 DEF ChairsInv, LanesOK, Departures, CheckpointOfPax, Standing
<1>3. \A c \in AnyCheckpoint : Using(c)' = Using(c)
  BY <1>1 DEF Using, Departures, CheckpointOfPax
<1> QED BY <1>1, <1>2, <1>3, NotBookedAgain DEF ChairsInv

LEMMA ChairsRequested ==
  ASSUME LanesInv, OneMoves, ChairsInv,
         NEW group \in SUBSET (WithStatus("booked") \cap Departures),
         \A p \in group : pax'[p] = "checked_in",
         RequestChairs(group)
  PROVE  ChairsInv'
<1> DEFINE asking(c) == {p \in group \cap Assisted : CheckpointOfPax(p) = c /\ _assignments[p] = "none"}
           first(c)  == ToSet(SubSeq(Newcomers(group, c), 1, Served(group, c)))
           later(c)  == ToSet(SubSeq(Newcomers(group, c), Served(group, c) + 1, Len(Newcomers(group, c))))
           rest(c)   == SubSeq(Newcomers(group, c), Served(group, c) + 1, Len(Newcomers(group, c)))
           served    == UNION {first(c) : c \in AnyCheckpoint}
<1>1. /\ in_use' = [c \in AnyCheckpoint |-> in_use[c] + Served(group, c)]
      /\ chair_queue' = [c \in AnyCheckpoint |-> chair_queue[c] \o rest(c)]
      /\ _assignments' = [p \in Pax |->
           CASE p \in served -> "dispatched"
             [] p \in (group \cap Assisted) \ served /\ _assignments[p] = "none" -> "requested"
             [] OTHER -> _assignments[p]]
  BY DEF RequestChairs
<1>2. \A p \in group : /\ p \in Departures /\ p \in Pax /\ pax[p] = "booked"
                      /\ _assignments[p] = "none" /\ p \notin Standing(chair_queue)
  BY DEF ChairsInv, WithStatus, Departures
<1>3. ASSUME NEW c \in AnyCheckpoint
      PROVE  /\ Served(group, c) \in Nat /\ in_use[c] + Served(group, c) <= Chairs[c]
             /\ rest(c) \in Lines(Pax) /\ Cardinality(first(c)) = Served(group, c)
             /\ IsFiniteSet(first(c))
             /\ first(c) \cup later(c) = asking(c) /\ first(c) \cap later(c) = {}
  <2>1. asking(c) \in SUBSET Pax /\ Newcomers(group, c) = SetToSeq(asking(c))
    BY <1>2 DEF Newcomers
  <2>2. Newcomers(group, c) \in Lines(Pax) /\ ToSet(Newcomers(group, c)) = asking(c)
        /\ Len(Newcomers(group, c)) \in Nat
    <3> HIDE DEF asking
    <3>1. IsFiniteSet(asking(c)) /\ Cardinality(asking(c)) \in Nat
      BY <2>1, SomeArePax
    <3>2. SetToSeq(asking(c)) \in Lines(asking(c)) /\ ToSet(SetToSeq(asking(c))) = asking(c)
          /\ Len(SetToSeq(asking(c))) = Cardinality(asking(c))
      BY <3>1, SetInLine
    <3> QED BY <2>1, <3>1, <3>2, LinePax
  <2>3. Chairs[c] \in Nat /\ in_use[c] \in Nat /\ in_use[c] <= Chairs[c]
    BY PassengerAssumption DEF ChairsInv
  <2>4. FreeChairs(c) = Chairs[c] - in_use[c] /\ Chairs[c] - in_use[c] \in Nat
    <3>1. Chairs[c] - in_use[c] \in Nat
      BY <2>3
    <3> QED BY <3>1, Larger DEF FreeChairs
  <2>5. /\ Served(group, c) \in Nat /\ Served(group, c) <= Chairs[c] - in_use[c]
        /\ Served(group, c) <= Len(Newcomers(group, c))
    BY <2>2, <2>4, Smaller DEF Served
  <2>6. Served(group, c) \in 0..Len(Newcomers(group, c))
    BY <2>2, <2>5
  <2>7. /\ SubSeq(Newcomers(group, c), 1, Served(group, c)) \in Lines(Pax) /\ rest(c) \in Lines(Pax)
        /\ Len(SubSeq(Newcomers(group, c), 1, Served(group, c))) = Served(group, c)
        /\ first(c) \cup later(c) = ToSet(Newcomers(group, c)) /\ first(c) \cap later(c) = {}
    BY <2>2, <2>6, LineCut
  <2>8. IsFiniteSet(first(c)) /\ Cardinality(first(c)) = Served(group, c)
    BY <2>7, LineLength
  <2>9. in_use[c] + Served(group, c) <= Chairs[c]
    BY <2>3, <2>5
  <2> QED BY <2>2, <2>5, <2>7, <2>8, <2>9
<1>4. \A c \in AnyCheckpoint : later(c) = ToSet(rest(c))
  OBVIOUS
<1> HIDE DEF first, later, rest
<1>5. ASSUME NEW c \in AnyCheckpoint
      PROVE  /\ chair_queue'[c] \in Lines(Pax)
             /\ ToSet(chair_queue'[c]) = ToSet(chair_queue[c]) \cup later(c)
  <2>1. rest(c) \in Lines(Pax) /\ ToSet(rest(c)) \subseteq asking(c)
    BY <1>3, <1>4
  <2>2. ToSet(chair_queue[c]) \subseteq Standing(chair_queue) /\ chair_queue[c] \in Lines(Pax)
    BY DEF Standing, ChairsInv, LanesOK
  <2>3. ToSet(chair_queue[c]) \cap ToSet(rest(c)) = {}
    BY <1>2, <2>1, <2>2
  <2> QED BY <1>1, <1>4, <2>1, <2>2, <2>3, LinesJoined
<1>6. LanesOK(chair_queue', Assisted)
  <2>1. chair_queue' \in [AnyCheckpoint -> Lines(Pax)]
    BY <1>1, <1>5
  <2>2. ASSUME NEW c \in AnyCheckpoint, NEW p \in ToSet(chair_queue'[c])
        PROVE  p \in Departures \cap Assisted /\ CheckpointOfPax(p) = c
    <3>1. p \in ToSet(chair_queue[c]) \/ p \in asking(c)
      BY <1>3, <1>5, <2>2
    <3> QED BY <1>2, <3>1 DEF ChairsInv, LanesOK
  <2> QED BY <2>1, <2>2 DEF LanesOK
<1>7. \A p : p \in Standing(chair_queue') <=>
               p \in Standing(chair_queue) \/ \E c \in AnyCheckpoint : p \in later(c)
  BY <1>5 DEF Standing
(* Each of them is asked for at his own checkpoint.                        *)
<1>8. ASSUME NEW p \in group \cap Assisted
      PROVE  /\ p \in served <=> p \in first(CheckpointOfPax(p))
             /\ (\E c \in AnyCheckpoint : p \in later(c)) <=> p \in later(CheckpointOfPax(p))
             /\ p \in first(CheckpointOfPax(p)) <=> p \notin later(CheckpointOfPax(p))
  <2>1. CheckpointOfPax(p) \in AnyCheckpoint /\ p \in asking(CheckpointOfPax(p))
    BY <1>2, OwnCheckpoint
  <2>2. \A c \in AnyCheckpoint : p \in first(c) \cup later(c) => c = CheckpointOfPax(p)
    BY <1>3
  <2>3. p \in first(CheckpointOfPax(p)) <=> p \notin later(CheckpointOfPax(p))
    BY <1>3, <2>1
  <2> QED BY <2>1, <2>2, <2>3
<1>9. /\ \A p \in served : p \in group \cap Assisted
      /\ \A c \in AnyCheckpoint : later(c) \subseteq group \cap Assisted
                                 /\ first(c) \subseteq group \cap Assisted
  BY <1>3
<1> HIDE DEF served, asking
<1>10. /\ \A p \in Pax : p \in served => _assignments'[p] = "dispatched"
       /\ \A p \in Pax : p \in group \cap Assisted /\ p \notin served => _assignments'[p] = "requested"
       /\ \A p \in Pax : p \notin group \cap Assisted => _assignments'[p] = _assignments[p]
  BY <1>1, <1>2, <1>9
<1>11. _assignments' \in [Pax -> {"none", "requested", "dispatched"}]
  BY <1>1 DEF ChairsInv
<1>12. ASSUME NEW c \in AnyCheckpoint
       PROVE  in_use'[c] \in Nat /\ in_use'[c] <= Chairs[c] /\ in_use'[c] = Cardinality(Using(c)')
  <2>1. Using(c)' = Using(c) \cup first(c)
    <3>1. \A p \in Departures : p \in Pax
      BY DEF Departures
    <3>2. ASSUME NEW p \in Departures
          PROVE  p \in Using(c)' <=> p \in Using(c) \cup first(c)
      <4>1. CASE p \in group \cap Assisted
        <5>1. _assignments'[p] = "dispatched" <=> p \in first(CheckpointOfPax(p))
          BY <1>8, <1>10, <3>1, <4>1
        <5>2. p \in first(c) => c = CheckpointOfPax(p)
          BY <1>3 DEF asking
        <5>3. p \notin Using(c)
          BY <1>2, <4>1 DEF Using
        <5> QED BY <5>1, <5>2, <5>3 DEF Using, Departures, CheckpointOfPax
      <4>2. CASE p \notin group \cap Assisted
        <5>1. _assignments'[p] = _assignments[p] /\ p \notin first(c)
          BY <1>9, <1>10, <3>1, <4>2
        <5> QED BY <5>1 DEF Using, Departures, CheckpointOfPax
      <4> QED BY <4>1, <4>2
    <3>3. first(c) \subseteq Departures
      BY <1>2, <1>9
    <3> QED BY <3>2, <3>3 DEF Using, Departures, CheckpointOfPax
  <2>2. Using(c) \cap first(c) = {}
    BY <1>2, <1>9 DEF Using
  <2>3. IsFiniteSet(Using(c)) /\ Cardinality(Using(c)) = in_use[c] /\ in_use[c] \in Nat
    <3>1. Using(c) \in SUBSET Pax
      BY DEF Using, Departures
    <3> QED BY <3>1, SomeArePax DEF ChairsInv
  <2>4. Cardinality(Using(c) \cup first(c)) = in_use[c] + Served(group, c)
    <3>1. Cardinality(Using(c) \cap first(c)) = 0
      BY <2>2, FS_EmptySet
    <3>2. Cardinality(Using(c) \cup first(c))
            = Cardinality(Using(c)) + Cardinality(first(c)) - Cardinality(Using(c) \cap first(c))
      BY <1>3, <2>3, FS_Union
    <3> QED BY <1>3, <2>3, <3>1, <3>2
  <2>5. in_use'[c] = in_use[c] + Served(group, c)
    BY <1>1
  <2> QED BY <1>3, <2>1, <2>3, <2>4, <2>5
<1>13. in_use' \in [AnyCheckpoint -> Nat]
  BY <1>1, <1>12
<1>14. ASSUME NEW p \in Pax
       PROVE  /\ p \in Standing(chair_queue') \/ _assignments'[p] # "none" => pax'[p] # "booked"
              /\ _assignments'[p] = "requested" => p \in Standing(chair_queue')
              /\ _assignments'[p] = "dispatched" => p \notin Standing(chair_queue')
  <2>1. CASE p \in group \cap Assisted
    <3>1. pax'[p] = "checked_in"
      BY <2>1
    <3>2. p \in Standing(chair_queue') <=> p \notin served
      BY <1>2, <1>7, <1>8, <2>1
    <3> QED BY <1>10, <2>1, <3>1, <3>2
  <2>2. CASE p \notin group \cap Assisted
    <3>1. p \in Standing(chair_queue') <=> p \in Standing(chair_queue)
      BY <1>7, <1>9, <2>2
    <3>2. _assignments'[p] = _assignments[p]
      BY <1>10, <2>2
    <3> QED BY <3>1, <3>2, NotBookedAgain DEF ChairsInv
  <2> QED BY <2>1, <2>2
<1>15. LanesOK(chair_queue, Assisted)' /\ Standing(chair_queue)' = Standing(chair_queue')
  BY <1>6 DEF LanesOK, Departures, CheckpointOfPax, Standing
<1> QED BY <1>11, <1>12, <1>13, <1>14, <1>15 DEF ChairsInv

LEMMA ChairDispatched ==
  ASSUME LanesInv, OneMoves, ChairsInv, DispatchChair
  PROVE  ChairsInv'
<1>1. PICK c \in AnyCheckpoint :
        /\ Waiting(c) /\ chair_queue' = [chair_queue EXCEPT ![c] = Tail(@)]
        /\ LET p == Head(chair_queue[c]) IN
           IF _assignments[p] = "requested"
           THEN /\ in_use' = [in_use EXCEPT ![c] = @ + 1]
                /\ _assignments' = [_assignments EXCEPT ![p] = "dispatched"]
           ELSE UNCHANGED <<in_use, _assignments>>
  BY DEF DispatchChair
<1> DEFINE p == Head(chair_queue[c])
<1>2. chair_queue[c] \in Lines(Pax) /\ chair_queue[c] # <<>> /\ chair_queue \in [AnyCheckpoint -> Lines(Pax)]
  BY <1>1 DEF ChairsInv, LanesOK, Waiting
<1>3. /\ Tail(chair_queue[c]) \in Lines(Pax) /\ p \in Pax /\ p \notin ToSet(Tail(chair_queue[c]))
      /\ ToSet(chair_queue[c]) = ToSet(Tail(chair_queue[c])) \cup {p}
  BY <1>2, LineTail
<1>4. p \in Departures \cap Assisted /\ CheckpointOfPax(p) = c
  BY <1>3 DEF ChairsInv, LanesOK
<1> HIDE DEF p
<1>5. /\ chair_queue' \in [AnyCheckpoint -> Lines(Pax)]
      /\ ToSet(chair_queue'[c]) = ToSet(chair_queue[c]) \ {p}
      /\ \A d \in AnyCheckpoint : d # c => chair_queue'[d] = chair_queue[d]
  BY <1>1, <1>2, <1>3
<1>6. LanesOK(chair_queue', Assisted)
  BY <1>5 DEF ChairsInv, LanesOK
<1>7. Standing(chair_queue') = Standing(chair_queue) \ {p}
  <2>1. \A d \in AnyCheckpoint : p \in ToSet(chair_queue[d]) => d = c
    BY <1>4 DEF ChairsInv, LanesOK
  <2>2. ASSUME NEW d \in AnyCheckpoint PROVE ToSet(chair_queue'[d]) = ToSet(chair_queue[d]) \ {p}
    <3>1. CASE d = c
      BY <1>5, <3>1
    <3>2. CASE d # c
      BY <1>5, <2>1, <3>2
    <3> QED BY <3>1, <3>2
  <2> QED BY <2>2 DEF Standing
<1>8. p \in Standing(chair_queue)
  BY <1>3 DEF Standing
<1>9. LanesOK(chair_queue, Assisted)' /\ Standing(chair_queue)' = Standing(chair_queue')
  BY <1>6 DEF LanesOK, Departures, CheckpointOfPax, Standing
<1>10. CASE _assignments[p] = "requested"
  <2>1. in_use' = [in_use EXCEPT ![c] = @ + 1] /\ _assignments' = [_assignments EXCEPT ![p] = "dispatched"]
    BY <1>1, <1>10 DEF p
  <2>2. /\ _assignments' \in [Pax -> {"none", "requested", "dispatched"}]
        /\ in_use' \in [AnyCheckpoint -> Nat] /\ in_use'[c] = in_use[c] + 1
        /\ _assignments'[p] = "dispatched"
        /\ \A x \in Pax : x # p => _assignments'[x] = _assignments[x]
        /\ \A d \in AnyCheckpoint : d # c => in_use'[d] = in_use[d]
    BY <1>3, <2>1 DEF ChairsInv
  <2>3. in_use[c] < Chairs[c] /\ Chairs[c] \in Nat /\ in_use[c] \in Nat
    <3>1. FreeChairs(c) > 0 /\ Chairs[c] \in Nat /\ in_use[c] \in Nat /\ in_use[c] <= Chairs[c]
      BY <1>1, PassengerAssumption DEF Waiting, ChairsInv
    <3>2. FreeChairs(c) = Chairs[c] - in_use[c]
      <4>1. Chairs[c] - in_use[c] \in Nat
        BY <3>1
      <4> QED BY <4>1, Larger DEF FreeChairs
    <3> QED BY <3>1, <3>2
  <2>4. Using(c)' = Using(c) \cup {p} /\ p \notin Using(c)
    <3>1. \A x \in Departures : x \in Pax
      BY DEF Departures
    <3> QED BY <1>4, <1>10, <2>2, <3>1 DEF Using, Departures, CheckpointOfPax
  <2>5. Cardinality(Using(c)') = in_use'[c]
    <3>1. Using(c) \in SUBSET Pax
      BY DEF Using, Departures
    <3>2. Cardinality(Using(c)) = in_use[c]
      BY DEF ChairsInv
    <3> QED BY <2>2, <2>4, <3>1, <3>2, SomeArePax, FS_AddElement
  <2>6. ASSUME NEW d \in AnyCheckpoint
        PROVE  in_use'[d] <= Chairs[d] /\ in_use'[d] = Cardinality(Using(d)')
    <3>1. CASE d = c
      BY <2>2, <2>3, <2>5, <3>1
    <3>2. CASE d # c
      <4>1. Using(d)' = Using(d)
        <5>1. \A x \in Departures : x \in Pax
          BY DEF Departures
        <5> QED BY <1>4, <2>2, <3>2, <5>1 DEF Using, Departures, CheckpointOfPax
      <4> QED BY <2>2, <3>2, <4>1 DEF ChairsInv
    <3> QED BY <3>1, <3>2
  <2>7. ASSUME NEW x \in Pax
        PROVE  /\ x \in Standing(chair_queue') \/ _assignments'[x] # "none" => pax'[x] # "booked"
               /\ _assignments'[x] = "requested" => x \in Standing(chair_queue')
               /\ _assignments'[x] = "dispatched" => x \notin Standing(chair_queue')
    BY <1>7, <1>8, <2>2, NotBookedAgain DEF ChairsInv
  <2> QED BY <1>9, <2>2, <2>6, <2>7 DEF ChairsInv
<1>11. CASE _assignments[p] # "requested"
  <2>1. UNCHANGED <<in_use, _assignments>>
    BY <1>1, <1>11 DEF p
  <2>2. \A d \in AnyCheckpoint : Using(d)' = Using(d)
    BY <2>1 DEF Using, Departures, CheckpointOfPax
  <2>3. ASSUME NEW x \in Pax
        PROVE  /\ x \in Standing(chair_queue') \/ _assignments'[x] # "none" => pax'[x] # "booked"
               /\ _assignments'[x] = "requested" => x \in Standing(chair_queue')
               /\ _assignments'[x] = "dispatched" => x \notin Standing(chair_queue')
    BY <1>7, <1>11, <2>1, NotBookedAgain DEF ChairsInv
  <2> QED BY <1>9, <2>1, <2>2, <2>3 DEF ChairsInv
<1> QED BY <1>10, <1>11

LEMMA ChairsReleased ==
  ASSUME LanesInv, OneMoves, ChairsInv, NEW group \in SUBSET Departures, release(group)
  PROVE  ChairsInv'
<1>1. /\ in_use' = [c \in AnyCheckpoint |-> Max({0, in_use[c] - Returned(group, c)})]
      /\ _assignments' = [p \in Pax |-> IF p \in group THEN "none" ELSE _assignments[p]]
      /\ chair_queue' = chair_queue
  BY DEF release
<1>2. ASSUME NEW c \in AnyCheckpoint
      PROVE  in_use'[c] \in Nat /\ in_use'[c] <= Chairs[c] /\ in_use'[c] = Cardinality(Using(c)')
  <2> DEFINE back == {p \in group : CheckpointOfPax(p) = c /\ _assignments[p] = "dispatched"}
  <2>1. Using(c) \cap group = back /\ Using(c)' = Using(c) \ group /\ Using(c) \in SUBSET Pax
        /\ Using(c) \ group \in SUBSET Pax
    BY <1>1 DEF Using, Departures, CheckpointOfPax
  <2>2. Returned(group, c) = Cardinality(back)
    BY DEF Returned
  <2>3. IsFiniteSet(Using(c)) /\ Cardinality(Using(c)) = in_use[c] /\ in_use[c] <= Chairs[c]
        /\ in_use[c] \in Nat /\ Chairs[c] \in Nat
    BY <2>1, SomeArePax, PassengerAssumption DEF ChairsInv
  <2> HIDE DEF back
  <2>4. Cardinality(Using(c) \ group) = in_use[c] - Returned(group, c)
        /\ Cardinality(Using(c) \ group) \in Nat /\ Cardinality(back) \in Nat
    <3>1. back \in SUBSET Pax
      BY <2>1
    <3> QED BY <2>1, <2>2, <2>3, <3>1, SomeArePax, FS_Difference
  <2>5. in_use'[c] = in_use[c] - Returned(group, c)
    BY <1>1, <2>4, Larger
  <2> QED BY <2>1, <2>2, <2>3, <2>4, <2>5
<1>3. in_use' \in [AnyCheckpoint -> Nat] /\ _assignments' \in [Pax -> {"none", "requested", "dispatched"}]
  BY <1>1, <1>2 DEF ChairsInv
<1>4. LanesOK(chair_queue, Assisted)' /\ Standing(chair_queue)' = Standing(chair_queue)
  BY <1>1 DEF ChairsInv, LanesOK, Departures, CheckpointOfPax, Standing
<1>5. ASSUME NEW p \in Pax
      PROVE  /\ p \in Standing(chair_queue) \/ _assignments'[p] # "none" => pax'[p] # "booked"
             /\ _assignments'[p] = "requested" => p \in Standing(chair_queue)
             /\ _assignments'[p] = "dispatched" => p \notin Standing(chair_queue)
  BY <1>1, NotBookedAgain DEF ChairsInv
<1> QED BY <1>2, <1>3, <1>4, <1>5 DEF ChairsInv

(* No chair is in use: at the start, and after every restart.              *)
LEMMA NoChairs ==
  ASSUME in_use = [c \in AnyCheckpoint |-> 0], chair_queue = [c \in AnyCheckpoint |-> <<>>],
         _assignments = [p \in Pax |-> "none"]
  PROVE  ChairsInv
<1>1. LanesOK(chair_queue, Assisted) /\ Standing(chair_queue) = {}
  BY NobodyStands
<1>2. \A c \in AnyCheckpoint : Using(c) = {}
  BY DEF Using, Departures
<1>3. \A c \in AnyCheckpoint : Cardinality(Using(c)) = 0 /\ Chairs[c] \in Nat
  BY <1>2, FS_EmptySet, PassengerAssumption
<1> QED BY <1>1, <1>3 DEF ChairsInv

LEMMA ChairsNext ==
  ASSUME LanesInv, ChairsInv, [PassengersNext]_paxVars
  PROVE  ChairsInv'
<1>1. CASE UNCHANGED paxVars
  <2>1. OneMoves /\ UNCHANGED wheelchair
    BY <1>1 DEF paxVars, paxMemory, wheelchair, LanesInv, StatusOK, OneMoves
  <2> QED BY <2>1, ChairsStand
<1>2. CASE PassengersNext
  <2>1. OneMoves
    BY <1>2, PaxMoves
  <2>2. FlightOutcome \/ BreachesChange \/ _warm_start_departures \/ BeginTick \/ _wheelchair_tick
        \/ _advance_checkin_to_security \/ _sync_security_from_db \/ _drain_security_queues
        \/ _advance_airside_to_gate \/ _advance_arrivals \/ _on_flight_status_changed
        \/ _on_flight_cancelled \/ OnBreach
        => UNCHANGED wheelchair
    BY DEF FlightOutcome, BreachesChange, paxMemory, _warm_start_departures, BeginTick, _wheelchair_tick,
           _advance_checkin_to_security, _sync_security_from_db, _drain_security_queues,
           _advance_airside_to_gate, _advance_arrivals, _on_flight_status_changed,
           _on_flight_cancelled, OnBreach
  <2>3. ASSUME _advance_booked_to_checkin PROVE ChairsInv'
    <3>1. PICK due \in SUBSET (WithStatus("booked") \cap Departures) :
            /\ bulk_update_status(due, "checked_in")
            /\ RequestChairs(due) \/ \E asked \in SUBSET due : RequestChairs(asked)
      BY <2>3 DEF _advance_booked_to_checkin
    <3>2. PICK asked \in SUBSET due : RequestChairs(asked)
      <4>1. due \in SUBSET due
        OBVIOUS
      <4> QED BY <3>1, <4>1
    <3>3. \A p \in asked : pax'[p] = "checked_in"
      BY <3>1 DEF bulk_update_status, Departures
    <3> QED BY <2>1, <3>2, <3>3, ChairsRequested
  <2>4. ASSUME _advance_boarding PROVE ChairsInv'
    <3> DEFINE group(due) == UNION {AtGate(f) : f \in Called(due)}
    <3>1. PICK due \in SUBSET Leaving :
            \E noshow \in SUBSET {p \in group(due) : ON_FLIGHT[p] \notin noshow_drawn_flights} :
            \E boarding \in SUBSET (group(due) \ noshow) :
              \/ release(boarding \cap Assisted)
              \/ \E served \in SUBSET (boarding \cap Assisted) : release(served)
      BY <2>4, Zenon DEF _advance_boarding
    <3>2. group(due) \subseteq Departures
      BY DEF LanesInv, StatusOK, ArrivalStatus, AtGate, WithStatus
    <3> HIDE DEF group
    <3>3. PICK served : served \in SUBSET group(due) /\ release(served)
      BY <3>1
    <3> QED BY <2>1, <3>2, <3>3, ChairsReleased
  <2>5. ASSUME RestartPassengers PROVE ChairsInv'
    <3>1. /\ in_use' = [c \in AnyCheckpoint |-> 0] /\ chair_queue' = [c \in AnyCheckpoint |-> <<>>]
          /\ _assignments' = [p \in Pax |-> "none"]
      BY <2>5 DEF RestartPassengers
    <3>2. (in_use = [c \in AnyCheckpoint |-> 0] /\ chair_queue = [c \in AnyCheckpoint |-> <<>>]
           /\ _assignments = [p \in Pax |-> "none"] => ChairsInv)'
      BY NoChairs, PTL
    <3> QED BY <3>1, <3>2
  <2> QED BY <1>2, <2>1, <2>2, <2>3, <2>4, <2>5, ChairsStand, ChairDispatched DEF PassengersNext
<1> QED BY <1>1, <1>2

LEMMA ChairsFollow ==
  ASSUME ChairsInv
  PROVE  ChairsCounted
<1>1. \A c \in AnyCheckpoint :
        /\ in_use[c] <= Chairs[c]
        /\ in_use[c] = Cardinality({p \in Departures : CheckpointOfPax(p) = c
                                                      /\ _assignments[p] = "dispatched"})
  BY DEF ChairsInv, Using
<1>2. ASSUME NEW p \in Departures
      PROVE  /\ _assignments[p] = "requested" => Cardinality(Turns(chair_queue, p)) = 1
             /\ _assignments[p] = "dispatched" => Turns(chair_queue, p) = {}
  <2>1. p \in Pax /\ LanesOK(chair_queue, Assisted)
    BY DEF Departures, ChairsInv
  <2> QED BY <2>1, TurnsInLane DEF ChairsInv
<1> QED BY <1>1, <1>2 DEF ChairsCounted

(* Every chair in use is one that was dispatched and there are enough; and *)
(* whoever waits for one is in the queue, once.                            *)
THEOREM ChairsCountedProved == PassengersSpec => []ChairsCounted
<1>1. PassengersInit => LanesInv /\ ChairsInv
  BY LanesInitially, NoChairs DEF PassengersInit, ProcessStarts
<1>2. LanesInv /\ ChairsInv /\ [PassengersNext]_paxVars => LanesInv' /\ ChairsInv'
  BY LanesNext, ChairsNext
<1>3. ChairsInv => ChairsCounted
  BY ChairsFollow
<1> QED BY <1>1, <1>2, <1>3, PTL DEF PassengersSpec
-----------------------------------------------------------------------------
(* BaggageConveyor: the invariant of the bags and of the conveyor.         *)

(* What a queue holds; the zones of the departing bags, which are the ones *)
(* that take a bag from zone to zone; the bags of each way.                *)
Item     == [bag : Bag, flight : BagFlight]
Pipeline == Inductions \cup ToSet(Units) \cup {Sorting} \cup MakeUps
Outbound == {b \in Bag : FlightOf[b] \in Departing}
Inbound  == {b \in Bag : FlightOf[b] \in Arriving}

(* A bag is on one flight: its own, or the departure it was redirected to. *)
OnFlight(b) == \E g \in BagFlight : loaded_on[b] = {g} /\ (g \in Departing \/ g = FlightOf[b])
(* The states in which the zone of a bag says where it is, and the zones   *)
(* that go with them; those that only an arriving bag reaches.             *)
Traced == {"inducted", "screening", "sorting", "loaded", "arrived"}
ZonesFor(status) ==
  IF status = "inducted" THEN Inductions ELSE IF status = "screening" THEN ToSet(Units)
  ELSE IF status = "sorting" THEN {Sorting} ELSE IF status = "loaded" THEN MakeUps ELSE Belts
Beyond == {"arrived", "on_carousel", "collected"}
(* The nodes: a bag that departs never arrives, and the other way round.   *)
BagsOK ==
  /\ bag \in [Bag -> [status : BagStatus, zone : Zone \cup NoZone]]
  /\ loaded_on \in [Bag -> SUBSET BagFlight] /\ \A b \in Bag : OnFlight(b)
  /\ \A b \in Outbound : bag[b].status \notin Beyond
  /\ \A b \in Inbound : bag[b].status \in {"in_hold", "offloaded"} \cup Beyond
  /\ \A b \in Bag : bag[b].status \in Traced /\ bag[b].zone \in Zone =>
                      bag[b].zone \in ZonesFor(bag[b].status)

(* Some element of a sequence is in B; at most one place is.               *)
Some(s, B) == \E i \in DOMAIN s : s[i] \in B
Once(s, B) == \A i, j \in DOMAIN s : s[i] \in B /\ s[j] \in B => i = j

(* The items of a bag, and: it stands in one place at most.                *)
Of(b) == {x \in Item : x.bag = b}
Single(q, b) ==
  /\ \A z \in Zone : Once(q[z], Of(b))
  /\ \A y, z \in Zone : Holds(q[y], b) /\ Holds(q[z], b) => y = z
(* A departing bag is on the pipeline, for the flight it is loaded on, an  *)
(* arriving one on a belt; and no bag that was not inducted stands there.  *)
FitsIn(x, z) ==
  IF x.bag \in Outbound THEN z \in Pipeline /\ loaded_on[x.bag] = {x.flight} ELSE z \in Belts
QueuesOK ==
  /\ queue \in [Zone -> Seq(Item)]
  /\ \A z \in Zone : \A x \in ToSet(queue[z]) : FitsIn(x, z) /\ bag[x.bag].status # "dropped_off"
  /\ \A b \in Outbound : Single(queue, b)

(* What a bag may have moved on to when it left a zone.  A departing bag   *)
(* leaves one zone in a tick, and is then in one of those or in none.      *)
After(z) ==
  IF z \in Inductions THEN ToSet(Units) ELSE IF z \in ToSet(Units) THEN {Sorting}
  ELSE IF z = Sorting THEN MakeUps ELSE {}
ExitsOf(b) == {e \in exits : e.item.bag = b}
ExitsOK ==
  /\ exits \subseteq [from : Zone, item : Item]
  /\ \A e \in exits : FitsIn(e.item, e.from) /\ bag[e.item.bag].status # "dropped_off"
  /\ \A e \in exits : e.item.bag \in Outbound =>
       /\ ExitsOf(e.item.bag) = {e}
       /\ \A z \in Zone : Holds(queue[z], e.item.bag) => z \in After(e.from)

(* The bags of which more holds: nothing failed and no news came twice.    *)
(* Between the exits such a bag is where it was scanned; while its exit is *)
(* not handled it was scanned in the zone it left and may be further on.   *)
Good(b) == b \notin missed /\ ~Repeated(b)
StatusIn(z) ==
  IF z \in Inductions THEN "inducted" ELSE IF z \in ToSet(Units) THEN "screening"
  ELSE IF z = Sorting THEN "sorting" ELSE IF z \in MakeUps THEN "loaded" ELSE "arrived"
GoodOK ==
  \A b \in Bag : Good(b) =>
    /\ Single(queue, b)
    /\ ExitsOf(b) = {} =>
         /\ \A z \in Zone : Holds(queue[z], b) => z = bag[b].zone /\ bag[b].status = StatusIn(z)
         /\ bag[b].status \in InPipeline /\ bag[b].zone \in Zone => Holds(queue[bag[b].zone], b)
    /\ \A e \in ExitsOf(b) :
         /\ ExitsOf(b) = {e} /\ bag[b].status = StatusIn(e.from)
         /\ \A z \in Zone : Holds(queue[z], b) => z \in After(e.from)
         /\ e.from \in Inductions \cup ToSet(Units) \cup {Sorting} => Found(queue, b)
(* A bag whose flight has not arrived is in its hold, so that its first    *)
(* news finds it in no queue.                                              *)
NotYet ==
  \A b \in Inbound : ~Redirected(b) /\ ~Repeated(b) /\ bag_position[FlightOf[b]] = 0 =>
    bag[b].status = "in_hold" /\ ~Found(queue, b) /\ ExitsOf(b) = {}
(* What was announced, and how far the consumer is.                        *)
BagNews == {"departed", "cancelled", "FlightCancelled", "at_gate"}
TopicsOK ==
  /\ flight_status \in [BagFlight -> {"coming", "departed", "cancelled", "at_gate"}]
  /\ topic \in [BagFlight -> Seq(BagNews)]
  /\ bag_position \in [BagFlight \cup Incident -> Nat]
  /\ \A f \in BagFlight : bag_position[f] <= Len(topic[f])
  /\ \A f \in BagFlight : flight_status[f] = "coming" => topic[f] = <<>>
  /\ \A f \in Arriving : Len(topic[f]) <= 1
TurnsOK == screening_turn \in [Terminal -> Nat] /\ makeup_turn \in [Terminal -> Nat]
BagInv == BagsOK /\ QueuesOK /\ ExitsOK /\ GoodOK /\ NotYet /\ TopicsOK /\ TurnsOK
(* The zones that stand still are those of the failures heard of.          *)
OfflineInv ==
  /\ NewsInv /\ active_failures \subseteq Incident /\ offline = StoppedBy(active_failures)
  /\ \A i \in Incident : Agrees(i, bag_position[i], active_failures)
-----------------------------------------------------------------------------
(* Sequences. What FlattenSeq computes is shown by the least number of     *)
(* parts for which it would be wrong.                                      *)

LEMMA LeastPlace ==
  ASSUME NEW T, T \subseteq Nat, T # {}
  PROVE  \E n \in T : \A m \in T : n <= m
<1> DEFINE R == OpToRel(<, Nat)
<1>1. IsWellFoundedOn(R, Nat)
  BY NatLessThanWellFounded
<1>2. \A x, y \in Nat : x < y => <<x, y>> \in R
  BY DEF OpToRel
<1> HIDE DEF R
<1>3. PICK n \in T : \A m \in T : ~ (<<m, n>> \in R)
  BY <1>1, WFMin
<1>4. \A m \in T : ~ (m < n)
  BY <1>2, <1>3, Zenon
<1> QED BY <1>4, SMT

LEMMA OnceJoined ==
  ASSUME NEW S, NEW s \in Seq(S), NEW t \in Seq(S)
  PROVE  /\ s \o t \in Seq(S) /\ ToSet(s \o t) = ToSet(s) \cup ToSet(t)
         /\ \A B : Once(s, B) /\ Once(t, B) /\ ~(Some(s, B) /\ Some(t, B)) => Once(s \o t, B)
<1>1. Len(s) \in Nat /\ Len(t) \in Nat /\ DOMAIN s = 1..Len(s) /\ DOMAIN t = 1..Len(t)
  OBVIOUS
<1>2. /\ s \o t \in Seq(S) /\ DOMAIN (s \o t) = 1..(Len(s) + Len(t))
      /\ \A i \in 1..(Len(s) + Len(t)) :
           (s \o t)[i] = IF i <= Len(s) THEN s[i] ELSE t[i - Len(s)]
  BY <1>1, ConcatProperties
<1>3. \A i \in DOMAIN s : i \in DOMAIN (s \o t) /\ (s \o t)[i] = s[i]
  BY <1>1, <1>2
<1>4. \A i \in DOMAIN t : Len(s) + i \in DOMAIN (s \o t) /\ (s \o t)[Len(s) + i] = t[i]
  BY <1>1, <1>2
<1>5. \A i \in DOMAIN (s \o t) : i \notin DOMAIN s =>
        i - Len(s) \in DOMAIN t /\ (s \o t)[i] = t[i - Len(s)] /\ i \in Int
  BY <1>1, <1>2
<1>6. ToSet(s \o t) = ToSet(s) \cup ToSet(t)
  <2> DEFINE u == s \o t
  <2>1. \A i \in DOMAIN s : s[i] \in ToSet(u)
    BY <1>3 DEF ToSet
  <2>2. \A i \in DOMAIN t : t[i] \in ToSet(u)
    BY <1>4 DEF ToSet
  <2>3. \A i \in DOMAIN u : u[i] \in ToSet(s) \cup ToSet(t)
    BY <1>3, <1>5 DEF ToSet
  <2> HIDE DEF u
  <2>4. ToSet(u) = ToSet(s) \cup ToSet(t)
    BY <2>1, <2>2, <2>3 DEF ToSet
  <2> QED BY <2>4 DEF u
<1>7. ASSUME NEW B, Once(s, B), Once(t, B), ~(Some(s, B) /\ Some(t, B)),
             NEW i \in DOMAIN (s \o t), NEW j \in DOMAIN (s \o t),
             (s \o t)[i] \in B, (s \o t)[j] \in B
      PROVE  i = j
  <2>1. CASE i \in DOMAIN s /\ j \in DOMAIN s
    BY <1>3, <1>7, <2>1 DEF Once
  <2>2. CASE i \notin DOMAIN s /\ j \notin DOMAIN s
    <3>1. i - Len(s) = j - Len(s)
      BY <1>5, <1>7, <2>2 DEF Once
    <3> QED BY <1>1, <1>5, <2>2, <3>1
  <2>3. CASE i \in DOMAIN s /\ j \notin DOMAIN s
    BY <1>3, <1>5, <1>7, <2>3 DEF Some
  <2>4. CASE i \notin DOMAIN s /\ j \in DOMAIN s
    BY <1>3, <1>5, <1>7, <2>4 DEF Some
  <2> QED BY <2>1, <2>2, <2>3, <2>4
<1>8. \A B : Once(s, B) /\ Once(t, B) /\ ~(Some(s, B) /\ Some(t, B)) => Once(s \o t, B)
  BY <1>7 DEF Once
<1> QED BY <1>2, <1>6, <1>8

(* The recursive function of FlattenSeq exists ...                         *)
Flattens(g, ss, n) == g = [i \in 1..n |-> IF i = 1 THEN ss[i] ELSE g[i - 1] \o ss[i]]

LEMMA FlattenExists ==
  ASSUME NEW ss, NEW N \in Nat, NEW n \in 1..N
  PROVE  \E g : Flattens(g, ss, n)
<1> DEFINE T == {m \in 1..N : ~ \E g : Flattens(g, ss, m)}
<1> SUFFICES ASSUME T # {} PROVE FALSE
  OBVIOUS
<1>0. T \subseteq Nat
  OBVIOUS
<1>1. PICK m \in T : \A k \in T : m <= k
  <2> HIDE DEF T
  <2> QED BY <1>0, LeastPlace
<1>2. m \in 1..N /\ ~ \E g : Flattens(g, ss, m)
  OBVIOUS
<1>3. CASE m = 1
  <2>1. Flattens([i \in 1..m |-> ss[i]], ss, m)
    BY <1>3 DEF Flattens
  <2> QED BY <1>2, <2>1
<1>4. CASE m # 1
  <2>1. m - 1 \in 1..N /\ m - 1 \notin T
    BY <1>1, <1>2, <1>4
  <2>2. PICK g : Flattens(g, ss, m - 1)
    BY <2>1
  <2> DEFINE h == [i \in 1..m |-> IF i = m THEN g[m - 1] \o ss[m] ELSE g[i]]
  <2>3. \A i \in 1..m : h[i] = IF i = 1 THEN ss[i] ELSE h[i - 1] \o ss[i]
    <3> SUFFICES ASSUME NEW i \in 1..m PROVE h[i] = IF i = 1 THEN ss[i] ELSE h[i - 1] \o ss[i]
      OBVIOUS
    <3>1. CASE i = m
      <4>1. m - 1 \in 1..m /\ h[m - 1] = g[m - 1]
        BY <1>2, <1>4
      <4> QED BY <3>1, <4>1, <1>4
    <3>2. CASE i # m
      <4>1. i \in 1..(m - 1)
        BY <1>2, <3>2
      <4>2. h[i] = g[i] /\ g[i] = IF i = 1 THEN ss[i] ELSE g[i - 1] \o ss[i]
        <5>1. h[i] = g[i]
          BY <3>2
        <5>2. g[i] = IF i = 1 THEN ss[i] ELSE g[i - 1] \o ss[i]
          BY <2>2, <4>1 DEF Flattens
        <5> QED BY <5>1, <5>2
      <4>3. i # 1 => h[i - 1] = g[i - 1]
        BY <1>2, <4>1
      <4> QED BY <4>2, <4>3
    <3> QED BY <3>1, <3>2
  <2>4. Flattens(h, ss, m)
    <3>1. h = [i \in 1..m |-> h[i]]
      OBVIOUS
    <3> HIDE DEF h
    <3> QED BY <2>3, <3>1 DEF Flattens
  <2> QED BY <1>2, <2>4
<1> QED BY <1>3, <1>4

(* ... and joins the sequences.                                            *)
LEMMA FlattenJoins ==
  ASSUME NEW S, NEW ss \in Seq(Seq(S))
  PROVE  /\ FlattenSeq(ss) \in Seq(S)
         /\ ToSet(FlattenSeq(ss)) = UNION {ToSet(ss[k]) : k \in DOMAIN ss}
         /\ \A B : (\A k \in DOMAIN ss : Once(ss[k], B))
                   /\ (\A k, l \in DOMAIN ss : Some(ss[k], B) /\ Some(ss[l], B) => k = l)
                   => Once(FlattenSeq(ss), B)
<1> DEFINE n == Len(ss)
           Apart(B, m) == /\ \A k \in 1..m : Once(ss[k], B)
                          /\ \A k, l \in 1..m : Some(ss[k], B) /\ Some(ss[l], B) => k = l
<1>1. n \in Nat /\ DOMAIN ss = 1..n /\ \A k \in 1..n : ss[k] \in Seq(S)
  OBVIOUS
<1>2. CASE n = 0
  <2>1. ss = <<>> /\ DOMAIN ss = {} /\ FlattenSeq(ss) = ss
    BY <1>1, <1>2 DEF FlattenSeq
  <2>2. <<>> \in Seq(S) /\ DOMAIN <<>> = {}
    OBVIOUS
  <2> QED BY <2>1, <2>2 DEF ToSet, Once
<1>3. CASE n # 0
  <2> HIDE DEF n
  <2>1. \E g : Flattens(g, ss, n)
    <3>1. n \in Nat /\ n \in 1..n
      BY <1>1, <1>3
    <3> QED BY <3>1, FlattenExists
  <2> DEFINE g == CHOOSE h : Flattens(h, ss, n)
  <2>2. Flattens(g, ss, n)
    BY <2>1
  <2>3. FlattenSeq(ss) = g[n]
    BY <1>3 DEF FlattenSeq, n, Flattens
  <2> HIDE DEF g
  <2>4. \A i \in 1..n : g[i] = IF i = 1 THEN ss[i] ELSE g[i - 1] \o ss[i]
    BY <2>2 DEF Flattens
  <2> DEFINE P(i) == /\ g[i] \in Seq(S) /\ ToSet(g[i]) = UNION {ToSet(ss[k]) : k \in 1..i}
                     /\ \A B : Apart(B, i) => Once(g[i], B)
  <2>5. P(1)
    <3>1. g[1] = ss[1] /\ ss[1] \in Seq(S)
      BY <1>1, <1>3, <2>4
    <3>2. 1..1 = {1}
      OBVIOUS
    <3>3. UNION {ToSet(ss[k]) : k \in 1..1} = ToSet(ss[1])
      BY <3>2
    <3>4. \A B : Apart(B, 1) => Once(g[1], B)
      BY <3>1, <3>2
    <3> QED BY <3>1, <3>3, <3>4
  <2>6. ASSUME NEW i \in 2..n, P(i - 1) PROVE P(i)
    <3>1. i \in 1..n /\ i - 1 \in 1..n /\ i # 1 /\ 1..i = (1..(i - 1)) \cup {i} /\ i \notin 1..(i - 1)
      BY <1>1
    <3>2. g[i] = g[i - 1] \o ss[i] /\ ss[i] \in Seq(S) /\ g[i - 1] \in Seq(S)
      BY <1>1, <2>4, <2>6, <3>1
    <3>3. /\ g[i] \in Seq(S) /\ ToSet(g[i]) = ToSet(g[i - 1]) \cup ToSet(ss[i])
          /\ \A B : Once(g[i - 1], B) /\ Once(ss[i], B) /\ ~(Some(g[i - 1], B) /\ Some(ss[i], B))
                    => Once(g[i], B)
      BY <3>2, OnceJoined
    <3>4. ToSet(g[i]) = UNION {ToSet(ss[k]) : k \in 1..i}
      BY <2>6, <3>1, <3>3
    <3>5. ASSUME NEW B, Apart(B, i) PROVE Once(g[i], B)
      <4>1. Once(g[i - 1], B) /\ Once(ss[i], B)
        <5>1. Apart(B, i - 1)
          BY <3>1, <3>5
        <5> QED BY <2>6, <3>1, <3>5, <5>1
      <4>2. ASSUME Some(g[i - 1], B), Some(ss[i], B) PROVE FALSE
        <5>1. PICK x \in ToSet(g[i - 1]) : x \in B
          BY <4>2 DEF Some, ToSet
        <5>2. PICK k \in 1..(i - 1) : x \in ToSet(ss[k])
          BY <2>6, <5>1
        <5>3. Some(ss[k], B)
          BY <5>1, <5>2 DEF Some, ToSet
        <5> QED BY <3>1, <3>5, <4>2, <5>2, <5>3
      <4> QED BY <3>3, <4>1, <4>2
    <3> QED BY <3>3, <3>4, <3>5
  <2>7. \A i \in 1..n : P(i)
    <3> DEFINE T == {i \in 1..n : ~P(i)}
    <3> HIDE DEF P
    <3> SUFFICES ASSUME T # {} PROVE FALSE
      OBVIOUS
    <3>0. T \subseteq Nat
      BY <1>1
    <3>1. PICK i \in T : \A k \in T : i <= k
      <4> HIDE DEF T
      <4> QED BY <3>0, LeastPlace
    <3>2. i # 1
      BY <2>5, <3>1
    <3>3. i \in 2..n /\ i - 1 \in 1..n /\ i - 1 \notin T
      BY <1>1, <3>1, <3>2
    <3> QED BY <2>6, <3>1, <3>3
  <2>8. P(n)
    <3> HIDE DEF P
    <3> QED BY <1>1, <1>3, <2>7
  <2> QED BY <1>1, <2>3, <2>8
<1> QED BY <1>2, <1>3

LEMMA KeptItems ==
  ASSUME NEW S, NEW items \in Seq(S), NEW places \in SUBSET DOMAIN items
  PROVE  /\ Kept(items, places) \in Seq(S) /\ ToSet(Kept(items, places)) = {items[i] : i \in places}
         /\ \A B : (\A i, j \in places : items[i] \in B /\ items[j] \in B => i = j)
                   => Once(Kept(items, places), B)
<1> DEFINE ss == [i \in DOMAIN items |-> IF i \in places THEN <<items[i]>> ELSE <<>>]
<1>1. Len(items) \in Nat /\ DOMAIN items = 1..Len(items) /\ \A i \in 1..Len(items) : items[i] \in S
  OBVIOUS
<1>2. ASSUME NEW i \in 1..Len(items)
      PROVE  /\ ss[i] \in Seq(S) /\ ToSet(ss[i]) = (IF i \in places THEN {items[i]} ELSE {})
             /\ \A B : Once(ss[i], B) /\ (Some(ss[i], B) => i \in places /\ items[i] \in B)
  <2>1. CASE i \in places
    <3>1. ss[i] = <<items[i]>> /\ items[i] \in S
      BY <1>1, <2>1
    <3> HIDE DEF ss
    <3>2. <<items[i]>> \in Seq(S) /\ DOMAIN <<items[i]>> = {1} /\ <<items[i]>>[1] = items[i]
      BY <3>1
    <3> QED BY <2>1, <3>1, <3>2 DEF ToSet, Once, Some
  <2>2. CASE i \notin places
    <3>1. ss[i] = <<>>
      BY <1>1, <2>2
    <3> HIDE DEF ss
    <3>2. <<>> \in Seq(S) /\ DOMAIN <<>> = {}
      OBVIOUS
    <3> QED BY <2>2, <3>1, <3>2 DEF ToSet, Once, Some
  <2> QED BY <2>1, <2>2
<1>3. ss \in Seq(Seq(S)) /\ DOMAIN ss = 1..Len(items)
  <2>1. ss \in [1..Len(items) -> Seq(S)]
    BY <1>1, <1>2
  <2> HIDE DEF ss
  <2> QED BY <1>1, <2>1
<1>4. Kept(items, places) = FlattenSeq(ss)
  BY DEF Kept
<1> HIDE DEF ss
<1>5. /\ FlattenSeq(ss) \in Seq(S)
      /\ ToSet(FlattenSeq(ss)) = UNION {ToSet(ss[k]) : k \in DOMAIN ss}
      /\ \A B : (\A k \in DOMAIN ss : Once(ss[k], B))
                /\ (\A k, l \in DOMAIN ss : Some(ss[k], B) /\ Some(ss[l], B) => k = l)
                => Once(FlattenSeq(ss), B)
  BY <1>3, FlattenJoins
<1>6. ToSet(FlattenSeq(ss)) = {items[i] : i \in places}
  BY <1>1, <1>2, <1>3, <1>5
<1>7. ASSUME NEW B, \A i, j \in places : items[i] \in B /\ items[j] \in B => i = j
      PROVE  Once(FlattenSeq(ss), B)
  BY <1>2, <1>3, <1>5, <1>7
<1> QED BY <1>4, <1>5, <1>6, <1>7

LEMMA CutItems ==
  ASSUME NEW S, NEW s \in Seq(S), NEW n \in 0..Len(s)
  PROVE  LET a == SubSeq(s, 1, n)
             b == SubSeq(s, n + 1, Len(s))
         IN  /\ a \in Seq(S) /\ b \in Seq(S) /\ Len(a) = n
             /\ ToSet(a) \cup ToSet(b) = ToSet(s)
             /\ \A B : Once(s, B) => Once(a, B) /\ Once(b, B) /\ ~(Some(a, B) /\ Some(b, B))
<1> DEFINE a == SubSeq(s, 1, n)
           b == SubSeq(s, n + 1, Len(s))
<1>1. s \in Seq(S) /\ Len(s) \in Nat /\ DOMAIN s = 1..Len(s) /\ n \in Nat /\ n <= Len(s)
      /\ \A i \in 1..Len(s) : s[i] \in S
  OBVIOUS
<1>2. a \in Seq(S) /\ Len(a) = n /\ \A i \in 1..n : a[i] = s[i]
  <2>1. \A i \in 1..n : s[i] \in S
    BY <1>1
  <2>2. /\ a \in Seq(S) /\ Len(a) = IF 1 <= n THEN n - 1 + 1 ELSE 0
        /\ \A i \in 1..(n - 1 + 1) : a[i] = s[1 + i - 1]
    BY <1>1, <2>1, SubSeqProperties, SMT
  <2> HIDE DEF a
  <2> QED BY <1>1, <2>2
<1>3. b \in Seq(S) /\ Len(b) = Len(s) - n /\ \A i \in 1..(Len(s) - n) : b[i] = s[n + i]
  <2>1. \A i \in (n + 1)..Len(s) : s[i] \in S
    BY <1>1
  <2>2. /\ b \in Seq(S)
        /\ Len(b) = IF n + 1 <= Len(s) THEN Len(s) - (n + 1) + 1 ELSE 0
        /\ \A i \in 1..(Len(s) - (n + 1) + 1) : b[i] = s[(n + 1) + i - 1]
    BY <1>1, <2>1, SubSeqProperties, SMT
  <2> HIDE DEF b
  <2>3. Len(b) = Len(s) - n
    <3>1. \A l, k \in Nat : k <= l => (IF k + 1 <= l THEN l - (k + 1) + 1 ELSE 0) = l - k
      OBVIOUS
    <3>2. (IF n + 1 <= Len(s) THEN Len(s) - (n + 1) + 1 ELSE 0) = Len(s) - n
      BY <1>1, <3>1
    <3> QED BY <2>2, <3>2
  <2>4. ASSUME NEW i \in 1..(Len(s) - n) PROVE b[i] = s[n + i]
    <3>1. i \in 1..(Len(s) - (n + 1) + 1) /\ (n + 1) + i - 1 = n + i
      BY <1>1
    <3> QED BY <2>2, <3>1
  <2> QED BY <2>2, <2>3, <2>4
<1> HIDE DEF a, b
<1>4. DOMAIN a = 1..n /\ DOMAIN b = 1..(Len(s) - n)
  BY <1>1, <1>2, <1>3
<1>5. \A i \in 1..n : i \in 1..Len(s)
  BY <1>1
<1>6. \A i \in 1..(Len(s) - n) : n + i \in 1..Len(s) /\ n + i \notin 1..n
  BY <1>1
<1>7. ToSet(a) \cup ToSet(b) = ToSet(s)
  <2>1. ASSUME NEW i \in 1..Len(s) PROVE s[i] \in ToSet(a) \cup ToSet(b)
    <3>1. CASE i <= n
      <4>1. i \in DOMAIN a /\ a[i] = s[i]
        BY <1>1, <1>2, <1>4, <3>1
      <4> QED BY <4>1 DEF ToSet
    <3>2. CASE ~(i <= n)
      <4>1. i - n \in DOMAIN b /\ n + (i - n) = i
        BY <1>1, <1>4, <3>2
      <4>2. b[i - n] = s[i]
        BY <1>3, <1>4, <4>1
      <4> QED BY <4>1, <4>2 DEF ToSet
    <3> QED BY <3>1, <3>2
  <2>2. ToSet(s) \subseteq ToSet(a) \cup ToSet(b)
    BY <1>1, <2>1 DEF ToSet
  <2>3. ToSet(a) \cup ToSet(b) \subseteq ToSet(s)
    BY <1>1, <1>2, <1>3, <1>4, <1>5, <1>6 DEF ToSet
  <2> QED BY <2>2, <2>3
<1>8. ASSUME NEW B, Once(s, B) PROVE Once(a, B) /\ Once(b, B) /\ ~(Some(a, B) /\ Some(b, B))
  <2>1. Once(a, B)
    BY <1>1, <1>2, <1>4, <1>5, <1>8 DEF Once
  <2>2. Once(b, B)
    <3> SUFFICES ASSUME NEW i \in 1..(Len(s) - n), NEW j \in 1..(Len(s) - n), b[i] \in B, b[j] \in B
                 PROVE  i = j
      BY <1>4 DEF Once
    <3>1. n + i = n + j
      BY <1>1, <1>3, <1>6, <1>8 DEF Once
    <3> QED BY <1>1, <3>1
  <2>3. ~(Some(a, B) /\ Some(b, B))
    <3> SUFFICES ASSUME NEW i \in 1..n, NEW j \in 1..(Len(s) - n), a[i] \in B, b[j] \in B
                 PROVE  FALSE
      BY <1>4 DEF Some
    <3>1. i = n + j
      BY <1>1, <1>2, <1>3, <1>5, <1>6, <1>8 DEF Once
    <3> QED BY <1>6, <3>1
  <2> QED BY <2>1, <2>2, <2>3
<1> QED BY <1>2, <1>3, <1>7, <1>8 DEF a, b

-----------------------------------------------------------------------------
(* The items of a zone, and the bags that are removed.                     *)

(* Who is held, in terms of the items.                                     *)
LEMMA HoldsItems ==
  ASSUME NEW s \in Seq(Item), NEW b \in Bag
  PROVE  /\ Holds(s, b) <=> \E x \in ToSet(s) : x.bag = b
         /\ Holds(s, b) <=> Some(s, Of(b))
         /\ ToSet(s) \subseteq Item
<1>1. \A i \in DOMAIN s : s[i] \in Item
  OBVIOUS
<1> QED BY <1>1 DEF Holds, Some, Of, ToSet

(* A set of items with one item for each bag.                              *)
LEMMA RowsInLine ==
  ASSUME NEW S, S \subseteq Item, \A x, y \in S : x.bag = y.bag => x = y
  PROVE  /\ SetToSeq(S) \in Seq(Item) /\ ToSet(SetToSeq(S)) = S
         /\ \A b \in Bag : Once(SetToSeq(S), Of(b))
<1> DEFINE bagOf == [x \in S |-> x.bag]
<1>1. bagOf \in Injection(S, Bag)
  <2>1. bagOf \in [S -> Bag]
    BY DEF Item
  <2>2. \A x, y \in DOMAIN bagOf : bagOf[x] = bagOf[y] => x = y
    OBVIOUS
  <2> HIDE DEF bagOf
  <2> QED BY <2>1, <2>2 DEF Injection, IsInjective
<1>2. IsFiniteSet(Bag)
  BY BaggageAssumption
<1>3. IsFiniteSet(S)
  <2> HIDE DEF bagOf
  <2> QED BY <1>1, <1>2, FS_Injection
<1>4. SetToSeq(S) \in Seq(S) /\ IsInjective(SetToSeq(S)) /\ ToSet(SetToSeq(S)) = S
  BY <1>3, SetInLine DEF Lines
<1> DEFINE s == SetToSeq(S)
<1> HIDE DEF s, bagOf
<1>5. s \in Seq(Item) /\ \A i \in DOMAIN s : s[i] \in S
  <2>1. s \in Seq(S)
    BY <1>4 DEF s
  <2> QED BY <2>1
<1>6. ASSUME NEW b \in Bag PROVE Once(s, Of(b))
  <2>1. \A i, j \in DOMAIN s : s[i] = s[j] => i = j
    BY <1>4 DEF IsInjective, s
  <2> QED BY <1>5, <2>1 DEF Once, Of
<1> QED BY <1>4, <1>5, <1>6 DEF s
-----------------------------------------------------------------------------
Removed(q, bags, z) == {i \in DOMAIN q[z] : q[z][i].bag \in bags => ~FirstPlace(q, z, i)}

LEMMA RemovedBags ==
  ASSUME NEW q \in [Zone -> Seq(Item)], NEW bags \in SUBSET Bag
  PROVE  LET r == remove_bag_from_all_zones(q, bags)
         IN  /\ r \in [Zone -> Seq(Item)]
             /\ \A z \in Zone : ToSet(r[z]) \subseteq ToSet(q[z])
             /\ \A b \in Bag : Single(q, b) => Single(r, b)
             /\ \A b \in bags : Single(q, b) => ~Found(r, b)
             /\ \A b \in Bag \ bags : \A z \in Zone : Holds(r[z], b) <=> Holds(q[z], b)
<1> DEFINE r == remove_bag_from_all_zones(q, bags)
<1>1. \A z \in Zone : q[z] \in Seq(Item) /\ Removed(q, bags, z) \in SUBSET DOMAIN q[z]
  BY DEF Removed
<1>2. r = [z \in Zone |-> Kept(q[z], Removed(q, bags, z))]
  BY DEF remove_bag_from_all_zones, Removed
<1> HIDE DEF r
<1>3. ASSUME NEW z \in Zone
      PROVE  /\ r[z] \in Seq(Item) /\ ToSet(r[z]) = {q[z][i] : i \in Removed(q, bags, z)}
             /\ \A B : (\A i, j \in Removed(q, bags, z) : q[z][i] \in B /\ q[z][j] \in B => i = j)
                       => Once(r[z], B)
  BY <1>1, <1>2, KeptItems
<1>4. r \in [Zone -> Seq(Item)]
  BY <1>2, <1>3
<1>5. ASSUME NEW z \in Zone PROVE ToSet(r[z]) \subseteq ToSet(q[z])
  <2>1. Removed(q, bags, z) \subseteq DOMAIN q[z]
    BY <1>1
  <2>2. \A x \in ToSet(r[z]) : \E i \in DOMAIN q[z] : x = q[z][i]
    BY <1>3, <2>1
  <2> QED BY <2>2 DEF ToSet
<1>6. ASSUME NEW b \in Bag, NEW z \in Zone, Once(q[z], Of(b)) PROVE Once(r[z], Of(b))
  BY <1>1, <1>3, <1>6 DEF Once
<1>7. ASSUME NEW b \in Bag, NEW z \in Zone, Holds(r[z], b) PROVE Holds(q[z], b)
  BY <1>1, <1>3, <1>5, <1>7, HoldsItems
<1>8. ASSUME NEW b \in Bag, Single(q, b) PROVE Single(r, b)
  BY <1>6, <1>7, <1>8 DEF Single
<1>9. ASSUME NEW b \in bags, Single(q, b) PROVE ~Found(r, b)
  <2> SUFFICES ASSUME NEW z \in Zone, Holds(r[z], b) PROVE FALSE
    BY DEF Found
  <2>1. PICK x \in ToSet(r[z]) : x.bag = b
    BY <1>3, HoldsItems
  <2>2. PICK i \in Removed(q, bags, z) : q[z][i].bag = b
    BY <1>3, <2>1
  <2>3. i \in DOMAIN q[z] /\ ~FirstPlace(q, z, i)
    BY <1>9, <2>2 DEF Removed
  <2>4. z = _find_bag_current_zone(q, b)
    <3>1. Holds(q[z], b)
      BY <2>2, <2>3 DEF Holds
    <3> QED BY <1>9, <3>1 DEF Single, _find_bag_current_zone
  <2>5. PICK j \in 1..(i - 1) : q[z][j].bag = b
    BY <2>2, <2>3, <2>4 DEF FirstPlace
  <2>6. j \in DOMAIN q[z] /\ j # i /\ q[z][j] \in Of(b) /\ q[z][i] \in Of(b)
    <3>1. DOMAIN q[z] = 1..Len(q[z]) /\ Len(q[z]) \in Nat /\ \A k \in DOMAIN q[z] : q[z][k] \in Item
      BY <1>1
    <3>2. j \in DOMAIN q[z] /\ j # i
      BY <2>3, <2>5, <3>1
    <3> QED BY <2>2, <2>3, <2>5, <3>1, <3>2 DEF Of
  <2> QED BY <1>9, <2>3, <2>6 DEF Single, Once
<1>10. ASSUME NEW b \in Bag \ bags, NEW z \in Zone, Holds(q[z], b) PROVE Holds(r[z], b)
  <2>1. PICK i \in DOMAIN q[z] : q[z][i].bag = b
    BY <1>10 DEF Holds
  <2>2. i \in Removed(q, bags, z)
    BY <2>1 DEF Removed
  <2>3. q[z][i] \in ToSet(r[z]) /\ r[z] \in Seq(Item)
    BY <1>3, <2>2
  <2> QED BY <2>1, <2>3, HoldsItems
<1> QED BY <1>4, <1>5, <1>7, <1>8, <1>9, <1>10 DEF r

-----------------------------------------------------------------------------
(* Routing over the zones that are up.                                     *)

LEMMA PicksOne ==
  ASSUME NEW zones \in Seq(Zone) \ {<<>>}, NEW turn \in Nat, NEW i \in Nat \ {0}
  PROVE  _pick_zone(zones, turn, i) \in ToSet(zones)
<1> DEFINE P == {k \in DOMAIN zones : zones[k] \notin offline}
           up == Available(zones)
<1>1. up = Kept(zones, P) /\ P \in SUBSET DOMAIN zones
  BY DEF Available
<1>2. up \in Seq(Zone) /\ ToSet(up) = {zones[k] : k \in P}
  <2> HIDE DEF P
  <2> QED BY <1>1, KeptItems
<1>3. ToSet(up) \subseteq ToSet(zones)
  BY <1>2 DEF ToSet
<1>4. CASE up = <<>>
  <2>1. 1 \in DOMAIN zones /\ Head(zones) = zones[1]
    OBVIOUS
  <2> QED BY <1>4, <2>1 DEF _pick_zone, ToSet
<1>5. CASE up # <<>>
  <2> HIDE DEF up, P
  <2>1. Len(up) \in Nat \ {0} /\ DOMAIN up = 1..Len(up)
    BY <1>2, <1>5
  <2>2. turn + i - 1 \in Int /\ \A l \in Nat \ {0}, k \in Int : 1 + (k % l) \in 1..l
    OBVIOUS
  <2>3. 1 + ((turn + i - 1) % Len(up)) \in DOMAIN up
    BY <2>1, <2>2
  <2>4. up[1 + ((turn + i - 1) % Len(up))] \in ToSet(up)
    BY <2>3 DEF ToSet
  <2> QED BY <1>3, <1>5, <2>4 DEF _pick_zone, up
<1> QED BY <1>4, <1>5

LEMMA NextTurnNumber ==
  ASSUME NEW zones \in Seq(Zone), NEW turn \in Nat, NEW n \in Nat
  PROVE  NextTurn(zones, turn, n) \in Nat
<1> DEFINE P == {k \in DOMAIN zones : zones[k] \notin offline}
           up == Available(zones)
<1>1. up = Kept(zones, P) /\ P \in SUBSET DOMAIN zones
  BY DEF Available
<1>2. up \in Seq(Zone)
  <2> HIDE DEF P
  <2> QED BY <1>1, KeptItems
<1>3. CASE up = <<>> \/ n = 0
  BY <1>3 DEF NextTurn
<1>4. CASE ~(up = <<>> \/ n = 0)
  <2> HIDE DEF up, P
  <2>1. Len(up) \in Nat \ {0}
    BY <1>2, <1>4
  <2>2. turn + n - 1 \in Int /\ \A l \in Nat \ {0}, k \in Int : 1 + (k % l) \in Nat
    OBVIOUS
  <2> QED BY <1>4, <2>1, <2>2 DEF NextTurn, up
<1> QED BY <1>3, <1>4
-----------------------------------------------------------------------------
(* Lines of bags, one at each terminal, routed to the zones of it.         *)
Routing(items, zones, turn, z) == {i \in DOMAIN items : _pick_zone(zones, turn, i) = z}
Route(lines, zonesOf, turnOf, z) ==
  FlattenSeq([i \in DOMAIN Terminals |->
    Routed(lines[Terminals[i]], zonesOf[Terminals[i]], turnOf[Terminals[i]], z)])
Apart(lines, b) ==
  /\ \A t \in Terminal : Once(lines[t], Of(b))
  /\ \A t, u \in Terminal : Holds(lines[t], b) /\ Holds(lines[u], b) => t = u

LEMMA TerminalsInOrder ==
  /\ Terminals \in Seq(Terminal) /\ DOMAIN Terminals = 1..Len(Terminals) /\ Len(Terminals) \in Nat
  /\ \A i \in DOMAIN Terminals : Terminals[i] \in Terminal
  /\ \A t \in Terminal : \E i \in DOMAIN Terminals : Terminals[i] = t
  /\ \A i, j \in DOMAIN Terminals : Terminals[i] = Terminals[j] => i = j
<1>1. Terminals \in Seq(Terminal) /\ \A i, j \in DOMAIN Terminals : Terminals[i] = Terminals[j] => i = j
  BY BaggageAssumption DEF IsInjective
<1>2. \A i \in DOMAIN Terminals : Terminals[i] \in Terminal
  BY DEF Terminal, ToSet
<1>3. \A t \in Terminal : \E i \in DOMAIN Terminals : Terminals[i] = t
  BY DEF Terminal, ToSet
<1> HIDE DEF Terminal
<1>4. DOMAIN Terminals = 1..Len(Terminals) /\ Len(Terminals) \in Nat
  BY <1>1
<1> QED BY <1>1, <1>2, <1>3, <1>4

LEMMA Routes ==
  ASSUME NEW lines \in [Terminal -> Seq(Item)], NEW zonesOf \in [Terminal -> Seq(Zone) \ {<<>>}],
         NEW turnOf \in [Terminal -> Nat]
  PROVE  LET r(z) == Route(lines, zonesOf, turnOf, z)
         IN  /\ \A z : r(z) \in Seq(Item) /\ \A x \in ToSet(r(z)) : \E t \in Terminal : x \in ToSet(lines[t])
             /\ \A b \in Bag : Apart(lines, b) =>
                  /\ \A z : Once(r(z), Of(b))
                  /\ \A y, z : Holds(r(y), b) /\ Holds(r(z), b) => y = z
             /\ \A t \in Terminal : \A x \in ToSet(lines[t]) :
                  \E z \in ToSet(zonesOf[t]) : x \in ToSet(r(z))
<1> DEFINE r(z)  == Route(lines, zonesOf, turnOf, z)
           at(t, z) == Routing(lines[t], zonesOf[t], turnOf[t], z)
           part(t, z) == Routed(lines[t], zonesOf[t], turnOf[t], z)
           parts(z) == [i \in DOMAIN Terminals |-> part(Terminals[i], z)]
<1>1. \A t, z : part(t, z) = Kept(lines[t], at(t, z)) /\ at(t, z) \in SUBSET DOMAIN lines[t]
  BY DEF Routed, Routing
<1>2. \A z : r(z) = FlattenSeq(parts(z))
  BY DEF Route
<1>3. \A t \in Terminal : lines[t] \in Seq(Item)
  OBVIOUS
<1>0. \A z : \A i \in DOMAIN Terminals : parts(z)[i] = part(Terminals[i], z)
  OBVIOUS
<1>a. \A z : parts(z) \in [DOMAIN Terminals -> {part(t, z) : t \in Terminal}] /\ DOMAIN parts(z) = DOMAIN Terminals
  BY TerminalsInOrder
<1>b. \A t, z : \A i : i \in at(t, z) <=>
        i \in DOMAIN lines[t] /\ _pick_zone(zonesOf[t], turnOf[t], i) = z
  BY DEF Routing
<1> HIDE DEF r, at, part, parts
<1>4. ASSUME NEW z, NEW t \in Terminal
      PROVE  /\ part(t, z) \in Seq(Item) /\ ToSet(part(t, z)) = {lines[t][i] : i \in at(t, z)}
             /\ \A B : (\A i, j \in at(t, z) : lines[t][i] \in B /\ lines[t][j] \in B => i = j)
                       => Once(part(t, z), B)
  BY <1>1, <1>3, KeptItems
<1>5. ASSUME NEW z
      PROVE  parts(z) \in Seq(Seq(Item))
  <2> DEFINE p == parts(z)
             N == Len(Terminals)
  <2>1. p \in [1..N -> Seq(Item)] /\ N \in Nat
    BY <1>4, <1>a, TerminalsInOrder
  <2> HIDE DEF p, N
  <2>2. p \in Seq(Seq(Item))
    BY <2>1
  <2> QED BY <2>2 DEF p
<1>6. ASSUME NEW z
      PROVE  /\ r(z) \in Seq(Item)
             /\ ToSet(r(z)) = UNION {ToSet(parts(z)[k]) : k \in DOMAIN parts(z)}
             /\ \A B : (\A k \in DOMAIN parts(z) : Once(parts(z)[k], B))
                   /\ (\A k, l \in DOMAIN parts(z) :
                         Some(parts(z)[k], B) /\ Some(parts(z)[l], B) => k = l)
                   => Once(r(z), B)
  BY <1>2, <1>5, FlattenJoins
<1>7. ASSUME NEW z, NEW x
      PROVE  x \in ToSet(r(z)) <=>
               \E t \in Terminal : \E i \in at(t, z) : x = lines[t][i]
  <2>1. x \in ToSet(r(z)) <=> \E k \in DOMAIN Terminals : x \in ToSet(part(Terminals[k], z))
    BY <1>0, <1>6, <1>a
  <2>2. x \in ToSet(r(z)) <=> \E t \in Terminal : x \in ToSet(part(t, z))
    BY <2>1, TerminalsInOrder
  <2> QED BY <1>4, <2>2
<1>8. ASSUME NEW z, NEW x \in ToSet(r(z)) PROVE \E t \in Terminal : x \in ToSet(lines[t])
  <2>1. PICK t \in Terminal : \E i \in at(t, z) : x = lines[t][i]
    BY <1>7
  <2>2. \E i \in DOMAIN lines[t] : x = lines[t][i]
    BY <1>1, <2>1
  <2> QED BY <2>2 DEF ToSet
<1>9. ASSUME NEW t \in Terminal, NEW x \in ToSet(lines[t])
      PROVE  \E z \in ToSet(zonesOf[t]) : x \in ToSet(r(z))
  <2>1. PICK i \in DOMAIN lines[t] : x = lines[t][i]
    BY DEF ToSet
  <2>2. i \in Nat \ {0}
    BY <1>3
  <2> DEFINE z == _pick_zone(zonesOf[t], turnOf[t], i)
  <2>3. z \in ToSet(zonesOf[t])
    BY <2>2, PicksOne
  <2>4. i \in at(t, z)
    BY <1>b
  <2> HIDE DEF z
  <2> QED BY <1>7, <2>1, <2>3, <2>4
<1>10. ASSUME NEW b \in Bag, Apart(lines, b)
       PROVE  /\ \A z : Once(r(z), Of(b))
              /\ \A y, z : Holds(r(y), b) /\ Holds(r(z), b) => y = z
  <2>1. \A t \in Terminal : \A i \in DOMAIN lines[t] : lines[t][i] \in Item
    BY <1>3
  <2>2. ASSUME NEW t \in Terminal, NEW u \in Terminal, NEW i \in DOMAIN lines[t],
               NEW j \in DOMAIN lines[u], lines[t][i].bag = b, lines[u][j].bag = b
        PROVE  t = u /\ i = j
    <3>1. Holds(lines[t], b) /\ Holds(lines[u], b)
      BY <2>2 DEF Holds
    <3>2. t = u
      BY <1>10, <3>1 DEF Apart
    <3>3. lines[t][i] \in Of(b) /\ lines[t][j] \in Of(b)
      BY <2>1, <2>2, <3>2 DEF Of
    <3> QED BY <1>10, <2>2, <3>2, <3>3 DEF Apart, Once
  <2>3. ASSUME NEW z PROVE Once(r(z), Of(b))
    <3>1. \A t \in Terminal : Once(part(t, z), Of(b))
      BY <1>1, <1>4, <2>2 DEF Of
    <3>2. ASSUME NEW t \in Terminal, Some(part(t, z), Of(b))
          PROVE  \E i \in DOMAIN lines[t] : lines[t][i].bag = b
      <4>1. PICK x \in ToSet(part(t, z)) : x.bag = b
        BY <3>2 DEF Some, ToSet, Of
      <4> QED BY <1>1, <1>4, <4>1
    <3>3. \A t, u \in Terminal : Some(part(t, z), Of(b)) /\ Some(part(u, z), Of(b)) => t = u
      BY <2>2, <3>2
    <3>4. \A k \in DOMAIN parts(z) : k \in DOMAIN Terminals /\ Terminals[k] \in Terminal
             /\ parts(z)[k] = part(Terminals[k], z)
      BY <1>0, <1>a, TerminalsInOrder
    <3>5. \A k \in DOMAIN parts(z) : Once(parts(z)[k], Of(b))
      BY <3>1, <3>4
    <3>6. \A k, l \in DOMAIN parts(z) :
            Some(parts(z)[k], Of(b)) /\ Some(parts(z)[l], Of(b)) => k = l
      BY <3>3, <3>4, TerminalsInOrder
    <3> QED BY <1>6, <3>5, <3>6
  <2>4. ASSUME NEW z, Holds(r(z), b)
        PROVE  \E t \in Terminal : \E i \in DOMAIN lines[t] :
                 lines[t][i].bag = b /\ _pick_zone(zonesOf[t], turnOf[t], i) = z
    <3>1. PICK x \in ToSet(r(z)) : x.bag = b
      BY <1>6, <2>4, HoldsItems
    <3> QED BY <1>7, <1>b, <3>1
  <2>5. \A y, z : Holds(r(y), b) /\ Holds(r(z), b) => y = z
    BY <2>2, <2>4
  <2> QED BY <2>3, <2>5
<1> QED BY <1>6, <1>8, <1>9, <1>10 DEF r
-----------------------------------------------------------------------------
(* The zones.                                                              *)
LEMMA Zones ==
  /\ Units \in Seq(Zone) /\ IsInjective(Units) /\ Sorting \in Zone
  /\ ToSet(Units) = UNION {ToSet(TERMINAL_SCREENING[t]) : t \in Terminal}
  /\ Inductions \subseteq Zone /\ ToSet(Units) \subseteq Zone /\ MakeUps \subseteq Zone /\ Belts \subseteq Zone
  /\ \A t \in Terminal : Induction[t] \in Inductions
  /\ \A t, u \in Terminal : Induction[t] = Induction[u] => t = u
  /\ \A t \in Terminal : ToSet(TERMINAL_MAKEUP[t]) \subseteq MakeUps
  /\ Sorting \notin Inductions \cup ToSet(Units) \cup MakeUps \cup Belts
  /\ Inductions \cap (ToSet(Units) \cup MakeUps \cup Belts) = {}
  /\ ToSet(Units) \cap (MakeUps \cup Belts) = {} /\ MakeUps \cap Belts = {}
<1> DEFINE ss == [i \in DOMAIN Terminals |-> TERMINAL_SCREENING[Terminals[i]]]
<1>1. \A i \in DOMAIN Terminals : ss[i] = TERMINAL_SCREENING[Terminals[i]] /\ ss[i] \in Seq(Zone)
  BY TerminalsInOrder, BaggageAssumption
<1>2. ss \in [1..Len(Terminals) -> Seq(Zone)]
  BY <1>1, TerminalsInOrder
<1>3. Units = FlattenSeq(ss)
  BY DEF Units
<1> HIDE DEF ss
<1>4. ss \in Seq(Seq(Zone)) /\ DOMAIN ss = DOMAIN Terminals
  <2> DEFINE N == Len(Terminals)
  <2>1. ss \in [1..N -> Seq(Zone)] /\ N \in Nat
    BY <1>2, TerminalsInOrder
  <2>2. DOMAIN ss = DOMAIN Terminals
    BY <1>2, TerminalsInOrder
  <2> HIDE DEF N
  <2> QED BY <2>1, <2>2
<1>5. Units \in Seq(Zone) /\ ToSet(Units) = UNION {ToSet(ss[k]) : k \in DOMAIN ss}
  BY <1>3, <1>4, FlattenJoins
<1>6. ToSet(Units) = UNION {ToSet(TERMINAL_SCREENING[t]) : t \in Terminal}
  BY <1>1, <1>4, <1>5, TerminalsInOrder
<1>7. ToSet(Units) \subseteq Zone
  BY <1>5 DEF ToSet
<1>8. MakeUps \subseteq Zone
  <2>1. \A t \in Terminal : \A i \in DOMAIN TERMINAL_MAKEUP[t] : TERMINAL_MAKEUP[t][i] \in Zone
    BY BaggageAssumption
  <2> QED BY <2>1 DEF MakeUps, ToSet
<1>9. Inductions \subseteq Zone /\ Belts \subseteq Zone /\ Sorting \in Zone
  BY BaggageAssumption DEF Inductions, Belts
<1>10. /\ \A t \in Terminal : Induction[t] \in Inductions
       /\ \A t, u \in Terminal : Induction[t] = Induction[u] => t = u
       /\ \A t \in Terminal : ToSet(TERMINAL_MAKEUP[t]) \subseteq MakeUps
  BY BaggageAssumption DEF Inductions, MakeUps, IsInjective
<1> QED BY <1>5, <1>6, <1>7, <1>8, <1>9, <1>10, BaggageAssumption

-----------------------------------------------------------------------------
(* What flows into a zone in a tick.                                       *)

(* What left the sorter for a terminal, what left the inductions, and the  *)
(* zones whose bags are conveyed to another one.                           *)
SortedPlaces(out, t) == {i \in DOMAIN out[Sorting] : TerminalOf[out[Sorting][i].flight] = t}
InductedLines(out) == [t \in Terminal |-> out[Induction[t]]]
SortedLines(out)   == [t \in Terminal |-> SortedFor(out, t)]
Conveyed == Inductions \cup ToSet(Units) \cup {Sorting}

LEMMA SortedItems ==
  ASSUME NEW out \in [Zone -> Seq(Item)], \A x \in ToSet(out[Sorting]) : x.flight \in Departing
  PROVE  /\ SortedLines(out) \in [Terminal -> Seq(Item)]
         /\ \A t \in Terminal : ToSet(SortedFor(out, t)) \subseteq ToSet(out[Sorting])
         /\ \A x \in ToSet(out[Sorting]) : \E t \in Terminal : x \in ToSet(SortedFor(out, t))
         /\ \A b \in Bag : Single(out, b) => Apart(SortedLines(out), b)
<1>1. out[Sorting] \in Seq(Item) /\ \A i \in DOMAIN out[Sorting] : out[Sorting][i] \in Item
  BY Zones
<1>2. \A t : SortedFor(out, t) = Kept(out[Sorting], SortedPlaces(out, t))
             /\ SortedPlaces(out, t) \in SUBSET DOMAIN out[Sorting]
  BY DEF SortedFor, SortedPlaces
<1>3. ASSUME NEW t \in Terminal
      PROVE  /\ SortedFor(out, t) \in Seq(Item)
             /\ ToSet(SortedFor(out, t)) = {out[Sorting][i] : i \in SortedPlaces(out, t)}
             /\ \A B : (\A i, j \in SortedPlaces(out, t) :
                          out[Sorting][i] \in B /\ out[Sorting][j] \in B => i = j)
                       => Once(SortedFor(out, t), B)
  BY <1>1, <1>2, KeptItems
<1>4. SortedLines(out) \in [Terminal -> Seq(Item)]
      /\ \A t \in Terminal : SortedLines(out)[t] = SortedFor(out, t)
  BY <1>3 DEF SortedLines
<1>5. \A t \in Terminal : ToSet(SortedFor(out, t)) \subseteq ToSet(out[Sorting])
  <2> TAKE t \in Terminal
  <2>1. SortedPlaces(out, t) \subseteq DOMAIN out[Sorting]
    BY <1>2
  <2>2. \A x \in ToSet(SortedFor(out, t)) : \E i \in DOMAIN out[Sorting] : x = out[Sorting][i]
    BY <1>3, <2>1
  <2> QED BY <2>2 DEF ToSet
<1>6. ASSUME NEW x \in ToSet(out[Sorting])
      PROVE  \E t \in Terminal : x \in ToSet(SortedFor(out, t))
  <2>1. PICK i \in DOMAIN out[Sorting] : x = out[Sorting][i]
    BY DEF ToSet
  <2>2. TerminalOf[x.flight] \in Terminal
    BY BaggageAssumption
  <2>3. i \in SortedPlaces(out, TerminalOf[x.flight])
    BY <2>1 DEF SortedPlaces
  <2> QED BY <1>3, <2>1, <2>2, <2>3
<1>7. ASSUME NEW b \in Bag, Single(out, b) PROVE Apart(SortedLines(out), b)
  <2>1. \A i, j \in DOMAIN out[Sorting] :
          out[Sorting][i].bag = b /\ out[Sorting][j].bag = b => i = j
    BY <1>1, <1>7, Zones DEF Single, Once, Of
  <2>2. \A t \in Terminal : Once(SortedFor(out, t), Of(b))
    BY <1>2, <1>3, <2>1 DEF Of
  <2>3. ASSUME NEW t \in Terminal, Holds(SortedFor(out, t), b)
        PROVE  \E i \in DOMAIN out[Sorting] :
                 out[Sorting][i].bag = b /\ TerminalOf[out[Sorting][i].flight] = t
    <3>1. PICK x \in ToSet(SortedFor(out, t)) : x.bag = b
      BY <1>3, <2>3, HoldsItems
    <3> QED BY <1>3, <3>1 DEF SortedPlaces
  <2>4. \A t, u \in Terminal : Holds(SortedFor(out, t), b) /\ Holds(SortedFor(out, u), b) => t = u
    BY <2>1, <2>3
  <2> QED BY <1>4, <2>2, <2>4 DEF Apart
<1> QED BY <1>4, <1>5, <1>6, <1>7

LEMMA InductedItems ==
  ASSUME NEW out \in [Zone -> Seq(Item)]
  PROVE  /\ InductedLines(out) \in [Terminal -> Seq(Item)]
         /\ \A b \in Bag : Single(out, b) => Apart(InductedLines(out), b)
<1>1. InductedLines(out) \in [Terminal -> Seq(Item)]
      /\ \A t \in Terminal : InductedLines(out)[t] = out[Induction[t]] /\ Induction[t] \in Zone
  BY Zones DEF InductedLines
<1>2. ASSUME NEW b \in Bag, Single(out, b) PROVE Apart(InductedLines(out), b)
  <2>1. \A t \in Terminal : Once(out[Induction[t]], Of(b))
    BY <1>1, <1>2 DEF Single
  <2>2. \A t, u \in Terminal :
          Holds(out[Induction[t]], b) /\ Holds(out[Induction[u]], b) => t = u
    BY <1>1, <1>2, Zones DEF Single
  <2> QED BY <1>1, <2>1, <2>2 DEF Apart
<1> QED BY <1>1, <1>2

LEMMA InflowCases ==
  ASSUME NEW out, NEW z \in Zone
  PROVE  LET toSorting == FlattenSeq([n \in DOMAIN Units |-> out[Units[n]]])
             toUnit == FlattenSeq([i \in DOMAIN Terminals |->
                         Routed(out[Induction[Terminals[i]]], TERMINAL_SCREENING[Terminals[i]],
                                screening_turn[Terminals[i]], z)])
             toMakeUp == FlattenSeq([i \in DOMAIN Terminals |->
                           Routed(SortedFor(out, Terminals[i]), TERMINAL_MAKEUP[Terminals[i]],
                                  makeup_turn[Terminals[i]], z)])
         IN  /\ z = Sorting => Inflow(out, z) = toSorting
             /\ z \in ToSet(Units) => Inflow(out, z) = toUnit
             /\ z \in MakeUps => Inflow(out, z) = toMakeUp
             /\ z \notin {Sorting} \cup ToSet(Units) \cup MakeUps => Inflow(out, z) = <<>>
<1> DEFINE toSorting == FlattenSeq([n \in DOMAIN Units |-> out[Units[n]]])
           toUnit == FlattenSeq([i \in DOMAIN Terminals |->
                       Routed(out[Induction[Terminals[i]]], TERMINAL_SCREENING[Terminals[i]],
                              screening_turn[Terminals[i]], z)])
           toMakeUp == FlattenSeq([i \in DOMAIN Terminals |->
                         Routed(SortedFor(out, Terminals[i]), TERMINAL_MAKEUP[Terminals[i]],
                                makeup_turn[Terminals[i]], z)])
<1>1. Inflow(out, z) = CASE z = Sorting -> toSorting [] z \in ToSet(Units) -> toUnit
                         [] z \in MakeUps -> toMakeUp [] OTHER -> <<>>
  BY Zenon DEF Inflow
<1> HIDE DEF toSorting, toUnit, toMakeUp
<1>2. /\ z = Sorting => Inflow(out, z) = toSorting
      /\ z \in ToSet(Units) => Inflow(out, z) = toUnit
      /\ z \in MakeUps => Inflow(out, z) = toMakeUp
      /\ z \notin {Sorting} \cup ToSet(Units) \cup MakeUps => Inflow(out, z) = <<>>
  BY <1>1, Zones
<1> QED BY <1>2 DEF toSorting, toUnit, toMakeUp

(* What enters a zone is what has left the zone before.                    *)
Inflowing(out, z) ==
  /\ Inflow(out, z) \in Seq(Item)
  /\ \A x \in ToSet(Inflow(out, z)) : \E y \in Zone : z \in After(y) /\ x \in ToSet(out[y])
  /\ \A b \in Bag : Single(out, b) => Once(Inflow(out, z), Of(b))

LEMMA InflowOfSorting ==
  ASSUME NEW out \in [Zone -> Seq(Item)]
  PROVE  Inflowing(out, Sorting)
         /\ \A y \in ToSet(Units) : \A x \in ToSet(out[y]) : x \in ToSet(Inflow(out, Sorting))
<1> DEFINE ss == [n \in DOMAIN Units |-> out[Units[n]]]
<1>1. \A n \in DOMAIN Units : Units[n] \in Zone /\ Units[n] \in ToSet(Units) /\ ss[n] = out[Units[n]]
  BY Zones DEF ToSet
<1>2. Inflow(out, Sorting) = FlattenSeq(ss)
  BY Zones, InflowCases
<1>3. ss \in [DOMAIN Units -> Seq(Item)]
  BY <1>1
<1> HIDE DEF ss
<1>4. ss \in Seq(Seq(Item)) /\ DOMAIN ss = DOMAIN Units
  <2> DEFINE N == Len(Units)
             U == Units
  <2>1. U \in Seq(Zone) /\ N = Len(U) /\ ss \in [DOMAIN U -> Seq(Item)]
    BY <1>3, Zones
  <2> HIDE DEF N, U
  <2>2. N \in Nat /\ DOMAIN U = 1..N
    BY <2>1
  <2>3. ss \in [1..N -> Seq(Item)] /\ DOMAIN ss = DOMAIN U
    BY <2>1, <2>2
  <2>4. ss \in Seq(Seq(Item))
    BY <2>2, <2>3
  <2> QED BY <2>3, <2>4 DEF U
<1>5. /\ FlattenSeq(ss) \in Seq(Item)
      /\ ToSet(FlattenSeq(ss)) = UNION {ToSet(ss[k]) : k \in DOMAIN ss}
      /\ \A B : (\A k \in DOMAIN ss : Once(ss[k], B))
                /\ (\A k, l \in DOMAIN ss : Some(ss[k], B) /\ Some(ss[l], B) => k = l)
                => Once(FlattenSeq(ss), B)
  BY <1>4, FlattenJoins
<1>6. \A x : x \in ToSet(FlattenSeq(ss)) <=> \E y \in ToSet(Units) : x \in ToSet(out[y])
  <2>1. \A x : x \in ToSet(FlattenSeq(ss)) <=> \E n \in DOMAIN Units : x \in ToSet(out[Units[n]])
    BY <1>1, <1>4, <1>5
  <2>2. \A y : y \in ToSet(Units) <=> \E n \in DOMAIN Units : y = Units[n]
    BY DEF ToSet
  <2> QED BY <2>1, <2>2
<1>7. \A y \in ToSet(Units) : y \in Zone /\ Sorting \in After(y)
  BY Zones DEF After
<1>8. ASSUME NEW b \in Bag, Single(out, b) PROVE Once(FlattenSeq(ss), Of(b))
  <2>1. \A n \in DOMAIN Units : Once(ss[n], Of(b))
    BY <1>1, <1>8 DEF Single
  <2>2. \A n \in DOMAIN Units : Some(ss[n], Of(b)) => Holds(out[Units[n]], b)
    BY <1>1, HoldsItems
  <2>3. \A n, m \in DOMAIN Units : Some(ss[n], Of(b)) /\ Some(ss[m], Of(b)) => n = m
    <3>1. \A n, m \in DOMAIN Units : Units[n] = Units[m] => n = m
      BY Zones DEF IsInjective
    <3> QED BY <1>1, <1>8, <2>2, <3>1 DEF Single
  <2> QED BY <1>4, <1>5, <2>1, <2>3
<1> QED BY <1>2, <1>5, <1>6, <1>7, <1>8 DEF Inflowing

LEMMA InflowOfUnits ==
  ASSUME NEW out \in [Zone -> Seq(Item)], TurnsOK
  PROVE  /\ \A z \in ToSet(Units) : Inflowing(out, z)
         /\ \A y \in Inductions : \A x \in ToSet(out[y]) :
              \E z \in ToSet(Units) : x \in ToSet(Inflow(out, z))
         /\ \A b \in Bag : Single(out, b) => \A y, z \in ToSet(Units) :
              Holds(Inflow(out, y), b) /\ Holds(Inflow(out, z), b) => y = z
<1> DEFINE lines == InductedLines(out)
           r(z) == Route(lines, TERMINAL_SCREENING, screening_turn, z)
<1>1. /\ lines \in [Terminal -> Seq(Item)]
      /\ \A t \in Terminal : lines[t] = out[Induction[t]]
      /\ \A b \in Bag : Single(out, b) => Apart(lines, b)
  BY InductedItems DEF InductedLines
<1>2. \A z \in ToSet(Units) : Inflow(out, z) = r(z)
  <2>1. \A i \in DOMAIN Terminals : lines[Terminals[i]] = out[Induction[Terminals[i]]]
    BY <1>1, TerminalsInOrder
  <2> TAKE z \in ToSet(Units)
  <2>3. [i \in DOMAIN Terminals |->
           Routed(out[Induction[Terminals[i]]], TERMINAL_SCREENING[Terminals[i]],
                  screening_turn[Terminals[i]], z)]
        = [i \in DOMAIN Terminals |->
             Routed(lines[Terminals[i]], TERMINAL_SCREENING[Terminals[i]],
                    screening_turn[Terminals[i]], z)]
    BY <2>1
  <2>4. z \in Zone
    BY Zones
  <2>5. Inflow(out, z) = FlattenSeq([i \in DOMAIN Terminals |->
           Routed(out[Induction[Terminals[i]]], TERMINAL_SCREENING[Terminals[i]],
                  screening_turn[Terminals[i]], z)])
    BY <2>4, InflowCases
  <2> QED BY <2>3, <2>5 DEF Route
<1>3. /\ \A z : r(z) \in Seq(Item) /\ \A x \in ToSet(r(z)) : \E t \in Terminal : x \in ToSet(lines[t])
      /\ \A b \in Bag : Apart(lines, b) =>
           /\ \A z : Once(r(z), Of(b))
           /\ \A y, z : Holds(r(y), b) /\ Holds(r(z), b) => y = z
      /\ \A t \in Terminal : \A x \in ToSet(lines[t]) :
           \E z \in ToSet(TERMINAL_SCREENING[t]) : x \in ToSet(r(z))
  <2>1. TERMINAL_SCREENING \in [Terminal -> Seq(Zone) \ {<<>>}] /\ screening_turn \in [Terminal -> Nat]
    BY BaggageAssumption DEF TurnsOK
  <2> HIDE DEF lines
  <2> QED BY <1>1, <2>1, Routes
<1> HIDE DEF lines, r
<1>4. \A z \in ToSet(Units) : \A t \in Terminal : Induction[t] \in Zone /\ z \in After(Induction[t])
  BY Zones DEF After
<1>5. \A y \in Inductions : \E t \in Terminal : y = Induction[t]
  BY DEF Inductions
<1>6. \A t \in Terminal : ToSet(TERMINAL_SCREENING[t]) \subseteq ToSet(Units)
  BY Zones
<1>7. ASSUME NEW z \in ToSet(Units) PROVE Inflowing(out, z)
  <2>1. Inflow(out, z) = r(z)
    BY <1>2
  <2>2. r(z) \in Seq(Item)
    BY <1>3
  <2>3. \A x \in ToSet(r(z)) : \E y \in Zone : z \in After(y) /\ x \in ToSet(out[y])
    BY <1>1, <1>3, <1>4
  <2>4. \A b \in Bag : Single(out, b) => Once(r(z), Of(b))
    BY <1>1, <1>3
  <2> QED BY <2>1, <2>2, <2>3, <2>4 DEF Inflowing
<1>8. ASSUME NEW y \in Inductions, NEW x \in ToSet(out[y])
      PROVE  \E z \in ToSet(Units) : x \in ToSet(Inflow(out, z))
  <2>1. PICK t \in Terminal : y = Induction[t]
    BY <1>5
  <2>2. PICK z \in ToSet(TERMINAL_SCREENING[t]) : x \in ToSet(r(z))
    BY <1>1, <1>3, <2>1
  <2> QED BY <1>2, <1>6, <2>2
<1>9. ASSUME NEW b \in Bag, Single(out, b), NEW y \in ToSet(Units), NEW z \in ToSet(Units),
             Holds(Inflow(out, y), b), Holds(Inflow(out, z), b)
      PROVE  y = z
  <2>1. Inflow(out, y) = r(y) /\ Inflow(out, z) = r(z) /\ Apart(lines, b)
    BY <1>1, <1>2, <1>9
  <2>2. Holds(r(y), b) /\ Holds(r(z), b)
    BY <1>9, <2>1
  <2>3. \A v, w : Holds(r(v), b) /\ Holds(r(w), b) => v = w
    BY <1>3, <2>1
  <2> QED BY <2>2, <2>3
<1> QED BY <1>7, <1>8, <1>9

LEMMA InflowOfMakeUps ==
  ASSUME NEW out \in [Zone -> Seq(Item)], TurnsOK, \A x \in ToSet(out[Sorting]) : x.flight \in Departing
  PROVE  /\ \A z \in MakeUps : Inflowing(out, z)
         /\ \A x \in ToSet(out[Sorting]) : \E z \in MakeUps : x \in ToSet(Inflow(out, z))
         /\ \A b \in Bag : Single(out, b) => \A y, z \in MakeUps :
              Holds(Inflow(out, y), b) /\ Holds(Inflow(out, z), b) => y = z
<1> DEFINE lines == SortedLines(out)
           r(z) == Route(lines, TERMINAL_MAKEUP, makeup_turn, z)
<1>1. /\ lines \in [Terminal -> Seq(Item)]
      /\ \A t \in Terminal : lines[t] = SortedFor(out, t)
      /\ \A b \in Bag : Single(out, b) => Apart(lines, b)
  BY SortedItems DEF SortedLines
<1>2. \A z \in MakeUps : Inflow(out, z) = r(z)
  <2>1. \A i \in DOMAIN Terminals : lines[Terminals[i]] = SortedFor(out, Terminals[i])
    BY <1>1, TerminalsInOrder
  <2> TAKE z \in MakeUps
  <2>3. [i \in DOMAIN Terminals |->
           Routed(SortedFor(out, Terminals[i]), TERMINAL_MAKEUP[Terminals[i]],
                  makeup_turn[Terminals[i]], z)]
        = [i \in DOMAIN Terminals |->
             Routed(lines[Terminals[i]], TERMINAL_MAKEUP[Terminals[i]],
                    makeup_turn[Terminals[i]], z)]
    BY <2>1
  <2>4. z \in Zone
    BY Zones
  <2>5. Inflow(out, z) = FlattenSeq([i \in DOMAIN Terminals |->
           Routed(SortedFor(out, Terminals[i]), TERMINAL_MAKEUP[Terminals[i]],
                  makeup_turn[Terminals[i]], z)])
    BY <2>4, InflowCases
  <2> QED BY <2>3, <2>5 DEF Route
<1>3. /\ \A z : r(z) \in Seq(Item) /\ \A x \in ToSet(r(z)) : \E t \in Terminal : x \in ToSet(lines[t])
      /\ \A b \in Bag : Apart(lines, b) =>
           /\ \A z : Once(r(z), Of(b))
           /\ \A y, z : Holds(r(y), b) /\ Holds(r(z), b) => y = z
      /\ \A t \in Terminal : \A x \in ToSet(lines[t]) :
           \E z \in ToSet(TERMINAL_MAKEUP[t]) : x \in ToSet(r(z))
  <2>1. TERMINAL_MAKEUP \in [Terminal -> Seq(Zone) \ {<<>>}] /\ makeup_turn \in [Terminal -> Nat]
    BY BaggageAssumption DEF TurnsOK
  <2> HIDE DEF lines
  <2> QED BY <1>1, <2>1, Routes
<1>4. /\ \A t \in Terminal : ToSet(SortedFor(out, t)) \subseteq ToSet(out[Sorting])
      /\ \A x \in ToSet(out[Sorting]) : \E t \in Terminal : x \in ToSet(SortedFor(out, t))
  BY SortedItems
<1> HIDE DEF lines, r
<1>5. \A z \in MakeUps : Sorting \in Zone /\ z \in After(Sorting)
  BY Zones DEF After
<1>6. \A t \in Terminal : ToSet(TERMINAL_MAKEUP[t]) \subseteq MakeUps
  BY Zones
<1>7. ASSUME NEW z \in MakeUps PROVE Inflowing(out, z)
  <2>1. Inflow(out, z) = r(z)
    BY <1>2
  <2>2. r(z) \in Seq(Item)
    BY <1>3
  <2>3. \A x \in ToSet(r(z)) : \E y \in Zone : z \in After(y) /\ x \in ToSet(out[y])
    BY <1>1, <1>3, <1>4, <1>5
  <2>4. \A b \in Bag : Single(out, b) => Once(r(z), Of(b))
    BY <1>1, <1>3
  <2> QED BY <2>1, <2>2, <2>3, <2>4 DEF Inflowing
<1>8. ASSUME NEW x \in ToSet(out[Sorting])
      PROVE  \E z \in MakeUps : x \in ToSet(Inflow(out, z))
  <2>1. PICK t \in Terminal : x \in ToSet(lines[t])
    BY <1>1, <1>4
  <2>2. PICK z \in ToSet(TERMINAL_MAKEUP[t]) : x \in ToSet(r(z))
    BY <1>3, <2>1
  <2> QED BY <1>2, <1>6, <2>2
<1>9. ASSUME NEW b \in Bag, Single(out, b), NEW y \in MakeUps, NEW z \in MakeUps,
             Holds(Inflow(out, y), b), Holds(Inflow(out, z), b)
      PROVE  y = z
  <2>1. Inflow(out, y) = r(y) /\ Inflow(out, z) = r(z) /\ Apart(lines, b)
    BY <1>1, <1>2, <1>9
  <2>2. Holds(r(y), b) /\ Holds(r(z), b)
    BY <1>9, <2>1
  <2>3. \A v, w : Holds(r(v), b) /\ Holds(r(w), b) => v = w
    BY <1>3, <2>1
  <2> QED BY <2>2, <2>3
<1> QED BY <1>7, <1>8, <1>9

LEMMA Inflows ==
  ASSUME NEW out \in [Zone -> Seq(Item)], TurnsOK, \A x \in ToSet(out[Sorting]) : x.flight \in Departing
  PROVE  /\ \A z \in Zone : Inflowing(out, z)
         /\ \A y \in Conveyed : \A x \in ToSet(out[y]) : \E z \in Zone : x \in ToSet(Inflow(out, z))
         /\ \A b \in Bag : Single(out, b) => \A y, z \in Zone :
              Holds(Inflow(out, y), b) /\ Holds(Inflow(out, z), b) => y = z
<1>1. ASSUME NEW z \in Zone, z # Sorting, z \notin ToSet(Units), z \notin MakeUps
      PROVE  Inflow(out, z) = <<>> /\ Inflowing(out, z)
  <2>1. Inflow(out, z) = <<>>
    BY <1>1, InflowCases
  <2>2. <<>> \in Seq(Item) /\ DOMAIN <<>> = {}
    OBVIOUS
  <2> QED BY <2>1, <2>2 DEF Inflowing, ToSet, Once
<1>2. \A z \in Zone : Inflowing(out, z)
  BY <1>1, InflowOfSorting, InflowOfUnits, InflowOfMakeUps
<1>3. \A y \in Conveyed : \A x \in ToSet(out[y]) : \E z \in Zone : x \in ToSet(Inflow(out, z))
  BY InflowOfSorting, InflowOfUnits, InflowOfMakeUps, Zones DEF Conveyed
<1>4. ASSUME NEW b \in Bag, Single(out, b), NEW y \in Zone, NEW z \in Zone,
             Holds(Inflow(out, y), b), Holds(Inflow(out, z), b)
      PROVE  y = z
  <2>1. \A w \in Zone : Holds(Inflow(out, w), b) =>
          \E v \in Zone : w \in After(v) /\ Holds(out[v], b)
    <3> TAKE w \in Zone
    <3> HAVE Holds(Inflow(out, w), b)
    <3>1. PICK x \in ToSet(Inflow(out, w)) : x.bag = b
      BY <1>2, HoldsItems DEF Inflowing
    <3>2. PICK v \in Zone : w \in After(v) /\ x \in ToSet(out[v])
      BY <1>2 DEF Inflowing
    <3>3. Holds(out[v], b)
      BY <3>1, <3>2, HoldsItems
    <3> QED BY <3>2, <3>3
  <2>2. PICK v \in Zone : y \in After(v) /\ Holds(out[v], b)
    BY <1>4, <2>1
  <2>3. z \in After(v)
    BY <1>4, <2>1, <2>2 DEF Single
  <2>4. CASE v \in Inductions
    <3>1. y \in ToSet(Units) /\ z \in ToSet(Units)
      BY <2>2, <2>3, <2>4 DEF After
    <3> QED BY <1>4, <3>1, InflowOfUnits
  <2>5. CASE v \in ToSet(Units) /\ v \notin Inductions
    BY <2>2, <2>3, <2>5 DEF After
  <2>6. CASE v = Sorting /\ v \notin ToSet(Units) /\ v \notin Inductions
    <3>1. y \in MakeUps /\ z \in MakeUps
      BY <2>2, <2>3, <2>6 DEF After
    <3> QED BY <1>4, <3>1, InflowOfMakeUps
  <2>7. CASE v # Sorting /\ v \notin ToSet(Units) /\ v \notin Inductions
    BY <2>2, <2>7 DEF After
  <2> QED BY <2>4, <2>5, <2>6, <2>7
<1> QED BY <1>2, <1>3, <1>4

-----------------------------------------------------------------------------
(* advance_tick.                                                           *)

LEMMA Drain ==
  ASSUME NEW items \in Seq(Item), NEW z \in Zone, NEW delta \in Deltas
  PROVE  \E n \in 0..Len(items) : drain_zone(items, z, delta) = SubSeq(items, 1, n)
<1>1. CASE z \in offline
  <2>1. SubSeq(items, 1, 0) = <<>> /\ 0 \in 0..Len(items)
    OBVIOUS
  <2> QED BY <1>1, <2>1 DEF drain_zone
<1>2. CASE z \notin offline
  <2> DEFINE c == (ZONE_THROUGHPUT[z] * delta) \div 60
             m == Max({1, c})
             n == Min({Len(items), m})
  <2>1. ZONE_THROUGHPUT[z] \in Nat /\ delta \in Nat
    BY BaggageAssumption
  <2>2. c \in Nat
    <3>1. \A k, l \in Nat : k * l \in Nat
      OBVIOUS
    <3>2. \A k \in Nat : k \div 60 \in Nat
      OBVIOUS
    <3> QED BY <2>1, <3>1, <3>2
  <2> HIDE DEF c
  <2>3. m \in Nat
    <3>1. \E x \in {1, c} : \A y \in {1, c} : x >= y
      BY <2>2
    <3>2. m \in {1, c}
      BY <3>1 DEF Max
    <3> QED BY <2>2, <3>2
  <2> HIDE DEF m
  <2>4. n \in 0..Len(items)
    <3> DEFINE l == Len(items)
    <3>1. l \in Nat
      OBVIOUS
    <3> HIDE DEF l
    <3>2. \E x \in {l, m} : \A y \in {l, m} : x =< y
      BY <2>3, <3>1
    <3>3. Min({l, m}) \in {l, m} /\ \A y \in {l, m} : Min({l, m}) =< y
      BY <3>2 DEF Min
    <3>4. Min({l, m}) \in 0..l
      BY <2>3, <3>1, <3>3
    <3> QED BY <3>4 DEF l
  <2>5. drain_zone(items, z, delta) = SubSeq(items, 1, n)
    BY <1>2 DEF drain_zone, m, c
  <2> QED BY <2>4, <2>5
<1> QED BY <1>1, <1>2

(* What a tick makes of the queues q and of a bag that stands in one place *)
(* of them at most.                                                        *)
Moved(q) ==
  /\ queue' \in [Zone -> Seq(Item)] /\ exits' \subseteq [from : Zone, item : Item]
  /\ \A z \in Zone : \A x \in ToSet(queue'[z]) :
       x \in ToSet(q[z]) \/ \E y \in Zone : z \in After(y) /\ x \in ToSet(q[y])
  /\ \A e \in exits' : e.item \in ToSet(q[e.from])
OneMoved(q, b) ==
  /\ Single(queue', b)
  /\ \A d, e \in exits' : d.item.bag = b /\ e.item.bag = b => d = e
  /\ \A e \in exits' : e.item.bag = b =>
       /\ Holds(q[e.from], b)
       /\ \A z \in Zone : Holds(queue'[z], b) => z \in After(e.from)
       /\ e.from \in Conveyed => \E z \in Zone : Holds(queue'[z], b)
  /\ (\A e \in exits' : e.item.bag # b) => \A z \in Zone : Holds(queue'[z], b) <=> Holds(q[z], b)

LEMMA AdvanceTick ==
  ASSUME NEW q \in [Zone -> Seq(Item)], NEW delta \in Deltas, TurnsOK,
         \A x \in ToSet(q[Sorting]) : x.flight \in Departing, advance_tick(q, delta)
  PROVE  Moved(q) /\ TurnsOK' /\ \A b \in Bag : Single(q, b) => OneMoved(q, b)
<1> DEFINE out  == [z \in Zone |-> drain_zone(q[z], z, delta)]
           stay(z) == SubSeq(q[z], Len(out[z]) + 1, Len(q[z]))
<1>1. /\ queue' = [z \in Zone |-> stay(z) \o Inflow(out, z)]
      /\ screening_turn' = [t \in Terminal |->
           NextTurn(TERMINAL_SCREENING[t], screening_turn[t], Len(out[Induction[t]]))]
      /\ makeup_turn' = [t \in Terminal |->
           NextTurn(TERMINAL_MAKEUP[t], makeup_turn[t], Len(SortedFor(out, t)))]
      /\ exits' = UNION {{[from |-> z, item |-> item] : item \in ToSet(out[z])} : z \in Zone}
  BY DEF advance_tick
<1>2. ASSUME NEW z \in Zone
      PROVE  /\ out[z] \in Seq(Item) /\ stay(z) \in Seq(Item)
             /\ ToSet(out[z]) \cup ToSet(stay(z)) = ToSet(q[z])
             /\ \A B : Once(q[z], B) =>
                  Once(out[z], B) /\ Once(stay(z), B) /\ ~(Some(out[z], B) /\ Some(stay(z), B))
  <2> DEFINE s == q[z]
  <2>1. s \in Seq(Item)
    OBVIOUS
  <2>2. PICK n \in 0..Len(s) : drain_zone(s, z, delta) = SubSeq(s, 1, n)
    BY <2>1, Drain
  <2>3. out[z] = SubSeq(s, 1, n)
    BY <2>2
  <2> HIDE DEF s, out
  <2>4. /\ SubSeq(s, 1, n) \in Seq(Item) /\ SubSeq(s, n + 1, Len(s)) \in Seq(Item)
        /\ Len(SubSeq(s, 1, n)) = n
        /\ ToSet(SubSeq(s, 1, n)) \cup ToSet(SubSeq(s, n + 1, Len(s))) = ToSet(s)
        /\ \A B : Once(s, B) => Once(SubSeq(s, 1, n), B) /\ Once(SubSeq(s, n + 1, Len(s)), B)
                     /\ ~(Some(SubSeq(s, 1, n), B) /\ Some(SubSeq(s, n + 1, Len(s)), B))
    BY <2>1, CutItems
  <2>5. stay(z) = SubSeq(s, n + 1, Len(s))
    BY <2>3, <2>4 DEF s
  <2> HIDE DEF stay
  <2> QED BY <2>3, <2>4, <2>5 DEF s
<1>3. out \in [Zone -> Seq(Item)]
  BY <1>2
<1> HIDE DEF out, stay
<1>4. \A x \in ToSet(out[Sorting]) : x.flight \in Departing
  BY <1>2, Zones
<1>5. /\ \A z \in Zone : Inflowing(out, z)
      /\ \A y \in Conveyed : \A x \in ToSet(out[y]) : \E z \in Zone : x \in ToSet(Inflow(out, z))
      /\ \A b \in Bag : Single(out, b) => \A y, z \in Zone :
           Holds(Inflow(out, y), b) /\ Holds(Inflow(out, z), b) => y = z
  BY <1>3, <1>4, Inflows
<1>6. ASSUME NEW z \in Zone
      PROVE  /\ queue'[z] \in Seq(Item) /\ ToSet(queue'[z]) = ToSet(stay(z)) \cup ToSet(Inflow(out, z))
             /\ \A B : Once(stay(z), B) /\ Once(Inflow(out, z), B)
                         /\ ~(Some(stay(z), B) /\ Some(Inflow(out, z), B)) => Once(queue'[z], B)
  <2>1. Inflow(out, z) \in Seq(Item) /\ stay(z) \in Seq(Item) /\ queue'[z] = stay(z) \o Inflow(out, z)
    BY <1>1, <1>2, <1>5 DEF Inflowing
  <2> QED BY <2>1, OnceJoined
<1>7. queue' \in [Zone -> Seq(Item)]
  BY <1>1, <1>6
<1>8. \A e : e \in exits' <=> \E z \in Zone : \E x \in ToSet(out[z]) : e = [from |-> z, item |-> x]
  BY <1>1
<1>9. \A e \in exits' : e.from \in Zone /\ e.item \in Item /\ e.item \in ToSet(out[e.from])
                        /\ e = [from |-> e.from, item |-> e.item]
  <2> TAKE e \in exits'
  <2>1. PICK z \in Zone : \E x \in ToSet(out[z]) : e = [from |-> z, item |-> x]
    BY <1>8
  <2>2. \A x \in ToSet(out[z]) : x \in Item
    BY <1>2 DEF ToSet
  <2> QED BY <2>1, <2>2
<1>10. Moved(q)
  <2>1. exits' \subseteq [from : Zone, item : Item] /\ \A e \in exits' : e.item \in ToSet(q[e.from])
    BY <1>2, <1>9
  <2>2. ASSUME NEW z \in Zone, NEW x \in ToSet(queue'[z])
        PROVE  x \in ToSet(q[z]) \/ \E y \in Zone : z \in After(y) /\ x \in ToSet(q[y])
    <3>1. CASE x \in ToSet(stay(z))
      BY <1>2, <3>1
    <3>2. CASE x \in ToSet(Inflow(out, z))
      BY <1>2, <1>5, <3>2 DEF Inflowing
    <3> QED BY <1>6, <3>1, <3>2
  <2> QED BY <1>7, <2>1, <2>2 DEF Moved
<1>11. TurnsOK'
  <2>1. \A t \in Terminal : Len(out[Induction[t]]) \in Nat /\ Len(SortedFor(out, t)) \in Nat
    <3> TAKE t \in Terminal
    <3>1. out[Induction[t]] \in Seq(Item)
      BY <1>3, Zones
    <3>2. SortedFor(out, t) \in Seq(Item)
      BY <1>3, <1>4, SortedItems DEF SortedLines
    <3> QED BY <3>1, <3>2
  <2>2. \A t \in Terminal : TERMINAL_SCREENING[t] \in Seq(Zone) /\ TERMINAL_MAKEUP[t] \in Seq(Zone)
    BY BaggageAssumption
  <2> QED BY <1>1, <2>1, <2>2, NextTurnNumber DEF TurnsOK
<1>12. ASSUME NEW b \in Bag, Single(q, b) PROVE OneMoved(q, b)
  <2>1. \A z \in Zone : (Holds(q[z], b) <=> Holds(out[z], b) \/ Holds(stay(z), b))
                        /\ (Holds(queue'[z], b) <=> Holds(stay(z), b) \/ Holds(Inflow(out, z), b))
    <3> TAKE z \in Zone
    <3>1. q[z] \in Seq(Item) /\ Inflow(out, z) \in Seq(Item)
      BY <1>5 DEF Inflowing
    <3> QED BY <1>2, <1>6, <3>1, HoldsItems
  <2>2. \A z \in Zone : Once(out[z], Of(b)) /\ Once(stay(z), Of(b)) /\ ~(Holds(out[z], b) /\ Holds(stay(z), b))
    BY <1>2, <1>12, HoldsItems DEF Single
  <2>3. Single(out, b)
    BY <1>12, <2>1, <2>2 DEF Single
  <2>4. \A z \in Zone : Holds(Inflow(out, z), b) => \E y \in Zone : z \in After(y) /\ Holds(out[y], b)
    <3> TAKE z \in Zone
    <3> HAVE Holds(Inflow(out, z), b)
    <3>1. PICK x \in ToSet(Inflow(out, z)) : x.bag = b
      BY <1>5, HoldsItems DEF Inflowing
    <3>2. PICK y \in Zone : z \in After(y) /\ x \in ToSet(out[y])
      BY <1>5 DEF Inflowing
    <3> QED BY <1>2, <3>1, <3>2, HoldsItems
  <2>5. \A e \in exits' : e.item.bag = b => Holds(out[e.from], b)
    BY <1>2, <1>9, HoldsItems
  <2>6. CASE \E y \in Zone : Holds(out[y], b)
    <3>1. PICK y \in Zone : Holds(out[y], b)
      BY <2>6
    <3>2. \A z \in Zone : Holds(out[z], b) => z = y
      BY <2>3, <3>1 DEF Single
    <3>3. \A z \in Zone : ~Holds(stay(z), b)
      BY <1>12, <2>1, <2>2, <3>1 DEF Single
    <3>4. \A z \in Zone : Holds(queue'[z], b) <=> Holds(Inflow(out, z), b)
      BY <2>1, <3>3
    <3>5. \A z \in Zone : Once(queue'[z], Of(b))
      <4> TAKE z \in Zone
      <4>1. Once(stay(z), Of(b)) /\ ~Some(stay(z), Of(b))
        BY <1>2, <2>2, <3>3, HoldsItems
      <4>2. Once(Inflow(out, z), Of(b))
        BY <1>5, <2>3 DEF Inflowing
      <4> QED BY <1>6, <4>1, <4>2
    <3>6. Single(queue', b)
      <4>1. \A u, z \in Zone : Holds(Inflow(out, u), b) /\ Holds(Inflow(out, z), b) => u = z
        BY <1>5, <2>3
      <4> QED BY <3>4, <3>5, <4>1 DEF Single
    <3>7. \A z \in Zone : Holds(queue'[z], b) => z \in After(y)
      BY <2>4, <3>2, <3>4
    <3>8. PICK x \in ToSet(out[y]) : x.bag = b
      BY <1>2, <3>1, HoldsItems
    <3>9. [from |-> y, item |-> x] \in exits'
      BY <1>8, <3>8
    <3>10. \A e \in exits' : e.item.bag = b => e = [from |-> y, item |-> x]
      <4> TAKE e \in exits'
      <4> HAVE e.item.bag = b
      <4>1. e.from = y /\ e.item \in ToSet(out[y]) /\ e = [from |-> e.from, item |-> e.item]
        BY <1>9, <2>5, <3>2
      <4>2. e.item = x
        <5>1. x \in Of(b) /\ e.item \in Of(b)
          BY <1>2, <1>9, <3>8, <4>1, HoldsItems DEF Of
        <5> QED BY <2>2, <3>8, <4>1, <5>1 DEF Once, ToSet
      <4> QED BY <4>1, <4>2
    <3>11. y \in Conveyed => \E z \in Zone : Holds(queue'[z], b)
      <4> HAVE y \in Conveyed
      <4>1. PICK z \in Zone : x \in ToSet(Inflow(out, z))
        BY <1>5, <3>8
      <4>2. Inflow(out, z) \in Seq(Item)
        BY <1>5 DEF Inflowing
      <4>3. Holds(Inflow(out, z), b)
        BY <3>8, <4>1, <4>2, HoldsItems
      <4> QED BY <3>4, <4>3
    <3>12. \A d, e \in exits' : d.item.bag = b /\ e.item.bag = b => d = e
      BY <3>10
    <3>13. \A e \in exits' : e.item.bag = b =>
             /\ Holds(q[e.from], b)
             /\ \A z \in Zone : Holds(queue'[z], b) => z \in After(e.from)
             /\ e.from \in Conveyed => \E z \in Zone : Holds(queue'[z], b)
      BY <2>1, <3>1, <3>7, <3>10, <3>11
    <3>14. ~ \A e \in exits' : e.item.bag # b
      BY <3>8, <3>9
    <3> QED BY <3>6, <3>12, <3>13, <3>14 DEF OneMoved
  <2>7. CASE \A y \in Zone : ~Holds(out[y], b)
    <3>1. \A z \in Zone : ~Holds(Inflow(out, z), b)
      BY <2>4, <2>7
    <3>2. \A z \in Zone : Holds(queue'[z], b) <=> Holds(q[z], b)
      BY <2>1, <2>7, <3>1
    <3>3. \A z \in Zone : Once(queue'[z], Of(b))
      <4> TAKE z \in Zone
      <4>1. Once(stay(z), Of(b))
        BY <2>2
      <4>2. Once(Inflow(out, z), Of(b)) /\ ~Some(Inflow(out, z), Of(b))
        BY <1>5, <2>3, <3>1, HoldsItems DEF Inflowing
      <4> QED BY <1>6, <4>1, <4>2
    <3>4. Single(queue', b)
      BY <1>12, <3>2, <3>3 DEF Single
    <3>5. \A e \in exits' : e.item.bag # b
      BY <1>9, <2>5, <2>7
    <3> QED BY <3>2, <3>4, <3>5 DEF OneMoved
  <2> QED BY <2>6, <2>7
<1> QED BY <1>10, <1>11, <1>12

-----------------------------------------------------------------------------
(* The bags that a tick inducts.                                           *)

LEMMA RowsKnown ==
  ASSUME BagsOK
  PROVE  /\ Rows \subseteq Item
         /\ \A r \in Rows : loaded_on[r.bag] = {r.flight}
         /\ \A r, s \in Rows : r.bag = s.bag => r = s
<1>1. ASSUME NEW r \in Rows
      PROVE  /\ r.bag \in Bag /\ r.flight \in BagFlight /\ r = [bag |-> r.bag, flight |-> r.flight]
             /\ loaded_on[r.bag] = {r.flight}
  <2>1. PICK b \in Bag : \E f \in loaded_on[b] : r = [bag |-> b, flight |-> f]
    BY DEF Rows
  <2>2. OnFlight(b)
    BY DEF BagsOK
  <2> QED BY <2>1, <2>2 DEF OnFlight
<1>2. Rows \subseteq Item
  BY <1>1 DEF Item
<1>3. \A r, s \in Rows : r.bag = s.bag => r = s
  BY <1>1
<1> QED BY <1>1, <1>2, <1>3

LEMMA ToInductKnown ==
  ASSUME BagsOK, NEW due
  PROVE  /\ ToInduct(due) \subseteq Rows
         /\ \A r \in ToInduct(due) : /\ r.bag \in Outbound /\ bag[r.bag].status = "dropped_off"
                                     /\ r.flight \in Departing /\ r.bag \notin inducted_bag_ids
<1>1. ToInduct(due) \subseteq Rows
      /\ \A r \in ToInduct(due) : bag[r.bag].status = "dropped_off" /\ r.flight \in Departing
                                  /\ r.bag \notin inducted_bag_ids
  BY DEF ToInduct, get_dropped_off_baggage_for_departures
<1>2. \A r \in Rows : r.bag \in Bag
  BY RowsKnown DEF Item
<1>3. \A b \in Bag : b \in Outbound \/ b \in Inbound
  BY BaggageAssumption DEF Outbound, Inbound, BagFlight
<1>4. \A b \in Inbound : bag[b].status # "dropped_off"
  BY DEF BagsOK, Beyond
<1> QED BY <1>1, <1>2, <1>3, <1>4

(* The queues after the bags of rows have entered.                         *)
Enters(x, rows, z) ==
  x \in rows /\ flight_status[x.flight] # "departed" /\ z = Induction[TerminalOf[x.flight]]

LEMMA InductedQueues ==
  ASSUME queue \in [Zone -> Seq(Item)], NEW rows, rows \subseteq Item,
         \A r \in rows : r.flight \in Departing, \A r, s \in rows : r.bag = s.bag => r = s
  PROVE  LET q == WithInducted(rows)
         IN  /\ q \in [Zone -> Seq(Item)]
             /\ \A z \in Zone : \A x : x \in ToSet(q[z]) <=> x \in ToSet(queue[z]) \/ Enters(x, rows, z)
             /\ \A b \in Bag : Single(queue, b) /\ (b \in BagsOf(rows) => ~Found(queue, b)) => Single(q, b)
<1> DEFINE q == WithInducted(rows)
           at(z) == CHOOSE t \in Terminal : Induction[t] = z
           line(z) == SetToSeq(Entering(rows, at(z)))
<1>1. \A z \in Zone : q[z] = IF z \in Inductions THEN queue[z] \o line(z) ELSE queue[z]
  BY DEF WithInducted
<1>2. q = [z \in Zone |-> q[z]]
  BY DEF WithInducted
<1>3. \A z \in Inductions : at(z) \in Terminal /\ Induction[at(z)] = z
  BY DEF Inductions
<1> HIDE DEF q, at
<1>4. ASSUME NEW z \in Inductions, NEW x
      PROVE  x \in Entering(rows, at(z)) <=> Enters(x, rows, z)
  <2>1. \A f \in Departing : TerminalOf[f] \in Terminal
    BY BaggageAssumption
  <2>2. \A t, u \in Terminal : Induction[t] = Induction[u] => t = u
    BY Zones
  <2> QED BY <1>3, <2>1, <2>2 DEF Entering, Enters
<1>5. ASSUME NEW z \in Inductions
      PROVE  /\ line(z) \in Seq(Item) /\ ToSet(line(z)) = Entering(rows, at(z))
             /\ \A b \in Bag : Once(line(z), Of(b))
  <2> DEFINE S == Entering(rows, at(z))
  <2>1. S \subseteq Item /\ \A x, y \in S : x.bag = y.bag => x = y
    BY DEF Entering
  <2> HIDE DEF S
  <2>2. SetToSeq(S) \in Seq(Item) /\ ToSet(SetToSeq(S)) = S /\ \A b \in Bag : Once(SetToSeq(S), Of(b))
    BY <2>1, RowsInLine
  <2> QED BY <2>2 DEF S
<1> HIDE DEF line
<1>6. ASSUME NEW z \in Inductions
      PROVE  /\ q[z] \in Seq(Item) /\ ToSet(q[z]) = ToSet(queue[z]) \cup ToSet(line(z))
             /\ \A B : Once(queue[z], B) /\ Once(line(z), B) /\ ~(Some(queue[z], B) /\ Some(line(z), B))
                       => Once(q[z], B)
  <2>1. z \in Zone
    BY Zones
  <2>2. queue[z] \in Seq(Item) /\ q[z] = queue[z] \o line(z)
    BY <1>1, <2>1
  <2> QED BY <1>5, <2>2, OnceJoined
<1>7. \A z \in Zone \ Inductions : q[z] = queue[z] /\ q[z] \in Seq(Item)
  BY <1>1
<1>8. q \in [Zone -> Seq(Item)]
  BY <1>2, <1>6, <1>7
<1>9. ASSUME NEW z \in Zone, NEW x
      PROVE  x \in ToSet(q[z]) <=> x \in ToSet(queue[z]) \/ Enters(x, rows, z)
  <2>1. CASE z \in Inductions
    BY <1>4, <1>5, <1>6, <2>1
  <2>2. CASE z \notin Inductions
    <3>1. ~Enters(x, rows, z)
      BY <2>2, Zones, BaggageAssumption DEF Enters
    <3> QED BY <1>7, <2>2, <3>1
  <2> QED BY <2>1, <2>2
<1>10. ASSUME NEW b \in Bag, Single(queue, b), b \in BagsOf(rows) => ~Found(queue, b)
       PROVE  Single(q, b)
  <2>0. \A z \in Zone : queue[z] \in Seq(Item) /\ q[z] \in Seq(Item)
    BY <1>8
  <2>1. ASSUME NEW z \in Zone PROVE Holds(q[z], b) <=> Holds(queue[z], b) \/ \E x : Enters(x, rows, z) /\ x.bag = b
    BY <1>9, <2>0, HoldsItems
  <2>2. \A z \in Zone : \A x : Enters(x, rows, z) /\ x.bag = b => b \in BagsOf(rows)
    BY DEF Enters, BagsOf
  <2>3. \A y, z \in Zone : Holds(q[y], b) /\ Holds(q[z], b) => y = z
    <3>1. CASE b \in BagsOf(rows)
      BY <1>10, <2>1, <3>1 DEF Enters, Found
    <3>2. CASE b \notin BagsOf(rows)
      BY <1>10, <2>1, <2>2, <3>2 DEF Single
    <3> QED BY <3>1, <3>2
  <2>4. ASSUME NEW z \in Zone PROVE Once(q[z], Of(b))
    <3>1. CASE z \in Inductions
      <4>1. Once(queue[z], Of(b)) /\ Once(line(z), Of(b))
        BY <1>5, <1>10, <3>1 DEF Single
      <4>2. ~(Some(queue[z], Of(b)) /\ Some(line(z), Of(b)))
        <5> SUFFICES ASSUME Some(queue[z], Of(b)), Some(line(z), Of(b)) PROVE FALSE
          OBVIOUS
        <5>1. Holds(queue[z], b) /\ Holds(line(z), b)
          BY <1>5, <2>0, <3>1, HoldsItems
        <5>2. PICK x \in ToSet(line(z)) : x.bag = b
          BY <1>5, <3>1, <5>1, HoldsItems
        <5>3. Enters(x, rows, z)
          BY <1>4, <1>5, <3>1, <5>2
        <5> QED BY <1>10, <2>2, <5>1, <5>2, <5>3 DEF Found
      <4> QED BY <1>6, <3>1, <4>1, <4>2
    <3>2. CASE z \notin Inductions
      BY <1>7, <1>10, <3>2 DEF Single
    <3> QED BY <3>1, <3>2
  <2> QED BY <2>3, <2>4 DEF Single
<1> QED BY <1>8, <1>9, <1>10 DEF q

-----------------------------------------------------------------------------
(* The bags that are written, and the news.                                *)

LEMMA Ways ==
  /\ \A b \in Bag : b \in Outbound \/ b \in Inbound
  /\ Outbound \subseteq Bag /\ Inbound \subseteq Bag /\ Outbound \cap Inbound = {}
  /\ \A b \in Outbound : FlightOf[b] \in Departing
  /\ \A b \in Inbound : FlightOf[b] \in Arriving
  /\ \A f \in BagFlight : f \in Departing \/ f \in Arriving
  /\ Departing \subseteq BagFlight /\ Arriving \subseteq BagFlight /\ Departing \cap Arriving = {}
  /\ Incident \cap BagFlight = {}
BY BaggageAssumption DEF Outbound, Inbound, BagFlight

LEMMA ZoneStatus ==
  /\ \A s \in Traced : \A z \in ZonesFor(s) : StatusIn(z) = s /\ z \in Zone
  /\ \A s \in Traced \ {"arrived"} : ZonesFor(s) \subseteq Pipeline
  /\ ZonesFor("arrived") = Belts /\ Pipeline \cap Belts = {} /\ InPipeline \subseteq Traced
BY Zones DEF Traced, ZonesFor, StatusIn, Pipeline, InPipeline

LEMMA BagsStay ==
  ASSUME BagInv, UNCHANGED bagNodes PROVE BagsOK'
BY DEF BagInv, BagsOK, bagNodes, OnFlight

LEMMA RestStays ==
  ASSUME BagInv, UNCHANGED <<bagNodes, queue, exits, missed, again>>
  PROVE  QueuesOK' /\ ExitsOK' /\ GoodOK'
<1>1. bag' = bag /\ loaded_on' = loaded_on /\ queue' = queue /\ exits' = exits /\ missed' = missed
      /\ again' = again
  BY DEF bagNodes
<1>2. QueuesOK'
  BY <1>1 DEF BagInv, QueuesOK, FitsIn
<1>3. ExitsOK'
  BY <1>1 DEF BagInv, ExitsOK, FitsIn, ExitsOf
<1>4. GoodOK'
  BY <1>1 DEF BagInv, GoodOK, ExitsOf, Good, Repeated
<1> QED BY <1>2, <1>3, <1>4

LEMMA BagWritten ==
  ASSUME BagsOK, NEW b \in Bag, NEW status \in BagStatus, NEW zone \in Zone \cup NoZone,
         Write(b, status, zone), loaded_on' = loaded_on,
         b \in Outbound => status \notin Beyond,
         b \in Inbound => status \in {"in_hold", "offloaded"} \cup Beyond,
         status \in Traced /\ zone \in Zone => zone \in ZonesFor(status)
  PROVE  BagsOK'
<1>1. bag' = [bag EXCEPT ![b] = [status |-> status, zone |-> zone]]
  BY DEF Write, Scan
<1>2. bag' \in [Bag -> [status : BagStatus, zone : Zone \cup NoZone]]
  BY <1>1 DEF BagsOK
<1>3. ASSUME NEW c \in Bag
      PROVE  bag'[c] = IF c = b THEN [status |-> status, zone |-> zone] ELSE bag[c]
  BY <1>1 DEF BagsOK
<1>4. ASSUME NEW c \in Bag
      PROVE  /\ c \in Outbound => bag'[c].status \notin Beyond
             /\ c \in Inbound => bag'[c].status \in {"in_hold", "offloaded"} \cup Beyond
             /\ bag'[c].status \in Traced /\ bag'[c].zone \in Zone => bag'[c].zone \in ZonesFor(bag'[c].status)
  <2>1. CASE c = b
    BY <1>3, <2>1
  <2>2. CASE c # b
    BY <1>3, <2>2 DEF BagsOK
  <2> QED BY <2>1, <2>2
<1>5. \A c \in Bag : OnFlight(c)'
  BY DEF BagsOK, OnFlight
<1> QED BY <1>2, <1>4, <1>5, Ways DEF BagsOK

LEMMA AllSet ==
  ASSUME BagsOK, NEW bags \in SUBSET Bag, NEW status \in {"in_hold", "offloaded"},
         NEW zone \in NoZone, SetAll(bags, status, zone), loaded_on' = loaded_on
  PROVE  BagsOK' /\ \A c \in Bag :
           bag'[c] = IF c \in bags THEN [status |-> status, zone |-> zone] ELSE bag[c]
<1>1. bag' = [c \in Bag |-> IF c \in bags THEN [status |-> status, zone |-> zone] ELSE bag[c]]
  BY DEF SetAll, Scan
<1>2. \A c \in Bag : bag'[c] = IF c \in bags THEN [status |-> status, zone |-> zone] ELSE bag[c]
  BY <1>1
<1>3. status \in BagStatus /\ status \notin Traced \cup Beyond
  BY DEF BagStatus, Traced, Beyond
<1>4. bag' \in [Bag -> [status : BagStatus, zone : Zone \cup NoZone]]
  BY <1>1, <1>3 DEF BagsOK
<1>5. ASSUME NEW c \in Bag
      PROVE  /\ c \in Outbound => bag'[c].status \notin Beyond
             /\ c \in Inbound => bag'[c].status \in {"in_hold", "offloaded"} \cup Beyond
             /\ bag'[c].status \in Traced /\ bag'[c].zone \in Zone => bag'[c].zone \in ZonesFor(bag'[c].status)
  <2>1. CASE c \in bags
    BY <1>2, <1>3, <2>1
  <2>2. CASE c \notin bags
    BY <1>2, <2>2 DEF BagsOK
  <2> QED BY <2>1, <2>2
<1>6. \A c \in Bag : OnFlight(c)'
  BY DEF BagsOK, OnFlight
<1> QED BY <1>2, <1>4, <1>5, <1>6, Ways DEF BagsOK
-----------------------------------------------------------------------------
LEMMA TopicsNext ==
  ASSUME TopicsOK, BaggageNext
  PROVE  TopicsOK'
<1> DEFINE Key == BagFlight \cup Incident
<1>0. /\ bag_position \in [Key -> Nat] /\ topic \in [BagFlight -> Seq(BagNews)]
      /\ \A f \in BagFlight : Len(topic[f]) \in Nat /\ bag_position[f] \in Nat /\ f \in Key
  BY DEF TopicsOK
<1>1. ASSUME UNCHANGED <<flight_status, topic, bag_position>> PROVE TopicsOK'
  BY <1>1 DEF TopicsOK
<1>2. ASSUME NEW k \in Key, bag_position' = [bag_position EXCEPT ![k] = @ + 1],
             k \in BagFlight => bag_position[k] < Len(topic[k]), UNCHANGED <<flight_status, topic>>
      PROVE  TopicsOK'
  <2>1. bag_position' \in [Key -> Nat]
    BY <1>0, <1>2
  <2>2. ASSUME NEW f \in BagFlight PROVE bag_position'[f] <= Len(topic[f])
    <3>1. CASE f = k
      BY <1>0, <1>2, <3>1
    <3>2. CASE f # k
      BY <1>0, <1>2, <3>2 DEF TopicsOK
    <3> QED BY <3>1, <3>2
  <2> QED BY <1>2, <2>1, <2>2 DEF TopicsOK
<1>3. CASE Tick \/ TickFails \/ _process_bag_exit \/ ExitFails \/ RedirectBaggage \/ FailuresChange
  BY <1>1, <1>3 DEF Tick, TickFails, _process_bag_exit, ExitFails, RedirectBaggage, FailuresChange,
     airport, flightTopics, baggageMemory
<1>4. CASE OnDeparted \/ OnAtGate \/ OnCancelled \/ MessageFails
  BY <1>2, <1>4, Ways DEF OnDeparted, OnAtGate, OnCancelled, MessageFails, Done, Heard, airport,
     flightTopics
<1>5. CASE OnFailure
  BY <1>2, <1>5, Ways DEF OnFailure, Done, airport, flightTopics
<1>6. CASE FlightEnds
  <2>1. PICK f \in BagFlight :
          /\ flight_status[f] = "coming"
          /\ \E status \in IF f \in Departing THEN {"departed", "cancelled"} ELSE {"at_gate"} :
               /\ flight_status' = [flight_status EXCEPT ![f] = status]
               /\ topic' = [topic EXCEPT ![f] = Announcements(status)]
          /\ UNCHANGED bag_position
    BY <1>6 DEF FlightEnds, baggageMemory
  <2>2. PICK status \in {"departed", "cancelled", "at_gate"} :
          /\ f \in Arriving => status = "at_gate"
          /\ flight_status' = [flight_status EXCEPT ![f] = status]
          /\ topic' = [topic EXCEPT ![f] = Announcements(status)]
    BY <2>1, Ways
  <2>3. Len(topic[f]) = 0 /\ bag_position[f] = 0
    BY <1>0, <2>1 DEF TopicsOK
  <2>4. /\ Announcements(status) \in Seq(BagNews) /\ Len(Announcements(status)) \in {1, 2}
        /\ status = "at_gate" => Len(Announcements(status)) = 1
    <3>1. <<status>> \in Seq(BagNews) /\ Len(<<status>>) = 1
      BY DEF BagNews
    <3>2. <<"FlightCancelled", "cancelled">> \in Seq(BagNews) /\ Len(<<"FlightCancelled", "cancelled">>) = 2
      BY DEF BagNews
    <3> QED BY <3>1, <3>2 DEF Announcements
  <2>5. /\ topic' \in [BagFlight -> Seq(BagNews)] /\ topic'[f] = Announcements(status)
        /\ \A g \in BagFlight : g # f => topic'[g] = topic[g]
    BY <1>0, <2>2, <2>4
  <2>6. flight_status' \in [BagFlight -> {"coming", "departed", "cancelled", "at_gate"}]
        /\ flight_status'[f] = status /\ \A g \in BagFlight : g # f => flight_status'[g] = flight_status[g]
    BY <2>2 DEF TopicsOK
  <2>7. ASSUME NEW g \in BagFlight PROVE bag_position'[g] <= Len(topic'[g])
    <3>1. CASE g = f
      BY <2>1, <2>3, <2>4, <2>5, <3>1
    <3>2. CASE g # f
      BY <2>1, <2>5, <3>2 DEF TopicsOK
    <3> QED BY <3>1, <3>2
  <2>8. \A g \in BagFlight : flight_status'[g] = "coming" => topic'[g] = <<>>
    BY <2>5, <2>6 DEF TopicsOK
  <2>9. \A g \in Arriving : Len(topic'[g]) <= 1
    <3> TAKE g \in Arriving
    <3>1. g \in BagFlight /\ Len(topic[g]) <= 1
      BY Ways DEF TopicsOK
    <3>2. CASE g = f
      <4>1. status = "at_gate"
        BY <2>2, <3>2
      <4>2. Len(Announcements(status)) = 1
        BY <2>4, <4>1
      <4>3. Len(topic'[g]) = Len(Announcements(status))
        BY <2>5, <3>2
      <4> QED BY <4>2, <4>3
    <3>3. CASE g # f
      <4>1. topic'[g] = topic[g]
        BY <2>5, <3>1, <3>3
      <4> QED BY <3>1, <4>1
    <3> QED BY <3>2, <3>3
  <2> QED BY <2>1, <2>5, <2>6, <2>7, <2>8, <2>9 DEF TopicsOK
<1>7. CASE RestartBaggage
  <2>1. PICK k \in DOMAIN bag_position : \E p \in 0..Len(BagPartition(k)) :
          bag_position' = [bag_position EXCEPT ![k] = p]
    BY <1>7 DEF RestartBaggage
  <2>2. PICK p \in 0..Len(BagPartition(k)) : bag_position' = [bag_position EXCEPT ![k] = p]
    BY <2>1
  <2>3. bag_position' \in [Key -> Nat]
    BY <1>0, <2>2
  <2>4. ASSUME NEW f \in BagFlight PROVE bag_position'[f] <= Len(topic[f])
    <3>1. CASE f = k
      <4>1. f \notin Incident
        BY Ways
      <4> QED BY <1>0, <2>2, <3>1, <4>1 DEF BagPartition
    <3>2. CASE f # k
      BY <1>0, <2>2, <3>2 DEF TopicsOK
    <3> QED BY <3>1, <3>2
  <2>5. UNCHANGED <<flight_status, topic>>
    BY <1>7 DEF RestartBaggage, airport, flightTopics
  <2> QED BY <2>3, <2>4, <2>5 DEF TopicsOK
<1> QED BY <1>3, <1>4, <1>5, <1>6, <1>7 DEF BaggageNext

-----------------------------------------------------------------------------
(* The zones that stand still.                                             *)

(* Only incident-service goes on, or nothing of the failures is touched.   *)
LEMMA OfflineStands ==
  ASSUME OfflineInv, NewsNext \/ UNCHANGED newsVars, UNCHANGED <<active_failures, offline>>,
         \A i \in Incident : bag_position'[i] = bag_position[i]
  PROVE  OfflineInv'
<1>1. NewsInv'
  BY NewsSteps DEF OfflineInv
<1>2. ASSUME NEW i \in Incident PROVE Agrees(i, bag_position[i], active_failures)'
  <2>1. NewsInv /\ Agrees(i, bag_position[i], active_failures)
    BY DEF OfflineInv
  <2>2. \A p, K : Agrees(i, p, K) => Agrees(i, p, K)'
    BY <2>1, StillAgrees
  <2> QED BY <2>1, <2>2 DEF Agrees, ToCome
<1> QED BY <1>1, <1>2 DEF OfflineInv, StoppedBy

LEMMA OfflineNext ==
  ASSUME TopicsOK, OfflineInv, [BaggageNext]_baggageVars
  PROVE  OfflineInv'
<1> DEFINE Key == BagFlight \cup Incident
<1>0. /\ bag_position \in [Key -> Nat] /\ NewsInv /\ active_failures \subseteq Incident
      /\ offline = StoppedBy(active_failures)
      /\ \A i \in Incident : i \in Key /\ i \notin BagFlight
                             /\ Agrees(i, bag_position[i], active_failures)
  BY Ways DEF TopicsOK, OfflineInv
<1>1. UNCHANGED baggageVars \/ FlightEnds \/ Tick \/ TickFails \/ _process_bag_exit \/ ExitFails
      \/ RedirectBaggage => UNCHANGED <<newsVars, bag_position, active_failures, offline>>
  BY DEF FlightEnds, Tick, TickFails, _process_bag_exit, ExitFails, RedirectBaggage, baggageVars,
     airport, baggageMemory, conveyor
<1>2. UNCHANGED <<newsVars, bag_position, active_failures, offline>> => OfflineInv'
  BY OfflineStands
<1>3. ASSUME FailuresChange PROVE OfflineInv'
  <2>1. NewsNext /\ UNCHANGED <<bag_position, active_failures, offline>>
    BY <1>3 DEF FailuresChange, baggageMemory, conveyor
  <2> QED BY <2>1, OfflineStands
<1>4. ASSUME OnDeparted \/ OnAtGate \/ OnCancelled \/ MessageFails PROVE OfflineInv'
  <2>1. UNCHANGED <<newsVars, active_failures, offline>>
    BY <1>4 DEF OnDeparted, OnAtGate, OnCancelled, MessageFails, airport
  <2>2. PICK f \in BagFlight : Done(f)
    BY <1>4, Ways DEF OnDeparted, OnAtGate, OnCancelled, MessageFails
  <2>3. \A i \in Incident : bag_position'[i] = bag_position[i]
    BY <1>0, <2>2 DEF Done
  <2> QED BY <2>1, <2>3, OfflineStands
<1>5. ASSUME OnFailure PROVE OfflineInv'
  <2>1. PICK x \in Incident :
          /\ bag_position[x] < Len(log[x]) /\ Done(x)
          /\ IF log[x][bag_position'[x]].kind = "active" THEN OnFailureCreated(x)
             ELSE OnFailureChanged(x, log[x][bag_position'[x]].kind)
          /\ UNCHANGED newsVars
    BY <1>5 DEF OnFailure, airport
  <2>2. /\ bag_position'[x] = bag_position[x] + 1
        /\ \A i \in Incident : i # x => bag_position'[i] = bag_position[i]
    BY <1>0, <2>1 DEF Done
  <2> DEFINE kind == log[x][bag_position[x] + 1].kind
  <2>3. IF kind = "active" THEN OnFailureCreated(x) ELSE OnFailureChanged(x, kind)
    BY <2>1, <2>2
  <2>4. /\ kind = "active" => active_failures' = active_failures \cup {x}
        /\ kind = "resolved" => active_failures' = active_failures \ {x}
        /\ kind = "contained" => active_failures' = active_failures
        /\ \A i \in Incident : i # x => (i \in active_failures' <=> i \in active_failures)
    BY <2>3 DEF OnFailureCreated, OnFailureChanged
  <2>5. active_failures' \subseteq Incident /\ offline' = StoppedBy(active_failures')
    <3>1. CASE kind = "active"
      BY <1>0, <2>3, <3>1 DEF OnFailureCreated, StoppedBy
    <3>2. CASE kind # "active"
      BY <1>0, <2>3, <3>2 DEF OnFailureChanged, StoppedBy
    <3> QED BY <3>1, <3>2
  <2>6. Agrees(x, bag_position[x] + 1, active_failures')
    <3> HIDE DEF kind
    <3>1. \A L : /\ kind = "active" => L = active_failures \cup {x}
                 /\ kind = "resolved" => L = active_failures \ {x}
                 /\ kind = "contained" => L = active_failures
                 => Agrees(x, bag_position[x] + 1, L)
      BY <1>0, <2>1, HeardAgrees DEF kind
    <3> QED BY <2>4, <3>1
  <2>7. UNCHANGED <<node, unsent, log, lost>>
    BY <2>1 DEF newsVars
  <2>8. NewsInv'
    BY <1>0, <2>1, NewsSteps
  <2>9. ASSUME NEW i \in Incident PROVE Agrees(i, bag_position[i], active_failures)'
    <3>1. Agrees(i, bag_position'[i], active_failures')
      <4>1. CASE i = x
        BY <2>2, <2>6, <4>1
      <4>2. CASE i # x
        <5>1. Agrees(i, bag_position[i], active_failures) /\ bag_position'[i] = bag_position[i]
              /\ (i \in active_failures' <=> i \in active_failures)
          BY <1>0, <2>2, <2>4, <4>2
        <5> QED BY <5>1 DEF Agrees
      <4> QED BY <4>1, <4>2
    <3>2. (i \in Open' <=> i \in Open) /\ (Misordered(i)' <=> Misordered(i))
          /\ \A k : Logged(i, k)' <=> Logged(i, k)
      BY <2>7 DEF Open, Misordered, Logged
    <3> QED BY <2>7, <3>1, <3>2 DEF Agrees, ToCome
  <2> QED BY <2>5, <2>8, <2>9 DEF OfflineInv, StoppedBy
<1>6. ASSUME RestartBaggage PROVE OfflineInv'
  <2>1. /\ active_failures' = Open /\ offline' = StoppedBy(Open) /\ UNCHANGED newsVars
    BY <1>6 DEF RestartBaggage, airport, get_active_system_failures
  <2>2. PICK k \in DOMAIN bag_position : \E p \in 0..Len(BagPartition(k)) :
          bag_position' = [bag_position EXCEPT ![k] = p]
    BY <1>6 DEF RestartBaggage
  <2>3. PICK p \in 0..Len(BagPartition(k)) : bag_position' = [bag_position EXCEPT ![k] = p]
    BY <2>2
  <2>4. ASSUME NEW i \in Incident PROVE bag_position'[i] \in Nat /\ bag_position'[i] <= Len(log[i])
    <3>1. CASE i = k
      BY <1>0, <2>3, <3>1 DEF BagPartition
    <3>2. CASE i # k
      BY <1>0, <2>3, <3>2 DEF Agrees
    <3> QED BY <3>1, <3>2
  <2>5. UNCHANGED <<node, unsent, log, lost>> /\ Open' = Open
    BY <2>1 DEF newsVars, Open
  <2>6. ASSUME NEW i \in Incident PROVE Agrees(i, bag_position[i], active_failures)'
    <3>1. Agrees(i, bag_position'[i], Open)
      BY <2>4, RestartAgrees
    <3>2. (Misordered(i)' <=> Misordered(i)) /\ \A j : Logged(i, j)' <=> Logged(i, j)
      BY <2>5 DEF Misordered, Logged
    <3> QED BY <2>1, <2>5, <3>1, <3>2 DEF Agrees, ToCome
  <2>7. NewsInv'
    BY <1>0, <2>1, NewsSteps
  <2>8. active_failures' \subseteq Incident
    BY <2>1 DEF Open
  <2> QED BY <2>1, <2>6, <2>7, <2>8 DEF OfflineInv, StoppedBy
<1> QED BY <1>1, <1>2, <1>3, <1>4, <1>5, <1>6 DEF BaggageNext


-----------------------------------------------------------------------------
(* The messages that take bags off the conveyor.                           *)

(* A bag moves forward in the step; and the invariant of the bags but for  *)
(* the news, of which TopicsNext speaks.                                     *)
Onward ==
  \A b \in Bag : b \in missed' \/ Redirected(b) \/ Repeated(b)
                   \/ Before[bag[b].status] <= Before[bag'[b].status]
CoreNext == BagsOK' /\ QueuesOK' /\ ExitsOK' /\ GoodOK' /\ NotYet' /\ TurnsOK' /\ Onward

LEMMA BeforeValues ==
  /\ \A s \in BagStatus : Before[s] \in Nat
  /\ \A s \in BagStatus \ Beyond : Before[s] <= 5
  /\ Before["dropped_off"] = 0 /\ Before["inducted"] = 1 /\ Before["screening"] = 2
  /\ Before["sorting"] = 3 /\ Before["flagged"] = 3 /\ Before["loaded"] = 4
  /\ Before["in_hold"] = 5 /\ Before["offloaded"] = 5 /\ Before["arrived"] = 6
  /\ Before["on_carousel"] = 7 /\ Before["collected"] = 8
BY DEF Before, BagStatus, Beyond

LEMMA OthersOnward ==
  ASSUME BagsOK, NEW b \in Bag, \A c \in Bag : c # b => bag'[c] = bag[c],
         b \in missed' \/ Redirected(b) \/ Repeated(b) \/ Before[bag[b].status] <= Before[bag'[b].status]
  PROVE  Onward
BY BeforeValues DEF Onward, BagsOK

LEMMA ZonesGiven ==
  ASSUME NEW q \in [Zone -> Seq(Item)], NEW z \in Zone, NEW x \in ToSet(q[z])
  PROVE  x \in Item /\ x.bag \in Bag /\ x.flight \in BagFlight /\ Holds(q[z], x.bag)
<1>1. q[z] \in Seq(Item)
  OBVIOUS
<1>2. x \in Item
  BY <1>1, HoldsItems, BaggageAssumption DEF ToSet
<1>3. x.bag \in Bag /\ x.flight \in BagFlight
  BY <1>2 DEF Item
<1> QED BY <1>1, <1>2, <1>3, HoldsItems

(* Bags are taken off the conveyor between two messages.                   *)
LEMMA TakenOff ==
  ASSUME BagInv, Quiet, exits' = exits, again' = again, missed \subseteq missed',
         NEW all \in SUBSET Bag, NEW off \in SUBSET all,
         queue' = remove_bag_from_all_zones(queue, off), all \ off \subseteq missed',
         \A b \in Bag \ all : bag'[b] = bag[b],
         \A b \in all : /\ bag'[b].status \notin InPipeline \/ bag'[b].zone \notin Zone
                        /\ bag'[b].status = "dropped_off" => bag[b].status = "dropped_off",
         \A b \in Bag \ off : loaded_on'[b] = loaded_on[b]
  PROVE  /\ QueuesOK' /\ ExitsOK' /\ GoodOK'
         /\ \A b \in Bag : (Found(queue, b)' => Found(queue, b)) /\ ExitsOf(b)' = {}
<1> DEFINE r == remove_bag_from_all_zones(queue, off)
<1>1. queue \in [Zone -> Seq(Item)] /\ off \in SUBSET Bag
  BY DEF BagInv, QueuesOK
<1>2. /\ r \in [Zone -> Seq(Item)]
      /\ \A z \in Zone : ToSet(r[z]) \subseteq ToSet(queue[z])
      /\ \A b \in Bag : Single(queue, b) => Single(r, b)
      /\ \A b \in off : Single(queue, b) => ~Found(r, b)
      /\ \A b \in Bag \ off : \A z \in Zone : Holds(r[z], b) <=> Holds(queue[z], b)
  BY <1>1, RemovedBags
<1>3. queue' = r
  OBVIOUS
<1> HIDE DEF r
<1>4. \A z \in Zone : \A b \in Bag : Holds(queue'[z], b) => Holds(queue[z], b)
  <2> TAKE z \in Zone
  <2> TAKE b \in Bag
  <2>1. queue[z] \in Seq(Item) /\ r[z] \in Seq(Item)
    BY <1>1, <1>2
  <2> QED BY <1>2, <1>3, <2>1, HoldsItems
<1>5. ASSUME NEW z \in Zone, NEW x \in ToSet(queue'[z])
      PROVE  FitsIn(x, z)' /\ bag'[x.bag].status # "dropped_off"
  <2>1. x \in ToSet(queue[z]) /\ x.bag \in Bag /\ Holds(queue'[z], x.bag)
    BY <1>2, <1>3, ZonesGiven
  <2>2. FitsIn(x, z) /\ bag[x.bag].status # "dropped_off"
    BY <2>1 DEF BagInv, QueuesOK
  <2>3. bag'[x.bag].status # "dropped_off"
    BY <2>1, <2>2
  <2>4. CASE x.bag \in Outbound
    <3>1. Single(queue, x.bag)
      BY <2>4 DEF BagInv, QueuesOK
    <3>2. x.bag \notin off
      BY <1>2, <1>3, <2>1, <3>1 DEF Found
    <3> QED BY <2>1, <2>2, <2>3, <2>4, <3>2 DEF FitsIn
  <2>5. CASE x.bag \notin Outbound
    BY <2>2, <2>3, <2>5 DEF FitsIn
  <2> QED BY <2>4, <2>5
<1>6. QueuesOK'
  BY <1>2, <1>3, <1>5, Ways DEF BagInv, QueuesOK
<1>7. exits' = {} /\ \A b : ExitsOf(b)' = {}
  BY DEF Quiet, ExitsOf
<1>8. ExitsOK'
  BY <1>7 DEF ExitsOK
<1>9. ASSUME NEW b \in Bag, Good(b)'
      PROVE  /\ Single(queue, b)'
             /\ \A z \in Zone : Holds(queue'[z], b) => z = bag'[b].zone /\ bag'[b].status = StatusIn(z)
             /\ bag'[b].status \in InPipeline /\ bag'[b].zone \in Zone => Holds(queue'[bag'[b].zone], b)
  <2>1. Good(b) /\ b \notin missed'
    BY <1>9 DEF Good, Repeated
  <2>2. ExitsOf(b) = {}
    BY DEF Quiet, ExitsOf
  <2>3. /\ Single(queue, b)
        /\ \A z \in Zone : Holds(queue[z], b) => z = bag[b].zone /\ bag[b].status = StatusIn(z)
        /\ bag[b].status \in InPipeline /\ bag[b].zone \in Zone => Holds(queue[bag[b].zone], b)
    BY <2>1, <2>2 DEF BagInv, GoodOK
  <2>4. Single(queue', b)
    BY <1>2, <1>3, <2>3
  <2>5. CASE b \in off
    <3>1. \A z \in Zone : ~Holds(queue'[z], b)
      BY <1>2, <1>3, <2>3, <2>5 DEF Found
    <3> QED BY <2>4, <2>5, <3>1 DEF Single
  <2>6. CASE b \notin off
    <3>1. b \notin all
      BY <2>1, <2>6
    <3>2. bag'[b] = bag[b] /\ \A z \in Zone : Holds(queue'[z], b) <=> Holds(queue[z], b)
      BY <1>2, <1>3, <2>6, <3>1
    <3> QED BY <2>3, <2>4, <3>2 DEF Single
  <2> QED BY <2>5, <2>6
<1>10. GoodOK'
  BY <1>7, <1>9 DEF GoodOK
<1>11. \A b \in Bag : Found(queue, b)' => Found(queue, b)
  BY <1>4 DEF Found
<1> QED BY <1>6, <1>7, <1>8, <1>10, <1>11

(* A flight is loaded or unloaded as a whole, or as far as the handler got.*)
LEMMA FlightTakenOff ==
  ASSUME BagInv, Quiet, NEW f \in Departing, NEW all \in SUBSET get_flight_baggage(f),
         NEW off \in SUBSET all, NEW status \in {"in_hold", "offloaded"}, NEW zone \in NoZone,
         SetAll(all, status, zone), queue' = remove_bag_from_all_zones(queue, off),
         missed \subseteq missed', all \ off \subseteq missed', Done(f),
         UNCHANGED <<loaded_on, exits, again, turns>>
  PROVE  CoreNext
<1>0. BagsOK /\ all \in SUBSET Bag
  BY DEF BagInv, get_flight_baggage
<1>1. BagsOK' /\ \A c \in Bag :
        bag'[c] = IF c \in all THEN [status |-> status, zone |-> zone] ELSE bag[c]
  BY <1>0, AllSet
<1>2. \A b \in all : bag'[b].status = status /\ bag'[b].status \notin InPipeline
                     /\ bag'[b].status # "dropped_off"
  BY <1>0, <1>1 DEF InPipeline
<1>3. /\ QueuesOK' /\ ExitsOK' /\ GoodOK'
      /\ \A b \in Bag : (Found(queue, b)' => Found(queue, b)) /\ ExitsOf(b)' = {}
  BY <1>0, <1>1, <1>2, TakenOff
<1>4. TurnsOK'
  BY DEF BagInv, TurnsOK, turns
<1>5. Onward
  <2> SUFFICES ASSUME NEW b \in Bag, ~Redirected(b), ~Repeated(b)
               PROVE  Before[bag[b].status] <= Before[bag'[b].status]
    BY DEF Onward
  <2>1. CASE b \in all
    <3>1. loaded_on[b] # {FlightOf[b]} \/ b \in Outbound
      <4>1. f \in loaded_on[b]
        BY <2>1 DEF get_flight_baggage
      <4> QED BY <4>1, Ways
    <3>2. b \in Outbound
      BY <3>1, Ways DEF Redirected
    <3>3. bag[b].status \in BagStatus \ Beyond
      BY <1>0, <3>2 DEF BagsOK
    <3>4. bag'[b].status \in {"in_hold", "offloaded"}
      BY <1>2, <2>1
    <3> QED BY <3>3, <3>4, BeforeValues
  <2>2. CASE b \notin all
    BY <1>0, <1>1, <2>2, BeforeValues DEF BagsOK
  <2> QED BY <2>1, <2>2
<1>6. NotYet'
  <2> SUFFICES ASSUME NEW b \in Inbound, ~Redirected(b)', ~Repeated(b)', bag_position'[FlightOf[b]] = 0
               PROVE  bag'[b].status = "in_hold" /\ ~Found(queue, b)' /\ ExitsOf(b)' = {}
    BY DEF NotYet
  <2>1. ~Redirected(b) /\ ~Repeated(b) /\ b \in Bag
    BY Ways DEF Redirected, Repeated
  <2>2. bag_position[FlightOf[b]] = 0
    BY Ways DEF Done, BagInv, TopicsOK
  <2>3. bag[b].status = "in_hold" /\ ~Found(queue, b)
    BY <2>1, <2>2 DEF BagInv, NotYet
  <2>4. b \notin all
    BY <2>1, Ways DEF Redirected, get_flight_baggage
  <2> QED BY <1>1, <1>3, <2>1, <2>3, <2>4
<1> QED BY <1>1, <1>3, <1>4, <1>5, <1>6 DEF CoreNext

LEMMA FlightsLeave ==
  ASSUME BagInv, OnDeparted \/ OnCancelled \/ MessageFails
  PROVE  CoreNext
<1>1. CASE OnDeparted
  <2>1. PICK f \in Departing :
          /\ Quiet /\ Done(f) /\ SetAll(get_flight_baggage(f), "in_hold", "aircraft-hold")
          /\ queue' = remove_bag_from_all_zones(queue, get_flight_baggage(f))
          /\ UNCHANGED <<loaded_on, exits, again, missed, turns>>
    BY <1>1 DEF OnDeparted, bagHistory
  <2>2. "aircraft-hold" \in NoZone
    BY DEF NoZone
  <2> QED BY <2>1, <2>2, FlightTakenOff
<1>2. CASE OnCancelled
  <2>1. PICK f \in Departing :
          /\ Quiet /\ Done(f)
          /\ offload_flight_baggage(f, IF f \in _offloaded_flights THEN {} ELSE get_flight_baggage(f))
          /\ UNCHANGED <<loaded_on, exits, again, missed, turns>>
    BY <1>2 DEF OnCancelled, bagHistory
  <2> DEFINE all == IF f \in _offloaded_flights THEN {} ELSE get_flight_baggage(f)
  <2>2. SetAll(all, "offloaded", "return") /\ queue' = remove_bag_from_all_zones(queue, all)
    BY <2>1 DEF offload_flight_baggage
  <2>3. "return" \in NoZone /\ all \in SUBSET get_flight_baggage(f)
    BY DEF NoZone
  <2> HIDE DEF all
  <2> QED BY <2>1, <2>2, <2>3, FlightTakenOff
<1>3. CASE MessageFails
  <2>1. PICK f \in Departing : \E bags \in SUBSET get_flight_baggage(f) :
          /\ Quiet /\ Done(f) /\ missed' = missed \cup (get_flight_baggage(f) \ bags)
          /\ \/ /\ SetAll(get_flight_baggage(f), "in_hold", "aircraft-hold")
                /\ queue' = remove_bag_from_all_zones(queue, bags)
             \/ offload_flight_baggage(f, bags)
          /\ UNCHANGED <<loaded_on, exits, again, turns>>
    BY <1>3 DEF MessageFails
  <2>2. PICK bags \in SUBSET get_flight_baggage(f) :
          /\ Quiet /\ Done(f) /\ missed' = missed \cup (get_flight_baggage(f) \ bags)
          /\ \/ /\ SetAll(get_flight_baggage(f), "in_hold", "aircraft-hold")
                /\ queue' = remove_bag_from_all_zones(queue, bags)
             \/ offload_flight_baggage(f, bags)
          /\ UNCHANGED <<loaded_on, exits, again, turns>>
    BY <2>1
  <2>3. "aircraft-hold" \in NoZone /\ "return" \in NoZone /\ missed \subseteq missed'
        /\ get_flight_baggage(f) \ bags \subseteq missed'
    BY <2>2 DEF NoZone
  <2>4. CASE SetAll(get_flight_baggage(f), "in_hold", "aircraft-hold")
             /\ queue' = remove_bag_from_all_zones(queue, bags)
    BY <2>2, <2>3, <2>4, FlightTakenOff
  <2>5. CASE offload_flight_baggage(f, bags)
    <3>1. SetAll(bags, "offloaded", "return") /\ queue' = remove_bag_from_all_zones(queue, bags)
      BY <2>5 DEF offload_flight_baggage
    <3>2. bags \ bags \subseteq missed'
      OBVIOUS
    <3> QED BY <2>2, <2>3, <3>1, <3>2, FlightTakenOff
  <2> QED BY <2>2, <2>4, <2>5
<1> QED BY <1>1, <1>2, <1>3

LEMMA BagRedirected ==
  ASSUME BagInv, RedirectBaggage
  PROVE  CoreNext
<1>1. PICK b \in Bag, f \in Departing :
        /\ Quiet /\ loaded_on' = [loaded_on EXCEPT ![b] = {f}]
        /\ bag' = [bag EXCEPT ![b].zone = "redirected"]
        /\ queue' = remove_bag_from_all_zones(queue, {b})
        /\ UNCHANGED <<bag_position, exits, missed, again, turns>>
  BY DEF RedirectBaggage
<1>2. /\ \A c \in Bag : c # b => bag'[c] = bag[c] /\ loaded_on'[c] = loaded_on[c]
      /\ bag'[b].status = bag[b].status /\ bag'[b].zone = "redirected" /\ loaded_on'[b] = {f}
      /\ "redirected" \in NoZone /\ "redirected" \notin Zone
  BY <1>1, BaggageAssumption DEF BagInv, BagsOK, NoZone
<1>3. BagsOK'
  <2>1. bag' \in [Bag -> [status : BagStatus, zone : Zone \cup NoZone]]
        /\ loaded_on' \in [Bag -> SUBSET BagFlight]
    BY <1>1, <1>2, Ways DEF BagInv, BagsOK
  <2>2. \A c \in Bag : OnFlight(c)'
    BY <1>2, Ways DEF BagInv, BagsOK, OnFlight
  <2>3. \A c \in Bag : bag'[c].status = bag[c].status
    BY <1>2
  <2>4. \A c \in Bag : bag'[c].status \in Traced /\ bag'[c].zone \in Zone =>
                         bag'[c].zone \in ZonesFor(bag'[c].status)
    BY <1>2 DEF BagInv, BagsOK
  <2> QED BY <2>1, <2>2, <2>3, <2>4, Ways DEF BagInv, BagsOK
<1>4. /\ QueuesOK' /\ ExitsOK' /\ GoodOK'
      /\ \A c \in Bag : (Found(queue, c)' => Found(queue, c)) /\ ExitsOf(c)' = {}
  <2> DEFINE all == {b}
  <2>1. all \in SUBSET Bag /\ all \in SUBSET all /\ all \ all \subseteq missed'
    OBVIOUS
  <2>2. \A c \in all : c = b
    OBVIOUS
  <2>3. \A c \in Bag \ all : c # b
    OBVIOUS
  <2>4. queue' = remove_bag_from_all_zones(queue, all) /\ Quiet /\ missed \subseteq missed'
        /\ exits' = exits /\ again' = again
    BY <1>1
  <2> HIDE DEF all
  <2>5. /\ \A c \in Bag \ all : bag'[c] = bag[c] /\ loaded_on'[c] = loaded_on[c]
        /\ \A c \in all : /\ bag'[c].status \notin InPipeline \/ bag'[c].zone \notin Zone
                          /\ bag'[c].status = "dropped_off" => bag[c].status = "dropped_off"
    BY <1>2, <2>2, <2>3
  <2> QED BY <2>1, <2>4, <2>5, TakenOff
<1>5. TurnsOK'
  BY <1>1 DEF BagInv, TurnsOK, turns
<1>6. Onward
  BY <1>2, BeforeValues DEF Onward, BagInv, BagsOK
<1>7. NotYet'
  <2> SUFFICES ASSUME NEW c \in Inbound, ~Redirected(c)', ~Repeated(c)', bag_position'[FlightOf[c]] = 0
               PROVE  bag'[c].status = "in_hold" /\ ~Found(queue, c)' /\ ExitsOf(c)' = {}
    BY DEF NotYet
  <2>1. c # b
    BY <1>2, Ways DEF Redirected
  <2>2. ~Redirected(c) /\ ~Repeated(c) /\ c \in Bag
    BY <1>1, <1>2, <2>1, Ways DEF Redirected, Repeated
  <2> QED BY <1>1, <1>2, <1>4, <2>1, <2>2 DEF BagInv, NotYet
<1> QED BY <1>3, <1>4, <1>5, <1>6, <1>7 DEF CoreNext

-----------------------------------------------------------------------------
(* An arrival, and a restart.                                              *)

LEMMA FlightArrives ==
  ASSUME BagInv, OnAtGate
  PROVE  CoreNext
<1>a. PICK f \in Arriving : \E belt \in BeltsOf[f] :
        /\ Quiet /\ Heard(f, "at_gate") /\ Done(f)
        /\ SetAll(get_flight_baggage(f), "arrived", belt)
        /\ queue' = [queue EXCEPT ![belt] =
             @ \o SetToSeq({[bag |-> b, flight |-> f] : b \in get_flight_baggage(f)})]
        /\ UNCHANGED <<loaded_on, exits, missed, again, turns>>
  BY DEF OnAtGate, bagHistory
<1>1. PICK belt \in BeltsOf[f] :
        /\ Quiet /\ Heard(f, "at_gate") /\ Done(f)
        /\ SetAll(get_flight_baggage(f), "arrived", belt)
        /\ queue' = [queue EXCEPT ![belt] =
             @ \o SetToSeq({[bag |-> b, flight |-> f] : b \in get_flight_baggage(f)})]
        /\ UNCHANGED <<loaded_on, exits, missed, again, turns>>
  BY <1>a
<1> DEFINE all == get_flight_baggage(f)
           S == {[bag |-> b, flight |-> f] : b \in all}
           s == SetToSeq(S)
<1>0. BagsOK /\ queue \in [Zone -> Seq(Item)] /\ all \in SUBSET Bag /\ exits = {} /\ f \in BagFlight
  BY <1>1, Ways DEF BagInv, get_flight_baggage, QueuesOK, Quiet
<1>2. \A b \in all : b \in Inbound /\ FlightOf[b] = f /\ loaded_on[b] = {f} /\ ~Redirected(b)
  <2> TAKE b \in all
  <2>1. b \in Bag /\ f \in loaded_on[b] /\ OnFlight(b)
    BY <1>0 DEF get_flight_baggage, BagsOK
  <2>2. loaded_on[b] = {f} /\ FlightOf[b] = f
    BY <2>1, Ways DEF OnFlight
  <2> QED BY <2>1, <2>2 DEF Inbound, Redirected
<1>3. bag_position[f] = 0
  BY <1>1, Ways DEF Heard, BagInv, TopicsOK
<1>4. \A b \in all : ~Repeated(b) => bag[b].status = "in_hold" /\ ~Found(queue, b)
  BY <1>2, <1>3 DEF BagInv, NotYet
<1>5. belt \in Belts /\ belt \in Zone /\ belt \notin Pipeline /\ StatusIn(belt) = "arrived"
  <2>1. belt \in Belts
    BY DEF Belts
  <2> QED BY <2>1, Zones, ZoneStatus DEF StatusIn, Pipeline
<1>6. s \in Seq(Item) /\ ToSet(s) = S /\ \A b \in Bag : Once(s, Of(b))
  <2>1. S \subseteq Item /\ \A x, y \in S : x.bag = y.bag => x = y
    BY <1>0 DEF Item
  <2> HIDE DEF S
  <2> QED BY <2>1, RowsInLine
<1>7. \A x : x \in S <=> \E b \in all : x = [bag |-> b, flight |-> f]
  OBVIOUS
<1>8. \A c \in Bag : bag'[c] = IF c \in all THEN [status |-> "arrived", zone |-> belt] ELSE bag[c]
  BY <1>1 DEF SetAll, Scan
<1>9. queue' = [queue EXCEPT ![belt] = @ \o s] /\ bag' \in [Bag -> [status : BagStatus, zone : Zone \cup NoZone]]
  <2>1. bag' = [c \in Bag |-> IF c \in all THEN [status |-> "arrived", zone |-> belt] ELSE bag[c]]
    BY <1>1 DEF SetAll, Scan
  <2>2. "arrived" \in BagStatus
    BY DEF BagStatus
  <2> QED BY <1>0, <1>1, <1>5, <2>1, <2>2 DEF BagsOK
<1> HIDE DEF all, S, s
<1>10. /\ \A z \in Zone : z # belt => queue'[z] = queue[z]
       /\ queue'[belt] \in Seq(Item) /\ ToSet(queue'[belt]) = ToSet(queue[belt]) \cup S
       /\ \A B : Once(queue[belt], B) /\ Once(s, B) /\ ~(Some(queue[belt], B) /\ Some(s, B))
                 => Once(queue'[belt], B)
  <2>1. queue[belt] \in Seq(Item) /\ queue'[belt] = queue[belt] \o s
    BY <1>0, <1>5, <1>9
  <2>2. \A z \in Zone : z # belt => queue'[z] = queue[z]
    BY <1>0, <1>9
  <2>3. /\ queue'[belt] \in Seq(Item) /\ ToSet(queue'[belt]) = ToSet(queue[belt]) \cup ToSet(s)
        /\ \A B : Once(queue[belt], B) /\ Once(s, B) /\ ~(Some(queue[belt], B) /\ Some(s, B))
                  => Once(queue'[belt], B)
    BY <1>6, <2>1, OnceJoined
  <2> QED BY <1>6, <2>2, <2>3
<1>11. queue' \in [Zone -> Seq(Item)]
  BY <1>0, <1>6, <1>9, <1>10
<1>12. \A b \in Bag : \A z \in Zone :
         Holds(queue'[z], b) <=> Holds(queue[z], b) \/ (z = belt /\ b \in all)
  <2> TAKE b \in Bag
  <2> TAKE z \in Zone
  <2>1. queue[z] \in Seq(Item) /\ queue'[z] \in Seq(Item)
    BY <1>0, <1>11
  <2>2. CASE z = belt
    <3>1. Holds(queue'[z], b) <=> (\E x \in ToSet(queue[z]) : x.bag = b) \/ \E x \in S : x.bag = b
      BY <1>10, <2>1, <2>2, HoldsItems
    <3>2. (\E x \in S : x.bag = b) <=> b \in all
      <4>1. b \in all => [bag |-> b, flight |-> f] \in S
        BY <1>7
      <4> QED BY <1>7, <4>1
    <3> QED BY <2>1, <2>2, <3>1, <3>2, HoldsItems
  <2>3. CASE z # belt
    BY <1>10, <2>3
  <2> QED BY <2>2, <2>3
<1>13. \A b \in Bag : Single(queue, b) /\ (b \in all => ~Found(queue, b)) => Single(queue', b)
  <2> SUFFICES ASSUME NEW b \in Bag, Single(queue, b), b \in all => ~Found(queue, b)
               PROVE  Single(queue', b)
    OBVIOUS
  <2>1. \A y, z \in Zone : Holds(queue'[y], b) /\ Holds(queue'[z], b) => y = z
    BY <1>12 DEF Single, Found
  <2>2. Once(queue'[belt], Of(b))
    <3>1. Once(queue[belt], Of(b)) /\ Once(s, Of(b))
      BY <1>5, <1>6 DEF Single
    <3>2. Some(s, Of(b)) => b \in all
      <4>1. Some(s, Of(b)) <=> \E x \in S : x.bag = b
        BY <1>6, HoldsItems
      <4> QED BY <1>7, <4>1
    <3>3. Some(queue[belt], Of(b)) => Found(queue, b)
      <4>1. queue[belt] \in Seq(Item)
        BY <1>0, <1>5
      <4> QED BY <1>5, <4>1, HoldsItems DEF Found
    <3> QED BY <1>10, <3>1, <3>2, <3>3
  <2>3. \A z \in Zone : Once(queue'[z], Of(b))
    BY <1>10, <2>2 DEF Single
  <2> QED BY <2>1, <2>3 DEF Single
<1>14. BagsOK'
  <2>1. \A b \in Outbound : bag'[b] = bag[b]
    BY <1>2, <1>8, Ways
  <2>2. "arrived" \in Beyond /\ belt \in ZonesFor("arrived")
    BY <1>5, ZoneStatus DEF Beyond
  <2>3. ASSUME NEW c \in Bag
        PROVE  /\ c \in Inbound => bag'[c].status \in {"in_hold", "offloaded"} \cup Beyond
               /\ bag'[c].status \in Traced /\ bag'[c].zone \in Zone => bag'[c].zone \in ZonesFor(bag'[c].status)
    <3>1. CASE c \in all
      BY <1>8, <2>2, <3>1
    <3>2. CASE c \notin all
      BY <1>0, <1>8, <3>2 DEF BagsOK
    <3> QED BY <3>1, <3>2
  <2>4. \A c \in Bag : OnFlight(c)'
    BY <1>0, <1>1 DEF BagsOK, OnFlight
  <2> QED BY <1>0, <1>1, <1>9, <2>1, <2>3, <2>4, Ways DEF BagsOK
<1>15. QueuesOK'
  <2>1. ASSUME NEW z \in Zone, NEW x \in ToSet(queue'[z])
        PROVE  FitsIn(x, z)' /\ bag'[x.bag].status # "dropped_off"
    <3>1. x.bag \in Bag
      BY <1>11, ZonesGiven
    <3>2. CASE x \in ToSet(queue[z])
      <4>1. FitsIn(x, z) /\ bag[x.bag].status # "dropped_off"
        BY <3>2 DEF BagInv, QueuesOK
      <4> QED BY <1>1, <1>8, <3>1, <4>1 DEF FitsIn
    <3>3. CASE x \notin ToSet(queue[z])
      <4>1. z = belt /\ x \in S
        BY <1>10, <3>3
      <4>2. x.bag \in all
        BY <1>7, <4>1
      <4> QED BY <1>2, <1>5, <1>8, <3>1, <4>1, <4>2, Ways DEF FitsIn
    <3> QED BY <3>2, <3>3
  <2>2. \A b \in Outbound : Single(queue', b)
    BY <1>2, <1>13, Ways DEF BagInv, QueuesOK
  <2> QED BY <1>11, <2>1, <2>2, Ways DEF QueuesOK
<1>16. exits' = {} /\ \A b : ExitsOf(b) = {} /\ ExitsOf(b)' = {}
  BY <1>0, <1>1 DEF ExitsOf
<1>17. ExitsOK'
  BY <1>16 DEF ExitsOK
<1>18. ASSUME NEW b \in Bag, Good(b)'
       PROVE  /\ Single(queue, b)'
              /\ \A z \in Zone : Holds(queue'[z], b) => z = bag'[b].zone /\ bag'[b].status = StatusIn(z)
              /\ bag'[b].status \in InPipeline /\ bag'[b].zone \in Zone => Holds(queue'[bag'[b].zone], b)
  <2>1. Good(b)
    BY <1>1, <1>18 DEF Good, Repeated
  <2>2. /\ Single(queue, b)
        /\ \A z \in Zone : Holds(queue[z], b) => z = bag[b].zone /\ bag[b].status = StatusIn(z)
        /\ bag[b].status \in InPipeline /\ bag[b].zone \in Zone => Holds(queue[bag[b].zone], b)
    BY <1>16, <2>1 DEF BagInv, GoodOK
  <2>3. CASE b \in all
    <3>1. ~Found(queue, b)
      BY <1>4, <2>1, <2>3 DEF Good
    <3>2. Single(queue', b)
      BY <1>13, <2>2, <3>1
    <3>3. \A z \in Zone : Holds(queue'[z], b) <=> z = belt
      BY <1>12, <2>3, <3>1 DEF Found
    <3> QED BY <1>5, <1>8, <2>3, <3>2, <3>3 DEF Single
  <2>4. CASE b \notin all
    <3>1. Single(queue', b)
      BY <1>13, <2>2, <2>4
    <3>2. bag'[b] = bag[b] /\ \A z \in Zone : Holds(queue'[z], b) <=> Holds(queue[z], b)
      BY <1>8, <1>12, <2>4
    <3> QED BY <2>2, <3>1, <3>2 DEF Single
  <2> QED BY <2>3, <2>4
<1>19. GoodOK'
  BY <1>16, <1>18 DEF GoodOK
<1>20. NotYet'
  <2> SUFFICES ASSUME NEW b \in Inbound, ~Redirected(b)', ~Repeated(b)', bag_position'[FlightOf[b]] = 0
               PROVE  bag'[b].status = "in_hold" /\ ~Found(queue, b)' /\ ExitsOf(b)' = {}
    BY DEF NotYet
  <2>1. ~Redirected(b) /\ ~Repeated(b) /\ b \in Bag
    BY <1>1, Ways DEF Redirected, Repeated
  <2>2. FlightOf[b] # f /\ bag_position[FlightOf[b]] = 0
    BY <1>1, <1>3, Ways DEF Done, BagInv, TopicsOK
  <2>3. bag[b].status = "in_hold" /\ ~Found(queue, b)
    BY <2>1, <2>2 DEF BagInv, NotYet
  <2>4. b \notin all
    BY <1>2, <2>2
  <2> QED BY <1>8, <1>12, <1>16, <2>1, <2>3, <2>4 DEF Found
<1>21. TurnsOK'
  BY <1>1 DEF BagInv, TurnsOK, turns
<1>22. Onward
  <2> SUFFICES ASSUME NEW b \in Bag, ~Repeated(b)
               PROVE  Before[bag[b].status] <= Before[bag'[b].status]
    BY DEF Onward
  <2>1. CASE b \in all
    <3>1. bag[b].status = "in_hold" /\ bag'[b].status = "arrived"
      BY <1>4, <1>8, <2>1
    <3>2. Before["in_hold"] = 5 /\ Before["arrived"] = 6
      BY BeforeValues
    <3> QED BY <3>1, <3>2
  <2>2. CASE b \notin all
    BY <1>0, <1>8, <2>2, BeforeValues DEF BagsOK
  <2> QED BY <2>1, <2>2
<1> QED BY <1>14, <1>15, <1>17, <1>19, <1>20, <1>21, <1>22 DEF CoreNext

LEMMA BaggageRestarts ==
  ASSUME BagInv, RestartBaggage
  PROVE  CoreNext
<1>1. /\ queue' = [z \in Zone |-> SetToSeq(Rebuilt(z))] /\ exits' = {} /\ missed' = {}
      /\ screening_turn' = [t \in Terminal |-> 0] /\ makeup_turn' = [t \in Terminal |-> 0]
      /\ UNCHANGED <<bag, loaded_on>>
      /\ \E k \in DOMAIN bag_position : \E p \in 0..Len(BagPartition(k)) :
           /\ bag_position' = [bag_position EXCEPT ![k] = p]
           /\ again' = IF p < bag_position[k] THEN again \cup {k} ELSE again
  BY DEF RestartBaggage, bagNodes
<1>2. BagsOK /\ BagsOK'
  BY <1>1, BagsStay DEF BagInv, bagNodes
<1>3. ASSUME NEW z \in Zone
      PROVE  /\ queue'[z] \in Seq(Item) /\ ToSet(queue'[z]) = Rebuilt(z)
             /\ \A b \in Bag : Once(queue'[z], Of(b))
  <2>1. Rebuilt(z) \subseteq Item /\ \A x, y \in Rebuilt(z) : x.bag = y.bag => x = y
    BY <1>2, RowsKnown DEF Rebuilt, get_baggage_in_pipeline
  <2>2. queue'[z] = SetToSeq(Rebuilt(z))
    BY <1>1
  <2> QED BY <2>1, <2>2, RowsInLine
<1>4. queue' \in [Zone -> Seq(Item)]
  BY <1>1, <1>3
<1>5. \A z \in Zone : \A x : x \in Rebuilt(z) <=>
        x \in Rows /\ bag[x.bag].status \in InPipeline /\ bag[x.bag].zone = z
  BY DEF Rebuilt, get_baggage_in_pipeline
<1>6. \A b \in Bag : \A z \in Zone :
        Holds(queue'[z], b) <=> bag[b].status \in InPipeline /\ bag[b].zone = z
  <2> TAKE b \in Bag
  <2> TAKE z \in Zone
  <2>1. Holds(queue'[z], b) <=> \E x \in Rebuilt(z) : x.bag = b
    BY <1>3, HoldsItems
  <2>2. \E x \in Rows : x.bag = b
    <3>1. PICK g \in BagFlight : loaded_on[b] = {g}
      BY <1>2 DEF BagsOK, OnFlight
    <3>2. [bag |-> b, flight |-> g] \in Rows
      BY <3>1 DEF Rows
    <3> QED BY <3>2
  <2> QED BY <1>5, <2>1, <2>2
<1>7. \A b \in Bag : Single(queue', b)
  BY <1>3, <1>6 DEF Single
<1>8. ASSUME NEW b \in Bag, bag[b].status \in InPipeline, bag[b].zone \in Zone
      PROVE  /\ bag[b].status = StatusIn(bag[b].zone)
             /\ b \in Outbound => bag[b].zone \in Pipeline
             /\ b \notin Outbound => bag[b].zone \in Belts
  <2>1. bag[b].status \in Traced /\ bag[b].zone \in ZonesFor(bag[b].status)
    BY <1>2, <1>8, ZoneStatus DEF BagsOK
  <2>2. bag[b].status = StatusIn(bag[b].zone)
    BY <2>1, ZoneStatus
  <2>3. b \in Outbound => bag[b].status # "arrived"
    BY <1>2 DEF BagsOK, Beyond
  <2>4. b \notin Outbound => bag[b].status = "arrived"
    BY <1>2, <1>8, Ways DEF BagsOK, InPipeline, Beyond
  <2> QED BY <2>1, <2>2, <2>3, <2>4, ZoneStatus
<1>9. QueuesOK'
  <2>1. ASSUME NEW z \in Zone, NEW x \in ToSet(queue'[z])
        PROVE  FitsIn(x, z)' /\ bag'[x.bag].status # "dropped_off"
    <3>1. x \in Rows /\ bag[x.bag].status \in InPipeline /\ bag[x.bag].zone = z
      BY <1>3, <1>5
    <3>2. x.bag \in Bag /\ loaded_on[x.bag] = {x.flight}
      BY <1>2, <3>1, RowsKnown DEF Item
    <3>3. FitsIn(x, z)
      BY <1>8, <3>1, <3>2 DEF FitsIn
    <3> QED BY <1>1, <3>1, <3>3 DEF FitsIn, InPipeline
  <2> QED BY <1>4, <1>7, <2>1, Ways DEF QueuesOK
<1>10. ExitsOK' /\ \A b : ExitsOf(b)' = {}
  BY <1>1 DEF ExitsOK, ExitsOf
<1>11. GoodOK'
  <2>1. ASSUME NEW b \in Bag
        PROVE  /\ Single(queue, b)'
               /\ \A z \in Zone : Holds(queue'[z], b) => z = bag'[b].zone /\ bag'[b].status = StatusIn(z)
               /\ bag'[b].status \in InPipeline /\ bag'[b].zone \in Zone => Holds(queue'[bag'[b].zone], b)
    BY <1>1, <1>6, <1>7, <1>8 DEF Single
  <2> QED BY <1>10, <2>1 DEF GoodOK
<1>12. NotYet'
  <2> SUFFICES ASSUME NEW b \in Inbound, ~Redirected(b)', ~Repeated(b)', bag_position'[FlightOf[b]] = 0
               PROVE  bag'[b].status = "in_hold" /\ ~Found(queue, b)' /\ ExitsOf(b)' = {}
    BY DEF NotYet
  <2>1. PICK k \in DOMAIN bag_position : \E p \in 0..Len(BagPartition(k)) :
           /\ bag_position' = [bag_position EXCEPT ![k] = p]
           /\ again' = IF p < bag_position[k] THEN again \cup {k} ELSE again
    BY <1>1
  <2>2. PICK p \in 0..Len(BagPartition(k)) :
           /\ bag_position' = [bag_position EXCEPT ![k] = p]
           /\ again' = IF p < bag_position[k] THEN again \cup {k} ELSE again
    BY <2>1
  <2>3. b \in Bag /\ FlightOf[b] \in Arriving /\ FlightOf[b] \in DOMAIN bag_position
    BY Ways DEF BagInv, TopicsOK
  <2>4. ~Redirected(b) /\ ~Repeated(b)
    BY <1>1, <2>2, <2>3 DEF Redirected, Repeated
  <2>5. bag_position[FlightOf[b]] = 0
    <3>1. bag_position[FlightOf[b]] \in Nat /\ DOMAIN bag_position = BagFlight \cup Incident
      BY <2>3 DEF BagInv, TopicsOK
    <3>2. CASE FlightOf[b] = k
      <4>1. p = 0
        BY <2>2, <2>3, <3>2
      <4>2. ~(p < bag_position[k])
        BY <2>2, <2>3, <3>2 DEF Repeated
      <4> QED BY <3>1, <3>2, <4>1, <4>2
    <3>3. CASE FlightOf[b] # k
      BY <2>2, <2>3, <3>3
    <3> QED BY <3>2, <3>3
  <2>6. bag[b].status = "in_hold"
    BY <2>4, <2>5 DEF BagInv, NotYet
  <2>7. ~Found(queue, b)'
    BY <1>6, <2>3, <2>6 DEF Found, InPipeline
  <2> QED BY <1>1, <1>10, <2>6, <2>7
<1>13. TurnsOK'
  BY <1>1 DEF TurnsOK
<1>14. Onward
  BY <1>1, <1>2, BeforeValues DEF Onward, BagsOK
<1> QED BY <1>2, <1>9, <1>10, <1>11, <1>12, <1>13, <1>14 DEF CoreNext

-----------------------------------------------------------------------------
(* The handlers of the bags that left a zone.                              *)

LEMMA ExitKnown ==
  ASSUME BagInv, NEW e \in exits
  PROVE  /\ e.from \in Zone /\ e.item \in Item /\ e.item.bag \in Bag /\ e.item.flight \in BagFlight
         /\ e \in ExitsOf(e.item.bag)
         /\ e.from \in Pipeline \/ e.from \in Belts
         /\ e.from \in Belts => e.item.bag \in Inbound
         /\ e.from \in Pipeline =>
              /\ e.item.bag \in Outbound /\ loaded_on[e.item.bag] = {e.item.flight}
              /\ ExitsOf(e.item.bag) = {e}
              /\ \A z \in Zone : Holds(queue[z], e.item.bag) => z \in After(e.from)
<1>1. e.from \in Zone /\ e.item \in Item /\ FitsIn(e.item, e.from)
  BY DEF BagInv, ExitsOK
<1>2. e.item.bag \in Bag /\ e.item.flight \in BagFlight
  BY <1>1 DEF Item
<1>3. /\ e.from \in Pipeline \/ e.from \in Belts
      /\ e.from \in Belts => e.item.bag \in Inbound
      /\ e.from \in Pipeline => e.item.bag \in Outbound /\ loaded_on[e.item.bag] = {e.item.flight}
  BY <1>1, <1>2, Ways, ZoneStatus DEF FitsIn
<1> QED BY <1>1, <1>2, <1>3 DEF BagInv, ExitsOK, ExitsOf

(* A handler of an exit is through.                                        *)
LEMMA ExitWritten ==
  ASSUME BagInv, NEW e \in exits, exits' = exits \ {e},
         \A c \in Bag : c # e.item.bag => bag'[c] = bag[c], bag'[e.item.bag].status # "dropped_off",
         BagsOK', queue' = queue \/ queue' = remove_bag_from_all_zones(queue, {e.item.bag}),
         missed \subseteq missed', UNCHANGED <<loaded_on, again, bag_position, turns>>,
         Good(e.item.bag)' =>
           /\ \A z \in Zone : Holds(queue'[z], e.item.bag) =>
                z = bag'[e.item.bag].zone /\ bag'[e.item.bag].status = StatusIn(z)
           /\ bag'[e.item.bag].status \in InPipeline /\ bag'[e.item.bag].zone \in Zone =>
                Holds(queue'[bag'[e.item.bag].zone], e.item.bag)
           /\ Before[bag[e.item.bag].status] <= Before[bag'[e.item.bag].status]
  PROVE  CoreNext
<1> DEFINE b == e.item.bag
           r == remove_bag_from_all_zones(queue, {b})
<1>1. b \in Bag /\ e \in ExitsOf(b) /\ queue \in [Zone -> Seq(Item)]
  BY ExitKnown DEF BagInv, QueuesOK
<1>2. /\ r \in [Zone -> Seq(Item)]
      /\ \A z \in Zone : ToSet(r[z]) \subseteq ToSet(queue[z])
      /\ \A c \in Bag : Single(queue, c) => Single(r, c)
      /\ \A c \in Bag \ {b} : \A z \in Zone : Holds(r[z], c) <=> Holds(queue[z], c)
  <2> DEFINE off == {b}
  <2>1. off \in SUBSET Bag /\ \A c \in Bag \ {b} : c \in Bag \ off
    BY <1>1
  <2>2. r = remove_bag_from_all_zones(queue, off)
    OBVIOUS
  <2> HIDE DEF off, r
  <2> QED BY <1>1, <2>1, <2>2, RemovedBags
<1>3. /\ queue' \in [Zone -> Seq(Item)]
      /\ \A z \in Zone : ToSet(queue'[z]) \subseteq ToSet(queue[z])
      /\ \A c \in Bag : Single(queue, c) => Single(queue', c)
      /\ \A c \in Bag : c # b => \A z \in Zone : Holds(queue'[z], c) <=> Holds(queue[z], c)
  <2>1. queue' = queue \/ queue' = r
    OBVIOUS
  <2> HIDE DEF r, b
  <2> QED BY <1>1, <1>2, <2>1
<1> HIDE DEF r, b
<1>4. \A c \in Bag : \A z \in Zone : Holds(queue'[z], c) => Holds(queue[z], c)
  <2> TAKE c \in Bag
  <2> TAKE z \in Zone
  <2>1. queue[z] \in Seq(Item) /\ queue'[z] \in Seq(Item)
    BY <1>1, <1>3
  <2> QED BY <1>3, <2>1, HoldsItems
<1>5. \A c \in Bag : ExitsOf(c)' = IF c = b THEN ExitsOf(b) \ {e} ELSE ExitsOf(c)
  BY DEF ExitsOf, b
<1>6. \A c \in Bag : bag[c].status # "dropped_off" => bag'[c].status # "dropped_off"
  BY DEF b
<1>7. QueuesOK'
  <2>1. ASSUME NEW z \in Zone, NEW x \in ToSet(queue'[z])
        PROVE  FitsIn(x, z)' /\ bag'[x.bag].status # "dropped_off"
    <3>1. x \in ToSet(queue[z]) /\ x.bag \in Bag
      BY <1>3, ZonesGiven
    <3>2. FitsIn(x, z) /\ bag[x.bag].status # "dropped_off"
      BY <3>1 DEF BagInv, QueuesOK
    <3> QED BY <1>6, <3>1, <3>2 DEF FitsIn
  <2> QED BY <1>3, <2>1, Ways DEF BagInv, QueuesOK
<1>8. ExitsOK'
  <2>1. ASSUME NEW d \in exits'
        PROVE  /\ d.from \in Zone /\ d.item \in Item /\ FitsIn(d.item, d.from)'
               /\ bag'[d.item.bag].status # "dropped_off"
               /\ d.item.bag \in Outbound =>
                    /\ ExitsOf(d.item.bag)' = {d}
                    /\ \A z \in Zone : Holds(queue'[z], d.item.bag) => z \in After(d.from)
    <3>1. d \in exits /\ d # e /\ d.item.bag \in Bag
      BY ExitKnown
    <3>2. FitsIn(d.item, d.from) /\ bag[d.item.bag].status # "dropped_off" /\ d.from \in Zone /\ d.item \in Item
      BY <3>1 DEF BagInv, ExitsOK
    <3>3. FitsIn(d.item, d.from)' /\ bag'[d.item.bag].status # "dropped_off"
      BY <1>6, <3>1, <3>2 DEF FitsIn
    <3>4. ASSUME d.item.bag \in Outbound
          PROVE  /\ ExitsOf(d.item.bag)' = {d}
                 /\ \A z \in Zone : Holds(queue'[z], d.item.bag) => z \in After(d.from)
      <4>1. /\ ExitsOf(d.item.bag) = {d}
            /\ \A z \in Zone : Holds(queue[z], d.item.bag) => z \in After(d.from)
        BY <3>1, <3>4 DEF BagInv, ExitsOK
      <4>2. d.item.bag # b
        BY <1>1, <3>1, <4>1
      <4> QED BY <1>4, <1>5, <3>1, <4>1, <4>2
    <3> QED BY <3>2, <3>3, <3>4
  <2>2. exits' \subseteq [from : Zone, item : Item]
    BY DEF BagInv, ExitsOK
  <2> QED BY <2>1, <2>2, Ways DEF ExitsOK
<1>9. GoodOK'
  <2>1. ASSUME NEW c \in Bag, Good(c)'
        PROVE  /\ Single(queue, c)'
               /\ ExitsOf(c)' = {} =>
                    /\ \A z \in Zone : Holds(queue'[z], c) => z = bag'[c].zone /\ bag'[c].status = StatusIn(z)
                    /\ bag'[c].status \in InPipeline /\ bag'[c].zone \in Zone => Holds(queue'[bag'[c].zone], c)
               /\ \A d \in ExitsOf(c)' :
                    /\ ExitsOf(c)' = {d} /\ bag'[c].status = StatusIn(d.from)
                    /\ \A z \in Zone : Holds(queue'[z], c) => z \in After(d.from)
                    /\ d.from \in Inductions \cup ToSet(Units) \cup {Sorting} => Found(queue, c)'
    <3>1. Good(c)
      BY <2>1 DEF Good, Repeated
    <3>2. Single(queue, c)'
      BY <1>3, <3>1 DEF BagInv, GoodOK, Single
    <3>3. CASE c = b
      <4>1. ExitsOf(c)' = {}
        BY <1>1, <1>5, <3>1, <3>3 DEF BagInv, GoodOK
      <4> QED BY <2>1, <3>2, <3>3, <4>1 DEF b
    <3>4. CASE c # b
      <4>1. ExitsOf(c)' = ExitsOf(c) /\ bag'[c] = bag[c]
            /\ \A z \in Zone : Holds(queue'[z], c) <=> Holds(queue[z], c)
        BY <1>3, <1>5, <3>4 DEF b
      <4>2. Found(queue, c)' <=> Found(queue, c)
        BY <4>1 DEF Found
      <4> QED BY <3>1, <3>2, <4>1, <4>2 DEF BagInv, GoodOK
    <3> QED BY <3>3, <3>4
  <2> QED BY <2>1 DEF GoodOK
<1>10. NotYet'
  <2> SUFFICES ASSUME NEW c \in Inbound, ~Redirected(c)', ~Repeated(c)', bag_position'[FlightOf[c]] = 0
               PROVE  bag'[c].status = "in_hold" /\ ~Found(queue, c)' /\ ExitsOf(c)' = {}
    BY DEF NotYet
  <2>1. c \in Bag /\ bag[c].status = "in_hold" /\ ~Found(queue, c) /\ ExitsOf(c) = {}
    BY Ways DEF BagInv, NotYet, Redirected, Repeated
  <2>2. c # b
    BY <1>1, <2>1
  <2> QED BY <1>4, <1>5, <2>1, <2>2 DEF Found, b
<1>11. TurnsOK'
  BY DEF BagInv, TurnsOK, turns
<1>12. Onward
  <2>1. Good(b)' \/ b \in missed' \/ Repeated(b)
    BY DEF Good, Repeated
  <2>2. BagsOK /\ \A c \in Bag : c # b => bag'[c] = bag[c]
    BY DEF BagInv, b
  <2>3. Good(b)' => Before[bag[b].status] <= Before[bag'[b].status]
    BY DEF b
  <2> QED BY <1>1, <2>1, <2>2, <2>3, OthersOnward
<1> QED BY <1>7, <1>8, <1>9, <1>10, <1>11, <1>12 DEF CoreNext

(* What is known of a bag whose exit is handled.                           *)
LEMMA GoodExit ==
  ASSUME BagInv, NEW e \in exits, missed \subseteq missed', again' = again, Good(e.item.bag)'
  PROVE  /\ bag[e.item.bag].status = StatusIn(e.from)
         /\ \A z \in Zone : Holds(queue[z], e.item.bag) => z \in After(e.from)
         /\ e.from \in Inductions \cup ToSet(Units) \cup {Sorting} => Found(queue, e.item.bag)
<1>1. Good(e.item.bag) /\ e.item.bag \in Bag /\ e \in ExitsOf(e.item.bag)
  BY ExitKnown DEF Good, Repeated
<1> QED BY <1>1 DEF BagInv, GoodOK

LEMMA WrittenIs ==
  ASSUME BagsOK, NEW b \in Bag, NEW status, NEW zone, Write(b, status, zone)
  PROVE  /\ bag'[b] = [status |-> status, zone |-> zone]
         /\ bag'[b].status = status /\ bag'[b].zone = zone
         /\ \A c \in Bag : c # b => bag'[c] = bag[c]
BY DEF Write, Scan, BagsOK

LEMMA FirstFound ==
  ASSUME NEW q, NEW b, Found(q, b)
  PROVE  _find_bag_current_zone(q, b) \in Zone /\ Holds(q[_find_bag_current_zone(q, b)], b)
BY DEF Found, _find_bag_current_zone

LEMMA StillLoaded ==
  ASSUME BagInv, NEW e \in exits, e.from \in Pipeline, set_loaded_on_timestamp(e.item)
  PROVE  loaded_on' = loaded_on
<1>1. loaded_on[e.item.bag] = {e.item.flight} /\ e.item.bag \in Bag
  BY ExitKnown
<1>2. loaded_on[e.item.bag] \cup {e.item.flight} = loaded_on[e.item.bag]
  BY <1>1
<1>3. loaded_on' = [loaded_on EXCEPT ![e.item.bag] = loaded_on[e.item.bag]]
  BY <1>2 DEF set_loaded_on_timestamp
<1> QED BY <1>1, <1>3 DEF BagInv, BagsOK

LEMMA Kinds ==
  /\ \A z \in Inductions : z \in Pipeline /\ After(z) = ToSet(Units) /\ StatusIn(z) = "inducted"
  /\ \A z \in ToSet(Units) : z \in Pipeline /\ After(z) = {Sorting} /\ StatusIn(z) = "screening"
  /\ Sorting \in Pipeline /\ After(Sorting) = MakeUps /\ StatusIn(Sorting) = "sorting"
  /\ \A z \in MakeUps : z \in Pipeline /\ After(z) = {} /\ StatusIn(z) = "loaded"
  /\ \A z \in Belts : After(z) = {} /\ StatusIn(z) = "arrived"
  /\ ZonesFor("screening") = ToSet(Units) /\ ZonesFor("sorting") = {Sorting} /\ ZonesFor("loaded") = MakeUps
BY Zones DEF Pipeline, After, StatusIn, ZonesFor

LEMMA BagExits ==
  ASSUME BagInv, _process_bag_exit
  PROVE  CoreNext
<1>1. PICK e \in exits :
        /\ exits' = exits \ {e}
        /\ LeavesInduction(e) \/ Flagged(e) \/ Clear(e) \/ LeavesSorting(e) \/ LeavesMakeUp(e)
             \/ LeavesBelt(e)
        /\ UNCHANGED <<bag_position, turns, missed, again>>
  BY DEF _process_bag_exit, bagHistory
<1> DEFINE b == e.item.bag
<1>2. BagsOK /\ b \in Bag /\ e.from \in Zone
      /\ bag[b].status \in BagStatus /\ bag[b].zone \in Zone \cup NoZone /\ bag[b].status # "dropped_off"
  BY ExitKnown DEF BagInv, BagsOK, ExitsOK
<1>3. Good(b)' => /\ bag[b].status = StatusIn(e.from)
                  /\ \A z \in Zone : Holds(queue[z], b) => z \in After(e.from)
                  /\ e.from \in Inductions \cup ToSet(Units) \cup {Sorting} => Found(queue, b)
  BY <1>1, GoodExit
<1>4. e.from \in Pipeline => /\ b \in Outbound
                             /\ \A z \in Zone : Holds(queue[z], b) => z \in After(e.from)
                             /\ Single(queue, b)
  BY ExitKnown DEF BagInv, QueuesOK
<1>5. e.from \in Belts => b \in Inbound
  BY ExitKnown
<1> HIDE DEF b
<1>6. missed \subseteq missed' /\ UNCHANGED <<again, bag_position, turns>>
  BY <1>1
<1>7. ASSUME NEW status \in BagStatus \ {"dropped_off"}, NEW zone \in Zone, Write(b, status, zone),
             loaded_on' = loaded_on, queue' = queue \/ queue' = remove_bag_from_all_zones(queue, {b}),
             b \in Outbound => status \notin Beyond,
             b \in Inbound => status \in {"in_hold", "offloaded"} \cup Beyond,
             status \in Traced => zone \in ZonesFor(status),
             Good(b)' =>
               /\ \A z \in Zone : Holds(queue'[z], b) => z = zone /\ status = StatusIn(z)
               /\ status \in InPipeline => Holds(queue'[zone], b)
               /\ Before[StatusIn(e.from)] <= Before[status]
      PROVE  CoreNext
  <2>0. BagsOK /\ b \in Bag /\ Write(b, status, zone)
    BY <1>2, <1>7
  <2>1. BagsOK'
    BY <1>2, <1>7, BagWritten
  <2>2. bag'[b].status = status /\ bag'[b].zone = zone /\ \A c \in Bag : c # b => bag'[c] = bag[c]
    BY <2>0, WrittenIs
  <2>3. Good(b)' =>
           /\ \A z \in Zone : Holds(queue'[z], b) => z = bag'[b].zone /\ bag'[b].status = StatusIn(z)
           /\ bag'[b].status \in InPipeline /\ bag'[b].zone \in Zone => Holds(queue'[bag'[b].zone], b)
           /\ Before[bag[b].status] <= Before[bag'[b].status]
    BY <1>3, <1>7, <2>2
  <2> QED BY <1>1, <1>6, <1>7, <2>1, <2>2, <2>3, ExitWritten DEF b
(* The bag is in no queue: nothing is written.                             *)
<1>8. ASSUME e.from \in Pipeline, UNCHANGED <<bag, loaded_on, queue>>, ~Good(b)' PROVE CoreNext
  <2>1. BagsOK'
    BY <1>8, BagsStay DEF bagNodes
  <2>2. bag'[b].status # "dropped_off"
    BY <1>2, <1>8
  <2> QED BY <1>1, <1>6, <1>8, <2>1, <2>2, ExitWritten DEF b
<1>9. CASE LeavesInduction(e)
  <2>1. e.from \in Inductions /\ loaded_on' = loaded_on /\ queue' = queue
    BY <1>9 DEF LeavesInduction
  <2>2. CASE Found(queue, b)
    <3> DEFINE z == _find_bag_current_zone(queue, b)
    <3>1. Write(b, "screening", z)
      BY <1>9, <2>2 DEF LeavesInduction, b
    <3>2. z \in Zone /\ Holds(queue[z], b)
      BY <2>2, FirstFound
    <3> HIDE DEF z
    <3>3. z \in ToSet(Units) /\ b \in Outbound /\ \A y \in Zone : Holds(queue[y], b) => y = z
      BY <1>4, <2>1, <3>2, Kinds DEF Single
    <3>4. StatusIn(e.from) = "inducted" /\ StatusIn(z) = "screening" /\ Before["inducted"] <= Before["screening"]
      BY <2>1, <3>3, Kinds, BeforeValues
    <3>5. "screening" \in BagStatus \ {"dropped_off"} /\ "screening" \notin Beyond /\ "screening" \in InPipeline
      BY DEF BagStatus, Beyond, InPipeline
    <3> QED BY <1>7, <2>1, <3>1, <3>2, <3>3, <3>4, <3>5, Ways, Kinds
  <2>3. CASE ~Found(queue, b)
    <3>1. UNCHANGED bag
      BY <1>9, <2>3 DEF LeavesInduction, b
    <3> QED BY <1>3, <1>8, <2>1, <2>3, <3>1, Kinds
  <2> QED BY <2>2, <2>3
<1>10. CASE Flagged(e)
  <2>1. e.from \in ToSet(Units) /\ loaded_on' = loaded_on /\ Write(b, "flagged", e.from)
        /\ queue' = remove_bag_from_all_zones(queue, {b})
    BY <1>10 DEF Flagged, b
  <2>2. b \in Outbound /\ StatusIn(e.from) = "screening" /\ Before["screening"] <= Before["flagged"]
    BY <1>4, <2>1, Kinds, BeforeValues
  <2>3. "flagged" \in BagStatus \ {"dropped_off"} /\ "flagged" \notin Beyond /\ "flagged" \notin InPipeline
        /\ "flagged" \notin Traced
    BY DEF BagStatus, Beyond, InPipeline, Traced
  <2>4. \A z \in Zone : ~Holds(queue'[z], b)
    <3> DEFINE off == {b}
    <3>1. off \in SUBSET Bag /\ b \in off /\ queue \in [Zone -> Seq(Item)]
      BY <1>2 DEF BagInv, QueuesOK
    <3>2. queue' = remove_bag_from_all_zones(queue, off)
      BY <2>1
    <3> HIDE DEF off
    <3>3. ~Found(remove_bag_from_all_zones(queue, off), b)
      BY <1>4, <2>1, <3>1, RemovedBags, Kinds
    <3> QED BY <3>2, <3>3 DEF Found
  <2> QED BY <1>2, <1>7, <2>1, <2>2, <2>3, <2>4, Ways
<1>11. CASE Clear(e)
  <2>1. e.from \in ToSet(Units) /\ loaded_on' = loaded_on /\ queue' = queue /\ Write(b, "sorting", Sorting)
    BY <1>11 DEF Clear, b
  <2>2. b \in Outbound /\ StatusIn(e.from) = "screening" /\ Before["screening"] <= Before["sorting"]
        /\ StatusIn(Sorting) = "sorting" /\ Sorting \in Zone
    BY <1>4, <2>1, Kinds, BeforeValues, Zones
  <2>3. "sorting" \in BagStatus \ {"dropped_off"} /\ "sorting" \notin Beyond /\ "sorting" \in InPipeline
    BY DEF BagStatus, Beyond, InPipeline
  <2>4. \A z \in Zone : Holds(queue[z], b) => z = Sorting
    BY <1>4, <2>1, Kinds
  <2>5. Good(b)' => Holds(queue[Sorting], b)
    BY <1>3, <2>1, <2>4 DEF Found
  <2> QED BY <1>7, <2>1, <2>2, <2>3, <2>4, <2>5, Ways, Kinds
<1>12. CASE LeavesSorting(e)
  <2>1. e.from = Sorting /\ queue' = queue /\ e.from \in Pipeline
    BY <1>12, Kinds DEF LeavesSorting
  <2>2. CASE Found(queue, b)
    <3> DEFINE z == _find_bag_current_zone(queue, b)
    <3>1. Write(b, "loaded", z) /\ loaded_on' = loaded_on
      BY <1>12, <2>1, <2>2, StillLoaded DEF LeavesSorting, b
    <3>2. z \in Zone /\ Holds(queue[z], b)
      BY <2>2, FirstFound
    <3> HIDE DEF z
    <3>3. z \in MakeUps /\ b \in Outbound /\ \A y \in Zone : Holds(queue[y], b) => y = z
      BY <1>4, <2>1, <3>2, Kinds DEF Single
    <3>4. StatusIn(e.from) = "sorting" /\ StatusIn(z) = "loaded" /\ Before["sorting"] <= Before["loaded"]
      BY <2>1, <3>3, Kinds, BeforeValues
    <3>5. "loaded" \in BagStatus \ {"dropped_off"} /\ "loaded" \notin Beyond /\ "loaded" \notin InPipeline
      BY DEF BagStatus, Beyond, InPipeline
    <3> QED BY <1>7, <2>1, <3>1, <3>2, <3>3, <3>4, <3>5, Ways, Kinds
  <2>3. CASE ~Found(queue, b)
    <3>1. bag' = bag /\ loaded_on' = loaded_on
      BY <1>12, <2>3 DEF LeavesSorting, bagNodes, b
    <3> QED BY <1>3, <1>8, <2>1, <2>3, <3>1
  <2> QED BY <2>2, <2>3
<1>13. CASE LeavesMakeUp(e)
  <2>1. e.from \in MakeUps /\ queue' = queue /\ Write(b, "loaded", e.from)
    BY <1>13 DEF LeavesMakeUp, b
  <2>2. loaded_on' = loaded_on
    BY <1>13, <2>1, StillLoaded, Kinds DEF LeavesMakeUp
  <2>3. b \in Outbound /\ StatusIn(e.from) = "loaded" /\ \A z \in Zone : ~Holds(queue[z], b)
    BY <1>4, <2>1, Kinds
  <2>4. "loaded" \in BagStatus \ {"dropped_off"} /\ "loaded" \notin Beyond /\ "loaded" \notin InPipeline
    BY DEF BagStatus, Beyond, InPipeline
  <2>5. Before["loaded"] <= Before["loaded"]
    BY BeforeValues
  <2> QED BY <1>2, <1>7, <2>1, <2>2, <2>3, <2>4, <2>5, Ways, Kinds
<1>14. CASE LeavesBelt(e)
  <2>1. e.from \in Belts /\ queue' = queue /\ loaded_on' = loaded_on /\ Write(b, "collected", e.from)
    BY <1>14 DEF LeavesBelt, b
  <2>2. b \in Inbound /\ StatusIn(e.from) = "arrived" /\ After(e.from) = {}
        /\ Before["arrived"] <= Before["collected"]
    BY <1>5, <2>1, Kinds, BeforeValues
  <2>3. "collected" \in BagStatus \ {"dropped_off"} /\ "collected" \in Beyond /\ "collected" \notin InPipeline
        /\ "collected" \notin Traced
    BY DEF BagStatus, Beyond, InPipeline, Traced
  <2> QED BY <1>2, <1>3, <1>7, <2>1, <2>2, <2>3, Ways
<1> QED BY <1>1, <1>9, <1>10, <1>11, <1>12, <1>13, <1>14

LEMMA BagExitFails ==
  ASSUME BagInv, ExitFails
  PROVE  CoreNext
<1>1. PICK e \in exits :
        /\ exits' = exits \ {e} /\ missed' = missed \cup {e.item.bag}
        /\ \/ UNCHANGED bag
           \/ e.from \in ToSet(Units) /\ Write(e.item.bag, "flagged", e.from)
           \/ e.from \in Belts /\ Write(e.item.bag, "on_carousel", e.from)
        /\ UNCHANGED <<loaded_on, bag_position, queue, turns, again>>
  BY DEF ExitFails, conveyor
<1>2. BagsOK /\ e.item.bag \in Bag /\ e.from \in Zone /\ ~Good(e.item.bag)'
      /\ bag[e.item.bag].status # "dropped_off"
  BY <1>1, ExitKnown DEF BagInv, ExitsOK, Good
<1>3. CASE UNCHANGED bag
  <2>1. BagsOK'
    BY <1>1, <1>3, BagsStay DEF bagNodes
  <2> QED BY <1>1, <1>2, <1>3, <2>1, ExitWritten
<1>4. CASE e.from \in ToSet(Units) /\ Write(e.item.bag, "flagged", e.from)
  <2>1. e.item.bag \in Outbound
    BY <1>4, ExitKnown, Kinds
  <2>2. "flagged" \in BagStatus /\ "flagged" \notin Beyond /\ "flagged" \notin Traced
    BY DEF BagStatus, Beyond, Traced
  <2>3. BagsOK'
    BY <1>1, <1>2, <1>4, <2>1, <2>2, BagWritten, Ways
  <2>4. bag'[e.item.bag].status = "flagged" /\ \A c \in Bag : c # e.item.bag => bag'[c] = bag[c]
    BY <1>2, <1>4, WrittenIs
  <2> QED BY <1>1, <1>2, <2>3, <2>4, ExitWritten
<1>5. CASE e.from \in Belts /\ Write(e.item.bag, "on_carousel", e.from)
  <2>1. e.item.bag \in Inbound
    BY <1>5, ExitKnown
  <2>2. "on_carousel" \in BagStatus /\ "on_carousel" \in Beyond /\ "on_carousel" \notin Traced
    BY DEF BagStatus, Beyond, Traced
  <2>3. BagsOK'
    BY <1>1, <1>2, <1>5, <2>1, <2>2, BagWritten, Ways
  <2>4. bag'[e.item.bag].status = "on_carousel" /\ \A c \in Bag : c # e.item.bag => bag'[c] = bag[c]
    BY <1>2, <1>5, WrittenIs
  <2> QED BY <1>1, <1>2, <2>3, <2>4, ExitWritten
<1> QED BY <1>1, <1>3, <1>4, <1>5

-----------------------------------------------------------------------------
(* A tick.                                                                 *)

LEMMA InductsBags ==
  ASSUME BagInv, Quiet, NEW due, WriteInducted(ToInduct(due)), UNCHANGED loaded_on
  PROVE  /\ BagsOK'
         /\ \A b \in Bag : b \notin BagsOf(ToInduct(due)) => bag'[b] = bag[b]
         /\ \A r \in ToInduct(due) :
              /\ bag[r.bag].status = "dropped_off" /\ bag'[r.bag].status \in {"inducted", "in_hold"}
              /\ flight_status[r.flight] = "departed" =>
                   bag'[r.bag].status = "in_hold" /\ bag'[r.bag].zone = "aircraft-hold"
              /\ flight_status[r.flight] # "departed" =>
                   /\ bag'[r.bag].status = "inducted"
                   /\ bag'[r.bag].zone = Induction[TerminalOf[r.flight]]
         /\ \A b \in Bag : Before[bag[b].status] <= Before[bag'[b].status]
<1> DEFINE rows == ToInduct(due)
<1>1. /\ rows \subseteq Rows /\ BagsOK
      /\ \A r \in rows : /\ r.bag \in Outbound /\ r.bag \in Bag /\ bag[r.bag].status = "dropped_off"
                         /\ r.flight \in Departing
  BY ToInductKnown, Ways DEF BagInv
<1>2. \A r, s \in rows : r.bag = s.bag => r = s
  BY <1>1, RowsKnown
<1>3. bag' = [b \in Bag |-> IF \E r \in rows : r.bag = b
                            THEN InductedAt(CHOOSE r \in rows : r.bag = b) ELSE bag[b]]
  BY DEF WriteInducted
<1> HIDE DEF rows
<1>4. \A r \in rows : bag'[r.bag] = InductedAt(r)
  <2> TAKE r \in rows
  <2>1. (CHOOSE s \in rows : s.bag = r.bag) = r
    BY <1>2
  <2> QED BY <1>1, <1>3, <2>1
<1>5. \A b \in Bag : b \notin BagsOf(rows) => bag'[b] = bag[b]
  BY <1>3 DEF BagsOf
<1>6. ASSUME NEW r \in rows
      PROVE  /\ flight_status[r.flight] = "departed" =>
                  /\ bag'[r.bag].status = "in_hold" /\ bag'[r.bag].zone = "aircraft-hold"
                  /\ bag'[r.bag] = [status |-> "in_hold", zone |-> "aircraft-hold"]
             /\ flight_status[r.flight] # "departed" =>
                  /\ bag'[r.bag].status = "inducted"
                  /\ bag'[r.bag].zone = Induction[TerminalOf[r.flight]]
                  /\ bag'[r.bag] = [status |-> "inducted", zone |-> Induction[TerminalOf[r.flight]]]
  <2>1. bag'[r.bag] = InductedAt(r)
    BY <1>4
  <2>2. CASE flight_status[r.flight] = "departed"
    <3>1. InductedAt(r) = [status |-> "in_hold", zone |-> "aircraft-hold"]
      BY <2>2 DEF InductedAt, Scan
    <3> QED BY <2>1, <2>2, <3>1
  <2>3. CASE flight_status[r.flight] # "departed"
    <3>1. InductedAt(r) = [status |-> "inducted", zone |-> Induction[TerminalOf[r.flight]]]
      BY <2>3 DEF InductedAt, Scan
    <3> QED BY <2>1, <2>3, <3>1
  <2> QED BY <2>2, <2>3
<1>7. \A r \in rows : Induction[TerminalOf[r.flight]] \in Inductions
                      /\ Induction[TerminalOf[r.flight]] \in Zone
  BY <1>1, Zones, BaggageAssumption
<1>8. \A r \in rows : bag'[r.bag].status \in {"inducted", "in_hold"}
  BY <1>6
<1>9. \A b \in Bag : b \in BagsOf(rows) => \E r \in rows : r.bag = b
  BY DEF BagsOf
<1>10. ASSUME NEW b \in Bag
       PROVE  /\ bag'[b] \in [status : BagStatus, zone : Zone \cup NoZone]
              /\ b \in Outbound => bag'[b].status \notin Beyond
              /\ b \in Inbound => bag'[b].status \in {"in_hold", "offloaded"} \cup Beyond
              /\ bag'[b].status \in Traced /\ bag'[b].zone \in Zone => bag'[b].zone \in ZonesFor(bag'[b].status)
              /\ Before[bag[b].status] <= Before[bag'[b].status]
  <2>1. CASE b \in BagsOf(rows)
    <3>1. PICK r \in rows : r.bag = b
      BY <1>9, <2>1
    <3>2. b \in Outbound /\ b \notin Inbound /\ bag[b].status = "dropped_off"
      BY <1>1, <3>1, Ways
    <3>3. CASE flight_status[r.flight] = "departed"
      <4>1. "in_hold" \in BagStatus /\ "aircraft-hold" \in NoZone /\ "in_hold" \notin Beyond
            /\ "in_hold" \notin Traced /\ Before["dropped_off"] <= Before["in_hold"]
        BY BeforeValues DEF BagStatus, NoZone, Beyond, Traced
      <4>2. bag'[b] = [status |-> "in_hold", zone |-> "aircraft-hold"]
        BY <1>6, <3>1, <3>3
      <4>3. bag'[b].status = "in_hold" /\ bag'[b].zone = "aircraft-hold"
        BY <4>2
      <4>4. bag'[b] \in [status : BagStatus, zone : Zone \cup NoZone]
        BY <4>1, <4>2
      <4> QED BY <3>2, <4>1, <4>3, <4>4
    <3>4. CASE flight_status[r.flight] # "departed"
      <4>1. "inducted" \in BagStatus /\ "inducted" \notin Beyond /\ Before["dropped_off"] <= Before["inducted"]
            /\ ZonesFor("inducted") = Inductions
        BY BeforeValues DEF BagStatus, Beyond, ZonesFor
      <4>2. bag'[b] = [status |-> "inducted", zone |-> Induction[TerminalOf[r.flight]]]
        BY <1>6, <3>1, <3>4
      <4>3. bag'[b].status = "inducted" /\ bag'[b].zone = Induction[TerminalOf[r.flight]]
        BY <4>2
      <4>4. bag'[b] \in [status : BagStatus, zone : Zone \cup NoZone]
        BY <1>7, <4>1, <4>2
      <4>5. bag'[b].zone \in ZonesFor("inducted")
        BY <1>7, <4>1, <4>3
      <4> QED BY <3>2, <4>1, <4>3, <4>4, <4>5
    <3> QED BY <3>3, <3>4
  <2>2. CASE b \notin BagsOf(rows)
    BY <1>1, <1>5, <2>2, BeforeValues DEF BagsOK
  <2> QED BY <2>1, <2>2
<1>11. BagsOK'
  <2>1. bag' \in [Bag -> [status : BagStatus, zone : Zone \cup NoZone]]
    BY <1>3, <1>10
  <2>2. \A c \in Bag : OnFlight(c)'
    BY <1>1 DEF BagsOK, OnFlight
  <2> QED BY <1>1, <1>10, <2>1, <2>2, Ways DEF BagsOK
<1> QED BY <1>1, <1>5, <1>6, <1>8, <1>10, <1>11 DEF rows

LEMMA InductsQueues ==
  ASSUME BagInv, Quiet, NEW due, NEW rows \in SUBSET ToInduct(due), WriteInducted(ToInduct(due)),
         UNCHANGED loaded_on
  PROVE  LET q == WithInducted(rows)
         IN  /\ q \in [Zone -> Seq(Item)]
             /\ \A z \in Zone : \A x \in ToSet(q[z]) : FitsIn(x, z) /\ bag'[x.bag].status # "dropped_off"
             /\ \A b \in Bag : Single(queue, b) => Single(q, b)
             /\ \A b \in Inbound : Found(q, b) => Found(queue, b)
             /\ \A b \in Bag : Good(b) /\ (b \in BagsOf(ToInduct(due)) => b \in BagsOf(rows)) =>
                  /\ \A z \in Zone : Holds(q[z], b) => z = bag'[b].zone /\ bag'[b].status = StatusIn(z)
                  /\ bag'[b].status \in InPipeline /\ bag'[b].zone \in Zone => Holds(q[bag'[b].zone], b)
<1> DEFINE q == WithInducted(rows)
<1>1. /\ rows \subseteq Rows /\ rows \subseteq Item /\ queue \in [Zone -> Seq(Item)]
      /\ \A r \in rows : /\ r.bag \in Outbound /\ r.bag \in Bag /\ bag[r.bag].status = "dropped_off"
                         /\ r.flight \in Departing
      /\ \A r, s \in rows : r.bag = s.bag => r = s
      /\ \A r \in rows : loaded_on[r.bag] = {r.flight}
  BY ToInductKnown, RowsKnown, Ways DEF BagInv, QueuesOK
<1>2. \A b \in BagsOf(ToInduct(due)) : ~Found(queue, b)
  <2> SUFFICES ASSUME NEW r \in ToInduct(due), NEW z \in Zone, Holds(queue[z], r.bag) PROVE FALSE
    BY DEF BagsOf, Found
  <2>1. queue[z] \in Seq(Item) /\ r.bag \in Bag /\ bag[r.bag].status = "dropped_off"
    BY <1>1, ToInductKnown, Ways DEF BagInv
  <2>2. PICK x \in ToSet(queue[z]) : x.bag = r.bag
    BY <2>1, HoldsItems
  <2> QED BY <2>1, <2>2 DEF BagInv, QueuesOK
<1>3. \A b \in BagsOf(rows) : b \in BagsOf(ToInduct(due))
  BY DEF BagsOf
<1>4. /\ q \in [Zone -> Seq(Item)]
      /\ \A z \in Zone : \A x : x \in ToSet(q[z]) <=> x \in ToSet(queue[z]) \/ Enters(x, rows, z)
      /\ \A b \in Bag : Single(queue, b) /\ (b \in BagsOf(rows) => ~Found(queue, b)) => Single(q, b)
  BY <1>1, InductedQueues
<1> HIDE DEF q
<1>5. \A b \in Bag : Single(queue, b) => Single(q, b)
  BY <1>2, <1>3, <1>4
<1>6. /\ \A b \in Bag : b \notin BagsOf(ToInduct(due)) => bag'[b] = bag[b]
      /\ \A r \in ToInduct(due) :
              /\ bag'[r.bag].status \in {"inducted", "in_hold"}
              /\ flight_status[r.flight] = "departed" =>
                   bag'[r.bag].status = "in_hold" /\ bag'[r.bag].zone = "aircraft-hold"
              /\ flight_status[r.flight] # "departed" =>
                   /\ bag'[r.bag].status = "inducted"
                   /\ bag'[r.bag].zone = Induction[TerminalOf[r.flight]]
  BY InductsBags
<1>7. \A r \in rows : /\ Induction[TerminalOf[r.flight]] \in Inductions
                      /\ Induction[TerminalOf[r.flight]] \in Zone
                      /\ Induction[TerminalOf[r.flight]] \in Pipeline
                      /\ StatusIn(Induction[TerminalOf[r.flight]]) = "inducted"
  BY <1>1, Zones, Kinds, BaggageAssumption
<1>8. ASSUME NEW z \in Zone, NEW x \in ToSet(q[z])
      PROVE  FitsIn(x, z) /\ bag'[x.bag].status # "dropped_off"
  <2>1. CASE x \in ToSet(queue[z])
    <3>1. x.bag \in Bag /\ Holds(queue[z], x.bag) /\ FitsIn(x, z) /\ bag[x.bag].status # "dropped_off"
      BY <1>1, <2>1, ZonesGiven DEF BagInv, QueuesOK
    <3>2. x.bag \notin BagsOf(ToInduct(due))
      BY <1>2, <3>1 DEF Found
    <3> QED BY <1>6, <3>1, <3>2
  <2>2. CASE Enters(x, rows, z)
    <3>1. x \in rows /\ z = Induction[TerminalOf[x.flight]] /\ flight_status[x.flight] # "departed"
      BY <2>2 DEF Enters
    <3>2. bag'[x.bag].status = "inducted"
      BY <1>6, <3>1
    <3> QED BY <1>1, <1>7, <3>1, <3>2 DEF FitsIn
  <2> QED BY <1>4, <2>1, <2>2
<1>9. \A b \in Bag : \A z \in Zone :
        Holds(q[z], b) <=> Holds(queue[z], b) \/ \E x \in rows : Enters(x, rows, z) /\ x.bag = b
  <2> TAKE b \in Bag
  <2> TAKE z \in Zone
  <2>1. q[z] \in Seq(Item) /\ queue[z] \in Seq(Item)
    BY <1>1, <1>4
  <2>2. Holds(q[z], b) <=> \E x \in ToSet(q[z]) : x.bag = b
    BY <2>1, HoldsItems
  <2>3. Holds(queue[z], b) <=> \E x \in ToSet(queue[z]) : x.bag = b
    BY <2>1, HoldsItems
  <2>4. \A x : Enters(x, rows, z) => x \in rows
    BY DEF Enters
  <2>5. \A x : x \in ToSet(q[z]) <=> x \in ToSet(queue[z]) \/ Enters(x, rows, z)
    BY <1>4
  <2> QED BY <2>2, <2>3, <2>4, <2>5
<1>10. \A b \in Inbound : Found(q, b) => Found(queue, b)
  <2>1. \A b \in Inbound : b \in Bag /\ \A x \in rows : x.bag # b
    BY <1>1, Ways
  <2> QED BY <1>9, <2>1 DEF Found
<1>11. ASSUME NEW b \in Bag, Good(b), b \in BagsOf(ToInduct(due)) => b \in BagsOf(rows)
       PROVE  /\ \A z \in Zone : Holds(q[z], b) => z = bag'[b].zone /\ bag'[b].status = StatusIn(z)
              /\ bag'[b].status \in InPipeline /\ bag'[b].zone \in Zone => Holds(q[bag'[b].zone], b)
  <2>1. CASE b \in BagsOf(rows)
    <3>1. PICK r \in rows : r.bag = b
      BY <2>1 DEF BagsOf
    <3>2. \A z \in Zone : ~Holds(queue[z], b)
      BY <1>2, <1>3, <2>1 DEF Found
    <3>3. \A z \in Zone : Holds(q[z], b) <=> Enters(r, rows, z)
      BY <1>1, <1>9, <3>1, <3>2
    <3>4. CASE flight_status[r.flight] = "departed"
      <4>1. \A z \in Zone : ~Holds(q[z], b)
        BY <3>3, <3>4 DEF Enters
      <4>2. bag'[b].status \notin InPipeline
        BY <1>6, <3>1, <3>4 DEF InPipeline
      <4> QED BY <4>1, <4>2
    <3>5. CASE flight_status[r.flight] # "departed"
      <4>1. \A z \in Zone : Holds(q[z], b) <=> z = Induction[TerminalOf[r.flight]]
        BY <3>1, <3>3, <3>5 DEF Enters
      <4>2. bag'[b].status = "inducted" /\ bag'[b].zone = Induction[TerminalOf[r.flight]]
        BY <1>6, <3>1, <3>5
      <4> QED BY <1>7, <3>1, <4>1, <4>2
    <3> QED BY <3>4, <3>5
  <2>2. CASE b \notin BagsOf(rows)
    <3>1. bag'[b] = bag[b]
      BY <1>6, <1>11, <2>2
    <3>2. \A z \in Zone : Holds(q[z], b) <=> Holds(queue[z], b)
      BY <1>9, <2>2 DEF BagsOf
    <3>3. ExitsOf(b) = {}
      BY DEF ExitsOf, Quiet
    <3>4. /\ \A z \in Zone : Holds(queue[z], b) => z = bag[b].zone /\ bag[b].status = StatusIn(z)
          /\ bag[b].status \in InPipeline /\ bag[b].zone \in Zone => Holds(queue[bag[b].zone], b)
      BY <1>11, <3>3 DEF BagInv, GoodOK
    <3> QED BY <3>1, <3>2, <3>4
  <2> QED BY <2>1, <2>2
<1> QED BY <1>4, <1>5, <1>8, <1>10, <1>11 DEF q

LEMMA TickBreaksOff ==
  ASSUME BagInv, TickFails
  PROVE  CoreNext
<1>1. PICK due \in SUBSET Departing : \E rows \in SUBSET ToInduct(due) :
        /\ Quiet /\ WriteInducted(ToInduct(due)) /\ queue' = WithInducted(rows)
        /\ missed' = missed \cup (BagsOf(ToInduct(due)) \ BagsOf(rows))
        /\ UNCHANGED <<loaded_on, bag_position, turns, exits, again>>
  BY DEF TickFails
<1>2. PICK rows \in SUBSET ToInduct(due) :
        /\ Quiet /\ WriteInducted(ToInduct(due)) /\ queue' = WithInducted(rows)
        /\ missed' = missed \cup (BagsOf(ToInduct(due)) \ BagsOf(rows))
        /\ UNCHANGED <<loaded_on, bag_position, turns, exits, again>>
  BY <1>1
<1>3. /\ BagsOK'
      /\ \A b \in Bag : b \notin BagsOf(ToInduct(due)) => bag'[b] = bag[b]
      /\ \A b \in Bag : Before[bag[b].status] <= Before[bag'[b].status]
  BY <1>2, InductsBags
<1>4. /\ queue' \in [Zone -> Seq(Item)]
      /\ \A z \in Zone : \A x \in ToSet(queue'[z]) : FitsIn(x, z) /\ bag'[x.bag].status # "dropped_off"
      /\ \A b \in Bag : Single(queue, b) => Single(queue', b)
      /\ \A b \in Inbound : Found(queue', b) => Found(queue, b)
      /\ \A b \in Bag : Good(b) /\ (b \in BagsOf(ToInduct(due)) => b \in BagsOf(rows)) =>
           /\ \A z \in Zone : Holds(queue'[z], b) => z = bag'[b].zone /\ bag'[b].status = StatusIn(z)
           /\ bag'[b].status \in InPipeline /\ bag'[b].zone \in Zone => Holds(queue'[bag'[b].zone], b)
  BY <1>2, InductsQueues
<1>5. exits' = {} /\ \A b : ExitsOf(b)' = {}
  BY <1>2 DEF Quiet, ExitsOf
<1>6. ExitsOK'
  BY <1>5 DEF ExitsOK
<1>7. QueuesOK'
  <2>1. \A z \in Zone : \A x \in ToSet(queue'[z]) : FitsIn(x, z)'
    BY <1>2, <1>4 DEF FitsIn
  <2> QED BY <1>4, <2>1, Ways DEF BagInv, QueuesOK
<1>8. \A b \in Bag : Good(b)' => Good(b) /\ (b \in BagsOf(ToInduct(due)) => b \in BagsOf(rows))
  BY <1>2 DEF Good, Repeated
<1>9. GoodOK'
  <2>1. \A b \in Bag : Good(b)' => Single(queue, b)'
    BY <1>4, <1>8 DEF BagInv, GoodOK, Single
  <2> QED BY <1>4, <1>5, <1>8, <2>1 DEF GoodOK
<1>10. NotYet'
  <2> SUFFICES ASSUME NEW b \in Inbound, ~Redirected(b)', ~Repeated(b)', bag_position'[FlightOf[b]] = 0
               PROVE  bag'[b].status = "in_hold" /\ ~Found(queue, b)' /\ ExitsOf(b)' = {}
    BY DEF NotYet
  <2>1. b \in Bag /\ bag[b].status = "in_hold" /\ ~Found(queue, b)
    BY <1>2, Ways DEF BagInv, NotYet, Redirected, Repeated
  <2>2. b \notin BagsOf(ToInduct(due))
    BY <2>1, ToInductKnown DEF BagsOf, BagInv
  <2> QED BY <1>3, <1>4, <1>5, <2>1, <2>2 DEF Found
<1>11. TurnsOK' /\ Onward
  BY <1>2, <1>3 DEF BagInv, TurnsOK, turns, Onward
<1> QED BY <1>3, <1>6, <1>7, <1>9, <1>10, <1>11 DEF CoreNext

LEMMA BagsTick ==
  ASSUME BagInv, Tick
  PROVE  CoreNext
<1>1. PICK due \in SUBSET Departing : \E delta \in Deltas :
        /\ Quiet /\ WriteInducted(ToInduct(due)) /\ advance_tick(WithInducted(ToInduct(due)), delta)
        /\ UNCHANGED <<loaded_on, bag_position, missed, again>>
  BY DEF Tick, bagHistory
<1> DEFINE q == WithInducted(ToInduct(due))
<1>2. PICK delta \in Deltas : advance_tick(q, delta)
  BY <1>1
<1>3. /\ Quiet /\ WriteInducted(ToInduct(due))
      /\ loaded_on' = loaded_on /\ bag_position' = bag_position /\ missed' = missed /\ again' = again
  BY <1>1
<1>4. /\ BagsOK'
      /\ \A b \in Bag : b \notin BagsOf(ToInduct(due)) => bag'[b] = bag[b]
      /\ \A b \in Bag : Before[bag[b].status] <= Before[bag'[b].status]
  BY <1>3, InductsBags
<1>5. /\ q \in [Zone -> Seq(Item)]
      /\ \A z \in Zone : \A x \in ToSet(q[z]) : FitsIn(x, z) /\ bag'[x.bag].status # "dropped_off"
      /\ \A b \in Bag : Single(queue, b) => Single(q, b)
      /\ \A b \in Inbound : Found(q, b) => Found(queue, b)
      /\ \A b \in Bag : Good(b) =>
           /\ \A z \in Zone : Holds(q[z], b) => z = bag'[b].zone /\ bag'[b].status = StatusIn(z)
           /\ bag'[b].status \in InPipeline /\ bag'[b].zone \in Zone => Holds(q[bag'[b].zone], b)
  <2>1. ToInduct(due) \in SUBSET ToInduct(due)
    OBVIOUS
  <2> QED BY <1>3, <2>1, InductsQueues
<1> HIDE DEF q
<1>6. \A z \in Zone : \A x \in ToSet(q[z]) : x \in Item /\ x.bag \in Bag /\ x.flight \in BagFlight
  BY <1>5, ZonesGiven
<1>7. \A x \in ToSet(q[Sorting]) : x.flight \in Departing
  <2> TAKE x \in ToSet(q[Sorting])
  <2>1. Sorting \in Zone /\ Sorting \notin Belts
    BY Zones
  <2>2. x.bag \in Bag /\ x.bag \in Outbound /\ loaded_on[x.bag] = {x.flight}
    BY <1>5, <1>6, <2>1 DEF FitsIn
  <2>3. PICK g \in BagFlight : loaded_on[x.bag] = {g} /\ (g \in Departing \/ g = FlightOf[x.bag])
    BY <2>2 DEF BagInv, BagsOK, OnFlight
  <2> QED BY <2>2, <2>3, Ways
<1>8. Moved(q) /\ TurnsOK' /\ \A b \in Bag : Single(q, b) => OneMoved(q, b)
  BY <1>2, <1>5, <1>7, AdvanceTick DEF BagInv
<1>9. \A z \in Zone : \A x \in ToSet(queue'[z]) : FitsIn(x, z) /\ bag'[x.bag].status # "dropped_off"
  <2> SUFFICES ASSUME NEW z \in Zone, NEW x \in ToSet(queue'[z])
               PROVE  FitsIn(x, z) /\ bag'[x.bag].status # "dropped_off"
    OBVIOUS
  <2>1. CASE x \in ToSet(q[z])
    BY <1>5, <2>1
  <2>2. CASE \E y \in Zone : z \in After(y) /\ x \in ToSet(q[y])
    <3>1. PICK y \in Zone : z \in After(y) /\ x \in ToSet(q[y])
      BY <2>2
    <3>2. FitsIn(x, y) /\ bag'[x.bag].status # "dropped_off"
      BY <1>5, <3>1
    <3>3. y \notin Belts /\ z \in Pipeline
      BY <3>1, Kinds DEF After
    <3> QED BY <3>2, <3>3 DEF FitsIn
  <2> QED BY <1>8, <2>1, <2>2 DEF Moved
<1>10. \A x, z : FitsIn(x, z)' <=> FitsIn(x, z)
  BY <1>3 DEF FitsIn
<1>11. \A b \in Bag : Single(queue, b) => Single(queue, b)' /\ OneMoved(q, b)
  BY <1>5, <1>8 DEF OneMoved, Single
<1>12. QueuesOK'
  <2>1. \A b \in Outbound : Single(queue, b)'
    BY <1>11, Ways DEF BagInv, QueuesOK
  <2> QED BY <1>8, <1>9, <1>10, <2>1 DEF QueuesOK, Moved
<1>13. exits' \subseteq [from : Zone, item : Item]
       /\ \A e \in exits' : e.from \in Zone /\ e.item \in ToSet(q[e.from])
  BY <1>8 DEF Moved
<1>14. ASSUME NEW b \in Bag, OneMoved(q, b), NEW e \in ExitsOf(b)'
       PROVE  /\ ExitsOf(b)' = {e} /\ e.from \in Zone /\ Holds(q[e.from], b)
              /\ \A z \in Zone : Holds(queue'[z], b) => z \in After(e.from)
              /\ e.from \in Conveyed => Found(queue, b)'
  BY <1>13, <1>14 DEF ExitsOf, OneMoved, Found
<1>15. ASSUME NEW b \in Bag, OneMoved(q, b), ExitsOf(b)' = {}
       PROVE  \A z \in Zone : Holds(queue'[z], b) <=> Holds(q[z], b)
  BY <1>15 DEF ExitsOf, OneMoved
<1>16. ExitsOK'
  <2>1. \A e \in exits' : FitsIn(e.item, e.from)' /\ bag'[e.item.bag].status # "dropped_off"
    BY <1>5, <1>10, <1>13
  <2>2. ASSUME NEW e \in exits', e.item.bag \in Outbound
        PROVE  /\ ExitsOf(e.item.bag)' = {e}
               /\ \A z \in Zone : Holds(queue'[z], e.item.bag) => z \in After(e.from)
    <3>1. e.item.bag \in Bag /\ OneMoved(q, e.item.bag) /\ e \in ExitsOf(e.item.bag)'
      BY <1>11, <2>2, Ways DEF BagInv, QueuesOK, ExitsOf
    <3> QED BY <1>14, <3>1
  <2> QED BY <1>13, <2>1, <2>2 DEF ExitsOK
<1>17. GoodOK'
  <2> SUFFICES ASSUME NEW b \in Bag, Good(b)'
               PROVE
    /\ Single(queue, b)'
    /\ ExitsOf(b)' = {} =>
         /\ \A z \in Zone : Holds(queue'[z], b) => z = bag'[b].zone /\ bag'[b].status = StatusIn(z)
         /\ bag'[b].status \in InPipeline /\ bag'[b].zone \in Zone => Holds(queue'[bag'[b].zone], b)
    /\ \A e \in ExitsOf(b)' :
         /\ ExitsOf(b)' = {e} /\ bag'[b].status = StatusIn(e.from)
         /\ \A z \in Zone : Holds(queue'[z], b) => z \in After(e.from)
         /\ e.from \in Inductions \cup ToSet(Units) \cup {Sorting} => Found(queue, b)'
    BY DEF GoodOK
  <2>1. Good(b)
    BY <1>3 DEF Good, Repeated
  <2>2. Single(queue, b)' /\ OneMoved(q, b)
    BY <1>11, <2>1 DEF BagInv, GoodOK
  <2>3. /\ \A z \in Zone : Holds(q[z], b) => z = bag'[b].zone /\ bag'[b].status = StatusIn(z)
        /\ bag'[b].status \in InPipeline /\ bag'[b].zone \in Zone => Holds(q[bag'[b].zone], b)
    BY <1>5, <2>1
  <2>4. ASSUME ExitsOf(b)' = {}
        PROVE  /\ \A z \in Zone : Holds(queue'[z], b) => z = bag'[b].zone /\ bag'[b].status = StatusIn(z)
               /\ bag'[b].status \in InPipeline /\ bag'[b].zone \in Zone => Holds(queue'[bag'[b].zone], b)
    BY <1>15, <2>2, <2>3, <2>4
  <2>5. ASSUME NEW e \in ExitsOf(b)'
        PROVE  /\ ExitsOf(b)' = {e} /\ bag'[b].status = StatusIn(e.from)
               /\ \A z \in Zone : Holds(queue'[z], b) => z \in After(e.from)
               /\ e.from \in Inductions \cup ToSet(Units) \cup {Sorting} => Found(queue, b)'
    BY <1>14, <2>2, <2>3 DEF Conveyed
  <2> QED BY <2>2, <2>4, <2>5
<1>18. NotYet'
  <2> SUFFICES ASSUME NEW b \in Inbound, ~Redirected(b)', ~Repeated(b)', bag_position'[FlightOf[b]] = 0
               PROVE  bag'[b].status = "in_hold" /\ ~Found(queue, b)' /\ ExitsOf(b)' = {}
    BY DEF NotYet
  <2>1. b \in Bag /\ bag[b].status = "in_hold" /\ ~Found(queue, b)
    BY <1>3, Ways DEF BagInv, NotYet, Redirected, Repeated
  <2>2. b \notin BagsOf(ToInduct(due))
    BY <2>1, ToInductKnown DEF BagsOf, BagInv
  <2>3. bag'[b].status = "in_hold" /\ ~Found(q, b)
    BY <1>4, <1>5, <2>1, <2>2
  <2>4. Single(queue, b)
    BY <2>1 DEF Single, Found, Holds, Once, Of
  <2>5. OneMoved(q, b)
    BY <1>11, <2>1, <2>4
  <2>6. ExitsOf(b)' = {}
    BY <1>14, <2>1, <2>3, <2>5 DEF Found
  <2> QED BY <1>15, <2>1, <2>3, <2>5, <2>6 DEF Found
<1>19. Onward
  BY <1>4 DEF Onward
<1> QED BY <1>4, <1>8, <1>12, <1>16, <1>17, <1>18, <1>19 DEF CoreNext

(* What neither moves a bag nor handles the news of a flight.              *)
LEMMA BagsUntouched ==
  ASSUME BagInv, UNCHANGED <<bagNodes, queue, exits, missed, again, turns>>,
         \A f \in BagFlight : bag_position'[f] = bag_position[f]
  PROVE  CoreNext
<1>1. BagsOK' /\ QueuesOK' /\ ExitsOK' /\ GoodOK'
  BY BagsStay, RestStays
<1>2. bag' = bag /\ loaded_on' = loaded_on /\ queue' = queue /\ exits' = exits /\ again' = again
  BY DEF bagNodes
<1>3. \A b \in Inbound : bag_position'[FlightOf[b]] = bag_position[FlightOf[b]]
  BY Ways
<1>4. NotYet'
  BY <1>2, <1>3 DEF BagInv, NotYet, Redirected, Repeated, Found, ExitsOf
<1>5. TurnsOK'
  BY DEF BagInv, TurnsOK, turns
<1>6. Onward
  BY <1>2, BeforeValues DEF Onward, BagInv, BagsOK
<1> QED BY <1>1, <1>4, <1>5, <1>6 DEF CoreNext

LEMMA BagsNext ==
  ASSUME BagInv, [BaggageNext]_baggageVars
  PROVE  CoreNext
<1>1. CASE FlightEnds \/ FailuresChange
  BY <1>1, BagsUntouched DEF FlightEnds, FailuresChange, baggageMemory, conveyor, bagHistory
<1>2. CASE OnFailure
  <2>1. PICK i \in Incident : /\ Done(i)
                              /\ UNCHANGED <<bagNodes, queue, turns, exits, missed, again>>
    BY <1>2 DEF OnFailure, bagHistory
  <2>2. \A f \in BagFlight : bag_position'[f] = bag_position[f]
    BY <2>1, Ways DEF Done, BagInv, TopicsOK
  <2> QED BY <2>1, <2>2, BagsUntouched
<1>3. CASE UNCHANGED baggageVars
  BY <1>3, BagsUntouched DEF baggageVars, baggageMemory, conveyor, bagHistory
<1> QED BY <1>1, <1>2, <1>3, BagsTick, TickBreaksOff, BagExits, BagExitFails, FlightsLeave, FlightArrives,
           BagRedirected, BaggageRestarts DEF BaggageNext

LEMMA BaggageStarts ==
  ASSUME BaggageInit
  PROVE  BagInv /\ OfflineInv
<1>1. bag = [b \in Bag |-> IF FlightOf[b] \in Departing THEN [status |-> "dropped_off", zone |-> "check-in"]
                           ELSE [status |-> "in_hold", zone |-> "aircraft-hold"]]
  BY DEF BaggageInit, Scan
<1>2. ASSUME NEW b \in Bag
      PROVE  /\ bag[b] \in [status : BagStatus, zone : Zone \cup NoZone]
             /\ b \in Outbound => bag[b].status = "dropped_off"
             /\ b \in Inbound => bag[b].status = "in_hold"
             /\ bag[b].status \notin Traced
             /\ bag[b].status \notin InPipeline
  <2>1. CASE FlightOf[b] \in Departing
    BY <1>1, <2>1, Ways DEF BagStatus, NoZone, Traced, InPipeline
  <2>2. CASE FlightOf[b] \notin Departing
    BY <1>1, <2>2, Ways DEF BagStatus, NoZone, Traced, InPipeline
  <2> QED BY <2>1, <2>2
<1>3. BagsOK
  <2>1. bag \in [Bag -> [status : BagStatus, zone : Zone \cup NoZone]]
    BY <1>1, <1>2
  <2>2. loaded_on \in [Bag -> SUBSET BagFlight] /\ \A b \in Bag : OnFlight(b)
    BY BaggageAssumption DEF BaggageInit, OnFlight
  <2>3. "dropped_off" \notin Beyond
    BY DEF Beyond
  <2> QED BY <1>2, <2>1, <2>2, <2>3, Ways DEF BagsOK
<1>4. /\ queue = [z \in Zone |-> <<>>] /\ exits = {}
      /\ \A z \in Zone : \A b : ~Holds(queue[z], b)
  BY DEF BaggageInit, Holds
<1>5. /\ queue \in [Zone -> Seq(Item)] /\ \A z \in Zone : ToSet(queue[z]) = {}
      /\ \A b \in Bag : Single(queue, b)
  BY <1>4 DEF Single, Once, ToSet
<1>6. QueuesOK
  BY <1>5, Ways DEF QueuesOK
<1>7. ExitsOK /\ \A b : ExitsOf(b) = {}
  BY <1>4 DEF ExitsOK, ExitsOf
<1>8. GoodOK
  BY <1>2, <1>4, <1>5, <1>7 DEF GoodOK
<1>9. NotYet
  BY <1>2, <1>4, <1>7, Ways DEF NotYet, Found
<1>10. TopicsOK
  <2>1. <<>> \in Seq(BagNews) /\ Len(<<>>) = 0
    OBVIOUS
  <2> QED BY <2>1, Ways DEF BaggageInit, TopicsOK
<1>11. TurnsOK
  BY DEF BaggageInit, TurnsOK
<1>12. OfflineInv
  <2>1. /\ NewsInit /\ active_failures = {} /\ offline = {}
        /\ bag_position = [k \in BagFlight \cup Incident |-> 0]
    BY DEF BaggageInit
  <2>2. NewsInv /\ \A i \in Incident : Agrees(i, bag_position[i], active_failures)
    BY <2>1, NewsStarts
  <2> QED BY <2>1, <2>2 DEF OfflineInv, StoppedBy
<1> QED BY <1>3, <1>6, <1>7, <1>8, <1>9, <1>10, <1>11, <1>12 DEF BagInv

-----------------------------------------------------------------------------
(* What follows from the invariant.                                        *)

LEMMA BaggageInvariant == BaggageSpec => [](BagInv /\ OfflineInv)
<1>1. BaggageInit => BagInv /\ OfflineInv
  BY BaggageStarts
<1>2. ASSUME BagInv, OfflineInv, [BaggageNext]_baggageVars
      PROVE  BagInv' /\ OfflineInv'
  <2>1. CoreNext
    BY <1>2, BagsNext
  <2>2. TopicsOK'
    <3>1. CASE BaggageNext
      BY <1>2, <3>1, TopicsNext DEF BagInv
    <3>2. CASE UNCHANGED baggageVars
      BY <1>2, <3>2 DEF BagInv, TopicsOK, baggageVars, baggageMemory, airport, flightTopics
    <3> QED BY <1>2, <3>1, <3>2
  <2>3. OfflineInv'
    BY <1>2, OfflineNext DEF BagInv
  <2> QED BY <2>1, <2>2, <2>3 DEF CoreNext, BagInv
<1> QED BY <1>1, <1>2, PTL DEF BaggageSpec

(* Between two messages the conveyor is what rebuild_from_neo4j would make *)
(* of the nodes, and the zones offline are those of the open failures once *)
(* what was announced of them was heard, but for the exceptions that       *)
(* ConveyorMatches names: BagInv carries the belts, OfflineInv the failures.*)
THEOREM ConveyorMatchesProved == BaggageSpec => []ConveyorMatches
<1>1. ASSUME BagInv, OfflineInv, Quiet PROVE ConveyorMatches
  <2>1. ASSUME NEW b \in Bag \ missed, ~Repeated(b)
        PROVE  /\ Cardinality(loaded_on[b]) = 1
               /\ Cardinality(Places(b)) <= 1
               /\ bag[b].status \in InPipeline /\ bag[b].zone \in Zone => Holds(queue[bag[b].zone], b)
               /\ \A p \in Places(b) : p[1] = bag[b].zone /\ bag[b].status \in InPipeline \cup {"loaded"}
    <3>1. Cardinality(loaded_on[b]) = 1
      <4>1. PICK g \in BagFlight : loaded_on[b] = {g}
        BY <1>1 DEF BagInv, BagsOK, OnFlight
      <4> QED BY <4>1, FS_Singleton
    <3>2. Good(b) /\ ExitsOf(b) = {}
      BY <1>1, <2>1 DEF Good, Quiet, ExitsOf
    <3>3. /\ Single(queue, b)
          /\ \A z \in Zone : Holds(queue[z], b) => z = bag[b].zone /\ bag[b].status = StatusIn(z)
          /\ bag[b].status \in InPipeline /\ bag[b].zone \in Zone => Holds(queue[bag[b].zone], b)
      BY <1>1, <3>2 DEF BagInv, GoodOK
    <3>4. ASSUME NEW p \in Places(b)
          PROVE  \E z \in Zone : \E i \in DOMAIN queue[z] : p = <<z, i>> /\ queue[z][i].bag = b
      BY DEF Places
    <3>5. ASSUME NEW z \in Zone, NEW i \in DOMAIN queue[z], queue[z][i].bag = b
          PROVE  Holds(queue[z], b) /\ queue[z][i] \in Of(b)
      <4>1. queue[z] \in Seq(Item)
        BY <1>1 DEF BagInv, QueuesOK
      <4>2. queue[z][i] \in Item
        BY <4>1
      <4> QED BY <3>5, <4>2 DEF Holds, Of
    <3>6. ASSUME NEW p \in Places(b), NEW o \in Places(b) PROVE p = o
      <4>1. PICK y \in Zone : \E i \in DOMAIN queue[y] : p = <<y, i>> /\ queue[y][i].bag = b
        BY <3>4
      <4>2. PICK i \in DOMAIN queue[y] : p = <<y, i>> /\ queue[y][i].bag = b
        BY <4>1
      <4>3. PICK z \in Zone : \E j \in DOMAIN queue[z] : o = <<z, j>> /\ queue[z][j].bag = b
        BY <3>4
      <4>4. PICK j \in DOMAIN queue[z] : o = <<z, j>> /\ queue[z][j].bag = b
        BY <4>3
      <4>5. y = z
        BY <3>3, <3>5, <4>2, <4>4 DEF Single
      <4>6. i = j
        BY <3>3, <3>5, <4>2, <4>4, <4>5 DEF Single, Once
      <4> QED BY <4>2, <4>4, <4>5, <4>6
    <3>7. Cardinality(Places(b)) <= 1
      <4>1. CASE Places(b) = {}
        BY <4>1, FS_EmptySet
      <4>2. CASE Places(b) # {}
        <5>1. PICK p : p \in Places(b)
          BY <4>2
        <5>2. Places(b) = {p}
          BY <3>6, <5>1
        <5> QED BY <5>2, FS_Singleton
      <4> QED BY <4>1, <4>2
    <3>8. ASSUME NEW p \in Places(b)
          PROVE  p[1] = bag[b].zone /\ bag[b].status \in InPipeline \cup {"loaded"}
      <4>1. PICK z \in Zone : \E i \in DOMAIN queue[z] : p = <<z, i>> /\ queue[z][i].bag = b
        BY <3>4
      <4>2. p[1] = z /\ Holds(queue[z], b)
        BY <3>5, <4>1
      <4> QED BY <3>3, <4>2 DEF StatusIn, InPipeline
    <3> QED BY <3>1, <3>3, <3>7, <3>8
  <2>2. \A i \in Open : Settled(i, bag_position) => FAILURE_IMPACT[i] \subseteq offline
    BY <1>1, KnownIsOpen DEF OfflineInv, Open, StoppedBy
  <2>3. offline \subseteq StoppedBy({i \in Incident : i \in Open \/ ~Settled(i, bag_position)})
    <3>1. \A i \in active_failures : i \in Incident /\ (i \in Open \/ ~Settled(i, bag_position))
      BY <1>1, KnownIsOpen DEF OfflineInv
    <3> QED BY <1>1, <3>1 DEF OfflineInv, StoppedBy
  <2> QED BY <2>1, <2>2, <2>3 DEF ConveyorMatches
<1>2. BagInv /\ OfflineInv => ConveyorMatches
  BY <1>1 DEF ConveyorMatches
<1> QED BY <1>2, BaggageInvariant, PTL

(* No scan of _process_bag_exit takes a bag back past what its flight has  *)
(* done with it, however late it is written, by BagInv.                    *)
THEOREM BagsMoveForwardProved == BaggageSpec => BagsMoveForward
<1>1. ASSUME BagInv, [BaggageNext]_baggageVars
      PROVE  [\A b \in Bag : b \in missed' \/ Redirected(b) \/ Repeated(b)
                \/ Before[bag[b].status] <= Before[bag[b].status]']_baggageVars
  BY <1>1, BagsNext, BeforeValues DEF CoreNext, Onward, Before
<1> QED BY <1>1, BaggageInvariant, PTL DEF BaggageSpec, BagsMoveForward
=============================================================================
