------------------------ MODULE RankedMappersProofs -------------------------
(***************************************************************************)
(* Proofs about the mappers that rank by one fact: equal facts earn one    *)
(* task, the plan agrees with the facts and the band, the band is spent    *)
(* on facts, and every tie is mitigated or reported.                       *)
(***************************************************************************)
EXTENDS RankedMappers, StableSortProofs

-----------------------------------------------------------------------------
(***************************************************************************)
(* The invariant.                                                          *)
(***************************************************************************)
Given == /\ mapper \in MapperNames /\ nodes \in Inputs
         /\ pc \in {"lookup", "group", "build", "done", "error", "unknown"}

\* What is left to group is sorted.
QueueSorted ==
  /\ queue \in Seq(WithFact)
  /\ \A j, k \in DOMAIN queue : j < k => Urgency(queue[j]) >= Urgency(queue[k])

\* Every rank holds the nodes of one fact, the more urgent the earlier.
GroupsRanked ==
  /\ groups \in Seq(Seq(WithFact))
  /\ \A i \in DOMAIN groups :
       /\ groups[i] # <<>>
       /\ \A j \in DOMAIN groups[i] : FactOf(groups[i][j]) = FactOf(groups[i][1])
  /\ \A i, j \in DOMAIN groups : i < j => Urgency(groups[i][1]) > Urgency(groups[j][1])

\* What is left is no more urgent than any rank.
QueueFollows ==
  \A i \in DOMAIN groups, k \in DOMAIN queue : Urgency(groups[i][1]) >= Urgency(queue[k])

NoNodeLost == WithFact \subseteq Range(queue) \cup Ranked

Grouping == QueueSorted /\ GroupsRanked /\ QueueFollows /\ NoNodeLost

\* The levels are those that spread_priority may give.
Levelled ==
  /\ queue = <<>>
  /\ level \in [DOMAIN groups -> Int]
  /\ \A i \in DOMAIN groups : platform.band.max - level[i] \in Depths(i, Len(groups))

RR == RRNodes(PriorityOf, PeriodByName, SliceOf(platform))

Rest == {nd.name : nd \in {x \in Range(nodes) : ~ HasFact(x)}}

Planned == {TaskOf(i, RR) : i \in DOMAIN groups} \cup DefaultOf(Rest)

\* Every task stands in the plan once.
Built ==
  /\ tasks \in Seq(Planned) /\ Range(tasks) = Planned
  /\ \A j, k \in DOMAIN tasks : tasks[j] = tasks[k] => j = k
  /\ warnings = UnmitigatedTies(PriorityOf, PeriodByName, SliceOf(platform))

IInv ==
  /\ Given
  /\ pc = "lookup" => groups = <<>>
  /\ pc \in {"group", "build"} => Ranks
  /\ Ranks /\ pc \in {"group", "build", "done"} => BandVerdict(platform) = "ok" /\ Grouping
  /\ Ranks /\ pc \in {"build", "done"} => Levelled
  /\ PlanMade => Built

-----------------------------------------------------------------------------
(***************************************************************************)
(* What a list of nodes is.                                                *)
(***************************************************************************)
LEMMA NodeFacts ==
  ASSUME nodes \in Inputs
  PROVE  /\ nodes \in Seq(Range(nodes)) /\ IsFiniteSet(Range(nodes))
         /\ \A a, b \in Range(nodes) : a.name = b.name => a = b
         /\ \A nd \in Range(nodes) : nd.name \in Int /\ ByName(nd.name) = nd
<1>1. nodes \in Seq(Range(nodes))
  BY InputsAssumption
<1>2. \A j, k \in DOMAIN nodes : nodes[j].name = nodes[k].name => j = k
  BY InputsAssumption
<1>3. \A nd \in Range(nodes) : nd.name \in Int
  BY InputsAssumption
<1>4. \A nd \in Range(nodes) : \E k \in DOMAIN nodes : nodes[k] = nd
  BY DEF Range
<1>5. \A a, b \in Range(nodes) : a.name = b.name => a = b
  BY <1>2, <1>4
<1>6. IsFiniteSet(Range(nodes))
  <2>1. DOMAIN nodes = 1 .. Len(nodes) /\ Len(nodes) \in Nat
    BY <1>1
  <2>2. IsFiniteSet(DOMAIN nodes)
    BY <2>1, FS_Interval
  <2>3. [k \in DOMAIN nodes |-> nodes[k]] \in Surjection(DOMAIN nodes, Range(nodes))
    BY <1>4 DEF Surjection, Range
  <2> QED
    BY <2>2, <2>3, FS_Surjection
<1>7. \A nd \in Range(nodes) : ByName(nd.name) = nd
  BY <1>5 DEF ByName
<1> QED
  BY <1>1, <1>3, <1>5, <1>6, <1>7

\* A fact is a number, and equal urgency means an equal fact.
LEMMA FactsAreNumbers ==
  ASSUME nodes \in Inputs, Ranks
  PROVE  /\ \A nd \in WithFact : FactOf(nd) \in Int /\ Urgency(nd) \in Int /\ nd.name \in Int
         /\ \A a, b \in WithFact : FactOf(a) = FactOf(b) <=> Urgency(a) = Urgency(b)
<1>1. \A nd \in Range(nodes) :
        nd.rate \in Int \cup {NoRate} /\ nd.deadline \in Int \cup {NoDeadline} /\ nd.name \in Int
  BY InputsAssumption
<1>2. \A nd \in WithFact : nd \in Range(nodes) /\ HasFact(nd)
  BY DEF WithFact
<1>3. CASE mapper = "rate_monotonic"
  <2>1. \A nd : FactOf(nd) = nd.rate /\ Urgency(nd) = nd.rate
    BY <1>3 DEF FactOf, Urgency
  <2>2. \A nd \in WithFact : nd.rate \in Int /\ nd.name \in Int
    BY <1>1, <1>2, <1>3 DEF HasFact, FactOf
  <2> QED
    BY <2>1, <2>2
<1>4. CASE mapper # "rate_monotonic"
  <2>1. \A nd : FactOf(nd) = nd.deadline /\ Urgency(nd) = 0 - nd.deadline
    BY <1>4 DEF FactOf, Urgency
  <2>2. \A nd \in WithFact : nd.deadline \in Int /\ nd.name \in Int
    BY <1>1, <1>2, <1>4 DEF HasFact, FactOf
  <2> QED
    BY <2>1, <2>2
<1> QED
  BY <1>3, <1>4

LEMMA BandFacts ==
  ASSUME BandVerdict(platform) = "ok"
  PROVE  /\ platform.band.min \in Int /\ platform.band.max \in Int
         /\ platform.band.min >= 1 /\ platform.band.max <= 99
         /\ platform.band.min <= platform.band.max
<1>1. platform.band.min \in 1 .. 99 /\ platform.band.max \in 1 .. 99
  BY DEF BandVerdict, ValidPosix, PosixPriorities
<1>2. platform.band.min <= platform.band.max
  BY DEF BandVerdict, ValidPosix
<1> QED
  BY <1>1, <1>2

-----------------------------------------------------------------------------
(***************************************************************************)
(* spread_priority spreads: its rounding keeps the order of the ranks, the *)
(* first lands on the top of the band, the last of several on its foot,    *)
(* and ranks stay apart while the band has a level for each.               *)
(***************************************************************************)
LEMMA SpreadLinearly ==
  ASSUME BandVerdict(platform) = "ok", NEW k \in Nat, NEW i \in 1 .. k, NEW x \in Depths(i, k)
  PROVE  /\ x \in 0 .. platform.band.max - platform.band.min
         /\ k = 1 => x = 0
         /\ k > 1 => LET gaps == k - 1
                         span == platform.band.max - platform.band.min
                     IN  /\ 2 * (gaps * x) - gaps <= 2 * (span * (i - 1))
                         /\ 2 * (span * (i - 1)) <= 2 * (gaps * x) + gaps
<1> DEFINE span == platform.band.max - platform.band.min
           gaps == k - 1
<1>1. span \in Nat /\ gaps \in Nat /\ i \in Int
  <2>1. /\ platform.band.min \in Int /\ platform.band.max \in Int
        /\ platform.band.min <= platform.band.max
    BY BandFacts
  <2>2. k >= 1
    OBVIOUS
  <2> QED
    BY <2>1, <2>2
<1>2. CASE k = 1
  BY <1>1, <1>2 DEF Depths
<1>3. CASE k > 1
  <2>1. x \in {y \in 0 .. span : /\ 2 * gaps * y - gaps <= 2 * span * (i - 1)
                                 /\ 2 * span * (i - 1) <= 2 * gaps * y + gaps}
    BY <1>1, <1>3 DEF Depths
  <2>2. x \in 0 .. span /\ x \in Int /\ gaps \in Int /\ span \in Int /\ i \in Int
    BY <1>1, <2>1
  <2>3. 2 * gaps * x = 2 * (gaps * x) /\ 2 * span * (i - 1) = 2 * (span * (i - 1))
    <3> HIDE DEF gaps, span
    <3> QED
      BY <2>2
  <2> QED
    BY <1>3, <2>1, <2>2, <2>3
<1>4. k = 1 \/ k > 1
  OBVIOUS
<1> QED
  BY <1>2, <1>3, <1>4

LEMMA SpreadEnds ==
  ASSUME BandVerdict(platform) = "ok", NEW k \in Nat, NEW i \in 1 .. k, NEW x \in Depths(i, k)
  PROVE  /\ i = 1 => x = 0
         /\ i = k /\ k > 1 => x = platform.band.max - platform.band.min
<1> DEFINE span == platform.band.max - platform.band.min
           gaps == k - 1
<1>1. span \in Nat /\ k \in Nat /\ x \in 0 .. span
  <2>1. /\ platform.band.min \in Int /\ platform.band.max \in Int
        /\ platform.band.min <= platform.band.max
    BY BandFacts
  <2>2. x \in 0 .. span
    BY SpreadLinearly
  <2> QED
    BY <2>1, <2>2
<1>2. k = 1 => x = 0
  BY SpreadLinearly
<1>3. k > 1 => /\ 2 * (gaps * x) - gaps <= 2 * (span * (i - 1))
               /\ 2 * (span * (i - 1)) <= 2 * (gaps * x) + gaps
  BY SpreadLinearly
<1> HIDE DEF span
<1>4. ASSUME k > 1, i = 1
      PROVE  x = 0
  <2>1. 2 * (gaps * x) - gaps <= 0
    BY <1>1, <1>3, <1>4
  <2>2. x >= 1 => gaps * x >= gaps
    BY <1>1, <1>4
  <2> QED
    BY <1>1, <1>4, <2>1, <2>2
<1>5. ASSUME k > 1, i = k
      PROVE  x = span
  <2>1. 2 * (span * gaps) <= 2 * (gaps * x) + gaps
    BY <1>1, <1>3, <1>5
  <2>2. x <= span - 1 => gaps * x <= gaps * (span - 1)
    BY <1>1, <1>5
  <2>3. gaps * (span - 1) = span * gaps - gaps
    BY <1>1, <1>5
  <2> QED
    BY <1>1, <1>5, <2>1, <2>2, <2>3
<1>6. k = 1 \/ k > 1
  BY <1>1
<1> QED
  BY <1>1, <1>2, <1>4, <1>5, <1>6 DEF span

LEMMA SpreadMonotone ==
  ASSUME BandVerdict(platform) = "ok", NEW k \in Nat,
         NEW i \in 1 .. k, NEW j \in 1 .. k, i < j,
         NEW x \in Depths(i, k), NEW y \in Depths(j, k)
  PROVE  /\ x <= y
         /\ k <= platform.band.max - platform.band.min + 1 => x < y
<1> DEFINE span == platform.band.max - platform.band.min
           gaps == k - 1
<1>1. span \in Nat /\ gaps \in Nat \ {0} /\ x \in 0 .. span /\ y \in 0 .. span /\ k > 1
  <2>1. /\ platform.band.min \in Int /\ platform.band.max \in Int
        /\ platform.band.min <= platform.band.max
    BY BandFacts
  <2>2. x \in 0 .. span /\ y \in 0 .. span
    BY SpreadLinearly
  <2>3. k > 1
    OBVIOUS
  <2> QED
    BY <2>1, <2>2, <2>3
<1>2. /\ 2 * (gaps * x) - gaps <= 2 * (span * (i - 1))
      /\ 2 * (span * (j - 1)) <= 2 * (gaps * y) + gaps
  BY <1>1, SpreadLinearly
<1> HIDE DEF span, gaps
<1>3. span * (j - 1) = span * (i - 1) + span * (j - i)
  BY <1>1
<1>4. span * (j - i) >= span
  BY <1>1
<1>5. x <= y
  <2>1. SUFFICES ASSUME x >= y + 1, span >= 1
                 PROVE  FALSE
    BY <1>1
  <2>2. gaps * x >= gaps * (y + 1)
    BY <1>1, <2>1
  <2>3. gaps * (y + 1) = gaps * y + gaps
    BY <1>1
  <2>4. gaps * x \in Int /\ gaps * y \in Int /\ span * (i - 1) \in Int /\ span * (j - 1) \in Int
    BY <1>1
  <2>5. span * (j - 1) >= span * (i - 1) + 1
    BY <1>1, <1>3, <1>4, <2>1, <2>4
  <2> QED
    BY <1>1, <1>2, <2>2, <2>3, <2>4, <2>5
<1>6. ASSUME gaps <= span
      PROVE  x < y
  <2>1. SUFFICES ASSUME x = y
                 PROVE  FALSE
    BY <1>1, <1>5
  <2>2. gaps * x \in Int /\ span * (i - 1) \in Int /\ span * (j - 1) \in Int
    BY <1>1
  <2>3. span * (j - 1) - span * (i - 1) <= gaps
    BY <1>1, <1>2, <2>1, <2>2
  <2>4. span * (j - i) <= gaps /\ span * (j - i) \in Int
    BY <1>1, <1>3, <2>2, <2>3
  <2>5. span = gaps
    BY <1>1, <1>4, <1>6, <2>4
  <2>6. span * (j - 1) - span * (i - 1) >= gaps
    BY <1>1, <1>3, <1>4, <2>2, <2>4, <2>5
  <2>7. 2 * (gaps * x) - gaps = 2 * (gaps * (i - 1))
    BY <1>1, <1>2, <2>1, <2>2, <2>5, <2>6
  <2>8. gaps * (2 * x - 1 - 2 * (i - 1)) = 0
    <3>1. gaps * (2 * x - 1 - 2 * (i - 1)) = 2 * (gaps * x) - gaps - 2 * (gaps * (i - 1))
      BY <1>1
    <3> QED
      BY <1>1, <2>2, <2>5, <2>7, <3>1
  <2>9. 2 * x - 1 - 2 * (i - 1) = 0
    BY <1>1, <2>8
  <2> QED
    BY <1>1, <2>9
<1> QED
  BY <1>1, <1>5, <1>6 DEF gaps, span

-----------------------------------------------------------------------------
(***************************************************************************)
(* Every step keeps the invariant.                                         *)
(***************************************************************************)
LEMMA ArgsStay ==
  ASSUME UNCHANGED args
  PROVE  /\ mapper' = mapper /\ nodes' = nodes /\ platform' = platform
         /\ WithFact' = WithFact /\ Ranks' = Ranks
         /\ \A nd : FactOf(nd)' = FactOf(nd) /\ Urgency(nd)' = Urgency(nd)
<1>1. mapper' = mapper /\ nodes' = nodes /\ platform' = platform
  BY DEF args
<1> QED
  BY <1>1 DEF WithFact, HasFact, FactOf, Urgency, Ranks

\* Sorting by urgency, ties by name, is sorting in a strict weak order.
LEMMA UrgencyOrders ==
  ASSUME nodes \in Inputs, Ranks, NEW s \in Seq(WithFact)
  PROVE  Orders({ij \in (DOMAIN s) \X (DOMAIN s) : MoreUrgent(s[ij[1]], s[ij[2]])}, DOMAIN s)
<1> DEFINE before == {ij \in (DOMAIN s) \X (DOMAIN s) : MoreUrgent(s[ij[1]], s[ij[2]])}
<1>1. \A i, j \in DOMAIN s : <<i, j>> \in before <=> MoreUrgent(s[i], s[j])
  OBVIOUS
<1> HIDE DEF before
<1>2. \A i \in DOMAIN s : s[i] \in WithFact
  OBVIOUS
<1>3. \A nd \in WithFact : Urgency(nd) \in Int /\ nd.name \in Int
  BY FactsAreNumbers
<1>4. SUFFICES ASSUME NEW a \in WithFact, NEW b \in WithFact, NEW c \in WithFact
               PROVE  /\ MoreUrgent(a, b) => ~ MoreUrgent(b, a)
                      /\ ~ MoreUrgent(a, b) /\ ~ MoreUrgent(b, c) => ~ MoreUrgent(a, c)
  BY <1>1, <1>2 DEF Orders, before
<1>5. /\ Urgency(a) \in Int /\ Urgency(b) \in Int /\ Urgency(c) \in Int
      /\ a.name \in Int /\ b.name \in Int /\ c.name \in Int
  BY <1>3
<1> QED
  BY <1>5 DEF MoreUrgent

LEMMA RankInv ==
  ASSUME IInv, Rank
  PROVE  IInv'
<1>1. /\ nodes \in Inputs /\ mapper \in MapperNames /\ Ranks /\ BandVerdict(platform) = "ok"
      /\ groups = <<>> /\ groups' = groups /\ pc' = "group" /\ UNCHANGED args
      /\ queue' = SortedBy(Kept(nodes, {i \in DOMAIN nodes : HasFact(nodes[i])}), MoreUrgent)
  BY DEF IInv, Given, Rank
<1> DEFINE D == {i \in DOMAIN nodes : HasFact(nodes[i])}
           kept == Kept(nodes, D)
           before == {ij \in (DOMAIN kept) \X (DOMAIN kept) :
                        MoreUrgent(kept[ij[1]], kept[ij[2]])}
<1>2. kept \in Seq(WithFact) /\ Range(kept) = WithFact
  <2>1. nodes \in Seq(Range(nodes))
    BY <1>1, NodeFacts
  <2>2. D \subseteq DOMAIN nodes
    OBVIOUS
  <2>3. kept \in Seq(Range(nodes)) /\ Range(kept) = {nodes[i] : i \in D}
    <3> HIDE DEF D
    <3> QED
      BY <2>1, <2>2, KeptFacts
  <2>4. {nodes[i] : i \in D} = WithFact
    BY DEF WithFact, Range
  <2>5. kept \in Seq(Range(kept))
    <3> HIDE DEF kept
    <3> QED
      BY <2>3, RangeFacts
  <2> QED
    BY <2>3, <2>4, <2>5
<1>3. queue' = Arranged(kept, DOMAIN kept, before)
  BY <1>1 DEF SortedBy
<1> HIDE DEF kept
<1>4. Orders(before, DOMAIN kept)
  BY <1>1, <1>2, UrgencyOrders
<1>5. \A i, j \in DOMAIN kept : <<i, j>> \in before <=> MoreUrgent(kept[i], kept[j])
  OBVIOUS
<1> HIDE DEF before
<1>6. IsStablySorted(queue', WithFact, kept, before)
  BY <1>2, <1>3, <1>4, SortedFacts
<1>7. PICK p \in Bijection(DOMAIN kept, DOMAIN kept) :
        \A k \in DOMAIN kept :
          /\ queue'[k] = kept[p[k]]
          /\ \A j \in DOMAIN kept : j < k => <<p[k], p[j]>> \notin before
  BY <1>6 DEF IsStablySorted
<1>8. \A k \in DOMAIN kept : p[k] \in DOMAIN kept /\ kept[k] \in WithFact
  BY <1>2 DEF Bijection, Injection
<1>9. ASSUME NEW j \in DOMAIN kept, NEW k \in DOMAIN kept, j < k
      PROVE  Urgency(queue'[j]) >= Urgency(queue'[k])
  <2>1. ~ MoreUrgent(kept[p[k]], kept[p[j]])
    BY <1>5, <1>7, <1>8, <1>9
  <2>2. Urgency(kept[p[k]]) \in Int /\ Urgency(kept[p[j]]) \in Int
    BY <1>1, <1>8, FactsAreNumbers
  <2>3. Urgency(kept[p[j]]) >= Urgency(kept[p[k]])
    BY <2>1, <2>2 DEF MoreUrgent
  <2> QED
    BY <1>7, <2>3
<1>10. QueueSorted'
  <2>1. queue' \in Seq(WithFact) /\ DOMAIN queue' = DOMAIN kept
    BY <1>6 DEF IsStablySorted
  <2> QED
    BY <1>1, <1>9, <2>1, ArgsStay DEF QueueSorted
<1>11. NoNodeLost'
  <2>1. Range(queue)' = WithFact /\ WithFact' = WithFact
    BY <1>1, <1>2, <1>6, ArgsStay DEF IsStablySorted
  <2> QED
    BY <2>1 DEF NoNodeLost
<1>12. GroupsRanked' /\ QueueFollows'
  <2>1. groups' = <<>>
    BY <1>1
  <2> QED
    BY <2>1 DEF GroupsRanked, QueueFollows
<1>13. Given' /\ Ranks' /\ BandVerdict(platform)' = "ok"
  BY <1>1, ArgsStay DEF Given
<1> QED
  BY <1>1, <1>10, <1>11, <1>12, <1>13 DEF IInv, Grouping, PlanMade

\* The node at the head goes to a rank, and what is left stays sorted.
LEMMA HeadLeaves ==
  ASSUME QueueSorted, queue # <<>>, NEW q, q = Tail(queue)
  PROVE  /\ Head(queue) \in WithFact /\ q \in Seq(WithFact)
         /\ \A k \in DOMAIN q : k + 1 \in DOMAIN queue /\ q[k] = queue[k + 1]
         /\ \A j, k \in DOMAIN q : j < k => Urgency(q[j]) >= Urgency(q[k])
         /\ Range(queue) = {Head(queue)} \cup Range(q)
         /\ 1 \in DOMAIN queue /\ Head(queue) = queue[1]
<1>1. queue \in Seq(WithFact) /\ queue # <<>>
  BY DEF QueueSorted
<1>2. Head(queue) \in WithFact /\ q \in Seq(WithFact) /\ Len(q) = Len(queue) - 1
  BY <1>1
<1>3. 1 \in DOMAIN queue /\ Head(queue) = queue[1]
  BY <1>1
<1>4. \A k \in DOMAIN q : k + 1 \in DOMAIN queue /\ q[k] = queue[k + 1]
  BY <1>1, <1>2
<1>5. \A k \in DOMAIN queue : k = 1 \/ (k - 1 \in DOMAIN q /\ q[k - 1] = queue[k])
  BY <1>1, <1>2
<1>6. Range(queue) = {Head(queue)} \cup Range(q)
  <2>1. ASSUME NEW x \in Range(queue)
        PROVE  x = Head(queue) \/ x \in Range(q)
    <3>1. PICK k \in DOMAIN queue : x = queue[k]
      BY DEF Range
    <3> QED
      BY <1>3, <1>5, <3>1 DEF Range
  <2>2. Head(queue) \in Range(queue)
    BY <1>3 DEF Range
  <2>3. ASSUME NEW x \in Range(q)
        PROVE  x \in Range(queue)
    <3>1. PICK k \in DOMAIN q : x = q[k]
      BY DEF Range
    <3> QED
      BY <1>4, <3>1 DEF Range
  <2> QED
    BY <2>1, <2>2, <2>3
<1>7. ASSUME NEW j \in DOMAIN q, NEW k \in DOMAIN q, j < k
      PROVE  Urgency(q[j]) >= Urgency(q[k])
  <2>1. j + 1 < k + 1 /\ j + 1 \in DOMAIN queue /\ k + 1 \in DOMAIN queue
    BY <1>2, <1>4, <1>7
  <2> QED
    BY <1>4, <2>1 DEF QueueSorted
<1> QED
  BY <1>2, <1>3, <1>4, <1>6, <1>7

LEMMA RankedFacts ==
  \A nd : nd \in Ranked <=> \E i \in DOMAIN groups : \E j \in DOMAIN groups[i] : groups[i][j] = nd
BY DEF Ranked, Range

LEMMA JoinInv ==
  ASSUME IInv, JoinRank
  PROVE  IInv'
<1> DEFINE g == Len(groups)
           nd == Head(queue)
<1>1. /\ pc = "group" /\ Ranks /\ Grouping /\ Given /\ BandVerdict(platform) = "ok"
      /\ queue # <<>> /\ JoinsLast(nd)
      /\ groups' = [groups EXCEPT ![g] = Append(@, nd)]
      /\ queue' = Tail(queue)
      /\ UNCHANGED <<pc, args, level, warnings, tasks>>
  BY DEF IInv, JoinRank
<1>2. /\ nd \in WithFact /\ queue' \in Seq(WithFact)
      /\ \A k \in DOMAIN queue' : k + 1 \in DOMAIN queue /\ queue'[k] = queue[k + 1]
      /\ \A j, k \in DOMAIN queue' : j < k => Urgency(queue'[j]) >= Urgency(queue'[k])
      /\ Range(queue) = {nd} \cup Range(queue')
  <2>1. QueueSorted /\ queue # <<>> /\ queue' = Tail(queue)
    BY <1>1 DEF Grouping
  <2> QED
    BY <2>1, HeadLeaves
<1> HIDE DEF nd
<1>3. groups \in Seq(Seq(WithFact)) /\ groups # <<>> /\ g \in DOMAIN groups
      /\ DOMAIN groups = 1 .. g /\ g \in Nat /\ FactOf(groups[g][1]) = FactOf(nd)
  <2>1. groups \in Seq(Seq(WithFact)) /\ groups # <<>> /\ FactOf(groups[g][1]) = FactOf(nd)
    BY <1>1 DEF JoinsLast, Grouping, GroupsRanked
  <2> QED
    BY <2>1
<1>4. \A i \in DOMAIN groups : groups[i] \in Seq(WithFact) /\ groups[i] # <<>>
                               /\ 1 \in DOMAIN groups[i]
  BY <1>1, <1>3 DEF Grouping, GroupsRanked
<1> DEFINE longer == Append(groups[g], nd)
<1>5. /\ longer \in Seq(WithFact) /\ longer # <<>> /\ longer[1] = groups[g][1]
      /\ \A j \in DOMAIN longer : longer[j] = nd \/ (j \in DOMAIN groups[g] /\ longer[j] = groups[g][j])
      /\ \A j \in DOMAIN groups[g] : j \in DOMAIN longer /\ longer[j] = groups[g][j]
      /\ \E j \in DOMAIN longer : longer[j] = nd
  <2>1. groups[g] \in Seq(WithFact) /\ groups[g] # <<>> /\ nd \in WithFact
    BY <1>2, <1>3, <1>4
  <2>2. Len(longer) = Len(groups[g]) + 1 /\ longer[Len(longer)] = nd /\ longer \in Seq(WithFact)
    BY <2>1
  <2>3. \A j \in 1 .. Len(groups[g]) : longer[j] = groups[g][j]
    BY <2>1
  <2>4. Len(groups[g]) \in Nat \ {0} /\ DOMAIN groups[g] = 1 .. Len(groups[g])
        /\ DOMAIN longer = 1 .. Len(longer)
    BY <2>1, <2>2
  <2> HIDE DEF longer
  <2> QED
    BY <2>2, <2>3, <2>4
<1>6. /\ DOMAIN groups' = DOMAIN groups /\ groups'[g] = longer
      /\ \A i \in DOMAIN groups : i # g => groups'[i] = groups[i]
      /\ groups' \in Seq(Seq(WithFact))
  <2>1. /\ DOMAIN groups' = DOMAIN groups /\ groups'[g] = longer
        /\ \A i \in DOMAIN groups : i # g => groups'[i] = groups[i]
    BY <1>1, <1>3
  <2> DEFINE Groups == Seq(WithFact)
  <2> HIDE DEF longer, g, Groups
  <2>2. groups' = [i \in 1 .. g |-> groups'[i]]
    BY <1>1, <1>3
  <2>3. \A i \in 1 .. g : groups'[i] \in Groups
    BY <1>3, <1>4, <1>5, <2>1 DEF Groups
  <2>4. [i \in 1 .. g |-> groups'[i]] \in Seq(Groups)
    BY <1>3, <2>3
  <2> QED
    BY <2>1, <2>2, <2>4 DEF Groups
<1> HIDE DEF longer, g
<1>7. \A i \in DOMAIN groups : groups'[i][1] = groups[i][1]
  BY <1>5, <1>6
<1>8. /\ \A i \in DOMAIN groups : \A j \in DOMAIN groups[i] :
           j \in DOMAIN groups'[i] /\ groups'[i][j] = groups[i][j]
      /\ \A i \in DOMAIN groups : \A j \in DOMAIN groups'[i] :
           \/ i = g /\ groups'[i][j] = nd
           \/ j \in DOMAIN groups[i] /\ groups'[i][j] = groups[i][j]
      /\ \E j \in DOMAIN groups'[g] : groups'[g][j] = nd
  BY <1>5, <1>6
<1>9. QueueSorted'
  BY <1>1, <1>2, ArgsStay DEF QueueSorted
<1>10. GroupsRanked'
  <2>1. \A i \in DOMAIN groups :
          /\ groups'[i] # <<>>
          /\ \A j \in DOMAIN groups'[i] : FactOf(groups'[i][j]) = FactOf(groups'[i][1])
    <3>1. \A i \in DOMAIN groups : groups'[i] # <<>>
      BY <1>4, <1>5, <1>6
    <3>2. \A i \in DOMAIN groups : \A j \in DOMAIN groups[i] :
            FactOf(groups[i][j]) = FactOf(groups[i][1])
      BY <1>1 DEF Grouping, GroupsRanked
    <3> QED
      BY <1>3, <1>7, <1>8, <3>1, <3>2
  <2>2. \A i, j \in DOMAIN groups : i < j => Urgency(groups'[i][1]) > Urgency(groups'[j][1])
    BY <1>1, <1>7 DEF Grouping, GroupsRanked
  <2>3. (groups \in Seq(Seq(WithFact)))'
    BY <1>1, <1>6, ArgsStay
  <2>4. (\A i \in DOMAIN groups :
           /\ groups[i] # <<>>
           /\ \A j \in DOMAIN groups[i] : FactOf(groups[i][j]) = FactOf(groups[i][1]))'
    BY <1>1, <1>6, <2>1, ArgsStay DEF FactOf
  <2>5. (\A i, j \in DOMAIN groups : i < j => Urgency(groups[i][1]) > Urgency(groups[j][1]))'
    BY <1>1, <1>6, <2>2, ArgsStay DEF Urgency
  <2> QED
    BY <2>3, <2>4, <2>5 DEF GroupsRanked
<1>11. QueueFollows'
  <2>1. \A i \in DOMAIN groups, k \in DOMAIN queue' :
          Urgency(groups'[i][1]) >= Urgency(queue'[k])
    BY <1>1, <1>2, <1>7 DEF Grouping, QueueFollows
  <2> QED
    BY <1>1, <1>6, <2>1, ArgsStay DEF QueueFollows, Urgency
<1>12. NoNodeLost'
  <2>1. ASSUME NEW x \in WithFact
        PROVE  x \in Range(queue') \/ \E i \in DOMAIN groups : \E j \in DOMAIN groups'[i] :
                                         groups'[i][j] = x
    <3>1. x = nd \/ x \in Range(queue') \/ x \in Ranked
      BY <1>1, <1>2, <2>1 DEF Grouping, NoNodeLost
    <3>2. x \in Ranked => \E i \in DOMAIN groups : \E j \in DOMAIN groups'[i] : groups'[i][j] = x
      BY <1>8, RankedFacts
    <3> QED
      BY <1>3, <1>8, <3>1, <3>2
  <2>2. Ranked' = UNION {Range(groups'[i]) : i \in DOMAIN groups}
    BY <1>6 DEF Ranked
  <2>3. \A x : (\E i \in DOMAIN groups : \E j \in DOMAIN groups'[i] : groups'[i][j] = x)
                 => x \in Ranked'
    BY <2>2 DEF Range
  <2> QED
    BY <1>1, <2>1, <2>3, ArgsStay DEF NoNodeLost
<1>13. Given' /\ Ranks' /\ BandVerdict(platform)' = "ok" /\ pc' = "group"
  BY <1>1, ArgsStay DEF Given
<1> QED
  BY <1>9, <1>10, <1>11, <1>12, <1>13 DEF IInv, Grouping, PlanMade

LEMMA OpenInv ==
  ASSUME IInv, OpenRank
  PROVE  IInv'
<1> DEFINE g == Len(groups)
           nd == Head(queue)
<1>1. /\ pc = "group" /\ Ranks /\ Grouping /\ Given /\ BandVerdict(platform) = "ok"
      /\ queue # <<>> /\ ~ JoinsLast(nd)
      /\ groups' = Append(groups, <<nd>>)
      /\ queue' = Tail(queue)
      /\ UNCHANGED <<pc, args, level, warnings, tasks>>
  BY DEF IInv, OpenRank
<1>2. /\ nd \in WithFact /\ queue' \in Seq(WithFact)
      /\ \A k \in DOMAIN queue' : k + 1 \in DOMAIN queue /\ queue'[k] = queue[k + 1]
      /\ \A j, k \in DOMAIN queue' : j < k => Urgency(queue'[j]) >= Urgency(queue'[k])
      /\ Range(queue) = {nd} \cup Range(queue')
      /\ 1 \in DOMAIN queue /\ nd = queue[1]
  <2>1. QueueSorted /\ queue # <<>> /\ queue' = Tail(queue)
    BY <1>1 DEF Grouping
  <2> QED
    BY <2>1, HeadLeaves
<1> HIDE DEF nd
<1>3. groups \in Seq(Seq(WithFact)) /\ g \in Nat /\ DOMAIN groups = 1 .. g
      /\ (g # 0 => FactOf(groups[g][1]) # FactOf(nd))
  <2>1. groups \in Seq(Seq(WithFact))
    BY <1>1 DEF Grouping, GroupsRanked
  <2>2. groups # <<>> => FactOf(groups[g][1]) # FactOf(nd)
    BY <1>1 DEF JoinsLast
  <2>3. g # 0 => groups # <<>>
    BY <2>1
  <2> QED
    BY <2>1, <2>2, <2>3
<1>4. \A i \in DOMAIN groups : groups[i] \in Seq(WithFact) /\ groups[i] # <<>>
                               /\ 1 \in DOMAIN groups[i] /\ groups[i][1] \in WithFact
  BY <1>1, <1>3 DEF Grouping, GroupsRanked
<1>5. /\ groups' \in Seq(Seq(WithFact)) /\ DOMAIN groups' = 1 .. g + 1
      /\ groups'[g + 1] = <<nd>>
      /\ \A i \in 1 .. g : groups'[i] = groups[i]
  <2>1. groups \in Seq(Seq(WithFact)) /\ <<nd>> \in Seq(WithFact)
    BY <1>2, <1>3
  <2> QED
    BY <1>1, <2>1
<1> HIDE DEF g
<1>6. <<nd>> # <<>> /\ DOMAIN <<nd>> = {1} /\ <<nd>>[1] = nd
  OBVIOUS
<1>7. \A i \in 1 .. g : Urgency(groups[i][1]) > Urgency(nd)
  <2> SUFFICES ASSUME NEW i \in 1 .. g
               PROVE  Urgency(groups[i][1]) > Urgency(nd)
    OBVIOUS
  <2>1. i \in DOMAIN groups /\ g \in DOMAIN groups
    BY <1>3
  <2>2. /\ groups[i][1] \in WithFact /\ groups[g][1] \in WithFact /\ nd \in WithFact
    BY <1>2, <1>4, <2>1
  <2>3. /\ Urgency(groups[i][1]) \in Int /\ Urgency(groups[g][1]) \in Int /\ Urgency(nd) \in Int
        /\ Urgency(groups[g][1]) # Urgency(nd)
    BY <1>1, <1>3, <2>1, <2>2, FactsAreNumbers DEF Given
  <2>4. Urgency(groups[g][1]) >= Urgency(nd)
    BY <1>1, <1>2, <2>1 DEF Grouping, QueueFollows
  <2>5. i < g => Urgency(groups[i][1]) > Urgency(groups[g][1])
    BY <1>1, <2>1 DEF Grouping, GroupsRanked
  <2>6. i < g \/ i = g
    BY <1>3
  <2> QED
    BY <2>3, <2>4, <2>5, <2>6
<1>8. QueueSorted'
  BY <1>1, <1>2, ArgsStay DEF QueueSorted
<1>9. GroupsRanked'
  <2>1. \A i \in 1 .. g + 1 :
          /\ groups'[i] # <<>>
          /\ \A j \in DOMAIN groups'[i] : FactOf(groups'[i][j]) = FactOf(groups'[i][1])
    <3>1. ASSUME NEW i \in 1 .. g
          PROVE  /\ groups'[i] # <<>>
                 /\ \A j \in DOMAIN groups'[i] : FactOf(groups'[i][j]) = FactOf(groups'[i][1])
      BY <1>1, <1>3, <1>5 DEF Grouping, GroupsRanked
    <3>2. \A i \in 1 .. g + 1 : i \in 1 .. g \/ i = g + 1
      BY <1>3
    <3> QED
      BY <1>5, <1>6, <3>1, <3>2
  <2>2. \A i, j \in 1 .. g + 1 : i < j => Urgency(groups'[i][1]) > Urgency(groups'[j][1])
    <3> SUFFICES ASSUME NEW i \in 1 .. g + 1, NEW j \in 1 .. g + 1, i < j
                 PROVE  Urgency(groups'[i][1]) > Urgency(groups'[j][1])
      OBVIOUS
    <3>1. CASE j = g + 1
      BY <1>3, <1>5, <1>6, <1>7, <3>1
    <3>2. CASE j # g + 1
      <4>1. i \in 1 .. g /\ j \in 1 .. g
        BY <1>3, <3>2
      <4> QED
        BY <1>1, <1>3, <1>5, <4>1 DEF Grouping, GroupsRanked
    <3> QED
      BY <3>1, <3>2
  <2> QED
    BY <1>1, <1>5, <2>1, <2>2, ArgsStay DEF GroupsRanked, FactOf, Urgency
<1>10. QueueFollows'
  <2>1. \A i \in 1 .. g + 1, k \in DOMAIN queue' : Urgency(groups'[i][1]) >= Urgency(queue'[k])
    <3> SUFFICES ASSUME NEW i \in 1 .. g + 1, NEW k \in DOMAIN queue'
                 PROVE  Urgency(groups'[i][1]) >= Urgency(queue[k + 1])
      BY <1>2
    <3>1. CASE i = g + 1
      <4>1. 1 < k + 1 /\ k + 1 \in DOMAIN queue
        BY <1>2
      <4> QED
        BY <1>1, <1>2, <1>5, <1>6, <3>1, <4>1 DEF Grouping, QueueSorted
    <3>2. CASE i # g + 1
      <4>1. i \in 1 .. g
        BY <1>3, <3>2
      <4> QED
        BY <1>1, <1>2, <1>3, <1>5, <4>1 DEF Grouping, QueueFollows
    <3> QED
      BY <3>1, <3>2
  <2> QED
    BY <1>1, <1>5, <2>1, ArgsStay DEF QueueFollows, Urgency
<1>11. NoNodeLost'
  <2>1. Ranked' = UNION {Range(groups'[i]) : i \in 1 .. g + 1}
    BY <1>5 DEF Ranked
  <2>2. Ranked \subseteq Ranked'
    <3>1. Ranked = UNION {Range(groups[i]) : i \in 1 .. g}
      BY <1>3 DEF Ranked
    <3>2. \A i \in 1 .. g : i \in 1 .. g + 1 /\ Range(groups'[i]) = Range(groups[i])
      BY <1>3, <1>5
    <3> QED
      BY <2>1, <3>1, <3>2
  <2>3. nd \in Ranked'
    <3>1. g + 1 \in 1 .. g + 1 /\ nd \in Range(<<nd>>)
      BY <1>3, <1>6 DEF Range
    <3> QED
      BY <1>5, <2>1, <3>1
  <2> QED
    BY <1>1, <1>2, <2>2, <2>3, ArgsStay DEF Grouping, NoNodeLost
<1>12. Given' /\ Ranks' /\ BandVerdict(platform)' = "ok" /\ pc' = "group"
  BY <1>1, ArgsStay DEF Given
<1> QED
  BY <1>8, <1>9, <1>10, <1>11, <1>12 DEF IInv, Grouping, PlanMade

LEMMA GroupingStays ==
  ASSUME UNCHANGED <<args, queue, groups>>
  PROVE  Grouping' <=> Grouping
<1>1. /\ mapper' = mapper /\ nodes' = nodes /\ platform' = platform
      /\ queue' = queue /\ groups' = groups /\ WithFact' = WithFact
  BY ArgsStay DEF args
<1>2. Ranked' = Ranked
  BY <1>1 DEF Ranked
<1>3. GroupsRanked' <=> GroupsRanked
  BY <1>1 DEF GroupsRanked, FactOf, Urgency
<1>4. QueueSorted' <=> QueueSorted
  BY <1>1 DEF QueueSorted, Urgency
<1>5. QueueFollows' <=> QueueFollows
  BY <1>1 DEF QueueFollows, Urgency
<1>6. NoNodeLost' <=> NoNodeLost
  BY <1>1, <1>2 DEF NoNodeLost
<1> QED
  BY <1>3, <1>4, <1>5, <1>6 DEF Grouping

LEMMA SpreadInv ==
  ASSUME IInv, Spread
  PROVE  IInv'
<1>1. /\ pc = "group" /\ Ranks /\ Grouping /\ Given /\ BandVerdict(platform) = "ok"
      /\ queue = <<>> /\ pc' = "build"
      /\ UNCHANGED <<args, queue, groups, warnings, tasks>>
  BY DEF IInv, Spread
<1> DEFINE span == platform.band.max - platform.band.min
<1>2. PICK depth \in [DOMAIN groups -> 0 .. span] :
        /\ \A i \in DOMAIN groups : depth[i] \in Depths(i, Len(groups))
        /\ level' = [i \in DOMAIN groups |-> platform.band.max - depth[i]]
  BY DEF Spread
<1>3. platform.band.min \in Int /\ platform.band.max \in Int
  BY <1>1, BandFacts
<1>4. \A i \in DOMAIN groups : depth[i] \in Int
  BY <1>2, <1>3
<1>5. \A i \in DOMAIN groups : level'[i] \in Int /\ platform.band.max - level'[i] = depth[i]
  BY <1>2, <1>3, <1>4
<1>6. level' \in [DOMAIN groups -> Int]
  BY <1>2, <1>5
<1>7. Levelled'
  <2>1. /\ platform' = platform /\ groups' = groups /\ queue' = <<>>
    BY <1>1 DEF args
  <2> QED
    BY <1>2, <1>5, <1>6, <2>1 DEF Levelled, Depths
<1>8. Grouping'
  BY <1>1, GroupingStays
<1>9. Given' /\ Ranks' /\ BandVerdict(platform)' = "ok"
  BY <1>1, ArgsStay DEF Given
<1> QED
  BY <1>1, <1>7, <1>8, <1>9 DEF IInv, PlanMade

\* What the levels come to: within the band, never rising, from its top to its foot.
LEMMA LevelFacts ==
  ASSUME BandVerdict(platform) = "ok", GroupsRanked, Levelled
  PROVE  /\ Len(groups) \in Nat /\ DOMAIN groups = 1 .. Len(groups)
         /\ \A i \in DOMAIN groups :
              /\ level[i] \in Int /\ level[i] >= 1
              /\ level[i] >= platform.band.min /\ level[i] <= platform.band.max
         /\ Len(groups) >= 1 => level[1] = platform.band.max
         /\ Len(groups) > 1 => level[Len(groups)] = platform.band.min
         /\ \A i, j \in DOMAIN groups :
              i < j => /\ level[i] >= level[j]
                       /\ Len(groups) <= platform.band.max - platform.band.min + 1
                            => level[i] > level[j]
<1> DEFINE k == Len(groups)
           below(i) == platform.band.max - level[i]
<1>1. k \in Nat /\ DOMAIN groups = 1 .. k
  BY DEF GroupsRanked
<1>2. /\ platform.band.min \in Int /\ platform.band.max \in Int
      /\ platform.band.min >= 1 /\ platform.band.min <= platform.band.max
  BY BandFacts
<1>3. \A i \in 1 .. k : level[i] \in Int /\ below(i) \in Depths(i, k)
  BY <1>1 DEF Levelled
<1> HIDE DEF k, below
<1>4. \A i \in 1 .. k : below(i) \in 0 .. platform.band.max - platform.band.min
  BY <1>1, <1>3, SpreadLinearly
<1>5. ASSUME NEW i \in 1 .. k
      PROVE  /\ level[i] \in Int /\ level[i] >= 1
             /\ level[i] >= platform.band.min /\ level[i] <= platform.band.max
  <2>1. level[i] \in Int
    BY <1>3
  <2>2. /\ platform.band.max - level[i] >= 0
        /\ platform.band.max - level[i] <= platform.band.max - platform.band.min
    BY <1>2, <1>4 DEF below
  <2> QED
    BY <1>2, <2>1, <2>2
<1>6. k >= 1 => level[1] = platform.band.max
  <2> SUFFICES ASSUME k >= 1
               PROVE  level[1] = platform.band.max
    OBVIOUS
  <2>1. 1 \in 1 .. k
    BY <1>1
  <2>2. below(1) = 0
    BY <1>1, <1>3, <2>1, SpreadEnds
  <2> QED
    BY <1>2, <1>3, <2>1, <2>2 DEF below
<1>7. k > 1 => level[k] = platform.band.min
  <2> SUFFICES ASSUME k > 1
               PROVE  level[k] = platform.band.min
    OBVIOUS
  <2>1. k \in 1 .. k
    BY <1>1
  <2>2. below(k) = platform.band.max - platform.band.min
    BY <1>1, <1>3, <2>1, SpreadEnds
  <2>3. level[k] \in Int /\ platform.band.max - level[k] = platform.band.max - platform.band.min
    BY <1>3, <2>1, <2>2 DEF below
  <2> QED
    BY <1>2, <2>3
<1>8. ASSUME NEW i \in 1 .. k, NEW j \in 1 .. k, i < j
      PROVE  /\ level[i] >= level[j]
             /\ k <= platform.band.max - platform.band.min + 1 => level[i] > level[j]
  <2>1. /\ below(i) <= below(j)
        /\ k <= platform.band.max - platform.band.min + 1 => below(i) < below(j)
    <3>1. below(i) \in Depths(i, k) /\ below(j) \in Depths(j, k)
      BY <1>3
    <3> QED
      BY <1>1, <1>8, <3>1, SpreadMonotone
  <2> QED
    BY <1>2, <1>3, <2>1 DEF below
<1> QED
  BY <1>1, <1>2, <1>5, <1>6, <1>7, <1>8 DEF k

LEMMA LexPair ==
  ASSUME NEW a, NEW b, NEW c, NEW d
  PROVE  LexLess(<<a, b>>, <<c, d>>) <=> a < c \/ (a = c /\ b < d)
<1>1. DOMAIN <<a, b>> = {1, 2}
  OBVIOUS
<1>2. 1 .. 1 - 1 = {} /\ 1 .. 2 - 1 = {1}
  OBVIOUS
<1> QED
  BY <1>1, <1>2 DEF LexLess

\* Every task of the plan is the default or a rank: a name of two numbers, a real-time
\* priority.
LEMMA PlannedFacts ==
  ASSUME Given, Ranks, BandVerdict(platform) = "ok", GroupsRanked, Levelled,
         NEW t \in Planned
  PROVE  \/ t \in DefaultOf(Rest) /\ t.priority = 0
         \/ /\ t.priority \in Int /\ t.priority >= 1
            /\ \E c, n \in Int : t.name = <<c, n>>
<1>1. CASE t \in DefaultOf(Rest)
  BY <1>1 DEF DefaultOf
<1>2. CASE \E i \in DOMAIN groups : t = TaskOf(i, RR)
  <2>1. PICK i \in DOMAIN groups : t = TaskOf(i, RR)
    BY <1>2
  <2>2. t.priority = level[i] /\ t.name = NameOf(groups[i])
    BY <2>1 DEF TaskOf
  <2>3. level[i] \in Int /\ level[i] >= 1
    BY LevelFacts
  <2>4. groups[i] \in Seq(WithFact) /\ groups[i] # <<>> /\ 1 \in DOMAIN groups[i]
    BY DEF GroupsRanked
  <2>5. groups[i][1] \in WithFact
    BY <2>4
  <2>6. groups[i][1].name \in Int /\ FactOf(groups[i][1]) \in Int
    BY <2>5, FactsAreNumbers DEF Given
  <2>7. \E c, n \in Int : NameOf(groups[i]) = <<c, n>>
    BY <2>6 DEF NameOf
  <2> QED
    BY <2>2, <2>3, <2>7
<1> QED
  BY <1>1, <1>2 DEF Planned

\* Sorting the plan is sorting in a strict weak order.
LEMMA PlanOrders ==
  ASSUME Given, Ranks, BandVerdict(platform) = "ok", GroupsRanked, Levelled,
         NEW a \in Planned, NEW b \in Planned, NEW c \in Planned
  PROVE  /\ TaskBefore(a, b) => ~ TaskBefore(b, a)
         /\ ~ TaskBefore(a, b) /\ ~ TaskBefore(b, c) => ~ TaskBefore(a, c)
<1> DEFINE RealTime(t) == /\ t.priority \in Int /\ t.priority >= 1
                          /\ \E i, n \in Int : t.name = <<i, n>>
           Default(t) == t \in DefaultOf(Rest) /\ t.priority = 0
<1>1. \A t \in Planned : RealTime(t) \/ Default(t)
  BY PlannedFacts
<1>2. \A t, u : Default(t) /\ Default(u) => t = u
  BY DEF DefaultOf
<1>3. \A t, u : TaskBefore(t, u) <=> \/ t.priority > u.priority
                                     \/ t.priority = u.priority /\ t # u /\ LexLess(t.name, u.name)
  BY DEF TaskBefore
<1>4. \A t, u : RealTime(t) /\ RealTime(u) =>
        (LexLess(t.name, u.name) <=> \/ t.name[1] < u.name[1]
                                     \/ t.name[1] = u.name[1] /\ t.name[2] < u.name[2])
  BY LexPair
<1>5. \A t : RealTime(t) => t.name[1] \in Int /\ t.name[2] \in Int /\ t.priority \in Int
                            /\ t.priority >= 1
  OBVIOUS
<1>6. \A t : Default(t) => t.priority = 0
  OBVIOUS
<1> HIDE DEF RealTime, Default
<1>7. \A t, u \in Planned :
        TaskBefore(t, u) <=> \/ t.priority > u.priority
                             \/ /\ t.priority = u.priority /\ RealTime(t) /\ RealTime(u)
                                /\ \/ t.name[1] < u.name[1]
                                   \/ t.name[1] = u.name[1] /\ t.name[2] < u.name[2]
  <2> SUFFICES ASSUME NEW t \in Planned, NEW u \in Planned
               PROVE  TaskBefore(t, u) <=>
                        \/ t.priority > u.priority
                        \/ /\ t.priority = u.priority /\ RealTime(t) /\ RealTime(u)
                           /\ \/ t.name[1] < u.name[1]
                              \/ t.name[1] = u.name[1] /\ t.name[2] < u.name[2]
    OBVIOUS
  <2>1. CASE Default(t) /\ Default(u)
    BY <1>2, <1>3, <1>5, <1>6, <2>1
  <2>2. CASE RealTime(t) /\ RealTime(u)
    BY <1>3, <1>4, <1>5, <2>2
  <2>3. CASE RealTime(t) /\ Default(u)
    BY <1>3, <1>5, <1>6, <2>3
  <2>4. CASE Default(t) /\ RealTime(u)
    BY <1>3, <1>5, <1>6, <2>4
  <2> QED
    BY <1>1, <2>1, <2>2, <2>3, <2>4
<1>8. \A t \in Planned : /\ t.priority \in Int
                         /\ RealTime(t) => t.name[1] \in Int /\ t.name[2] \in Int
                         /\ t.priority >= 1 <=> RealTime(t)
  BY <1>1, <1>5, <1>6
<1> QED
  BY <1>7, <1>8

LEMMA PlannedFinite ==
  ASSUME GroupsRanked
  PROVE  IsFiniteSet(Planned)
<1>1. DOMAIN groups = 1 .. Len(groups) /\ Len(groups) \in Nat
  BY DEF GroupsRanked
<1>2. IsFiniteSet(DOMAIN groups)
  BY <1>1, FS_Interval
<1> DEFINE ranks == {TaskOf(i, RR) : i \in DOMAIN groups}
<1>3. [i \in DOMAIN groups |-> TaskOf(i, RR)] \in Surjection(DOMAIN groups, ranks)
  BY DEF Surjection
<1>4. IsFiniteSet(ranks)
  BY <1>2, <1>3, FS_Surjection
<1>5. IsFiniteSet(DefaultOf(Rest))
  BY FS_EmptySet, FS_Singleton DEF DefaultOf
<1>6. IsFiniteSet(ranks \cup DefaultOf(Rest))
  BY <1>4, <1>5, FS_Union
<1> QED
  BY <1>6 DEF Planned

LEMMA BuildInv ==
  ASSUME IInv, Build
  PROVE  IInv'
<1> DEFINE listed == SetToSeq(Planned)
           before == {ij \in (DOMAIN listed) \X (DOMAIN listed) :
                        TaskBefore(listed[ij[1]], listed[ij[2]])}
<1>1. /\ pc = "build" /\ Ranks /\ Grouping /\ Levelled /\ Given
      /\ BandVerdict(platform) = "ok" /\ pc' = "done"
      /\ UNCHANGED <<args, queue, groups, level>>
      /\ warnings' = UnmitigatedTies(PriorityOf, PeriodByName, SliceOf(platform))
  BY DEF IInv, Build
<1>2. tasks' = Arranged(listed, DOMAIN listed, before)
  BY DEF Build, Planned, RR, Rest, SortedBy
<1>3. /\ listed \in Seq(Planned) /\ Range(listed) = Planned
      /\ \A j, k \in DOMAIN listed : listed[j] = listed[k] => j = k
  <2>1. IsFiniteSet(Planned)
    BY <1>1, PlannedFinite DEF Grouping
  <2> QED
    BY <2>1, SetToSeqFacts DEF IsInjective
<1> HIDE DEF listed
<1>4. \A i, j \in DOMAIN listed : <<i, j>> \in before <=> TaskBefore(listed[i], listed[j])
  OBVIOUS
<1>5. \A i \in DOMAIN listed : listed[i] \in Planned
  BY <1>3
<1> HIDE DEF before
<1>6. Orders(before, DOMAIN listed)
  <2> SUFFICES ASSUME NEW i \in DOMAIN listed, NEW j \in DOMAIN listed, NEW k \in DOMAIN listed
               PROVE  /\ <<i, j>> \in before => <<j, i>> \notin before
                      /\ <<i, j>> \notin before /\ <<j, k>> \notin before
                           => <<i, k>> \notin before
    BY DEF Orders
  <2>1. listed[i] \in Planned /\ listed[j] \in Planned /\ listed[k] \in Planned
    BY <1>5
  <2>2. /\ TaskBefore(listed[i], listed[j]) => ~ TaskBefore(listed[j], listed[i])
        /\ ~ TaskBefore(listed[i], listed[j]) /\ ~ TaskBefore(listed[j], listed[k])
             => ~ TaskBefore(listed[i], listed[k])
    BY <1>1, <2>1, PlanOrders DEF Grouping
  <2> QED
    BY <1>4, <2>2
<1>7. IsStablySorted(tasks', Planned, listed, before)
  BY <1>2, <1>3, <1>6, SortedFacts
<1>8. PICK p \in Bijection(DOMAIN listed, DOMAIN listed) :
        \A k \in DOMAIN listed : tasks'[k] = listed[p[k]]
  BY <1>7 DEF IsStablySorted
<1>9. /\ tasks' \in Seq(Planned) /\ DOMAIN tasks' = DOMAIN listed
      /\ Range(tasks') = Planned
  BY <1>3, <1>7 DEF IsStablySorted
<1>10. \A j, k \in DOMAIN tasks' : tasks'[j] = tasks'[k] => j = k
  BY <1>3, <1>8, <1>9 DEF Bijection, Injection, IsInjective
<1>11. Planned' = Planned
  <2>1. /\ mapper' = mapper /\ nodes' = nodes /\ platform' = platform
        /\ groups' = groups /\ level' = level
    BY <1>1 DEF args
  <2> QED
    BY <2>1 DEF Planned, TaskOf, RR, PriorityOf, PeriodByName, PeriodOf, ByName, Ranked, Rest,
                HasFact, FactOf, NameOf, RRNodes
<1>12. Built'
  <2>1. warnings' = UnmitigatedTies(PriorityOf, PeriodByName, SliceOf(platform))'
    <3>1. /\ mapper' = mapper /\ nodes' = nodes /\ platform' = platform
          /\ groups' = groups /\ level' = level
      BY <1>1 DEF args
    <3> QED
      BY <1>1, <3>1 DEF PriorityOf, PeriodByName, PeriodOf, ByName, Ranked
  <2> QED
    BY <1>9, <1>10, <1>11, <2>1 DEF Built
<1>13. Levelled'
  <2>1. /\ platform' = platform /\ groups' = groups /\ queue' = queue /\ level' = level
    BY <1>1 DEF args
  <2> QED
    BY <1>1, <2>1 DEF Levelled, Depths
<1>14. Given' /\ Ranks' /\ BandVerdict(platform)' = "ok" /\ Grouping'
  BY <1>1, ArgsStay, GroupingStays DEF Given
<1> QED
  BY <1>1, <1>12, <1>13, <1>14 DEF IInv

LEMMA InitInv == Init => IInv
BY DEF Init, IInv, Given, PlanMade, Ranks

\* The steps that end without a plan, and `manual`, that ranks nothing.
LEMMA EndInv ==
  ASSUME IInv, LookupFails \/ MapManually \/ RefuseBand
  PROVE  IInv'
<1>1. Given' /\ pc' \in {"done", "error", "unknown"} /\ Ranks' = Ranks
  <2>1. Ranks' = Ranks /\ Given
    BY ArgsStay DEF IInv, LookupFails, MapManually, RefuseBand
  <2> QED
    BY <2>1 DEF Given, args, LookupFails, MapManually, RefuseBand
<1>2. pc' = "done" => ~ Ranks
  BY DEF LookupFails, MapManually, RefuseBand, Ranks
<1> QED
  BY <1>1, <1>2 DEF IInv, PlanMade

LEMMA StutterInv ==
  ASSUME IInv, UNCHANGED vars
  PROVE  IInv'
<1>1. /\ mapper' = mapper /\ nodes' = nodes /\ platform' = platform /\ pc' = pc
      /\ queue' = queue /\ groups' = groups /\ level' = level
      /\ warnings' = warnings /\ tasks' = tasks /\ UNCHANGED args
  BY DEF vars, args
<1>2. Grouping' <=> Grouping
  BY <1>1, GroupingStays
<1>3. Levelled' <=> Levelled
  BY <1>1 DEF Levelled, Depths
<1>4. Built' <=> Built
  BY <1>1 DEF Built, Planned, TaskOf, RR, PriorityOf, PeriodByName, PeriodOf, ByName, Ranked,
              Rest, HasFact, FactOf, NameOf, RRNodes
<1> QED
  BY <1>1, <1>2, <1>3, <1>4 DEF IInv, Given, Ranks, PlanMade

THEOREM Invariance == Spec => []IInv
<1>1. IInv /\ [Next]_vars => IInv'
  <2> SUFFICES ASSUME IInv, [Next]_vars
               PROVE  IInv'
    OBVIOUS
  <2>1. CASE LookupFails \/ MapManually \/ RefuseBand
    BY <2>1, EndInv
  <2>2. CASE Rank
    BY <2>2, RankInv
  <2>3. CASE JoinRank
    BY <2>3, JoinInv
  <2>4. CASE OpenRank
    BY <2>4, OpenInv
  <2>5. CASE Spread
    BY <2>5, SpreadInv
  <2>6. CASE Build
    BY <2>6, BuildInv
  <2>7. CASE Returned \/ UNCHANGED vars
    BY <2>7, StutterInv DEF Returned
  <2> QED
    BY <2>1, <2>2, <2>3, <2>4, <2>5, <2>6, <2>7 DEF Next
<1> QED
  BY <1>1, InitInv, PTL DEF Spec

-----------------------------------------------------------------------------
(***************************************************************************)
(* What a finished plan holds.                                             *)
(***************************************************************************)
LEMMA PlanParts ==
  ASSUME IInv, PlanMade
  PROVE  /\ Ranks /\ Given /\ BandVerdict(platform) = "ok" /\ nodes \in Inputs
         /\ GroupsRanked /\ Levelled /\ Built
         /\ WithFact \subseteq Ranked
BY DEF IInv, PlanMade, Given, Grouping, NoNodeLost, Levelled, Range

\* A rank holds exactly the nodes of its fact.
LEMMA RankMembers ==
  ASSUME IInv, PlanMade, NEW i \in DOMAIN groups
  PROVE  /\ groups[i][1] \in WithFact
         /\ groups[i][1] \in Range(groups[i])
         /\ Range(groups[i]) = {nd \in WithFact : FactOf(nd) = FactOf(groups[i][1])}
<1>1. groups[i] \in Seq(WithFact) /\ groups[i] # <<>>
  BY PlanParts DEF GroupsRanked
<1>2. 1 \in DOMAIN groups[i] /\ groups[i][1] \in WithFact
  BY <1>1
<1>3. ASSUME NEW x \in Range(groups[i])
      PROVE  x \in WithFact /\ FactOf(x) = FactOf(groups[i][1])
  <2>1. PICK j \in DOMAIN groups[i] : x = groups[i][j]
    BY DEF Range
  <2> QED
    BY <1>1, <2>1, PlanParts DEF GroupsRanked
<1>4. ASSUME NEW x \in WithFact, FactOf(x) = FactOf(groups[i][1])
      PROVE  x \in Range(groups[i])
  <2>1. PICK j \in DOMAIN groups : x \in Range(groups[j])
    BY PlanParts DEF Ranked
  <2>2. PICK l \in DOMAIN groups[j] : x = groups[j][l]
    BY <2>1 DEF Range
  <2>3. groups[j] \in Seq(WithFact) /\ groups[j] # <<>>
    BY PlanParts DEF GroupsRanked
  <2>4. 1 \in DOMAIN groups[j] /\ groups[j][1] \in WithFact
    BY <2>3
  <2>5. FactOf(groups[j][1]) = FactOf(groups[i][1])
    BY <1>4, <2>2, PlanParts DEF GroupsRanked
  <2>6. /\ Urgency(groups[j][1]) = Urgency(groups[i][1])
        /\ Urgency(groups[j][1]) \in Int /\ Urgency(groups[i][1]) \in Int
    BY <1>2, <2>4, <2>5, PlanParts, FactsAreNumbers
  <2>7. i = j
    <3>1. i \in Int /\ j \in Int
      BY PlanParts, LevelFacts
    <3>2. /\ i < j => Urgency(groups[i][1]) > Urgency(groups[j][1])
          /\ j < i => Urgency(groups[j][1]) > Urgency(groups[i][1])
      BY PlanParts DEF GroupsRanked
    <3> QED
      BY <2>6, <3>1, <3>2
  <2> QED
    BY <2>1, <2>7
<1> QED
  BY <1>2, <1>3, <1>4 DEF Range

\* Two ranks have two facts.
LEMMA RanksDiffer ==
  ASSUME IInv, PlanMade, NEW i \in DOMAIN groups, NEW j \in DOMAIN groups,
         FactOf(groups[i][1]) = FactOf(groups[j][1])
  PROVE  i = j
<1>1. groups[i][1] \in WithFact /\ groups[j][1] \in WithFact
  BY RankMembers
<1>2. /\ Urgency(groups[j][1]) = Urgency(groups[i][1])
      /\ Urgency(groups[j][1]) \in Int /\ Urgency(groups[i][1]) \in Int
  BY <1>1, PlanParts, FactsAreNumbers
<1>3. i \in Int /\ j \in Int
  BY PlanParts, LevelFacts
<1>4. /\ i < j => Urgency(groups[i][1]) > Urgency(groups[j][1])
      /\ j < i => Urgency(groups[j][1]) > Urgency(groups[i][1])
  BY PlanParts DEF GroupsRanked
<1> QED
  BY <1>2, <1>3, <1>4

LEMMA TaskMembers ==
  ASSUME IInv, PlanMade, NEW nd \in Range(nodes)
  PROVE  /\ \A i \in DOMAIN groups :
              nd.name \in TaskOf(i, RR).members
                <=> HasFact(nd) /\ FactOf(nd) = FactOf(groups[i][1])
         /\ \A t \in DefaultOf(Rest) : nd.name \in t.members <=> ~ HasFact(nd)
         /\ ~ HasFact(nd) => DefaultOf(Rest) # {}
<1>1. nodes \in Inputs /\ \A a, b \in Range(nodes) : a.name = b.name => a = b
  BY PlanParts, NodeFacts
<1>2. ASSUME NEW i \in DOMAIN groups
      PROVE  nd.name \in TaskOf(i, RR).members
               <=> HasFact(nd) /\ FactOf(nd) = FactOf(groups[i][1])
  <2>1. TaskOf(i, RR).members = {x.name : x \in Range(groups[i])}
    BY DEF TaskOf
  <2>2. \A x : x \in Range(groups[i])
                 <=> x \in Range(nodes) /\ HasFact(x) /\ FactOf(x) = FactOf(groups[i][1])
    BY RankMembers DEF WithFact
  <2> QED
    BY <1>1, <2>1, <2>2
<1>3. nd.name \in Rest <=> ~ HasFact(nd)
  BY <1>1 DEF Rest
<1>4. \A t \in DefaultOf(Rest) : t.members = Rest
  BY DEF DefaultOf
<1> QED
  BY <1>2, <1>3, <1>4 DEF DefaultOf

\* Every node has one task: that of its fact, or the default.
LEMMA HolderFacts ==
  ASSUME IInv, PlanMade, NEW nd \in Range(nodes)
  PROVE  /\ Holder(nd.name) \in Planned /\ nd.name \in Holder(nd.name).members
         /\ \A t \in Planned : nd.name \in t.members => t = Holder(nd.name)
         /\ HasFact(nd) => \E i \in DOMAIN groups : /\ Holder(nd.name) = TaskOf(i, RR)
                                                    /\ FactOf(nd) = FactOf(groups[i][1])
         /\ ~ HasFact(nd) => Holder(nd.name) \in DefaultOf(Rest)
<1>1. Range(tasks) = Planned
  BY PlanParts DEF Built
<1>2. HasFact(nd) => \E i \in DOMAIN groups : FactOf(nd) = FactOf(groups[i][1])
  <2> SUFFICES ASSUME HasFact(nd)
               PROVE  \E i \in DOMAIN groups : FactOf(nd) = FactOf(groups[i][1])
    OBVIOUS
  <2>1. nd \in Ranked
    BY PlanParts DEF WithFact
  <2>2. PICK i \in DOMAIN groups : nd \in Range(groups[i])
    BY <2>1 DEF Ranked
  <2> QED
    BY <2>2, RankMembers
<1>3. \E t \in Planned : nd.name \in t.members
  BY <1>2, TaskMembers DEF Planned
<1>4. ASSUME NEW t \in Planned, NEW u \in Planned, nd.name \in t.members, nd.name \in u.members
      PROVE  t = u
  <2>1. CASE HasFact(nd)
    <3>1. t \notin DefaultOf(Rest) /\ u \notin DefaultOf(Rest)
      BY <1>4, <2>1, TaskMembers
    <3>2. PICK i \in DOMAIN groups : t = TaskOf(i, RR)
      BY <3>1 DEF Planned
    <3>3. PICK j \in DOMAIN groups : u = TaskOf(j, RR)
      BY <3>1 DEF Planned
    <3>4. FactOf(groups[i][1]) = FactOf(nd) /\ FactOf(groups[j][1]) = FactOf(nd)
      BY <1>4, <3>2, <3>3, TaskMembers
    <3>5. i = j
      BY <3>4, RanksDiffer
    <3> QED
      BY <3>2, <3>3, <3>5
  <2>2. CASE ~ HasFact(nd)
    <3>1. t \in DefaultOf(Rest) /\ u \in DefaultOf(Rest)
      BY <1>4, <2>2, TaskMembers DEF Planned
    <3> QED
      BY <3>1 DEF DefaultOf
  <2> QED
    BY <2>1, <2>2
<1>5. /\ Holder(nd.name) \in Planned /\ nd.name \in Holder(nd.name).members
      /\ \A t \in Planned : nd.name \in t.members => t = Holder(nd.name)
  BY <1>1, <1>3, <1>4 DEF Holder
<1>6. ASSUME HasFact(nd)
      PROVE  \E i \in DOMAIN groups : /\ Holder(nd.name) = TaskOf(i, RR)
                                      /\ FactOf(nd) = FactOf(groups[i][1])
  <2>1. Holder(nd.name) \notin DefaultOf(Rest)
    BY <1>5, <1>6, TaskMembers
  <2>2. PICK i \in DOMAIN groups : Holder(nd.name) = TaskOf(i, RR)
    BY <1>5, <2>1 DEF Planned
  <2> QED
    BY <1>5, <2>2, TaskMembers
<1>7. ASSUME ~ HasFact(nd)
      PROVE  Holder(nd.name) \in DefaultOf(Rest)
  BY <1>5, <1>7, TaskMembers DEF Planned
<1> QED
  BY <1>5, <1>6, <1>7

\* Equal facts share one task, different ones do not, and no node is lost or placed
\* twice: the promise of rank_groups and build_ranked_plan.
LEMMA DoneFacts == IInv => EqualFactsShareOneTask
<1> SUFFICES ASSUME IInv, PlanMade
             PROVE  /\ \A m \in Names : Cardinality({k \in DOMAIN tasks : m \in tasks[k].members}) = 1
                    /\ \A a, b \in Range(nodes) :
                         Holder(a.name) = Holder(b.name) <=>
                           HasFact(a) = HasFact(b) /\ (HasFact(a) => FactOf(a) = FactOf(b))
  BY DEF EqualFactsShareOneTask
<1>1. ASSUME NEW nd \in Range(nodes)
      PROVE  Cardinality({k \in DOMAIN tasks : nd.name \in tasks[k].members}) = 1
  <2>1. Holder(nd.name) \in Planned
    BY HolderFacts
  <2>2. PICK k \in DOMAIN tasks : tasks[k] = Holder(nd.name)
    BY <2>1, PlanParts DEF Built, Range
  <2>3. \A j \in DOMAIN tasks : tasks[j] \in Planned
    BY PlanParts DEF Built, Range
  <2>4. \A j \in DOMAIN tasks : nd.name \in tasks[j].members <=> tasks[j] = Holder(nd.name)
    BY <2>3, HolderFacts
  <2>5. {j \in DOMAIN tasks : nd.name \in tasks[j].members} = {k}
    BY <2>2, <2>4, PlanParts DEF Built
  <2> QED
    BY <2>5, FS_Singleton
<1>2. ASSUME NEW a \in Range(nodes), NEW b \in Range(nodes)
      PROVE  Holder(a.name) = Holder(b.name) <=>
               (HasFact(a) <=> HasFact(b)) /\ (HasFact(a) => FactOf(a) = FactOf(b))
  <2>1. CASE HasFact(a) /\ HasFact(b)
    <3>1. PICK i \in DOMAIN groups : /\ Holder(a.name) = TaskOf(i, RR)
                                     /\ FactOf(a) = FactOf(groups[i][1])
      BY <2>1, HolderFacts
    <3>2. PICK j \in DOMAIN groups : /\ Holder(b.name) = TaskOf(j, RR)
                                     /\ FactOf(b) = FactOf(groups[j][1])
      BY <2>1, HolderFacts
    <3>3. ASSUME Holder(a.name) = Holder(b.name)
          PROVE  FactOf(a) = FactOf(b)
      <4>1. b.name \in TaskOf(i, RR).members
        BY <3>1, <3>3, HolderFacts
      <4> QED
        BY <3>1, <4>1, TaskMembers
    <3>4. ASSUME FactOf(a) = FactOf(b)
          PROVE  Holder(a.name) = Holder(b.name)
      <4>1. i = j
        BY <3>1, <3>2, <3>4, RanksDiffer
      <4> QED
        BY <3>1, <3>2, <4>1
    <3> QED
      BY <2>1, <3>3, <3>4
  <2>2. CASE ~ HasFact(a) /\ ~ HasFact(b)
    BY <2>2, HolderFacts DEF DefaultOf
  <2>3. ASSUME HasFact(a), ~ HasFact(b)
        PROVE  Holder(a.name) # Holder(b.name)
    <3>1. a.name \in Holder(a.name).members /\ Holder(b.name) \in DefaultOf(Rest)
      BY <2>3, HolderFacts
    <3> QED
      BY <2>3, <3>1, TaskMembers
  <2>4. ASSUME ~ HasFact(a), HasFact(b)
        PROVE  Holder(a.name) # Holder(b.name)
    <3>1. b.name \in Holder(b.name).members /\ Holder(a.name) \in DefaultOf(Rest)
      BY <2>4, HolderFacts
    <3> QED
      BY <2>4, <3>1, TaskMembers
  <2> QED
    BY <2>1, <2>2, <2>3, <2>4
<1> QED
  BY <1>1, <1>2 DEF Names, HasFact

\* The rank a node stands in decides its priority, in the plan as in validate.rs.
LEMMA HolderLevel ==
  ASSUME IInv, PlanMade, NEW nd \in WithFact
  PROVE  /\ \E i \in DOMAIN groups :
              /\ Holder(nd.name) = TaskOf(i, RR) /\ Holder(nd.name).priority = level[i]
              /\ FactOf(nd) = FactOf(groups[i][1]) /\ Urgency(nd) = Urgency(groups[i][1])
         /\ nd.name \in DOMAIN PriorityByNode(tasks)
         /\ PriorityByNode(tasks)[nd.name] = Holder(nd.name).priority
<1>1. nd \in Range(nodes) /\ HasFact(nd)
  BY DEF WithFact
<1>2. PICK i \in DOMAIN groups : /\ Holder(nd.name) = TaskOf(i, RR)
                                 /\ FactOf(nd) = FactOf(groups[i][1])
  BY <1>1, HolderFacts
<1>3. Holder(nd.name).priority = level[i]
  BY <1>2 DEF TaskOf
<1>4. Urgency(nd) = Urgency(groups[i][1])
  BY <1>2, PlanParts, RankMembers, FactsAreNumbers
<1> DEFINE holders == {k \in DOMAIN tasks : nd.name \in tasks[k].members}
<1>5. PICK k \in DOMAIN tasks : holders = {k} /\ tasks[k] = Holder(nd.name)
  <2>1. Holder(nd.name) \in Planned
    BY <1>1, HolderFacts
  <2>2. PICK k \in DOMAIN tasks : tasks[k] = Holder(nd.name)
    BY <2>1, PlanParts DEF Built, Range
  <2>3. \A j \in DOMAIN tasks : tasks[j] \in Planned
    BY PlanParts DEF Built, Range
  <2>4. \A j \in DOMAIN tasks : nd.name \in tasks[j].members <=> tasks[j] = Holder(nd.name)
    BY <1>1, <2>3, HolderFacts
  <2>5. holders = {k}
    BY <2>2, <2>4, PlanParts DEF Built
  <2> QED
    BY <2>2, <2>5
<1>6. nd.name \in DOMAIN PriorityByNode(tasks)
  BY <1>5 DEF PriorityByNode
<1>7. PriorityByNode(tasks)[nd.name]
        = tasks[CHOOSE j \in holders : \A l \in holders : l <= j].priority
  BY <1>6 DEF PriorityByNode
<1>8. k <= k
  <2>1. k \in Int
    BY PlanParts DEF Built
  <2> QED
    BY <2>1
<1>9. (CHOOSE j \in holders : \A l \in holders : l <= j) = k
  BY <1>5, <1>8
<1> QED
  BY <1>2, <1>3, <1>4, <1>5, <1>6, <1>7, <1>9

\* validate.rs objects to nothing in the plan: no priority contradicts the fact it
\* comes from, none leaves the band.
LEMMA DoneValidation == IInv => PassesItsOwnValidation
<1> DEFINE urgency == [m \in {nd.name : nd \in WithFact} |-> Urgency(ByName(m))]
<1> SUFFICES ASSUME IInv, PlanMade
             PROVE  /\ Contradictions(urgency, tasks) = {}
                    /\ BandViolations(tasks, platform.band) = {}
  BY DEF PassesItsOwnValidation
<1>1. ASSUME NEW a \in WithFact, NEW b \in WithFact, Urgency(a) > Urgency(b)
      PROVE  ~ (PriorityByNode(tasks)[a.name] < PriorityByNode(tasks)[b.name])
  <2>1. PICK i \in DOMAIN groups : /\ PriorityByNode(tasks)[a.name] = level[i]
                                   /\ Urgency(a) = Urgency(groups[i][1])
    BY HolderLevel
  <2>2. PICK j \in DOMAIN groups : /\ PriorityByNode(tasks)[b.name] = level[j]
                                   /\ Urgency(b) = Urgency(groups[j][1])
    BY HolderLevel
  <2>3. Urgency(a) \in Int /\ Urgency(b) \in Int
    BY PlanParts, FactsAreNumbers
  <2>4. /\ i \in Int /\ j \in Int /\ level[i] \in Int /\ level[j] \in Int
        /\ i < j => level[i] >= level[j]
    BY PlanParts, LevelFacts
  <2>5. j < i => Urgency(b) > Urgency(a)
    BY <2>1, <2>2, PlanParts DEF GroupsRanked
  <2>6. i # j
    BY <1>1, <2>1, <2>2, <2>3
  <2>7. i < j
    BY <1>1, <2>3, <2>4, <2>5, <2>6
  <2> QED
    BY <2>1, <2>2, <2>4, <2>7
<1>2. DOMAIN urgency = {nd.name : nd \in WithFact}
  OBVIOUS
<1>3. \A nd \in WithFact : urgency[nd.name] = Urgency(nd)
  <2>1. \A nd \in WithFact : nd \in Range(nodes) /\ ByName(nd.name) = nd
    BY PlanParts, NodeFacts DEF WithFact
  <2>2. \A nd \in WithFact : urgency[nd.name] = Urgency(ByName(nd.name))
    OBVIOUS
  <2> QED
    BY <2>1, <2>2
<1> HIDE DEF urgency
<1>4. Contradictions(urgency, tasks) = {}
  <2>1. SUFFICES ASSUME NEW x \in DOMAIN urgency, NEW y \in DOMAIN urgency,
                        urgency[x] > urgency[y],
                        PriorityByNode(tasks)[x] < PriorityByNode(tasks)[y]
                 PROVE  FALSE
    BY DEF Contradictions
  <2>2. PICK a \in WithFact : x = a.name
    BY <1>2
  <2>3. PICK b \in WithFact : y = b.name
    BY <1>2
  <2> QED
    BY <1>1, <1>3, <2>1, <2>2, <2>3
<1>5. BandViolations(tasks, platform.band) = {}
  <2>1. SUFFICES ASSUME NEW t \in Planned, t.name # DefaultTask,
                        t.priority \notin platform.band.min .. platform.band.max
                 PROVE  FALSE
    BY PlanParts DEF BandViolations, Built, Range
  <2>2. PICK i \in DOMAIN groups : t = TaskOf(i, RR)
    BY <2>1 DEF Planned, DefaultOf
  <2>3. t.priority = level[i]
    BY <2>2 DEF TaskOf
  <2>4. /\ level[i] \in Int /\ level[i] >= platform.band.min /\ level[i] <= platform.band.max
    BY PlanParts, LevelFacts
  <2>5. platform.band.min \in Int /\ platform.band.max \in Int
    BY PlanParts, BandFacts
  <2> QED
    BY <2>1, <2>3, <2>4, <2>5
<1> QED
  BY <1>4, <1>5

\* There are as many ranks as facts, and their levels are those of the plan.
LEMMA RanksCount ==
  ASSUME IInv, PlanMade
  PROVE  /\ Cardinality(FactsInUse) = Len(groups)
         /\ {Holder(nd.name).priority : nd \in WithFact} = {level[i] : i \in DOMAIN groups}
<1> DEFINE fact == [i \in 1 .. Len(groups) |-> FactOf(groups[i][1])]
<1>1. Len(groups) \in Nat /\ DOMAIN groups = 1 .. Len(groups)
  BY PlanParts, LevelFacts
<1>2. \A nd \in WithFact : \E i \in DOMAIN groups : /\ Holder(nd.name).priority = level[i]
                                                    /\ FactOf(nd) = FactOf(groups[i][1])
  BY HolderLevel
<1>3. ASSUME NEW i \in DOMAIN groups
      PROVE  groups[i][1] \in WithFact /\ Holder(groups[i][1].name).priority = level[i]
  <2>1. groups[i][1] \in WithFact
    BY RankMembers
  <2>2. PICK j \in DOMAIN groups : /\ Holder(groups[i][1].name).priority = level[j]
                                   /\ FactOf(groups[i][1]) = FactOf(groups[j][1])
    BY <1>2, <2>1
  <2>3. i = j
    BY <2>2, RanksDiffer
  <2> QED
    BY <2>1, <2>2, <2>3
<1>4. fact \in Bijection(1 .. Len(groups), FactsInUse)
  <2>1. \A i \in 1 .. Len(groups) : fact[i] \in FactsInUse
    BY <1>1, <1>3 DEF FactsInUse
  <2>2. \A i, j \in 1 .. Len(groups) : fact[i] = fact[j] => i = j
    BY <1>1, RanksDiffer
  <2>3. \A x \in FactsInUse : \E i \in 1 .. Len(groups) : fact[i] = x
    BY <1>1, <1>2 DEF FactsInUse
  <2> QED
    BY <2>1, <2>2, <2>3 DEF Bijection, Injection, Surjection, IsInjective
<1>5. Cardinality(FactsInUse) = Len(groups)
  <2> DEFINE n == Len(groups)
  <2>1. n \in Nat /\ fact \in Bijection(1 .. n, FactsInUse)
    BY <1>1, <1>4
  <2> HIDE DEF fact, n
  <2>2. Cardinality(FactsInUse) = n
    BY <2>1, Counted
  <2> QED
    BY <2>2 DEF n
<1>6. {Holder(nd.name).priority : nd \in WithFact} = {level[i] : i \in DOMAIN groups}
  <2>1. ASSUME NEW i \in DOMAIN groups
        PROVE  level[i] \in {Holder(nd.name).priority : nd \in WithFact}
    BY <1>3
  <2>2. ASSUME NEW nd \in WithFact
        PROVE  Holder(nd.name).priority \in {level[i] : i \in DOMAIN groups}
    BY <1>2
  <2> QED
    BY <2>1, <2>2
<1> QED
  BY <1>5, <1>6

\* A band with a level for every fact gives each its own, and the ranks reach from its
\* top to its foot: spread_priority.
LEMMA DoneSpread == IInv => BandIsSpentOnFacts
<1> DEFINE levels == {Holder(nd.name).priority : nd \in WithFact}
           facts == Cardinality(FactsInUse)
           band == platform.band
<1> SUFFICES ASSUME IInv, PlanMade, FactsInUse # {}
             PROVE  /\ facts <= band.max - band.min + 1 => Cardinality(levels) = facts
                    /\ band.max \in levels
                    /\ facts > 1 => band.min \in levels
  BY DEF BandIsSpentOnFacts
<1>1. facts = Len(groups) /\ levels = {level[i] : i \in 1 .. Len(groups)}
  BY RanksCount, PlanParts, LevelFacts
<1>2. /\ Len(groups) \in Nat /\ DOMAIN groups = 1 .. Len(groups)
      /\ Len(groups) >= 1 => level[1] = band.max
      /\ Len(groups) > 1 => level[Len(groups)] = band.min
      /\ \A i, j \in DOMAIN groups :
           i < j => (Len(groups) <= band.max - band.min + 1 => level[i] > level[j])
  BY PlanParts, LevelFacts
<1>3. \A i \in 1 .. Len(groups) : level[i] \in Int
  BY <1>2, PlanParts, LevelFacts
<1>4. Len(groups) >= 1
  <2>1. PICK nd \in WithFact : TRUE
    BY DEF FactsInUse
  <2>2. DOMAIN groups # {}
    BY HolderLevel
  <2> QED
    BY <1>2, <2>2
<1> HIDE DEF facts, levels, band
<1>5. band.max \in levels
  BY <1>1, <1>2, <1>4
<1>6. facts > 1 => band.min \in levels
  BY <1>1, <1>2, <1>4
<1>7. ASSUME facts <= band.max - band.min + 1
      PROVE  Cardinality(levels) = facts
  <2> DEFINE n == Len(groups)
             f == [i \in 1 .. n |-> level[i]]
  <2>1. n \in Nat
    BY <1>2
  <2>2. \A i, j \in 1 .. n : level[i] = level[j] => i = j
    <3> SUFFICES ASSUME NEW i \in 1 .. n, NEW j \in 1 .. n, i < j
                 PROVE  level[i] # level[j]
      BY <2>1
    <3>1. level[i] > level[j]
      BY <1>1, <1>2, <1>7
    <3> QED
      BY <1>3, <3>1
  <2>3. f \in Bijection(1 .. n, levels)
    <3>1. \A i \in 1 .. n : f[i] \in levels
      BY <1>1
    <3>2. \A x \in levels : \E i \in 1 .. n : f[i] = x
      BY <1>1
    <3> QED
      BY <2>2, <3>1, <3>2 DEF Bijection, Injection, Surjection, IsInjective
  <2>4. Cardinality(levels) = n
    <3> HIDE DEF f, n
    <3> QED
      BY <2>1, <2>3, Counted
  <2> QED
    BY <1>1, <2>4
<1> QED
  BY <1>5, <1>6, <1>7 DEF facts, levels, band

\* Nodes and their names are in step.
LEMMA NamesCount ==
  ASSUME nodes \in Inputs, NEW T, T \subseteq Range(nodes)
  PROVE  /\ IsFiniteSet(T) /\ Cardinality(T) \in Nat
         /\ IsFiniteSet({x.name : x \in T})
         /\ Cardinality({x.name : x \in T}) = Cardinality(T)
<1> DEFINE names == {x.name : x \in T}
           f == [x \in T |-> x.name]
<1>1. IsFiniteSet(Range(nodes)) /\ \A a, b \in Range(nodes) : a.name = b.name => a = b
  BY NodeFacts
<1>2. IsFiniteSet(T) /\ Cardinality(T) \in Nat
  BY <1>1, FS_Subset, FS_CardinalityType
<1>3. f \in Bijection(T, names)
  BY <1>1 DEF Bijection, Injection, Surjection, IsInjective
<1>4. ExistsBijection(T, names)
  BY <1>3 DEF ExistsBijection
<1> HIDE DEF f, names
<1>5. IsFiniteSet(names) /\ Cardinality(names) = Cardinality(T)
  BY <1>2, <1>4, FS_Bijection
<1> QED
  BY <1>2, <1>5 DEF names

\* The nodes that share a priority with nd.
TiedTo(nd) == {x \in WithFact : Holder(x.name).priority = Holder(nd.name).priority}

NamesTiedTo(nd) == {x.name : x \in TiedTo(nd)}

\* What build_ranked_plan hands to rr_policy_for_ties: the priority and the period of
\* every ranked node.
LEMMA HandedOver ==
  ASSUME IInv, PlanMade
  PROVE  /\ DOMAIN PriorityOf = {nd.name : nd \in WithFact}
         /\ \A nd \in WithFact : /\ PriorityOf[nd.name] = Holder(nd.name).priority
                                 /\ PeriodByName[nd.name] = PeriodOf(nd)
<1>1. Ranked = WithFact
  <2>1. \A i \in DOMAIN groups : Range(groups[i]) \subseteq WithFact
    BY RankMembers
  <2> QED
    BY <2>1, PlanParts DEF Ranked
<1>2. DOMAIN PriorityOf = {nd.name : nd \in WithFact}
  BY <1>1 DEF PriorityOf
<1>3. /\ \A nd \in Range(nodes) : ByName(nd.name) = nd
      /\ \A a, b \in Range(nodes) : a.name = b.name => a = b
      /\ WithFact \subseteq Range(nodes)
  BY PlanParts, NodeFacts DEF WithFact
<1>4. ASSUME NEW nd \in WithFact
      PROVE  PriorityOf[nd.name] = Holder(nd.name).priority
  <2>1. PICK i \in DOMAIN groups : /\ Holder(nd.name).priority = level[i]
                                   /\ FactOf(nd) = FactOf(groups[i][1])
    BY HolderLevel
  <2> DEFINE j == CHOOSE l \in DOMAIN groups : \E x \in Range(groups[l]) : x.name = nd.name
  <2>2. nd \in Range(groups[i])
    BY <2>1, RankMembers
  <2>3. j \in DOMAIN groups /\ \E x \in Range(groups[j]) : x.name = nd.name
    BY <2>2
  <2>4. PriorityOf[nd.name] = level[j]
    BY <1>1 DEF PriorityOf
  <2> HIDE DEF j
  <2>5. PICK x \in Range(groups[j]) : x.name = nd.name
    BY <2>3
  <2>6. x \in WithFact /\ FactOf(x) = FactOf(groups[j][1])
    BY <2>3, RankMembers
  <2>7. x = nd
    BY <1>3, <2>5, <2>6
  <2>8. i = j
    BY <2>1, <2>3, <2>6, <2>7, RanksDiffer
  <2> QED
    BY <2>1, <2>4, <2>8
<1>5. ASSUME NEW nd \in WithFact
      PROVE  PeriodByName[nd.name] = PeriodOf(nd)
  <2>1. PeriodByName[nd.name] = PeriodOf(ByName(nd.name))
    BY <1>1 DEF PeriodByName
  <2> QED
    BY <1>3, <2>1
<1> QED
  BY <1>2, <1>4, <1>5

\* rr_policy_for_ties finds the ties of the plan.
LEMMA TiesFound ==
  ASSUME IInv, PlanMade, NEW nd \in WithFact
  PROVE  /\ nd \in TiedTo(nd) /\ Cardinality(TiedTo(nd)) \in Nat
         /\ NamesTiedTo(nd) \in Ties(PriorityOf) <=> Cardinality(TiedTo(nd)) >= 2
         /\ \A t \in Ties(PriorityOf) : nd.name \in t => t = NamesTiedTo(nd)
         /\ PeriodsOf(NamesTiedTo(nd), PeriodByName)
              = {PeriodOf(x) : x \in TiedTo(nd)} \ {NoPeriod}
<1> DEFINE class(k) == {m \in DOMAIN PriorityOf : PriorityOf[m] = PriorityOf[k]}
<1>1. nd \in TiedTo(nd) /\ TiedTo(nd) \subseteq WithFact /\ TiedTo(nd) \subseteq Range(nodes)
  BY DEF TiedTo, WithFact
<1>2. Cardinality(TiedTo(nd)) \in Nat /\ Cardinality(NamesTiedTo(nd)) = Cardinality(TiedTo(nd))
  BY <1>1, PlanParts, NamesCount DEF NamesTiedTo
<1>3. class(nd.name) = NamesTiedTo(nd)
  BY HandedOver DEF NamesTiedTo, TiedTo
<1>4. nd.name \in DOMAIN PriorityOf
  BY HandedOver
<1>5. NamesTiedTo(nd) \in {class(k) : k \in DOMAIN PriorityOf}
  BY <1>3, <1>4
<1>6. NamesTiedTo(nd) \in Ties(PriorityOf) <=> Cardinality(NamesTiedTo(nd)) >= 2
  BY <1>5 DEF Ties
<1>7. ASSUME NEW t \in Ties(PriorityOf), nd.name \in t
      PROVE  t = NamesTiedTo(nd)
  <2>1. PICK k \in DOMAIN PriorityOf : t = class(k)
    BY DEF Ties
  <2>2. PriorityOf[nd.name] = PriorityOf[k]
    BY <1>7, <2>1
  <2> QED
    BY <1>3, <2>1, <2>2
<1>8. PeriodsOf(NamesTiedTo(nd), PeriodByName) = {PeriodOf(x) : x \in TiedTo(nd)} \ {NoPeriod}
  <2>1. \A x \in TiedTo(nd) : PeriodByName[x.name] = PeriodOf(x)
    BY <1>1, HandedOver
  <2>2. {PeriodByName[m] : m \in NamesTiedTo(nd)} = {PeriodOf(x) : x \in TiedTo(nd)}
    BY <2>1 DEF NamesTiedTo
  <2> QED
    BY <2>2 DEF PeriodsOf
<1> QED
  BY <1>1, <1>2, <1>6, <1>7, <1>8

\* A node rotates exactly when it is tied and a slice is useful for its tie.
Rotates(nd) ==
  /\ Cardinality(TiedTo(nd)) >= 2
  /\ SliceIsUseful(NamesTiedTo(nd), PeriodByName, SliceOf(platform))

LEMMA PolicyOfTies ==
  ASSUME IInv, PlanMade, NEW nd \in WithFact
  PROVE  Holder(nd.name).policy = IF Rotates(nd) THEN "rr" ELSE "fifo"
<1>1. \A x \in WithFact : x.name \in RR <=> Rotates(x)
  <2> SUFFICES ASSUME NEW x \in WithFact
               PROVE  x.name \in RR <=> Rotates(x)
    OBVIOUS
  <2>1. x.name \in NamesTiedTo(x)
    BY TiesFound DEF NamesTiedTo
  <2> QED
    BY <2>1, TiesFound DEF RR, RRNodes, Rotates
<1>2. PICK i \in DOMAIN groups : /\ Holder(nd.name) = TaskOf(i, RR)
                                 /\ Holder(nd.name).priority = level[i]
                                 /\ FactOf(nd) = FactOf(groups[i][1])
  BY HolderLevel
<1> DEFINE names == {x.name : x \in Range(groups[i])}
<1>3. Min(names) \in names
  <2>1. Range(groups[i]) \subseteq Range(nodes) /\ groups[i][1].name \in names
    BY RankMembers DEF WithFact
  <2>2. IsFiniteSet(names)
    BY <2>1, PlanParts, NamesCount
  <2>3. names \subseteq Int
    BY <2>1, PlanParts, NodeFacts
  <2>4. \E m \in names : \A n \in names : m <= n
    <3> HIDE DEF names
    <3> QED
      BY <2>1, <2>2, <2>3, LeastElement
  <2> HIDE DEF names
  <2> QED
    BY <2>4 DEF Min
<1>4. PICK y \in Range(groups[i]) : Min(names) = y.name
  BY <1>3
<1>5. Holder(nd.name).policy = IF y.name \in RR THEN "rr" ELSE "fifo"
  BY <1>2, <1>4 DEF TaskOf
<1>6. y \in WithFact /\ FactOf(y) = FactOf(nd)
  BY <1>2, RankMembers
<1>7. Holder(y.name).priority = Holder(nd.name).priority
  <2>1. PICK j \in DOMAIN groups : /\ Holder(y.name).priority = level[j]
                                   /\ FactOf(y) = FactOf(groups[j][1])
    BY <1>6, HolderLevel
  <2>2. i = j
    BY <1>2, <1>6, <2>1, RanksDiffer
  <2> QED
    BY <1>2, <2>1, <2>2
<1>8. TiedTo(y) = TiedTo(nd)
  BY <1>7 DEF TiedTo
<1>9. Rotates(y) <=> Rotates(nd)
  BY <1>8 DEF Rotates, NamesTiedTo
<1> QED
  BY <1>1, <1>5, <1>6, <1>9

\* Every tie, of one rank or of two, rotates by a slice shorter than every known period
\* of it or is reported, and a node alone keeps SCHED_FIFO.
LEMMA DoneTies == IInv => TiesAreMitigated
<1> SUFFICES ASSUME IInv, PlanMade, NEW nd \in WithFact
             PROVE  LET known == {PeriodOf(x) : x \in TiedTo(nd)} \ {NoPeriod}
                        slice == SliceOf(platform)
                    IN  IF Holder(nd.name).policy = "rr"
                        THEN /\ Cardinality(TiedTo(nd)) > 1
                             /\ \A x \in TiedTo(nd) : Holder(x.name).policy = "rr"
                             /\ slice # NoSlice /\ known # {} /\ \A p \in known : slice < p
                        ELSE /\ Holder(nd.name).policy = "fifo"
                             /\ Cardinality(TiedTo(nd)) > 1 => NamesTiedTo(nd) \in warnings
  BY DEF TiesAreMitigated, TiedTo, NamesTiedTo
<1> DEFINE known == {PeriodOf(x) : x \in TiedTo(nd)} \ {NoPeriod}
           slice == SliceOf(platform)
<1>1. /\ Cardinality(TiedTo(nd)) \in Nat
      /\ PeriodsOf(NamesTiedTo(nd), PeriodByName) = known
      /\ NamesTiedTo(nd) \in Ties(PriorityOf) <=> Cardinality(TiedTo(nd)) >= 2
  BY TiesFound
<1>2. Holder(nd.name).policy = IF Rotates(nd) THEN "rr" ELSE "fifo"
  BY PolicyOfTies
<1> HIDE DEF known
<1>3. CASE Rotates(nd)
  <2>1. Cardinality(TiedTo(nd)) > 1
    BY <1>1, <1>3 DEF Rotates
  <2>2. ASSUME NEW x \in TiedTo(nd)
        PROVE  Holder(x.name).policy = "rr"
    <3>1. x \in WithFact /\ TiedTo(x) = TiedTo(nd)
      BY DEF TiedTo
    <3>2. Rotates(x)
      BY <1>3, <3>1 DEF Rotates, NamesTiedTo
    <3> QED
      BY <3>1, <3>2, PolicyOfTies
  <2>3. slice # NoSlice /\ known # {} /\ \A p \in known : slice < p
    BY <1>1, <1>3 DEF Rotates, SliceIsUseful
  <2> QED
    BY <1>2, <1>3, <2>1, <2>2, <2>3 DEF known
<1>4. CASE ~ Rotates(nd)
  <2>1. ASSUME Cardinality(TiedTo(nd)) > 1
        PROVE  NamesTiedTo(nd) \in warnings
    <3>1. Cardinality(TiedTo(nd)) >= 2
      BY <1>1, <2>1
    <3>2. warnings = UnmitigatedTies(PriorityOf, PeriodByName, SliceOf(platform))
      BY PlanParts DEF Built
    <3> QED
      BY <1>1, <1>4, <3>1, <3>2 DEF Rotates, UnmitigatedTies
  <2> QED
    BY <1>2, <1>4, <2>1 DEF known
<1> QED
  BY <1>3, <1>4

-----------------------------------------------------------------------------
(***************************************************************************)
(* Theorems.                                                               *)
(***************************************************************************)
\* rank_groups: nodes share a task exactly when they share the fact, and no node is
\* lost or placed twice.
THEOREM FactsDecideTasks == Spec => []EqualFactsShareOneTask
BY Invariance, DoneFacts, PTL

\* validate.rs has nothing to object to in a plan of these mappers.
THEOREM PlansAreValid == Spec => []PassesItsOwnValidation
BY Invariance, DoneValidation, PTL

\* spread_priority: one level per fact while the band has enough, from its top to its
\* foot.
THEOREM BandsAreSpent == Spec => []BandIsSpentOnFacts
BY Invariance, DoneSpread, PTL

\* rr_policy_for_ties: every tie rotates usefully or is reported.
THEOREM TiesRotateOrAreReported == Spec => []TiesAreMitigated
BY Invariance, DoneTies, PTL
=============================================================================
