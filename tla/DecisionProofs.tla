--------------------------- MODULE DecisionProofs ---------------------------
(***************************************************************************)
(* Lemmas about the operators of Decision, for all names, categories and   *)
(* weights: what the indexes and the policy are made of, the winner of the *)
(* softmax, and the climb of evaluateCategoryPolicy from a category to its *)
(* parents.  The climb is a recursive function and the winner a maximum    *)
(* over any index; both rest on the natural numbers being well-founded.    *)
(***************************************************************************)
EXTENDS Decision, TLAPS, WellFoundedInduction

\* Every set of natural numbers has a least element.
LEMMA LeastExists ==
  ASSUME NEW T \in SUBSET Nat, T # {}
  PROVE  \E m \in T : \A n \in T : m <= n
<1>1. IsWellFoundedOn(OpToRel(<, Nat), Nat)
  BY NatLessThanWellFounded
<1>2. PICK m \in T : \A n \in T : <<n, m>> \notin OpToRel(<, Nat)
  BY <1>1, WFMin
<1>3. ASSUME NEW n \in T PROVE m <= n
  <2>1. ~(n < m)
    BY <1>2 DEF OpToRel
  <2> QED
    BY <2>1
<1> QED
  BY <1>2, <1>3

\* Bounded induction, the property given by the set of the numbers that have it.
LEMMA ClimbInduction ==
  ASSUME NEW N \in Nat, NEW S, 0 \in S, \A n \in 1..N : n - 1 \in S => n \in S
  PROVE  0..N \subseteq S
<1> SUFFICES ASSUME (0..N) \ S # {} PROVE FALSE
  OBVIOUS
<1> DEFINE T == (0..N) \ S
<1>1. PICK m \in T : \A n \in T : m <= n
  <2>1. T \in SUBSET Nat /\ T # {}
    OBVIOUS
  <2> HIDE DEF T
  <2> QED
    BY <2>1, LeastExists
<1>2. m \in 1..N
  BY <1>1
<1>3. m - 1 \in S
  BY <1>1, <1>2
<1> QED
  BY <1>1, <1>2, <1>3

-----------------------------------------------------------------------------
(* The policy.                                                             *)

\* What Normalize makes of a map: one value for each folded key, that of a key that
\* folds to it.
Normalizes(n, map, key, blank) ==
  /\ blank \notin DOMAIN n
  /\ \A k \in DOMAIN map : key[k] # blank => key[k] \in DOMAIN n
  /\ \A x \in DOMAIN n : \E k \in DOMAIN map : key[k] = x /\ n[x] = Value(map[k], "")

LEMMA NormalizedValue ==
  \A map, key, blank : \A n \in NormalizedMaps(map, key, blank) : Normalizes(n, map, key, blank)
<1> SUFFICES ASSUME NEW map, NEW key, NEW blank, NEW n \in NormalizedMaps(map, key, blank)
             PROVE  Normalizes(n, map, key, blank)
  OBVIOUS
<1>1. PICK f \in Folded(map, key) : n = [x \in DOMAIN f \ {blank} |-> Value(map[f[x]], "")]
  BY DEF NormalizedMaps
<1>2. /\ DOMAIN f = {key[k] : k \in DOMAIN map}
      /\ \A x \in DOMAIN f : f[x] \in DOMAIN map /\ key[f[x]] = x
  BY DEF Folded
<1> QED
  BY <1>1, <1>2 DEF Normalizes

\* A policy's rule for the first n segments of a path.
Rules(policy, path, n) ==
  /\ SubSeq(path, 1, n) \in DOMAIN policy.rules
  /\ policy.rules[SubSeq(path, 1, n)] \in Decisions

RuleOrGlobal(policy, path, n) ==
  IF n = 0 THEN policy.global ELSE policy.rules[SubSeq(path, 1, n)]

\* evaluateCategoryPolicy returns the value of the longest prefix that has a decision,
\* and that of the whole policy when none has.
LEMMA ClosestRuleDecides ==
  ASSUME NEW path, Len(path) \in Nat, NEW policy
  PROVE  \E n \in 0..Len(path) :
           /\ CategoryDecision(path, policy) = RuleOrGlobal(policy, path, n)
           /\ n # 0 => Rules(policy, path, n)
           /\ \A m \in (n + 1)..Len(path) : ~Rules(policy, path, m)
<1> DEFINE Climb(f) ==
             [n \in 0..Len(path) |->
                LET candidate == SubSeq(path, 1, n) IN
                IF n = 0 THEN policy.global
                ELSE IF candidate \in DOMAIN policy.rules /\ policy.rules[candidate] \in Decisions
                THEN policy.rules[candidate]
                ELSE f[n - 1]]
           at == CHOOSE f : f = Climb(f)
           Below(n) == {m \in 1..n : Rules(policy, path, m)}
           top(n) == CHOOSE m \in Below(n) : \A k \in Below(n) : k <= m
           g == [n \in 0..Len(path) |->
                   IF Below(n) = {} THEN policy.global ELSE policy.rules[SubSeq(path, 1, top(n))]]
<1>1. CategoryDecision(path, policy) = at[Len(path)]
  BY DEF CategoryDecision
<1>2. \A n \in 1..Len(path) :
        /\ Rules(policy, path, n) => top(n) = n /\ n \in Below(n)
        /\ ~Rules(policy, path, n) => Below(n) = Below(n - 1)
  <2> SUFFICES ASSUME NEW n \in 1..Len(path)
               PROVE  /\ Rules(policy, path, n) => top(n) = n /\ n \in Below(n)
                      /\ ~Rules(policy, path, n) => Below(n) = Below(n - 1)
    OBVIOUS
  <2>1. ASSUME Rules(policy, path, n) PROVE top(n) = n /\ n \in Below(n)
    <3>1. n \in Below(n) /\ \A k \in Below(n) : k <= n
      BY <2>1
    <3>2. \A m \in Below(n) : (\A k \in Below(n) : k <= m) => m = n
      BY <3>1
    <3> QED
      BY <3>1, <3>2
  <2>2. ~Rules(policy, path, n) => Below(n) = Below(n - 1)
    OBVIOUS
  <2> QED
    BY <2>1, <2>2
<1>3. g = Climb(g)
  <2>1. \A n \in 0..Len(path) : g[n] = Climb(g)[n]
    <3> SUFFICES ASSUME NEW n \in 0..Len(path) PROVE g[n] = Climb(g)[n]
      OBVIOUS
    <3>1. CASE n = 0
      BY <3>1
    <3>2. CASE n # 0 /\ Rules(policy, path, n)
      <4>1. top(n) = n /\ Below(n) # {}
        BY <1>2, <3>2
      <4>2. g[n] = policy.rules[SubSeq(path, 1, n)]
        <5> HIDE DEF top, Below
        <5> QED
          BY <4>1
      <4>3. Climb(g)[n] = policy.rules[SubSeq(path, 1, n)]
        BY <3>2 DEF Rules
      <4> QED
        BY <4>2, <4>3
    <3>3. CASE n # 0 /\ ~Rules(policy, path, n)
      <4>1. n \in 1..Len(path) /\ n - 1 \in 0..Len(path) /\ Below(n) = Below(n - 1) /\ top(n) = top(n - 1)
        BY <1>2, <3>3
      <4>2. g[n] = g[n - 1]
        <5> HIDE DEF top, Below
        <5> QED
          BY <4>1
      <4> HIDE DEF g
      <4>3. Climb(g)[n] = g[n - 1]
        BY <3>3 DEF Rules
      <4> QED
        BY <4>2, <4>3
    <3> QED
      BY <3>1, <3>2, <3>3
  <2> QED
    BY <2>1
<1>4. at = Climb(at)
  <2> HIDE DEF Climb, g
  <2> QED
    BY <1>3
<1> HIDE DEF at, g
<1> DEFINE Closest(n, k) ==
             /\ k \in 0..n /\ at[n] = RuleOrGlobal(policy, path, k)
             /\ k # 0 => Rules(policy, path, k)
             /\ \A m \in (k + 1)..n : ~Rules(policy, path, m)
           Known == {n \in 0..Len(path) : \E k \in 0..n : Closest(n, k)}
<1>5. 0 \in Known
  <2>1. at[0] = policy.global
    BY <1>4
  <2>2. Closest(0, 0)
    BY <2>1 DEF RuleOrGlobal
  <2> QED
    BY <2>2
<1>6. ASSUME NEW n \in 1..Len(path), n - 1 \in Known PROVE n \in Known
  <2>1. CASE Rules(policy, path, n)
    <3>1. at[n] = policy.rules[SubSeq(path, 1, n)]
      BY <1>4, <2>1 DEF Rules
    <3>2. Closest(n, n)
      BY <2>1, <3>1 DEF RuleOrGlobal
    <3> QED
      BY <3>2
  <2>2. CASE ~Rules(policy, path, n)
    <3>1. at[n] = at[n - 1]
      BY <1>4, <2>2 DEF Rules
    <3>2. PICK k \in 0..(n - 1) : Closest(n - 1, k)
      BY <1>6
    <3>3. Closest(n, k)
      BY <2>2, <3>1, <3>2
    <3> QED
      BY <3>2, <3>3
  <2> QED
    BY <2>1, <2>2
<1>7. \A n \in 1..Len(path) : n - 1 \in Known => n \in Known
  BY <1>6
<1>8. Len(path) \in Known
  <2> DEFINE N == Len(path)
  <2>1. /\ N \in Nat /\ 0 \in Known
        /\ \A n \in 1..N : n - 1 \in Known => n \in Known
    BY <1>5, <1>7
  <2> HIDE DEF Known, N
  <2>2. 0..N \subseteq Known
    BY <2>1, ClimbInduction
  <2>3. N \in 0..N
    BY <2>1
  <2> QED
    BY <2>2, <2>3 DEF N
<1> QED
  BY <1>1, <1>8

-----------------------------------------------------------------------------
(* The winner of the softmax.                                              *)

\* applyConfigDefaults: what is not positive becomes 4.
LEMMA WeightPositive ==
  ASSUME NEW w \in Int
  PROVE  Weight(w) \in Int /\ Weight(w) > 0
BY DEF Weight

\* A score counts the user agent and the address, each with a positive weight.
LEMMA ScoreCounts ==
  ASSUME NEW c, c.alpha \in Int, c.beta \in Int, NEW r, NEW bots, NEW s
  PROVE  LET ua == UAMatches(r.ua, s, bots[s])
             ip == InRanges(ClientIP(c, r), bots[s].ranges)
         IN /\ Score(c, r, bots, s) \in Int
            /\ Score(c, r, bots, s) > 0 <=> ua \/ ip
            /\ ua /\ ip => Score(c, r, bots, s) = Weight(c.alpha) + Weight(c.beta)
            /\ ~ip => Score(c, r, bots, s) <= Weight(c.alpha)
            /\ Score(c, r, bots, s) \in 0..(Weight(c.alpha) + Weight(c.beta))
<1> DEFINE ua == UAMatches(r.ua, s, bots[s])
           ip == InRanges(ClientIP(c, r), bots[s].ranges)
<1>1. /\ Weight(c.alpha) \in Int /\ Weight(c.alpha) > 0
      /\ Weight(c.beta) \in Int /\ Weight(c.beta) > 0
  BY WeightPositive
<1>2. Score(c, r, bots, s) = (IF ua THEN Weight(c.alpha) ELSE 0) + (IF ip THEN Weight(c.beta) ELSE 0)
  BY DEF Score
<1> HIDE DEF ua, ip
<1>3. /\ Score(c, r, bots, s) \in Int
      /\ Score(c, r, bots, s) > 0 <=> ua \/ ip
      /\ ua /\ ip => Score(c, r, bots, s) = Weight(c.alpha) + Weight(c.beta)
      /\ ~ip => Score(c, r, bots, s) <= Weight(c.alpha)
      /\ Score(c, r, bots, s) \in 0..(Weight(c.alpha) + Weight(c.beta))
  BY <1>1, <1>2
<1> QED
  BY <1>3 DEF ua, ip

\* Where anything speaks for a bot, something speaks for the winner.
LEMMA WinnerScores ==
  ASSUME NEW c, c.alpha \in Int, c.beta \in Int, NEW r, NEW bots,
         HasEvidence(c, r, bots), NEW w \in Winners(c, r, bots)
  PROVE  w \in DOMAIN bots /\ Score(c, r, bots, w) > 0
<1>1. PICK s \in DOMAIN bots : Score(c, r, bots, s) > 0
  BY DEF HasEvidence
<1>2. w \in DOMAIN bots /\ Score(c, r, bots, s) <= Score(c, r, bots, w)
  BY DEF Winners
<1>3. Score(c, r, bots, s) \in Int /\ Score(c, r, bots, w) \in Int
  BY ScoreCounts
<1> QED
  BY <1>1, <1>2, <1>3

\* An index with an entry has a winner, however many entries it has: the scores are
\* bounded by the two weights.
LEMMA WinnerExists ==
  ASSUME NEW c, c.alpha \in Int, c.beta \in Int, NEW r, NEW bots, DOMAIN bots # {}
  PROVE  Winners(c, r, bots) # {}
<1> DEFINE top == Weight(c.alpha) + Weight(c.beta)
           score(s) == Score(c, r, bots, s)
           Missed == {top - score(s) : s \in DOMAIN bots}
<1>1. top \in Int /\ \A s : score(s) \in 0..top
  BY WeightPositive, ScoreCounts
<1> HIDE DEF top, score
<1>2. Missed \in SUBSET Nat /\ Missed # {}
  BY <1>1
<1>3. PICK m \in Missed : \A n \in Missed : m <= n
  <2> HIDE DEF Missed
  <2> QED
    BY <1>2, LeastExists
<1>4. PICK w \in DOMAIN bots : m = top - score(w)
  BY <1>3
<1>5. ASSUME NEW t \in DOMAIN bots PROVE score(t) <= score(w)
  <2>1. top - score(w) <= top - score(t)
    BY <1>3, <1>4
  <2>2. score(t) \in Int /\ score(w) \in Int /\ top \in Int
    BY <1>1
  <2> QED
    BY <2>1, <2>2
<1>6. w \in Winners(c, r, bots)
  BY <1>5 DEF score, Winners
<1> QED
  BY <1>6

-----------------------------------------------------------------------------
(* The indexes.                                                            *)

\* Every category of an index that setDefs derives is a sequence of segments.
Located(g) ==
  /\ \A n : TrafficOf(g.traffic, n) \in Seq(Segments)
  /\ \A i \in DOMAIN g.ua : g.ua[i].path \in Seq(Segments)
  /\ \A i \in DOMAIN g.categories : g.categories[i].path \in Seq(Segments)

LEMMA PairType ==
  ASSUME NEW S, NEW a \in S, NEW b \in S
  PROVE  <<a, b>> \in Seq(S)
OBVIOUS

LEMMA KnownPaths ==
  /\ <<"ai", "access_agents">> \in Seq(Segments)
  /\ <<"ai", "data_scrapers">> \in Seq(Segments)
  /\ <<"traditional", "bots">> \in Seq(Segments)
<1>1. /\ "ai" \in Segments /\ "access_agents" \in Segments
      /\ "data_scrapers" \in Segments
      /\ "traditional" \in Segments /\ "bots" \in Segments
  BY TextAssumption
<1> QED
  BY <1>1, PairType

LEMMA TrafficPathType ==
  ASSUME NEW c \in Categories
  PROVE  TrafficPath(c) \in Seq(Segments)
<1>1. PathOf[c] \in Seq(Segments)
  BY TextAssumption
<1>2. /\ <<"ai", "access_agents">> \in Seq(Segments)
      /\ <<"ai", "data_scrapers">> \in Seq(Segments)
      /\ <<"traditional", "bots">> \in Seq(Segments)
  BY KnownPaths
<1> QED
  BY <1>1, <1>2, Zenon DEF TrafficPath

LEMMA IndexesAreLocated ==
  ASSUME NEW d, DOMAIN d.mappings \subseteq Categories,
         \A i \in DOMAIN d.categories : d.categories[i].category \in Categories,
         NEW g \in Derived(d)
  PROVE  Located(g)
<1>1. PICK traffic \in Inversions(d) :
        /\ g.traffic = traffic
        /\ g.ua = [i \in DOMAIN d.ua |->
                     [name |-> d.ua[i].category, tokens |-> Normalized(d.ua[i].tokens),
                      path |-> TrafficOf(traffic, d.ua[i].category)]]
        /\ g.categories = [i \in DOMAIN d.categories |->
                     [tokens |-> Normalized(d.categories[i].tokens),
                      path |-> TrafficPath(d.categories[i].category)]]
  BY DEF Derived
<1>2. \A n \in DOMAIN traffic : traffic[n] \in Categories
  BY DEF Inversions
<1>3. \A n : TrafficOf(traffic, n) \in Seq(Segments)
  <2>1. <<>> \in Seq(Segments)
    OBVIOUS
  <2> QED
    BY <1>2, <2>1, TrafficPathType DEF TrafficOf
<1>4. \A i \in DOMAIN g.ua : g.ua[i].path \in Seq(Segments)
  BY <1>1, <1>3
<1>5. \A i \in DOMAIN g.categories : g.categories[i].path \in Seq(Segments)
  BY <1>1, TrafficPathType
<1> QED
  BY <1>1, <1>3, <1>4, <1>5 DEF Located

\* Classify places what it matches in a category of the index.
LEMMA ClassifiedPath ==
  ASSUME NEW g, Located(g), NEW ua
  PROVE  Classify(ua, g).path \in Seq(Segments)
<1>1. <<>> \in Seq(Segments) /\ <<"traditional", "bots">> \in Seq(Segments)
  BY KnownPaths
<1>2. CASE FirstHit(g.ua, ua) # {}
  <2>1. PICK i \in DOMAIN g.ua : Classify(ua, g).path = g.ua[i].path
    BY <1>2 DEF Classify, Class, FirstHit
  <2> QED
    BY <2>1 DEF Located
<1>3. CASE FirstHit(g.ua, ua) = {} /\ FirstHit(g.categories, ua) # {}
  <2>1. PICK i \in DOMAIN g.categories : Classify(ua, g).path = g.categories[i].path
    BY <1>3 DEF Classify, Class, FirstHit
  <2> QED
    BY <2>1 DEF Located
<1>4. CASE FirstHit(g.ua, ua) = {} /\ FirstHit(g.categories, ua) = {}
  BY <1>1, <1>4 DEF Classify, Class, Unmatched
<1> QED
  BY <1>2, <1>3, <1>4

LEMMA UnmatchedType == Unmatched.matched \in BOOLEAN /\ Unmatched.path \in Seq(Segments)
BY DEF Unmatched

\* Classify matches nobody without a token or a keyword, and names no bot then.
LEMMA ClassifyNeedsTokens ==
  ASSUME NEW ua, NEW g
  PROVE  /\ Classify(ua, g).matched \in BOOLEAN
         /\ Classify(ua, g).matched =>
              \/ ua.keyword
              \/ \E i \in DOMAIN g.ua : g.ua[i].tokens \intersect ua.tokens # {}
              \/ \E i \in DOMAIN g.categories : g.categories[i].tokens \intersect ua.tokens # {}
         /\ ~Classify(ua, g).matched => Classify(ua, g).slug = NoSlug
<1>1. CASE FirstHit(g.ua, ua) # {}
  BY <1>1 DEF Classify, Class, FirstHit
<1>2. CASE FirstHit(g.ua, ua) = {} /\ FirstHit(g.categories, ua) # {}
  BY <1>2 DEF Classify, Class, FirstHit
<1>3. CASE FirstHit(g.ua, ua) = {} /\ FirstHit(g.categories, ua) = {}
  BY <1>3 DEF Classify, Class, Unmatched
<1> QED
  BY <1>1, <1>2, <1>3

=============================================================================
