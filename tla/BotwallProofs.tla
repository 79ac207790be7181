--------------------------- MODULE BotwallProofs ----------------------------
(***************************************************************************)
(* Proofs about Botwall, for all names, rules, configurations, requests    *)
(* and statuses, and any number of swaps while a request is decided.       *)
(*                                                                         *)
(* A decision takes two reads, and the rules may change in between.  What  *)
(* makes it right all the same is that each read is of rules that were in  *)
(* use meanwhile (live), and that what the first one found is kept: of the *)
(* winner that it may let in (Kept), or of the index that the UA-only      *)
(* check is made against.                                                  *)
(***************************************************************************)
EXTENDS Botwall, DecisionProofs

\* What a request that is being decided has to go by.
Stage ==
  /\ Deciding => outcome = "none" /\ rules \in live
  /\ pc = "paths" => paths \in livePaths
  /\ pc = "upstream" => outcome \in {"passed", "allow"}
  /\ pc = "log" => outcome \in {"gate", "deny", "allow"}
  /\ pc # "done" => logged = NoStatus /\ ~aborted
  /\ Deciding => sent = NoStatus

\* The winner whose name was kept is in rules that were in use, with evidence for it
\* and nothing against it.
Kept(g, w) ==
  /\ w \in DOMAIN g.ip /\ name = g.ip[w].name
  /\ ~Unverified(g.ip, w, Client)
  /\ Score(cfg, req, g.ip, w) > 0

\* The index was read from rules in use, and what it showed still counts.
IndexRead ==
  /\ pc = "paths" => seen = <<>>
  /\ pc = "index" => cfg.softmax
  /\ pc = "traffic" => cfg.softmax /\ \E g \in live : \E w : Kept(g, w)
  /\ pc = "matchers" =>
       IF cfg.softmax
       THEN \E g \in live : seen = g.ip /\ ~HasEvidence(cfg, req, g.ip)
       ELSE seen = <<>>

\* The resolver's verdict was that of paths in use.
PathsRead ==
  /\ outcome = "passed" => \E s \in livePaths : ~Protects(s, req.path)
  /\ outcome \in {"gate", "deny", "allow"} \/ pc \in {"index", "traffic", "matchers"} =>
       \E s \in livePaths : Protects(s, req.path)

\* What the recorder knows of the answer.
AnswerRecorded ==
  /\ pc = "log" /\ outcome \in {"gate", "deny"} => sent = 403 /\ rec = 403
  /\ pc = "upstream" /\ outcome = "allow" =>
       IF sent = NoStatus THEN rec \in {200, Informational} ELSE rec = sent
  /\ pc = "log" /\ outcome = "allow" =>
       rec = sent \/ (rec = Informational /\ sent = 200)
  /\ outcome = "passed" => logged = NoStatus

Response == PathsRead /\ AnswerRecorded /\ ProtectedIsLogged
Decided == ClaimIsVerified /\ HumansPass /\ VerifiedBotPassesGate

\* A verdict of the policy is that of EvaluateSelectedBotAccess on the classification.
Judged ==
  outcome \in {"allow", "deny"} =>
    outcome = IF Access(class, policy) = "deny" THEN "deny" ELSE "allow"

Inv == TypeOK /\ Stage /\ IndexRead /\ Response /\ Decided /\ Judged

-----------------------------------------------------------------------------
(* The operators.                                                          *)

\* The addresses on which the claim to be a bot rests.
Claimed == IF ClientNamesAddress THEN Offered ELSE Vouched

\* extractClientIP returns an address that the request offers, and one that the client
\* did not write unless its own writing comes first.
LEMMA ClientIsClaimed == Client \in Claimed /\ Client \in Offered
<1>1. CASE TrustHeaders(cfg, req) /\ FirstForwarded(req) # {}
  <2>1. PICK i \in FirstForwarded(req) : Client = req.forwarded[i]
    BY <1>1 DEF Client, ClientIP
  <2>2. HeadersCount
    BY <1>1 DEF TrustHeaders, HeadersCount
  <2>3. i \in DOMAIN req.forwarded /\ (i \in req.own => ClientNamesAddress)
    BY <2>1, <2>2 DEF FirstForwarded, ClientNamesAddress
  <2> QED
    BY <2>1, <2>2, <2>3 DEF Claimed, Offered, Vouched, Addresses
<1>2. CASE ~(TrustHeaders(cfg, req) /\ FirstForwarded(req) # {})
  BY <1>2 DEF Client, ClientIP, Claimed, Offered, Vouched, Addresses
<1> QED
  BY <1>1, <1>2

\* EvaluateSelectedBotAccess lets in whom nothing matched.
LEMMA UnmatchedIsAllowed ==
  ASSUME NEW c, NEW p, ~c.matched
  PROVE  Access(c, p) = "allow"
BY DEF Access

\* setDefs: every index in use places its bots in categories.
LEMMA IndexIsLocated ==
  ASSUME NEW g \in Generations
  PROVE  Located(g)
<1>1. PICK d \in Definitions : g \in Derived(d)
  BY DEF Generations
<1> QED
  BY <1>1, DefinitionAssumption, IndexesAreLocated

\* The normalized policy does what the written one orders: a key that collides with
\* another hides no order on which they agree, and what is no decision hides none.
LEMMA OrderIsObeyed ==
  ASSUME TypeOK, class.matched, NEW v \in Decisions, Orders(v)
  PROVE  Access(class, policy) = v
<1> DEFINE path == CategoryPath(class)
           for(n) == {k \in DOMAIN cfg.policy.rules : PathOf[k] = SubSeq(path, 1, n)}
           overrides == {k \in DOMAIN cfg.policy.overrides :
                           SlugOf[k] = class.slug /\ class.slug # NoSlug}
           override == IF class.slug \in DOMAIN policy.overrides
                       THEN policy.overrides[class.slug] ELSE ""
           Category ==
             \E n \in 0..Len(path) :
               /\ IF n = 0 THEN Value(cfg.policy.global, "deny") = v
                  ELSE Unanimous(for(n), cfg.policy.rules, v)
               /\ \A m \in (n + 1)..Len(path) : ~Opposed(for(m), cfg.policy.rules, v)
<1>1. path \in Seq(Segments) /\ Len(path) \in Nat
  BY KnownPaths DEF TypeOK, CategoryPath
<1>2. Access(class, policy) = Value(override, CategoryDecision(path, policy))
  BY DEF Access
<1>3. \/ Unanimous(overrides, cfg.policy.overrides, v)
      \/ Category /\ ~Opposed(overrides, cfg.policy.overrides, v)
  BY DEF Orders
<1>4. PICK r \in NormalizedMaps(cfg.policy.rules, PathOf, <<>>),
           o \in NormalizedMaps(cfg.policy.overrides, SlugOf, NoSlug) :
        policy = [global |-> Value(cfg.policy.global, "deny"), rules |-> r, overrides |-> o]
  BY DEF TypeOK, Policies
<1>5. Normalizes(o, cfg.policy.overrides, SlugOf, NoSlug)
  BY NormalizedValue
<1>6. Normalizes(r, cfg.policy.rules, PathOf, <<>>)
  BY NormalizedValue
<1>7. policy.rules = r /\ policy.overrides = o /\ policy.global = Value(cfg.policy.global, "deny")
  BY <1>4
<1>8. "" \notin Decisions
  BY DEF Decisions
<1> HIDE DEF path
<1>9. CASE Unanimous(overrides, cfg.policy.overrides, v)
  <2>1. class.slug \in DOMAIN policy.overrides
    BY <1>5, <1>7, <1>9 DEF Unanimous, Normalizes
  <2>2. PICK k \in overrides : policy.overrides[class.slug] = Value(cfg.policy.overrides[k], "")
    BY <1>5, <1>7, <2>1 DEF Normalizes
  <2>3. override = v
    BY <1>9, <2>1, <2>2 DEF Unanimous, Value
  <2> QED
    BY <1>2, <2>3 DEF Value
<1>10. CASE Category /\ ~Opposed(overrides, cfg.policy.overrides, v)
  <2>1. override \in Decisions => override = v
    <3>1. SUFFICES ASSUME class.slug \in DOMAIN policy.overrides, override \in Decisions
                   PROVE  override = v
      BY <1>8
    <3>2. PICK k \in overrides : policy.overrides[class.slug] = Value(cfg.policy.overrides[k], "")
      BY <1>5, <1>7, <3>1 DEF Normalizes
    <3> QED
      BY <1>8, <1>10, <3>1, <3>2 DEF Opposed, Value
  <2>2. CategoryDecision(path, policy) = v
    <3>1. PICK n \in 0..Len(path) :
            /\ IF n = 0 THEN Value(cfg.policy.global, "deny") = v
               ELSE Unanimous(for(n), cfg.policy.rules, v)
            /\ \A m \in (n + 1)..Len(path) : ~Opposed(for(m), cfg.policy.rules, v)
      BY <1>10
    <3>2. PICK d \in 0..Len(path) :
            /\ CategoryDecision(path, policy) = RuleOrGlobal(policy, path, d)
            /\ d # 0 => Rules(policy, path, d)
            /\ \A m \in (d + 1)..Len(path) : ~Rules(policy, path, m)
      BY <1>1, ClosestRuleDecides
    <3>3. ASSUME NEW m \in 1..Len(path), Rules(policy, path, m)
          PROVE  \E k \in for(m) : policy.rules[SubSeq(path, 1, m)] = cfg.policy.rules[k]
                                   /\ cfg.policy.rules[k] \in Decisions
      <4>1. PICK k \in for(m) : policy.rules[SubSeq(path, 1, m)] = Value(cfg.policy.rules[k], "")
        BY <1>6, <1>7, <3>3 DEF Rules, Normalizes
      <4> QED
        BY <1>8, <3>3, <4>1 DEF Rules, Value
    <3>4. ASSUME n # 0 PROVE Rules(policy, path, n)
      <4>1. SubSeq(path, 1, n) # <<>>
        BY <1>1, <3>1, <3>4
      <4>2. for(n) # {} /\ \A k \in for(n) : cfg.policy.rules[k] = v
        BY <3>1, <3>4 DEF Unanimous
      <4>3. SubSeq(path, 1, n) \in DOMAIN policy.rules
        BY <1>6, <1>7, <4>1, <4>2 DEF Normalizes
      <4>4. PICK k \in for(n) : policy.rules[SubSeq(path, 1, n)] = Value(cfg.policy.rules[k], "")
        BY <1>6, <1>7, <4>3 DEF Normalizes
      <4> QED
        BY <4>2, <4>3, <4>4 DEF Rules, Value
    <3>5. d >= n
      BY <1>1, <3>1, <3>2, <3>4
    <3>6. CASE d = 0
      BY <1>7, <3>1, <3>2, <3>5, <3>6 DEF RuleOrGlobal
    <3>7. CASE d # 0
      <4>1. PICK k \in for(d) : /\ policy.rules[SubSeq(path, 1, d)] = cfg.policy.rules[k]
                                /\ cfg.policy.rules[k] \in Decisions
        BY <1>1, <3>2, <3>3, <3>7
      <4>2. cfg.policy.rules[k] = v
        <5>1. CASE d = n
          BY <3>1, <3>7, <4>1, <5>1 DEF Unanimous
        <5>2. CASE d # n
          <6>1. d \in (n + 1)..Len(path)
            BY <1>1, <3>1, <3>2, <3>5, <5>2
          <6> QED
            BY <3>1, <4>1, <6>1 DEF Opposed
        <5> QED
          BY <5>1, <5>2
      <4> QED
        BY <3>2, <3>7, <4>1, <4>2 DEF RuleOrGlobal
    <3> QED
      BY <3>6, <3>7
  <2> HIDE DEF override
  <2> QED
    BY <1>2, <2>1, <2>2 DEF Value
<1> QED
  BY <1>3, <1>9, <1>10

\* What is said of a request stays said while the request is the same.
LEMMA SameRequest ==
  ASSUME UNCHANGED <<cfg, req>>
  PROVE  /\ Client' = Client
         /\ \A g : Evidence(g)' <=> Evidence(g)
         /\ \A g, b : Refutes(g, b, Claimed)' <=> Refutes(g, b, Claimed)
BY DEF Client, Evidence, Refutes, Claimed, ClientNamesAddress, Offered, Vouched, Addresses,
   HeadersCount

\* Evidence for an entry of the index is evidence of a bot.
LEMMA ScoreIsEvidence ==
  ASSUME TypeOK, cfg.softmax, NEW g, NEW w \in DOMAIN g.ip, Score(cfg, req, g.ip, w) > 0
  PROVE  Evidence(g)
<1>1. UAMatches(req.ua, w, g.ip[w]) \/ InRanges(Client, g.ip[w].ranges)
  BY ScoreCounts, WeightAssumption DEF TypeOK, Client
<1> QED
  BY <1>1, ClientIsClaimed DEF Evidence


-----------------------------------------------------------------------------
(* The decision, action by action.                                         *)

\* What was decided stays right while nothing is decided: live only grows.
LEMMA SameDecision ==
  ASSUME Decided, UNCHANGED <<cfg, req, class, outcome>>, live \subseteq live'
  PROVE  Decided'
<1>1. \A g \in live : g \in live'
  OBVIOUS
<1>2. ClaimIsVerified'
  BY <1>1, SameRequest DEF Decided, ClaimIsVerified, Claimed
<1>3. HumansPass'
  BY <1>1, SameRequest DEF Decided, HumansPass
<1>4. VerifiedBotPassesGate'
  BY <1>1, SameRequest DEF Decided, VerifiedBotPassesGate
<1> QED
  BY <1>2, <1>3, <1>4 DEF Decided

\* A request on which there is no decision, or that was passed on, breaks nothing.
LEMMA Undecided ==
  ASSUME outcome' \in {"none", "passed"}
  PROVE  Decided'
BY DEF Decided, ClaimIsVerified, HumansPass, VerifiedBotPassesGate

\* The gate closes on a winner whose ranges exclude the client: it has the user agent
\* for it, and whoever had both would have won.
LEMMA GateStep ==
  ASSUME Inv, WinnerIsUnverified
  PROVE  Decided'
<1>1. /\ UNCHANGED <<cfg, req, live>> /\ outcome' = "gate" /\ cfg.softmax
      /\ rules \in live
  BY DEF Inv, Stage, IndexRead, WinnerIsUnverified, Deny, setup, history, Deciding
<1>2. PICK w \in Winners(cfg, req, rules.ip) : Unverified(rules.ip, w, Client)
  BY DEF WinnerIsUnverified
<1>3. cfg.alpha \in Int /\ cfg.beta \in Int
  BY WeightAssumption DEF Inv, TypeOK
<1>4. w \in DOMAIN rules.ip /\ Score(cfg, req, rules.ip, w) > 0
  BY <1>3, WinnerScores DEF WinnerIsUnverified
<1>5. Evidence(rules)
  BY <1>1, <1>4, ScoreIsEvidence DEF Inv
<1>6. ASSUME NEW s \in DOMAIN rules.ip
      PROVE  ~(UAMatches(req.ua, s, rules.ip[s]) /\ InRanges(Client, rules.ip[s].ranges))
  <2>1. Score(cfg, req, rules.ip, s) <= Score(cfg, req, rules.ip, w)
    BY <1>6 DEF Winners
  <2>2. Score(cfg, req, rules.ip, w) <= Weight(cfg.alpha)
    BY <1>2, <1>3, ScoreCounts DEF Unverified, Client
  <2>3. /\ Score(cfg, req, rules.ip, s) \in Int /\ Score(cfg, req, rules.ip, w) \in Int
        /\ Weight(cfg.alpha) \in Int /\ Weight(cfg.beta) \in Int /\ Weight(cfg.beta) > 0
    BY <1>3, ScoreCounts, WeightPositive
  <2>4. UAMatches(req.ua, s, rules.ip[s]) /\ InRanges(Client, rules.ip[s].ranges) =>
          Score(cfg, req, rules.ip, s) = Weight(cfg.alpha) + Weight(cfg.beta)
    BY <1>3, ScoreCounts DEF Client
  <2> QED
    BY <2>1, <2>2, <2>3, <2>4
<1>7. ClaimIsVerified'
  BY <1>1 DEF ClaimIsVerified
<1>8. HumansPass'
  BY <1>1, <1>5, SameRequest DEF HumansPass
<1>9. VerifiedBotPassesGate'
  BY <1>1, <1>6, SameRequest DEF VerifiedBotPassesGate
<1> QED
  BY <1>7, <1>8, <1>9 DEF Decided

\* The winner that was kept is judged under its own name, whatever the rules are now.
LEMMA TrafficStep ==
  ASSUME Inv, ReadTraffic
  PROVE  Decided'
<1>1. /\ UNCHANGED <<cfg, req, live>> /\ outcome' \in {"deny", "allow"} /\ cfg.softmax
      /\ class'.slug = SlugOf[name]
  BY DEF Inv, IndexRead, ReadTraffic, Judge, Deny, Forward, Class, setup, history
<1>2. PICK g \in live : \E w : Kept(g, w)
  BY DEF Inv, IndexRead, ReadTraffic
<1>3. PICK w : Kept(g, w)
  BY <1>2
<1>4. Evidence(g)
  BY <1>1, <1>3, ScoreIsEvidence DEF Inv, Kept
<1>5. ~Refutes(g, class'.slug, Claimed)
  BY <1>1, <1>3, ClientIsClaimed DEF Kept, Refutes, Unverified
<1>6. ClaimIsVerified'
  BY <1>1, <1>5, SameRequest DEF ClaimIsVerified, Claimed
<1>7. HumansPass'
  BY <1>1, <1>4, SameRequest DEF HumansPass
<1>8. VerifiedBotPassesGate'
  BY <1>1 DEF VerifiedBotPassesGate
<1> QED
  BY <1>6, <1>7, <1>8 DEF Decided

\* A name from the user agent alone passes only if the index that was read has no
\* ranges for it, or has the client in them.
LEMMA MatchersStep ==
  ASSUME Inv, ReadMatchers
  PROVE  Decided'
<1> DEFINE c == Classify(req.ua, rules)
<1>1. /\ UNCHANGED <<cfg, req, live>> /\ outcome' \in {"gate", "deny", "allow"}
      /\ class' = c /\ rules \in live
  BY DEF Inv, Stage, ReadMatchers, Judge, Deny, Forward, setup, history, Deciding
<1>2. /\ outcome' = "gate" <=> c.matched /\ DeniesUAOnly(seen, c.slug, Client)
      /\ outcome' = "deny" => Access(c, policy) = "deny"
  BY DEF ReadMatchers, Judge, Deny, Forward
<1>3. IF cfg.softmax
      THEN \E g \in live : seen = g.ip /\ ~HasEvidence(cfg, req, g.ip)
      ELSE seen = <<>>
  BY DEF Inv, IndexRead, ReadMatchers
<1> HIDE DEF c
<1>4. /\ c.matched \in BOOLEAN
      /\ c.matched => Evidence(rules)
      /\ ~c.matched => c.slug = NoSlug
  BY ClassifyNeedsTokens DEF c, Evidence
<1>5. HumansPass'
  <2>1. outcome' \in {"gate", "deny"} => c.matched
    BY <1>2, <1>4, UnmatchedIsAllowed
  <2> QED
    BY <1>1, <1>4, <2>1, SameRequest DEF HumansPass
<1>6. ClaimIsVerified'
  <2> SUFFICES ASSUME cfg.softmax, outcome' = "allow", c.slug # NoSlug
               PROVE  \E g \in live : ~Refutes(g, c.slug, Claimed)
    BY <1>1, SameRequest DEF ClaimIsVerified, Claimed
  <2>1. PICK g \in live : seen = g.ip
    BY <1>3
  <2>2. ~DeniesUAOnly(g.ip, c.slug, Client)
    BY <1>2, <1>4, <2>1
  <2>3. ~Refutes(g, c.slug, Claimed)
    BY <2>2, ClientIsClaimed DEF DeniesUAOnly, Unverified, Refutes
  <2> QED
    BY <2>3
<1>7. VerifiedBotPassesGate'
  <2> SUFFICES ASSUME outcome' = "gate"
               PROVE  \E g \in live : \A s \in DOMAIN g.ip :
                        ~(UAMatches(req.ua, s, g.ip[s]) /\ InRanges(Client, g.ip[s].ranges))
    BY <1>1, SameRequest DEF VerifiedBotPassesGate
  <2>1. c.slug \in DOMAIN seen
    BY <1>2 DEF DeniesUAOnly
  <2>2. cfg.softmax
    BY <1>3, <2>1
  <2>3. PICK g \in live : ~HasEvidence(cfg, req, g.ip)
    BY <1>3, <2>2
  <2>4. cfg.alpha \in Int /\ cfg.beta \in Int
    BY WeightAssumption DEF Inv, TypeOK
  <2>5. \A s \in DOMAIN g.ip : ~(Score(cfg, req, g.ip, s) > 0)
    BY <2>3 DEF HasEvidence
  <2> QED
    BY <2>4, <2>5, ScoreCounts DEF Client
<1> QED
  BY <1>5, <1>6, <1>7 DEF Decided

-----------------------------------------------------------------------------
(* The invariant.                                                          *)

LEMMA InitInv == Init => Inv
<1> SUFFICES ASSUME Init PROVE Inv
  OBVIOUS
<1>1. TypeOK
  BY StatusAssumption, UnmatchedType DEF Init, TypeOK
<1>2. Stage /\ IndexRead
  BY DEF Init, Stage, IndexRead, Deciding
<1>3. Response
  BY DEF Init, Response, PathsRead, AnswerRecorded, ProtectedIsLogged
<1>4. Decided /\ Judged
  BY DEF Init, Decided, ClaimIsVerified, HumansPass, VerifiedBotPassesGate, Judged
<1> QED
  BY <1>1, <1>2, <1>3, <1>4 DEF Inv

LEMMA TypeStep == TypeOK /\ Stage /\ [Next]_vars => TypeOK'
<1> SUFFICES ASSUME TypeOK, Stage, [Next]_vars PROVE TypeOK'
  OBVIOUS
<1> USE StatusAssumption DEF TypeOK, setup, reading, verdict, response, history
<1>1. CASE Arrive
  BY <1>1, UnmatchedType DEF Arrive
<1>2. CASE Pass \/ Protect
  BY <1>2 DEF Pass, Protect
<1>3. CASE NothingInIndex \/ WinnerIsUnverified \/ WinnerIsMatched
  BY <1>3 DEF NothingInIndex, WinnerIsUnverified, WinnerIsMatched, Deny
<1>4. CASE ReadTraffic
  <2>1. TrafficOf(rules.traffic, name) \in Seq(Segments)
    BY IndexIsLocated DEF Located
  <2> QED
    BY <1>4, <2>1 DEF ReadTraffic, Judge, Deny, Forward, InitialStatus, Class
<1>5. CASE ReadMatchers
  <2>1. Classify(req.ua, rules).path \in Seq(Segments)
    BY IndexIsLocated, ClassifiedPath
  <2> QED
    BY <1>5, <2>1, ClassifyNeedsTokens DEF ReadMatchers, Judge, Deny, Forward, InitialStatus
<1>6. CASE UpstreamInforms \/ UpstreamAnswers \/ UpstreamReturns \/ UpstreamAborts
  <2>1. CASE UpstreamInforms
    BY <2>1 DEF UpstreamInforms, Recorded
  <2>2. CASE UpstreamAnswers
    BY <2>2 DEF UpstreamAnswers, Recorded
  <2>3. CASE UpstreamReturns
    BY <2>3 DEF UpstreamReturns
  <2>4. CASE UpstreamAborts
    BY <2>4 DEF UpstreamAborts
  <2> QED
    BY <1>6, <2>1, <2>2, <2>3, <2>4
<1>7. CASE Log
  BY <1>7 DEF Log
<1>8. CASE SwapRules
  BY <1>8 DEF SwapRules
<1>9. CASE SwapPaths
  BY <1>9 DEF SwapPaths
<1>10. CASE UNCHANGED vars
  BY <1>10 DEF vars
<1> QED
  BY <1>1, <1>2, <1>3, <1>4, <1>5, <1>6, <1>7, <1>8, <1>9, <1>10 DEF Next

LEMMA StageStep == Stage /\ [Next]_vars => Stage'
<1> SUFFICES ASSUME Stage, [Next]_vars PROVE Stage'
  OBVIOUS
<1> USE DEF Stage, Deciding, setup, reading, verdict, response, history
<1>1. CASE Arrive
  BY <1>1 DEF Arrive
<1>2. CASE Pass \/ Protect
  BY <1>2 DEF Pass, Protect
<1>3. CASE NothingInIndex \/ WinnerIsUnverified \/ WinnerIsMatched
  BY <1>3 DEF NothingInIndex, WinnerIsUnverified, WinnerIsMatched, Deny
<1>4. CASE ReadTraffic
  BY <1>4 DEF ReadTraffic, Judge, Deny, Forward
<1>5. CASE ReadMatchers
  BY <1>5 DEF ReadMatchers, Judge, Deny, Forward
<1>6. CASE UpstreamInforms \/ UpstreamAnswers \/ UpstreamReturns \/ UpstreamAborts
  BY <1>6 DEF UpstreamInforms, UpstreamAnswers, UpstreamReturns, UpstreamAborts, Recording
<1>7. CASE Log
  BY <1>7 DEF Log
<1>8. CASE SwapRules
  BY <1>8 DEF SwapRules
<1>9. CASE SwapPaths
  BY <1>9 DEF SwapPaths
<1>10. CASE UNCHANGED vars
  BY <1>10 DEF vars
<1> QED
  BY <1>1, <1>2, <1>3, <1>4, <1>5, <1>6, <1>7, <1>8, <1>9, <1>10 DEF Next

\* What was read of the index stays what was in use: live only grows meanwhile.
LEMMA IndexStep == Inv /\ [Next]_vars => IndexRead'
<1> SUFFICES ASSUME Inv, [Next]_vars PROVE IndexRead'
  OBVIOUS
<1> USE DEF setup, reading, verdict, response, history
<1>1. ASSUME UNCHANGED <<cfg, req, pc, seen, name>>, live \subseteq live'
      PROVE  IndexRead'
  <2>1. \A g \in live : g \in live'
    BY <1>1
  <2>2. \A g, w : Kept(g, w)' <=> Kept(g, w)
    BY <1>1, SameRequest DEF Kept
  <2>3. IndexRead
    BY DEF Inv
  <2> QED
    BY <1>1, <2>1, <2>2, <2>3 DEF IndexRead
<1>2. ASSUME pc' \in {"upstream", "log", "done"}
      PROVE  IndexRead'
  BY <1>2 DEF IndexRead
<1>8. CASE Arrive
  BY <1>8 DEF Arrive, IndexRead
<1>3. CASE Protect
  <2>1. seen = <<>>
    BY <1>3 DEF Inv, IndexRead, Protect
  <2> QED
    BY <1>3, <2>1 DEF Protect, IndexRead
<1>4. CASE NothingInIndex
  <2>1. cfg.softmax /\ rules \in live
    BY <1>4 DEF Inv, Stage, IndexRead, NothingInIndex, Deciding
  <2> QED
    BY <1>4, <2>1 DEF NothingInIndex, IndexRead
<1>5. CASE WinnerIsMatched
  <2>1. cfg.softmax /\ rules \in live /\ cfg.alpha \in Int /\ cfg.beta \in Int
    BY <1>5, WeightAssumption DEF Inv, TypeOK, Stage, IndexRead, WinnerIsMatched, Deciding
  <2>2. PICK w \in Winners(cfg, req, rules.ip) :
          ~Unverified(rules.ip, w, Client) /\ name' = rules.ip[w].name
    BY <1>5 DEF WinnerIsMatched
  <2>3. w \in DOMAIN rules.ip /\ Score(cfg, req, rules.ip, w) > 0
    BY <1>5, <2>1, WinnerScores DEF WinnerIsMatched
  <2>4. UNCHANGED <<cfg, req, live>> /\ pc' = "traffic"
    BY <1>5 DEF WinnerIsMatched
  <2>5. Kept(rules, w)'
    <3>1. rules' = rules
      BY <1>5 DEF WinnerIsMatched
    <3> QED
      BY <2>2, <2>3, <2>4, <3>1, SameRequest DEF Kept
  <2>6. rules \in live' /\ rules' = rules
    BY <1>5, <2>1 DEF WinnerIsMatched
  <2> QED
    BY <2>1, <2>4, <2>5, <2>6 DEF IndexRead
<1>6. CASE Pass \/ WinnerIsUnverified \/ ReadTraffic \/ ReadMatchers
  BY <1>2, <1>6 DEF Pass, WinnerIsUnverified, ReadTraffic, ReadMatchers, Judge, Deny, Forward
<1>7. CASE UpstreamInforms \/ UpstreamAnswers \/ UpstreamReturns \/ UpstreamAborts \/ Log
  BY <1>2, <1>7 DEF UpstreamInforms, UpstreamAnswers, UpstreamReturns, UpstreamAborts, Log
<1>9. CASE SwapRules \/ SwapPaths \/ UNCHANGED vars
  BY <1>1, <1>9 DEF SwapRules, SwapPaths, vars
<1> QED
  BY <1>3, <1>4, <1>5, <1>6, <1>7, <1>8, <1>9 DEF Next

\* The verdict on the path was that of paths in use.
LEMMA PathsStep == Stage /\ PathsRead /\ [Next]_vars => PathsRead'
<1> SUFFICES ASSUME Stage, PathsRead, [Next]_vars PROVE PathsRead'
  OBVIOUS
<1> USE DEF setup, reading, verdict, response, history
<1>1. ASSUME livePaths \subseteq livePaths', req' = req,
             outcome' = "passed" => outcome = "passed",
             outcome' \in {"gate", "deny", "allow"} \/ pc' \in {"index", "traffic", "matchers"} =>
               outcome \in {"gate", "deny", "allow"} \/ pc \in {"index", "traffic", "matchers"}
      PROVE  PathsRead'
  <2>1. \A s \in livePaths : s \in livePaths'
    BY <1>1
  <2> QED
    BY <1>1, <2>1 DEF PathsRead
<1>2. CASE Arrive
  BY <1>2 DEF Arrive, PathsRead
<1>3. CASE Pass \/ Protect
  <2>1. paths \in livePaths /\ outcome = "none"
    BY <1>3 DEF Stage, Deciding, Pass, Protect
  <2> QED
    BY <1>3, <2>1 DEF Pass, Protect, PathsRead, IsProtected
<1>4. CASE NothingInIndex \/ WinnerIsUnverified \/ WinnerIsMatched
  BY <1>1, <1>4 DEF NothingInIndex, WinnerIsUnverified, WinnerIsMatched, Deny
<1>5. CASE ReadTraffic
  BY <1>1, <1>5 DEF ReadTraffic, Judge, Deny, Forward
<1>6. CASE ReadMatchers
  BY <1>1, <1>6 DEF ReadMatchers, Judge, Deny, Forward
<1>7. CASE UpstreamInforms \/ UpstreamAnswers \/ UpstreamReturns \/ UpstreamAborts \/ Log
  BY <1>1, <1>7 DEF UpstreamInforms, UpstreamAnswers, UpstreamReturns, UpstreamAborts, Log
<1>8. CASE SwapRules
  BY <1>1, <1>8 DEF SwapRules
<1>9. CASE SwapPaths
  BY <1>1, <1>9 DEF SwapPaths
<1>10. CASE UNCHANGED vars
  BY <1>1, <1>10 DEF vars
<1> QED
  BY <1>2, <1>3, <1>4, <1>5, <1>6, <1>7, <1>8, <1>9, <1>10 DEF Next

\* The recorder agrees with the client, but for the status that it takes as given.
LEMMA AnswerStep == Stage /\ AnswerRecorded /\ [Next]_vars => AnswerRecorded'
<1> SUFFICES ASSUME Stage, AnswerRecorded, [Next]_vars PROVE AnswerRecorded'
  OBVIOUS
<1> USE DEF AnswerRecorded, setup, reading, verdict, response, history
<1>1. CASE Arrive
  BY <1>1 DEF Arrive
<1>2. CASE Pass \/ Protect
  BY <1>2 DEF Pass, Protect, Stage, Deciding
<1>3. CASE NothingInIndex \/ WinnerIsUnverified \/ WinnerIsMatched
  BY <1>3 DEF NothingInIndex, WinnerIsUnverified, WinnerIsMatched, Deny, Stage, Deciding
<1>4. CASE ReadTraffic
  BY <1>4 DEF ReadTraffic, Judge, Deny, Forward, InitialStatus, Stage, Deciding
<1>5. CASE ReadMatchers
  BY <1>5 DEF ReadMatchers, Judge, Deny, Forward, InitialStatus, Stage, Deciding
<1>6. CASE UpstreamInforms
  BY <1>6 DEF UpstreamInforms, Recorded, Recording
<1>7. CASE UpstreamAnswers
  BY <1>7, StatusAssumption DEF UpstreamAnswers, Recorded, Recording
<1>8. CASE UpstreamReturns
  <2>1. /\ pc = "upstream" /\ UNCHANGED <<outcome, rec, logged>>
        /\ sent' = IF sent = NoStatus THEN 200 ELSE sent
        /\ pc' = IF outcome = "allow" THEN "log" ELSE "done"
    BY <1>8 DEF UpstreamReturns, Recording
  <2>2. CASE outcome = "allow"
    <3>1. rec = sent' \/ (rec = Informational /\ sent' = 200)
      BY <2>1, <2>2
    <3> QED
      BY <2>1, <2>2, <3>1
  <2>3. CASE outcome # "allow"
    BY <2>1, <2>3
  <2> QED
    BY <2>2, <2>3
<1>9. CASE UpstreamAborts
  BY <1>9 DEF UpstreamAborts
<1>10. CASE Log
  BY <1>10 DEF Log, Stage
<1>11. CASE SwapRules \/ SwapPaths \/ UNCHANGED vars
  BY <1>11 DEF SwapRules, SwapPaths, vars
<1> QED
  BY <1>1, <1>2, <1>3, <1>4, <1>5, <1>6, <1>7, <1>8, <1>9, <1>10, <1>11 DEF Next

LEMMA LoggedStep ==
  Stage /\ Response /\ PathsRead' /\ AnswerRecorded' /\ [Next]_vars => ProtectedIsLogged'
<1> SUFFICES ASSUME Stage, Response, PathsRead', AnswerRecorded', [Next]_vars
             PROVE  ProtectedIsLogged'
  OBVIOUS
<1> USE DEF setup, reading, verdict, response, history
<1>1. ASSUME pc' # "done"
      PROVE  ProtectedIsLogged'
  BY <1>1 DEF ProtectedIsLogged
<1>2. ASSUME UNCHANGED <<pc, req, outcome, sent, logged, aborted, livePaths>>
      PROVE  ProtectedIsLogged'
  BY <1>2 DEF Response, ProtectedIsLogged
<1>3. CASE UpstreamReturns
  BY <1>3 DEF UpstreamReturns, Recording, Stage, ProtectedIsLogged, PathsRead, AnswerRecorded
<1>4. CASE UpstreamAborts
  BY <1>4 DEF UpstreamAborts, Stage, ProtectedIsLogged, PathsRead, AnswerRecorded
<1>5. CASE Log
  BY <1>5 DEF Log, Stage, Response, ProtectedIsLogged, PathsRead, AnswerRecorded
<1>6. CASE Arrive \/ Pass \/ Protect \/ NothingInIndex \/ WinnerIsUnverified \/ WinnerIsMatched
  BY <1>1, <1>6 DEF Arrive, Pass, Protect, NothingInIndex, WinnerIsUnverified, WinnerIsMatched, Deny
<1>7. CASE ReadTraffic \/ ReadMatchers
  BY <1>1, <1>7 DEF ReadTraffic, ReadMatchers, Judge, Deny, Forward
<1>8. CASE UpstreamInforms \/ UpstreamAnswers
  BY <1>1, <1>8 DEF UpstreamInforms, UpstreamAnswers
<1>9. CASE SwapRules \/ UNCHANGED vars
  BY <1>2, <1>9 DEF SwapRules, vars
<1>10. CASE SwapPaths
  <2>1. pc = "done" => UNCHANGED livePaths
    BY <1>10 DEF SwapPaths
  <2> QED
    BY <1>1, <1>2, <1>10, <2>1 DEF SwapPaths
<1> QED
  BY <1>3, <1>4, <1>5, <1>6, <1>7, <1>8, <1>9, <1>10 DEF Next

\* A verdict and what it was passed on change together.
LEMMA JudgedStep == Stage /\ Judged /\ [Next]_vars => Judged'
<1> SUFFICES ASSUME Stage, Judged, [Next]_vars PROVE Judged'
  OBVIOUS
<1> USE DEF setup, reading, verdict, response, history
<1>1. ASSUME outcome' \notin {"allow", "deny"}
      PROVE  Judged'
  BY <1>1 DEF Judged
<1>2. ASSUME UNCHANGED <<policy, class, outcome>>
      PROVE  Judged'
  BY <1>2 DEF Judged
<1>3. ASSUME NEW c, Judge(c), policy' = policy
      PROVE  Judged'
  BY <1>3 DEF Judge, Deny, Forward, Judged
<1>4. CASE Arrive \/ Pass \/ WinnerIsUnverified
  BY <1>1, <1>4 DEF Arrive, Pass, WinnerIsUnverified, Deny
<1>5. CASE ReadTraffic
  BY <1>3, <1>5 DEF ReadTraffic
<1>6. CASE ReadMatchers
  <2> DEFINE c == Classify(req.ua, rules)
  <2>1. policy' = policy /\ (outcome' = "gate" \/ Judge(c))
    BY <1>6 DEF ReadMatchers, Deny
  <2> HIDE DEF c
  <2> QED
    BY <1>1, <1>3, <2>1
<1>7. CASE \/ Protect \/ NothingInIndex \/ WinnerIsMatched
           \/ UpstreamInforms \/ UpstreamAnswers \/ UpstreamReturns \/ UpstreamAborts
           \/ Log \/ SwapRules \/ SwapPaths \/ UNCHANGED vars
  BY <1>2, <1>7 DEF Protect, NothingInIndex, WinnerIsMatched, UpstreamInforms, UpstreamAnswers,
                    UpstreamReturns, UpstreamAborts, Log, SwapRules, SwapPaths, vars
<1> QED
  BY <1>4, <1>5, <1>6, <1>7 DEF Next

LEMMA DecidedStep == Inv /\ [Next]_vars => Decided'
<1> SUFFICES ASSUME Inv, [Next]_vars PROVE Decided'
  OBVIOUS
<1> USE DEF setup, reading, verdict, response, history
<1>1. CASE Arrive \/ Pass
  BY <1>1, Undecided DEF Arrive, Pass
<1>2. CASE WinnerIsUnverified \/ ReadTraffic \/ ReadMatchers
  BY <1>2, GateStep, TrafficStep, MatchersStep
<1>3. CASE \/ Protect \/ NothingInIndex \/ WinnerIsMatched
           \/ UpstreamInforms \/ UpstreamAnswers \/ UpstreamReturns \/ UpstreamAborts
           \/ Log \/ SwapRules \/ SwapPaths \/ UNCHANGED vars
  <2>1. UNCHANGED <<cfg, req, class, outcome>> /\ live \subseteq live'
    BY <1>3 DEF Protect, NothingInIndex, WinnerIsMatched, UpstreamInforms, UpstreamAnswers,
                UpstreamReturns, UpstreamAborts, Log, SwapRules, SwapPaths, vars
  <2> QED
    BY <2>1, SameDecision DEF Inv
<1> QED
  BY <1>1, <1>2, <1>3 DEF Next

-----------------------------------------------------------------------------

\* Inv holds of every state that the middleware reaches.
THEOREM Invariance == Spec => []Inv
<1>1. Inv /\ [Next]_vars => Inv'
  <2> SUFFICES ASSUME Inv, [Next]_vars PROVE Inv'
    OBVIOUS
  <2>1. TypeOK' /\ Stage' /\ IndexRead' /\ Decided'
    BY TypeStep, StageStep, IndexStep, DecidedStep DEF Inv
  <2>2. PathsRead' /\ AnswerRecorded'
    BY PathsStep, AnswerStep DEF Inv, Response
  <2>3. ProtectedIsLogged'
    BY <2>2, LoggedStep DEF Inv
  <2>4. Judged'
    BY JudgedStep DEF Inv
  <2> QED
    BY <2>1, <2>2, <2>3, <2>4 DEF Inv, Response
<1> QED
  BY InitInv, <1>1, PTL DEF Spec

\* The variables keep their types; the statuses are those the code knows.
THEOREM TypeCorrect == Spec => []TypeOK
<1>1. Inv => TypeOK
  BY DEF Inv
<1> QED
  BY <1>1, Invariance, PTL

\* ClassifyForBotWall: a name that some rules in use verify, also across a swap of the
\* rules between its reads, and by an address that the client did not write, unless its
\* own writing comes first in headers that count.
THEOREM VerifiedClaims == Spec => []ClaimIsVerified
<1>1. Inv => ClaimIsVerified
  BY DEF Inv, Decided
<1> QED
  BY <1>1, Invariance, PTL

\* ServeHTTP denies only what some rules in use have evidence against.
THEOREM HumansAreLetIn == Spec => []HumansPass
<1>1. Inv => HumansPass
  BY DEF Inv, Decided
<1> QED
  BY <1>1, Invariance, PTL

\* classifySoftmax: an entry with user agent and address is not beaten by one without the
\* address, for any weights of the configuration.
THEOREM VerifiedBotsWin == Spec => []VerifiedBotPassesGate
<1>1. Inv => VerifiedBotPassesGate
  BY DEF Inv, Decided
<1> QED
  BY <1>1, Invariance, PTL

\* ServeHTTP: one event for a decision, with the status that went to the client.
THEOREM DecisionsAreLogged == Spec => []ProtectedIsLogged
<1>1. Inv => ProtectedIsLogged
  BY DEF Inv, Response
<1> QED
  BY <1>1, Invariance, PTL

\* policy.go: EvaluateSelectedBotAccess does what the policy orders as the operator wrote
\* it, for categories of any depth, any keys that collide and any of their outcomes.
THEOREM OrdersAreObeyed == Spec => []PolicyIsFollowed
<1>1. Inv => PolicyIsFollowed
  <2> SUFFICES ASSUME Inv, outcome \in {"allow", "deny"}
               PROVE  IF class.matched THEN \A v \in Decisions : Orders(v) => outcome = v
                      ELSE outcome = "allow"
    BY DEF PolicyIsFollowed
  <2>1. outcome = IF Access(class, policy) = "deny" THEN "deny" ELSE "allow"
    BY DEF Inv, Judged
  <2>2. CASE class.matched
    <3>1. ASSUME NEW v \in Decisions, Orders(v) PROVE outcome = v
      BY <2>1, <2>2, <3>1, OrderIsObeyed DEF Inv, Decisions
    <3> QED
      BY <2>2, <3>1
  <2>3. CASE ~class.matched
    BY <2>1, <2>3, UnmatchedIsAllowed
  <2> QED
    BY <2>2, <2>3 DEF Inv, TypeOK
<1> QED
  BY <1>1, Invariance, PTL

\* classifySoftmax: with evidence in an index of any size there is a winner, so that a
\* decision once begun never waits for the rules to change.
THEOREM DecisionGoesOn ==
  Spec => [](pc = "index" =>
               \/ ~HasEvidence(cfg, req, rules.ip)
               \/ \E w \in Winners(cfg, req, rules.ip) : Score(cfg, req, rules.ip, w) > 0)
<1> DEFINE Open == pc = "index" =>
                     \/ ~HasEvidence(cfg, req, rules.ip)
                     \/ \E w \in Winners(cfg, req, rules.ip) : Score(cfg, req, rules.ip, w) > 0
<1>1. Inv => Open
  <2> SUFFICES ASSUME Inv, HasEvidence(cfg, req, rules.ip)
               PROVE  \E w \in Winners(cfg, req, rules.ip) : Score(cfg, req, rules.ip, w) > 0
    OBVIOUS
  <2>1. cfg.alpha \in Int /\ cfg.beta \in Int
    BY WeightAssumption DEF Inv, TypeOK
  <2>2. DOMAIN rules.ip # {}
    BY DEF HasEvidence
  <2>3. PICK w \in Winners(cfg, req, rules.ip) : TRUE
    BY <2>1, <2>2, WinnerExists
  <2> QED
    BY <2>1, <2>3, WinnerScores
<1> QED
  BY <1>1, Invariance, PTL

=============================================================================
