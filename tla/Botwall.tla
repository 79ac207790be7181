------------------------------ MODULE Botwall -------------------------------
(***************************************************************************)
(* ServeHTTP of main.go: one request on its way through the resolver, the  *)
(* classifier, the policy, the upstream handler and the decision log,      *)
(* while refreshes replace the protected paths and the bot rules.          *)
(*                                                                         *)
(* Requests write none of what they read, so one at a time is enough: it   *)
(* meets every swap that another request's refresh could bring about.  How *)
(* the refreshes come to their results is the matter of Resolver and       *)
(* Classifier, which promise, as RefreshedValue has it, that a swap is one *)
(* step; here any swap may happen at any time.  What becomes of a logged   *)
(* event is the matter of EventLog.                                        *)
(*                                                                         *)
(* A step ends where the code takes or releases a read lock, or calls the  *)
(* upstream handler: classifySoftmax reads the index under one lock, and   *)
(* the traffic category or the matchers under another.                     *)
(***************************************************************************)
EXTENDS Decision, FiniteSets

CONSTANTS
  Configs,      \* configurations: softmax, alpha, beta, trusted, raw policy
  Definitions,  \* the bot rules that a file or the portal can hold
  Snapshots,    \* sets of protected entries
  Requests,     \* requests: path, ua, peer, forwarded, and own, the indices of the
                \* forwarded addresses that the client wrote, unknown to the code
  Statuses,     \* final statuses of the upstream handler
  Informational,\* an informational status, 1xx
  NoStatus,
  MaxLive       \* bound: rules in use while one request is decided

ASSUME WeightAssumption == \A c \in Configs : c.alpha \in Int /\ c.beta \in Int

ASSUME DefinitionAssumption ==
  \A d \in Definitions :
    /\ DOMAIN d.mappings \subseteq Categories
    /\ \A i \in DOMAIN d.categories : d.categories[i].category \in Categories

ASSUME StatusAssumption ==
  /\ {200, 403} \subseteq Statuses
  /\ Informational \notin Statuses /\ NoStatus \notin Statuses \union {Informational}

VARIABLES
  cfg,          \* m.softmax, m.trustedProxyNets, and the policy as written
  policy,       \* m.policy, normalized
  rules,        \* the classifier's indexes
  paths,        \* the resolver's protected paths
  req,          \* the request
  pc,           \* how far ServeHTTP has come
  seen,         \* ipBots as ClassifyForBotWall read it, until it returns
  name,         \* the rule category of the softmax winner
  class,        \* the classification
  outcome,      \* "none", "passed", "gate", "deny" or "allow"
  sent,         \* the final status the client has been sent
  rec,          \* responseRecorder.statusCode
  logged,       \* the status of the logged event
  aborted,      \* the upstream handler panicked
  live,         \* history: the rules in use while the request was decided
  livePaths     \* history: the protected paths in use until they were read

setup == <<cfg, policy>>
reading == <<seen, name>>
verdict == <<class, outcome>>
response == <<sent, rec, logged, aborted>>
history == <<live, livePaths>>
vars == <<setup, rules, paths, req, pc, reading, verdict, response, history>>

Generations == UNION {Derived(d) : d \in Definitions}

Deciding == pc \in {"paths", "index", "traffic", "matchers"}

Client == ClientIP(cfg, req)

-----------------------------------------------------------------------------
(* New, and the arrival of a request.                                      *)

Init ==
  /\ cfg \in Configs /\ policy \in Policies(cfg.policy)
  /\ rules \in Generations /\ paths \in Snapshots
  /\ req \in Requests /\ pc = "done"
  /\ seen = <<>> /\ name = NoSlug
  /\ class = Unmatched /\ outcome = "none"
  /\ sent = NoStatus /\ rec = NoStatus /\ logged = NoStatus /\ aborted = FALSE
  /\ live = {rules} /\ livePaths = {paths}

Arrive ==
  /\ pc = "done"
  /\ req' \in Requests
  /\ pc' = "paths"
  /\ seen' = <<>> /\ name' = NoSlug
  /\ class' = Unmatched /\ outcome' = "none"
  /\ sent' = NoStatus /\ rec' = NoStatus /\ logged' = NoStatus /\ aborted' = FALSE
  /\ live' = {rules} /\ livePaths' = {paths}
  /\ UNCHANGED <<setup, rules, paths>>

-----------------------------------------------------------------------------
(* The decision.                                                           *)

IsProtected == Protects(paths, req.path)

\* The fast path of a request that no entry protects.
Pass ==
  /\ pc = "paths" /\ ~IsProtected
  /\ pc' = "upstream" /\ outcome' = "passed"
  /\ UNCHANGED <<setup, rules, paths, req, reading, class, response, history>>

Protect ==
  /\ pc = "paths" /\ IsProtected
  /\ pc' = IF cfg.softmax THEN "index" ELSE "matchers"
  /\ UNCHANGED <<setup, rules, paths, req, reading, verdict, response, history>>

MutZeroStatus == 0
InitialStatus == 200

ClassifierReturns == seen' = <<>> /\ name' = NoSlug

\* writeDeniedResponse; the log follows.
Deny(why) ==
  /\ outcome' = why /\ pc' = "log" /\ sent' = 403 /\ rec' = 403
  /\ UNCHANGED <<logged, aborted>>

Forward ==
  /\ outcome' = "allow" /\ pc' = "upstream" /\ rec' = InitialStatus
  /\ UNCHANGED <<sent, logged, aborted>>

\* EvaluateSelectedBotAccess and what ServeHTTP makes of it.
Judge(c) ==
  /\ class' = c
  /\ ClassifierReturns
  /\ IF Access(c, policy) = "deny" THEN Deny("deny") ELSE Forward

\* ClassifyForBotWall up to the end of classifySoftmax.
NothingInIndex ==
  /\ pc = "index"
  /\ ~HasEvidence(cfg, req, rules.ip)
  /\ seen' = rules.ip /\ pc' = "matchers"
  /\ UNCHANGED <<setup, rules, paths, req, name, verdict, response, history>>

WinnerIsUnverified ==
  /\ pc = "index"
  /\ HasEvidence(cfg, req, rules.ip)
  /\ \E w \in Winners(cfg, req, rules.ip) : Unverified(rules.ip, w, Client)
  /\ Deny("gate")
  /\ UNCHANGED <<setup, rules, paths, req, reading, class, history>>

WinnerIsMatched ==
  /\ pc = "index"
  /\ HasEvidence(cfg, req, rules.ip)
  /\ \E w \in Winners(cfg, req, rules.ip) :
       ~Unverified(rules.ip, w, Client) /\ name' = rules.ip[w].name
  /\ seen' = rules.ip /\ pc' = "traffic"
  /\ UNCHANGED <<setup, rules, paths, req, verdict, response, history>>

\* softmaxToClassification: another read of the rules, perhaps of newer ones.
ReadTraffic ==
  /\ pc = "traffic"
  /\ Judge(Class(TrafficOf(rules.traffic, name), SlugOf[name]))
  /\ UNCHANGED <<setup, rules, paths, req, history>>

\* Classify, with the UA-only check against the index read before.
ReadMatchers ==
  /\ pc = "matchers"
  /\ LET c == Classify(req.ua, rules) IN
     IF c.matched /\ DeniesUAOnly(seen, c.slug, Client)
     THEN class' = c /\ Deny("gate") /\ ClassifierReturns
     ELSE Judge(c)
  /\ UNCHANGED <<setup, rules, paths, req, history>>

-----------------------------------------------------------------------------
(* The upstream handler, behind the recorder unless the request was passed *)
(* on, and the log.  It may send an informational status, as a proxy does, *)
(* and then a header, or none, which makes the answer a 200; or panic, as  *)
(* httputil.ReverseProxy does when the body breaks off.                    *)

Recording == outcome = "allow"

\* responseRecorder.WriteHeader
MutKeepFirst(status) == IF rec = 200 THEN status ELSE rec
Recorded(status) == status

UpstreamInforms ==
  /\ pc = "upstream" /\ sent = NoStatus
  /\ rec' = IF Recording THEN Recorded(Informational) ELSE rec
  /\ UNCHANGED <<setup, rules, paths, req, pc, reading, verdict, sent, logged, aborted, history>>

UpstreamAnswers ==
  /\ pc = "upstream" /\ sent = NoStatus
  /\ \E status \in Statuses :
       /\ sent' = status
       /\ rec' = IF Recording THEN Recorded(status) ELSE rec
  /\ UNCHANGED <<setup, rules, paths, req, pc, reading, verdict, logged, aborted, history>>

\* next.ServeHTTP returns.
UpstreamReturns ==
  /\ pc = "upstream"
  /\ sent' = IF sent = NoStatus THEN 200 ELSE sent
  /\ pc' = IF Recording THEN "log" ELSE "done"
  /\ UNCHANGED <<setup, rules, paths, req, reading, verdict, rec, logged, aborted, history>>

\* The panic passes through ServeHTTP: the server ends the connection.
UpstreamAborts ==
  /\ pc = "upstream"
  /\ aborted' = TRUE /\ pc' = "done"
  /\ UNCHANGED <<setup, rules, paths, req, reading, verdict, sent, rec, logged, history>>

Log ==
  /\ pc = "log"
  /\ logged' = rec /\ pc' = "done"
  /\ UNCHANGED <<setup, rules, paths, req, reading, verdict, sent, rec, aborted, history>>

-----------------------------------------------------------------------------
(* The refreshes of the classifier and of the resolver.                    *)

SwapRules ==
  /\ rules' \in Generations
  /\ live' = IF Deciding THEN live \union {rules'} ELSE live
  /\ Cardinality(live') <= MaxLive
  /\ UNCHANGED <<setup, paths, req, pc, reading, verdict, response, livePaths>>

SwapPaths ==
  /\ paths' \in Snapshots
  /\ livePaths' = IF pc = "paths" THEN livePaths \union {paths'} ELSE livePaths
  /\ UNCHANGED <<setup, rules, req, pc, reading, verdict, response, live>>

Next ==
  \/ Arrive \/ Pass \/ Protect
  \/ NothingInIndex \/ WinnerIsUnverified \/ WinnerIsMatched
  \/ ReadTraffic \/ ReadMatchers
  \/ UpstreamInforms \/ UpstreamAnswers \/ UpstreamReturns \/ UpstreamAborts
  \/ Log \/ SwapRules \/ SwapPaths

Spec == Init /\ [][Next]_vars

-----------------------------------------------------------------------------
(* Properties.                                                             *)

\* Every variable has its type; rules and paths come from a source.
TypeOK ==
  /\ cfg \in Configs /\ policy \in Policies(cfg.policy)
  /\ rules \in Generations /\ paths \in Snapshots /\ req \in Requests
  /\ pc \in {"paths", "index", "traffic", "matchers", "upstream", "log", "done"}
  /\ class.matched \in BOOLEAN /\ class.path \in Seq(Segments) /\ aborted \in BOOLEAN
  /\ outcome \in {"none", "passed", "gate", "deny", "allow"}
  /\ sent \in Statuses \union {NoStatus}
  /\ rec \in Statuses \union {Informational, NoStatus}
  /\ logged \in Statuses \union {Informational, NoStatus}
  /\ live \subseteq Generations /\ livePaths \subseteq Snapshots

\* The addresses in the request: the peer's, and those in the forwarding headers when
\* the peer is trusted to write them, or everybody is because the list is empty.
HeadersCount == cfg.trusted = {} \/ req.peer \in cfg.trusted
Addresses(indices) ==
  {req.peer} \union {req.forwarded[i] : i \in IF HeadersCount THEN indices ELSE {}}
Offered == Addresses(DOMAIN req.forwarded)

\* Those that the client did not write itself.
Vouched == Addresses(DOMAIN req.forwarded \ req.own)

\* The first address of the headers that count is the client's own writing: a header
\* that no proxy removed, with the default list, or in front of what an appending
\* proxy added.
ClientNamesAddress ==
  /\ HeadersCount
  /\ \E i \in req.own \intersect DOMAIN req.forwarded :
       req.forwarded[i] # NoAddr /\ \A j \in 1..(i - 1) : req.forwarded[j] = NoAddr

\* In g every entry that stands for the bot has ranges, and none of the addresses is
\* in them.
Refutes(g, bot, addresses) ==
  /\ bot \in DOMAIN g.ip
  /\ \A s \in DOMAIN g.ip : bot \in {s, SlugOf[g.ip[s].name]} =>
       g.ip[s].ranges # {} /\ \A a \in addresses : ~InRanges(a, g.ip[s].ranges)

\* With softmax on nobody is let in under the name of a bot whose address ranges
\* exclude all addresses that others than the client wrote, also when the rules change
\* between the two reads of ClassifyForBotWall (softmax.go:57, 129; classifier.go:172):
\* some rules in use meanwhile accept the claim.  The exception is a client whose own
\* writing comes first in headers that count (utils.go:51, 84): the code takes that
\* address, and then the claim is only as good as what the client wrote.  So it is for
\* everybody with the default list, which CONFIGURATION.md:185 calls untrusted for
\* access control, and behind a trusted proxy that appends.
ClaimIsVerified ==
  cfg.softmax /\ outcome = "allow" /\ class.slug # NoSlug =>
    \E g \in live :
      ~Refutes(g, class.slug, IF ClientNamesAddress THEN Offered ELSE Vouched)

\* What could make g take the request for a bot's.
Evidence(g) ==
  \/ req.ua.keyword
  \/ \E i \in DOMAIN g.ua : g.ua[i].tokens \intersect req.ua.tokens # {}
  \/ \E i \in DOMAIN g.categories : g.categories[i].tokens \intersect req.ua.tokens # {}
  \/ /\ cfg.softmax
     /\ \E s \in DOMAIN g.ip :
          \/ UAMatches(req.ua, s, g.ip[s])
          \/ \E a \in Offered : InRanges(a, g.ip[s].ranges)

\* Nobody is denied without a trace of a bot in the user agent or in an address: the
\* default policy denies every bot.  Every address that the request offers is a trace,
\* also one that the client wrote; those in headers are none when the list of trusted
\* proxies is not empty and the peer is not in it (utils.go:51).
HumansPass ==
  outcome \in {"gate", "deny"} => \E g \in live : Evidence(g)

\* A bot whose user agent and whose address both match an entry is not denied for
\* want of a verified address, although candidates with one of the two compete
\* with it (softmax.go:171), as long as the entry is in use the whole time.
VerifiedBotPassesGate ==
  outcome = "gate" =>
    \E g \in live : \A s \in DOMAIN g.ip :
      ~(UAMatches(req.ua, s, g.ip[s]) /\ InRanges(Client, g.ip[s].ranges))

\* The policy as the operator wrote it gives value v, however Normalize folds the
\* keys that collide: all keys for the bot say v, or none says the opposite and the
\* same holds of the closest category, up to the global policy.
Unanimous(keys, map, v) == keys # {} /\ \A k \in keys : map[k] = v
Opposed(keys, map, v) == \E k \in keys : map[k] \in Decisions \ {v}

Orders(v) ==
  LET path == CategoryPath(class)
      for(n) == {k \in DOMAIN cfg.policy.rules : PathOf[k] = SubSeq(path, 1, n)}
      overrides == {k \in DOMAIN cfg.policy.overrides : SlugOf[k] = class.slug /\ class.slug # NoSlug}
      Category ==
        \E n \in 0..Len(path) :
          /\ IF n = 0 THEN Value(cfg.policy.global, "deny") = v
             ELSE Unanimous(for(n), cfg.policy.rules, v)
          /\ \A m \in (n + 1)..Len(path) : ~Opposed(for(m), cfg.policy.rules, v)
  IN \/ Unanimous(overrides, cfg.policy.overrides, v)
     \/ Category /\ ~Opposed(overrides, cfg.policy.overrides, v)

\* A bot gets what the written policy orders for its category and its name, a
\* human is let in: values that are no decision, spellings of one key and missing
\* categories do not hide an order (policy.go:35, 116).  Of keys that collide with
\* different values the code takes either, and Orders asks nothing.
PolicyIsFollowed ==
  outcome \in {"allow", "deny"} =>
    IF class.matched THEN \A v \in Decisions : Orders(v) => outcome = v
    ELSE outcome = "allow"

\* A request for a path that is protected all the while is decided on, and logged
\* with the status the client was sent, unless the upstream handler breaks off; one
\* for a path outside leaves no event.  After an informational status the recorder
\* misses the 200 of a handler that sends no header (main.go:109).
ProtectedIsLogged ==
  pc = "done" =>
    /\ outcome = "passed" =>
         logged = NoStatus /\ \E s \in livePaths : ~Protects(s, req.path)
    /\ outcome \in {"gate", "deny", "allow"} =>
         \E s \in livePaths : Protects(s, req.path)
    /\ outcome \in {"gate", "deny"} => sent = 403 /\ logged = 403
    /\ outcome = "allow" =>
         \/ aborted /\ logged = NoStatus
         \/ logged = sent
         \/ logged = Informational /\ sent = 200
=============================================================================
