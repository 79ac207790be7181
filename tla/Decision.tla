------------------------------ MODULE Decision ------------------------------
(***************************************************************************)
(* The operators a decision is built from: the indexes that setDefs        *)
(* derives from bot rules (classifier.go, botdef_parse.go), the UA and     *)
(* softmax attribution (classifier.go, softmax.go), the policy (policy.go) *)
(* and the client address (utils.go, trusted_proxy.go).                    *)
(*                                                                         *)
(* Text enters through what the code makes of it.  A name is a spelling of *)
(* a bot's name, SlugOf what slugify makes of it, TitleOf what             *)
(* titleFirstSegment does; PathOf is canonicalCategoryPath, the segments   *)
(* of a category; a token is a pattern that a user agent contains or not,  *)
(* Plain the same after normalizePattern; a range is an entry of ipRanges  *)
(* and Covers the addresses it holds, none when it cannot be parsed.       *)
(*                                                                         *)
(* A result that depends on the order of a Go map is a set of results, one *)
(* for each outcome of the order.                                          *)
(***************************************************************************)
EXTENDS Integers, Sequences

CONSTANTS
  Names, Slugs, NoSlug, SlugOf, TitleOf,
  Categories, Segments, PathOf,
  Tokens, NoToken, Plain,
  Addrs, NoAddr, Ranges, Covers

ASSUME NameAssumption ==
  /\ Slugs \subseteq Names /\ NoSlug \notin Slugs
  /\ SlugOf \in [Names -> Slugs \union {NoSlug}]
  /\ \A s \in Slugs : SlugOf[s] = s
  /\ TitleOf \in [Names -> Names]

ASSUME TextAssumption ==
  /\ PathOf \in [Categories -> Seq(Segments)]
  /\ {"ai", "access_agents", "data_scrapers", "traditional", "bots"} \subseteq Segments
  /\ NoToken \notin Tokens /\ Plain \in [Tokens -> Tokens \union {NoToken}]
  /\ NoAddr \notin Addrs /\ Covers \in [Ranges -> SUBSET Addrs]

-----------------------------------------------------------------------------
(* Bot rules, and the indexes derived from them.                           *)

\* Where several keys of a map fold to one, the order of the map decides.
Folded(map, key) ==
  {f \in [{key[k] : k \in DOMAIN map} -> DOMAIN map] :
     \A x \in DOMAIN f : key[f[x]] = x}

\* canonicalTrafficCategory
TrafficPath(category) ==
  LET path == PathOf[category] IN
  CASE path \in {<<"ai_access_agents">>, <<"ai", "access_patterns">>} -> <<"ai", "access_agents">>
    [] path \in {<<"ai_data_scrapers">>, <<"ai", "scraper_patterns">>} -> <<"ai", "data_scrapers">>
    [] path \in {<<"traditional_bots">>, <<"traditional", "bot_patterns">>} -> <<"traditional", "bots">>
    [] OTHER -> path

\* ruleCategoryBySlug: the last UA category with that slug.
RuleCategory(d, slug, otherwise) ==
  LET named == {i \in DOMAIN d.ua : SlugOf[d.ua[i].category] = slug} IN
  IF named = {} THEN otherwise
  ELSE d.ua[CHOOSE i \in named : \A j \in named : j <= i].category

PortalBot(d, slug, key) ==
  [name |-> RuleCategory(d, slug, TitleOf[key]),
   tokens |-> d.portal[key].tokens, ranges |-> d.portal[key].ranges]

LegacyBot(d, slug, key) ==
  [name |-> RuleCategory(d, slug, slug),
   tokens |-> d.legacy[key].tokens, ranges |-> d.legacy[key].ranges]

\* normalizeIPVerificationBots: the legacy section fills the slugs that are missing.
IPBots(d) ==
  {[s \in (DOMAIN p \union DOMAIN l) \ {NoSlug} |->
      IF s \in DOMAIN p THEN PortalBot(d, s, p[s]) ELSE LegacyBot(d, s, l[s])] :
     p \in Folded(d.portal, SlugOf), l \in Folded(d.legacy, SlugOf)}

\* invertMappings: a category that several groups list gets any one of them.
Inversions(d) ==
  {f \in [UNION {d.mappings[g] : g \in DOMAIN d.mappings} -> DOMAIN d.mappings] :
     \A c \in DOMAIN f : c \in d.mappings[f[c]]}

TrafficOf(traffic, name) ==
  IF name \in DOMAIN traffic THEN TrafficPath(traffic[name]) ELSE <<>>

Normalized(tokens) == {Plain[t] : t \in tokens}

\* The outcomes of setDefs.
Derived(d) ==
  {[ip |-> bots, traffic |-> traffic,
    ua |-> [i \in DOMAIN d.ua |->
              [name |-> d.ua[i].category, tokens |-> Normalized(d.ua[i].tokens),
               path |-> TrafficOf(traffic, d.ua[i].category)]],
    categories |-> [i \in DOMAIN d.categories |->
              [tokens |-> Normalized(d.categories[i].tokens),
               path |-> TrafficPath(d.categories[i].category)]]] :
     bots \in IPBots(d), traffic \in Inversions(d)}

-----------------------------------------------------------------------------
(* The address of the client.                                              *)

MutTrustAnyone(c, r) == TRUE
TrustHeaders(c, r) == c.trusted = {} \/ r.peer \in c.trusted

\* The first candidate of the forwarding headers that is an address.
FirstForwarded(r) ==
  {i \in DOMAIN r.forwarded :
     r.forwarded[i] # NoAddr /\ \A j \in 1..(i - 1) : r.forwarded[j] = NoAddr}

ClientIP(c, r) ==
  IF TrustHeaders(c, r) /\ FirstForwarded(r) # {}
  THEN r.forwarded[CHOOSE i \in FirstForwarded(r) : TRUE]
  ELSE r.peer

InRanges(addr, ranges) == \E x \in ranges : addr \in Covers[x]

-----------------------------------------------------------------------------
(* Attribution.  A user agent is the tokens it contains, the slug it has   *)
(* when it could be nothing but a bot's name, and whether it contains bot, *)
(* crawl or spider.                                                        *)

Unmatched == [matched |-> FALSE, path |-> <<>>, slug |-> NoSlug]
Class(path, slug) == [matched |-> TRUE, path |-> path, slug |-> slug]

FirstHit(matchers, ua) ==
  {i \in DOMAIN matchers :
     /\ matchers[i].tokens \intersect ua.tokens # {}
     /\ \A j \in 1..(i - 1) : matchers[j].tokens \intersect ua.tokens = {}}

Classify(ua, g) ==
  LET byUA == FirstHit(g.ua, ua)
      byCategory == FirstHit(g.categories, ua)
  IN IF byUA # {}
     THEN LET m == g.ua[CHOOSE i \in byUA : TRUE] IN Class(m.path, SlugOf[m.name])
     ELSE IF byCategory # {}
     THEN Class(g.categories[CHOOSE i \in byCategory : TRUE].path, NoSlug)
     ELSE IF ua.keyword THEN Class(<<"traditional", "bots">>, NoSlug)
     ELSE Unmatched

\* softmaxUAMatches: a pattern, or the bot's own name as the user agent.
UAMatches(ua, slug, bot) ==
  \/ bot.tokens \intersect ua.tokens # {}
  \/ ua.identity # NoSlug /\ ua.identity \in {slug, SlugOf[bot.name]}

\* applyConfigDefaults
MutWeightAsGiven(w) == w
Weight(w) == IF w <= 0 THEN 4 ELSE w

Score(c, r, bots, s) ==
    (IF UAMatches(r.ua, s, bots[s]) THEN Weight(c.alpha) ELSE 0)
  + (IF InRanges(ClientIP(c, r), bots[s].ranges) THEN Weight(c.beta) ELSE 0)

MutNoZeroTest(c, r, bots) == DOMAIN bots # {}
HasEvidence(c, r, bots) == \E s \in DOMAIN bots : Score(c, r, bots, s) > 0

\* The softmax is monotonic: its winner has a greatest score, any when there are several.
Winners(c, r, bots) ==
  {s \in DOMAIN bots : \A t \in DOMAIN bots : Score(c, r, bots, t) <= Score(c, r, bots, s)}

\* softmaxOutcomeFromSelection, and ipVerificationDeniesUAOnlyClaim of a UA-only claim.
Unverified(bots, s, addr) == bots[s].ranges # {} /\ ~InRanges(addr, bots[s].ranges)

MutNoUAOnlyCheck(bots, s, addr) == FALSE
DeniesUAOnly(bots, s, addr) == s \in DOMAIN bots /\ Unverified(bots, s, addr)

-----------------------------------------------------------------------------
(* The policy.                                                             *)

Decisions == {"allow", "deny"}

\* normalizePolicyValue
Value(v, fallback) == IF v \in Decisions THEN v ELSE fallback

\* Normalize, of the rules and of the overrides.
NormalizedMaps(map, key, blank) ==
  {[x \in DOMAIN f \ {blank} |-> Value(map[f[x]], "")] : f \in Folded(map, key)}

Policies(raw) ==
  {[global |-> Value(raw.global, "deny"), rules |-> r, overrides |-> o] :
     r \in NormalizedMaps(raw.rules, PathOf, <<>>),
     o \in NormalizedMaps(raw.overrides, SlugOf, NoSlug)}

\* Classification.PolicyCategoryPath, for a match.
CategoryPath(class) == IF class.path = <<>> THEN <<"traditional", "bots">> ELSE class.path

MutShortestFirst(path, policy) ==
  LET at[n \in 1..(Len(path) + 1)] ==
        LET candidate == SubSeq(path, 1, n) IN
        IF n = Len(path) + 1 THEN policy.global
        ELSE IF candidate \in DOMAIN policy.rules /\ policy.rules[candidate] \in Decisions
        THEN policy.rules[candidate]
        ELSE at[n + 1]
  IN at[1]

\* evaluateCategoryPolicy: from the category up to its parents.
CategoryDecision(path, policy) ==
  LET at[n \in 0..Len(path)] ==
        LET candidate == SubSeq(path, 1, n) IN
        IF n = 0 THEN policy.global
        ELSE IF candidate \in DOMAIN policy.rules /\ policy.rules[candidate] \in Decisions
        THEN policy.rules[candidate]
        ELSE at[n - 1]
  IN at[Len(path)]

\* EvaluateSelectedBotAccess
Access(class, policy) ==
  LET category == CategoryDecision(CategoryPath(class), policy)
      override == IF class.slug \in DOMAIN policy.overrides
                  THEN policy.overrides[class.slug] ELSE ""
  IN IF ~class.matched THEN "allow" ELSE Value(override, category)

-----------------------------------------------------------------------------
(* The protected paths: an entry is a path, or with wild a prefix.         *)

Protects(entries, path) ==
  \E e \in entries :
    IF e.wild THEN Len(e.path) <= Len(path) /\ SubSeq(path, 1, Len(e.path)) = e.path
    ELSE path = e.path
=============================================================================
