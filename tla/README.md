# A formal model of the Traefik bot wall

The middleware keeps four pieces of state that several goroutines share, refresh in the
background, and carry over a restart in a file: the protected paths, the bot rules, the
decision log and the publisher key. A request meets all of them: it is classified, judged by
a policy, and denied or forwarded. The modules here model those four and the way of a
request, TLC checks them on small instances, and TLAPS proves their safety properties for
every value of the constants. Line numbers below refer to the files under `src/`.

## 1. The system

| Component | Code | State | Operations |
|---|---|---|---|
| Middleware | `main.go`, `enforce.go` | the parts below, one set per `New` | `New`, `ServeHTTP` |
| Protected-path resolver | `resolver.go`, `http_utils.go` | snapshot (paths, validators, instants), `refreshing`; a cache file | `IsProtected`, `refreshIfDue`, `refresh`, `saveSnapshot`, `loadSnapshot` |
| Classifier | `classifier.go`, `http_utils.go` | the rules and their indexes, `refreshing`, `nextSync`; a cache file and `botRulesFile` | `NewClassifier`, `Classify`, `refreshRulesIfDue` |
| Softmax gate | `softmax.go` | none (reads the rules) | `ClassifyForBotWall` |
| Rule parsing | `botdef_parse.go`, `defaults.go` | none | parse, normalise, the default rules |
| Policy | `policy.go` | none (configuration) | `Normalize`, `EvaluateSelectedBotAccess` |
| Decision log | `logging.go` | header flag and error, mutex; the JSONL file | `Log`, `shipAndTruncateOnce`, shipping loop |
| Publisher key manager | `publisher_api_key.go` | secret, key id, dates, rotation deadline; a state file | `RefreshMetadata`, `MaybeRotateProactive`, `rotate`, `scheduleDueRotation` |
| Key state encoding | `publisher_key_crypto.go` | none | encode, decode, AES-GCM |
| Client address | `utils.go`, `trusted_proxy.go` | none | `extractClientIP` |
| Snapshot persistence | `utils.go` | none | `writeJSON`: temporary file, fsync, rename |
| Configuration | `config.go` | none | defaults, merge, validation |

**How they interact.** A request asks the resolver whether its path is protected, which may
start a resolver refresh. If it is, `ClassifyForBotWall` decides between softmax and
`Classify`, which may start a rules refresh; the policy turns the classification into allow
or deny; the decision log appends an event and may ship the file, with the secret that the
key manager holds at that moment. All of it happens on the request's goroutine except the
two refreshes, the shipping loop, the daily rotation ticker, and the timers that
`scheduleDueRotation` starts.

**What is hard about it.** Check-then-act on shared state around a read lock and a write
lock (resolver, classifier); a copy of the state judged before a lock is taken (key
manager); files that are updated in several steps, or by several instances of the middleware
(log, rules); answers of a portal that are lost or late (log, key manager); restarts between
any two steps; and progress that depends on requests of a certain kind arriving
(classifier). `PROJECT.json` lists each hazard at its line.

**What makes each component correct.**

- *Resolver*: one refresh at a time; the validators kept are not those of another document
  than the paths beside them, as far as one URL gave both and sends them uniformly; what was
  protected stays protected through failures and restarts; failures back off; the paths
  become those the site publishes, unless the validators of one URL mislead another.
- *Classifier*: one refresh at a time; rules do not go back to older ones; a restart finds
  what was saved; the rules become those of the portal.
- *Decision log*: no event is lost, but for writes cut short and refusals taken for
  success; every payload is well formed; duplicates only when an answer went missing; no shipment keeps the mutex; the log is shipped.
- *Key manager*: one rotation at a time; the secret in use is the live one; the new secret
  is saved; due keys are rotated, and no others.
- *The decision* (softmax, policy, client address): nobody is let in under a bot's name
  without the address for it, unless the configuration lets clients write addresses; nobody is denied without evidence; a
  bot with user agent and address passes the gate; what the operator ordered is done. All of
  it although the rules may be replaced between the reads of one decision.
- *Middleware*: a decision on a protected path is logged with the status sent, unless the
  upstream handler panics, or sends an informational status and no other.

## 2. The modules

| Module | Models |
|---|---|
| `Resolver`, `MCResolver` | the protected-path resolver, discovery through `robots.txt` or a configured URL, the sites |
| `EventLog`, `MCEventLog` | the decision log with one or several instances on a file, the portal, the disk |
| `PublisherKey`, `MCPublisherKey` | the key manager with its ticker and timers, the portal, the state file |
| `Classifier`, `MCClassifier` | the classifier's refresh, which requests reach it through `ClassifyForBotWall`, the portal, the operator |
| `Decision` | what a decision is built from, as operators: the indexes of the rules, attribution, client address, policy, path matching |
| `Botwall`, `MCBotwall` | `ServeHTTP`: a request among refreshes, the upstream handler, the log |
| `RefreshedValue` | what the resolver and the classifier both promise of the value they refresh |
| `AtLeastOnce` | what the decision log promises of its events |
| `KeyCustody` | what the key manager promises of the secret in use and of the one it saved |
| `ResolverProofs`, `EventLogProofs`, `ClassifierProofs`, `PublisherKeyProofs`, `DecisionProofs`, `BotwallProofs` | theorems about those |

`Resolver` and `Classifier` implement `RefreshedValue`, `EventLog` implements `AtLeastOnce`
(`RefinesPromise` in each), and `PublisherKey` implements `KeyCustody` (`RefinesCustody`), all
checked and proved. `Botwall` stands on the first promise: the
paths and the rules are replaced as a whole, in one step, so a swap is all it needs of them.

In every module an action is one step between two points where another goroutine can get in:
a critical section under the mutex, or one request to the outside. `map` in `PROJECT.json`
names the lines of each definition.

### Resolver
`state` is `r.state`, `disk` the cache file, `tpc`/`thost` a request inside `refreshIfDue`,
`wpc`/`job` a refresh goroutine with its local variables. `CheckDue` is the test under
`RLock`, `NotDue` and `StartRefresh` the test under `Lock`; `Discovered`, `NoDirective` and
`RobotsFails` are the discovery; `FetchOK`, `FetchNotModified` and `FetchFails` the
conditional fetch; `Apply` the swap, `Save`/`SaveFails` the file, `Finish` the deferred
function. `Restart` keeps the file and may change the configured URL.
The snapshot keeps an ETag and a Last-Modified date, each with a `fallbackString` of its own
(`resolver.go:181-182`), and `Discovered` sends both to whatever URL discovery leads to, as
`resolver.go:152-157` does. The site is external: `NotModified` compares an ETag with an ETag,
and where one is missing asks whether the document is older than the date sent, so validators
of another URL can bring a 304. `ValidatorAssumption` has no more than HTTP promises, that two
documents of *one* URL do not share an ETag; `Publish` gives a document that replaces another
one a later date. The history field `origin` is the one URL that everything in a snapshot came
from, if there is one; no step reads it for anything else.
*Abstractions*: an instant is the time left until it; the fields that are only reported
(`ExpiresAt`, `Source`, `LastError`...) are left out; a document is the set of its paths; path
matching is not opened.

### EventLog
`phase[i]` is how far the holder of instance `i`'s mutex has come, `op`, `held` its local
variables, `applied` and `failed` are `metadataApplied` and `metadataErr`. A file is whether
its first line is the metadata envelope, the set of its events, and its `junk`: the torn line
that a write cut short has left, `"open"` until the next event is glued to it and lost with
it. The rewrite behind a header is two steps (`StartRewrite`, `Rewrite`), because
`os.WriteFile` truncates first, and may stop at any place (`Beginnings`). A refusal may be
recognised (`Refused`) or not (`RefusalMisread`): `logging.go:332` reads 1024 bytes of a 2xx
answer, and `jsonAPIError` finds no error in what it cannot parse or what is not declared
JSON; the file is then truncated although the portal has nothing (`TruncateMisread`).
*Abstractions*: the throttle `lastShipAt` and the ticker only decide *when* a shipment
starts, so it may start at any time; order and content of events play no role; several torn
lines count as one, and a torn write misses more than the newline. `cut`, `misread`,
`excused`, `twice`, `delivered` and `appended` are history variables.

### PublisherKey
The portal numbers keys; key `g` has secret `g`. `mem` is `m.state`, `disk` the state file,
`lockLeft` what is left until `m.rotateUntil`. `RefreshMetadata` is `GetOK`/`GetFails` and
`ApplyMetadata`; `rotate` is `AcquireRotateLock` through `ReleaseRotateLock`, with both key
id candidates; `Check` is the decision of `MaybeRotateProactive` on its copy of the state.
A timer (`StartTimer`, `Fire`) starts its successor, and the ticker starts one more each day.
*Abstractions*: a tick is the 15 s the HTTP client allows a request, and is counted while
the rotation lock is held; keys that never expire are left out, as nothing happens to them;
a decoded file is what was encoded. With `Shared`, another instance of the middleware has a
manager for the same key and state file: `OtherStarts` reads the file, `OtherRotates` and
`OtherFails` are its rotations, one step each, and write the file under this one's feet. A
rotation of the other instance revokes the secret in use here, which `lost` records, as it
does when an answer of the portal is lost: `SecretIsLive` is about all other times.

### Classifier
`defs` is `c.defs` with the indexes derived from it, `local` and `cache` are the two files,
`cacheOlder` compares their modification times, `due` says that `nextSync` has passed. A
request is `TakenBySoftmax`/`SoftmaxDone` or `Classify`, `Check` and then `NotDue` or
`StartRefresh`; the refresh is `FetchOK`/`FetchFails`, `Apply`, `SaveCache`, `SaveLocal`,
`Finish`. `Restart` is `bootstrapRules`. *Abstractions*: rules are a version and whether they
have `ipVerification`, which decides the routing and is the section a merge can keep; the
configuration is chosen at the start; remote rules are enabled; the matching of user agents
is in `Decision`; the label `RuleSource` is left out.

### Decision and Botwall
`Decision` has one operator for each function a decision calls, and no state. What depends on
the order of a Go map is a set of results (`IPBots`, `Inversions`, `Policies` through
`Folded`; `Winners` for a tie of the softmax), so every order is covered. A text enters as
what the code makes of it: `SlugOf`, `TitleOf`, `PathOf` and `Plain` stand for `slugify`,
`titleFirstSegment`, `canonicalCategoryPath` (a sequence of `Segments`) and
`normalizePattern`, a user agent is the
tokens it contains, the slug it has when it is nothing but a name, and whether it has one of
the three keywords; a range is the addresses it covers, and a candidate of a header is an
address or none. Who wrote it the code cannot know: `own` marks what the client wrote, for the
properties alone. The softmax is monotonic, so a score is a number of the configured weights
and the winner a greatest one; rounding in `math.Exp` is left out.

`Botwall` is one request after the other. `pc` goes from `paths` (`IsProtected`) to `index`
(the first read of `ClassifyForBotWall`), then `traffic` (`softmaxToClassification`) or
`matchers` (`Classify`), each a read under a lock of its own, then `upstream`, `log`, `done`.
`seen` and `name` are what was read of the index. `SwapRules` and `SwapPaths` are the
refreshes. The upstream handler is external: it may send informational statuses, a final
status, or none (a 200), return or panic. `rec` is `responseRecorder.statusCode`. The history
`live` has the rules in use while the request was being decided, `livePaths` the paths until
they were read: the properties are about those, as no single generation need have decided.
Requests write none of what they read (the refreshes they start are in `Resolver` and
`Classifier`), so requests at the same time add nothing that a swap does not.

## 3. The runs

| Run | Result | What it shows |
|---|---|---|
| `resolver_safety` | holds | `SingleFlight`, `FlagMeansFlight`, `ValidatorNamesPaths`, `ProtectionIsDurable`, `FailureSchedulesRetry`, `AnswerIsCurrent`, `RefinesPromise`: two requests, two possible refreshes, two URLs, all failures, restarts |
| `resolver_live` | holds | `RefreshEnds`, `EventuallyCurrent`: a `robots.txt` or a configuration that may lead to another URL, sites whose validators mislead the resolver in every way HTTP leaves open |
| `resolver_retry` | **violated** | the retry window is missing when `robots.txt` cannot be fetched |
| `eventlog` | holds | `NoEventLost`, `PayloadHasHeader`, `DuplicatesAreExcused`, `MutexIsReleased`, `HealthyLogIsShipped`, `RefinesPromise`: one logger, every error branch, torn writes, refusals misread, crashes |
| `eventlog_sticky` | **violated** | one failed header stops shipping for good |
| `eventlog_shared` | **violated** | two instances on a file: a payload without its header |
| `publisher_key` | holds | `RotationIsExclusive`, `SecretIsLive`, `SecretAdvances`, `RotationEnds`, `DueKeyIsRotated`, `RefinesCustody`, beside another instance on the same key and file |
| `key_saved` | **violated** | a new secret that is in memory only |
| `key_due` | **violated** | the second of two racing rotations rotates a fresh key |
| `classifier` | holds | `SingleFlight`, `FlagMeansFlight`, `StartIsNoOlder`, `RulesOnlyAdvance`, `RefreshEnds`, `ClassifiedRulesBecomeCurrent`, `RefinesPromise` |
| `classifier_periodic` | **violated** | requests that softmax decides never refresh the rules |
| `botwall` | holds | `ClaimIsVerified`, `HumansPass`, `VerifiedBotPassesGate`, `PolicyIsFollowed`, `ProtectedIsLogged`: honest and dishonest requests, straight or through a proxy that appends, three sources of rules, three configurations, swaps between the reads |

Each property of a holding run has a mutant in `PROJECT.json`, a plausible slip in the code
(`Mut...` beside the definition it replaces), under which the run finds it violated.

### Bounds
Two requests are enough for the race around the double check, and two refresh identities let
a second refresh run if the code allowed it. One path suffices, since paths are treated
alike and documents with and without it differ. Of two URLs, in the safety run the `First`
sends an ETag with every document and a date with one, the `Second` dates alone; two dates
(`MaxDate`) make one document older than another. In the live run the sites are `Mixed`: they
share an ETag for different documents, and each sends a document without the validator of the
one before, so that the fallbacks pair validators of two documents. There, one request, one
refresh (`SingleFlight` is the safety run's matter) and one host suffice: convergence is about
what one refresh leaves for the next.
Durations are the smallest that respect the validated order, with a jitter of one value
(`ResolverProofs` has any). Three events let an event be in the file, in flight and new at once. Two
rotations (`MaxKey` = 2) let a late goroutine meet a key issued after its decision; the lock
is 4 ticks where the code has 8 (120 s / 15 s), which is the tighter case, because three
requests must fit. `Timers` bounds the goroutines that add up, one beside the ticker in the
run with faults; `TooManyTimers` marks the cut. Two published versions let rules arrive
between a fetch and what follows it. The history variables grow only with these sets.

In `MCBotwall`, three sources of rules make six generations (colliding keys, a bot in two
groups); one has an entry whose slug is not that of its UA category, as `mistral` and
`perplexity` in `defaultBotDef.json`, one no addresses. The policies have a closer and a
wider rule, a value that is no decision, and keys that collide. The requests come straight
from a bot's address, from a home address with a forged header, and through the proxy, with a
header that is half or all the client's writing (the list is empty in the first
configuration, and contains the proxy in the others); with a browser, one bot's token, two bots' tokens, or a bare keyword. `MaxLive` = 2 allows one swap
to new rules in a decision, which is what two reads can tell apart.

### Fairness
Weak fairness is assumed of: goroutines that have begun something and of requests that keep
arriving (Go schedules its goroutines, and every request to the outside is cut off by the
client after 10 s or 15 s); the shipping loop, the daily ticker and timers, which the runtime
fires; the passing of time. No fairness is assumed of the outside: a fetch need not succeed,
a document need not change. `Botwall` has no fairness: its properties are all about safety,
and how long the upstream handler takes is not the middleware's. Properties about convergence therefore start from `settled`, a
moment after which the other side answers, stays as it is, and the process stays up.

## 4. Disagreements found

Six, each with a run and a quoted line in `PROJECT.json` `findings`: a missing retry window
(`resolver.go:139`); an error of the metadata header that is never tried again
(`logging.go:390`); header flags of several instances (`logging.go:132`); a rotated secret
that is not saved when the GET after it fails (`publisher_api_key.go:396`); a rotation
decided on a stale copy (`publisher_api_key.go:315`); and a refresh that is driven by some
requests only, where the documentation has it periodic (`softmax.go:66`). The holding runs
state the same property with the exception named (`FailureSchedulesRetry`,
`HealthyLogIsShipped`, `ClassifiedRulesBecomeCurrent`), or for what does hold.

## 5. The proofs

Each proof module defines `Inv`, proves `Init => Inv` and `Inv /\ [Next]_vars => Inv'`, one
step per action, and derives the properties the runs check for arbitrary constants.

- **ResolverProofs.** `SingleFlight` needs `FlagCoversFlight`: whoever is refreshing has
  raised the flag, so the second check turns everyone else away. Since then nobody else
  writes the snapshot, what a refresh copied still agrees with it (`LocalsAgree`), and so a
  304 keeps the paths its validators name: `SnapshotsCoherent`, of a snapshot that came from one
  URL which is `Uniform` (an ETag with every document, or with none). Of other URLs it is
  false: the two fallbacks leave the ETag of one document beside the paths of the next
  (`resolver.go:181`). Its inductive form is `Coherent`: the ETag is that of the paths, or the
  date no later than that of the document, and equal only for the same one; later dates for
  later documents keep it so (`Fits`). `SecuredEverywhere` extends
  `ProtectionIsDurable` to every place the next snapshot can come from. `FlagMeansFlight` is
  the converse of `FlagCoversFlight` (`FlagIsNeverStuck`): a flag that stayed up would end all
  refreshing. `AnswersAreCurrent` (an action property) puts both together: the answer that
  leaves a refresh has the paths of the URL it was asked of, because the copied validators
  name the copied paths and both still stand; it asks that the snapshot came from that URL, or
  that nothing was sent, since a 304 of another URL proves nothing. `CurrencyLasts` is the half
  of `EventuallyCurrent` that is safety: once the paths in use, and those a refresh has in hand,
  are those of documents that discovery leads to, and the sites keep still, they stay so, and
  this needs nothing of the validators: a misplaced 304 keeps what is there. Also `TypeCorrect`,
  `AtMostOneRefresh`, `DurableProtection`, `RetryScheduled` (an action property). From
  `DelayAssumption`, `NullAssumption`, `ValidatorAssumption`.
- **EventLogProofs.** For any number of loggers on a file: `TypeCorrect` and
  `NothingIsInvented`, that the portal gets only what was written to the file. The other
  results are for one logger (`OneLogger`; two already break `PayloadHasHeader`, see
  `eventlog_shared`).
  `HeaderFlag`: what memory believes of the header is so. `LocalsAgree`: the holder of the
  mutex finds the file as it read it. `Provenance` and `DeliveredOnce` say where an event can
  be; `TornFiles`, `EventWritten` and `AfterCrash` what a write leaves that was cut short.
  Results: `EventsSurvive` (what is not in the file is with the portal, or is named in `cut` or
  `misread`), `PayloadsHaveHeader`, `DuplicatesHaveCause`. From `ShipAssumption`.
- **ClassifierProofs.** `FlagCoversFlight` as above. `VersionsKnown`: nothing is newer than
  the portal, and what waits to be applied is no older than what is in use, because only one
  refresh replaces it. `StartIsNoOlder` is inductive once types are known. Results:
  `TypeCorrect`, `AtMostOneRefresh`, `FlagIsNeverStuck`, `StartKeepsSaved`,
  `RulesDoNotGoBack` (an action property), and `CurrencyLasts`: rules that are those of a
  portal that publishes no others stay so. From `CallerAssumption`, `VersionAssumption`,
  `FileAssumption`.
- **PublisherKeyProofs.** The rotation lock is a deadline that nobody checks when a rotation
  ends, so exclusion is a matter of time: `LockOutlasts` says that what is left of the lock
  and what the rotation has used of it make up its whole duration, `SpentByRequests` that only
  requests use time, and `LockAssumption` that three requests fit. `AnswerIsLive` carries the
  new secret from the portal's answer to the state. `SecretsWereIssued` orders the secrets:
  none is newer than the portal's, and an answer that waits is newer than the secret in use;
  with it and the exclusion, `SecretDoesNotGoBack` (an action property) holds although GETs
  answer late, and `ManagerRefines`. Results: `TypeCorrect`, `OneRotation`, `LockIsHeld`,
  `LiveSecret`, with and without another instance; `FileDoesNotGoBack`, for an instance that has
  the state file to itself (`FileFollows`: another one may write a newer secret there, and
  this one then an older). From `LockAssumption`.
- **DecisionProofs.** `CategoryDecision` climbs from a category to its parents by a recursive
  function on the length of the path. `ClosestRuleDecides` proves, by well-founded induction on
  that length, that it ends at the rule of the longest prefix that has one, as a policy
  is written; other lemmas say what normalising a policy leaves (`NormalizedValue`), that the
  softmax has a winner (`WinnerExists`), and under which path a bot is judged
  (`ClassifiedPath`).
- **BotwallProofs.** `IndexRead` says that the index a request read was in use meanwhile and
  still proves what the request took from it: for the winner of the softmax, that it has
  evidence and is not excluded by its ranges (`Kept`; the address the code takes is among those
  the claim is judged by, `ClientIsClaimed`); for the UA-only check, that nothing in
  the index scored. `AnswerRecorded` relates the recorder to what the client got, `PathsRead`
  keeps the verdict on the path. `Judged` says that an outcome is what the policy makes of the
  classification, and `ClassifiedPath` ties that to the rules that were in use, which with
  `ClosestRuleDecides` gives `OrdersAreObeyed`: `PolicyIsFollowed` for any policy and any
  nesting of paths. `DecisionGoesOn` says that no choice of the model is made from an empty
  set. Results also: `TypeCorrect`, `VerifiedClaims`, `HumansAreLetIn`, `VerifiedBotsWin`,
  `DecisionsAreLogged`, for any weights, rules and headers. From `TextAssumption`,
  `DefinitionAssumption`, `WeightAssumption` and `StatusAssumption`.

**Refinement.** `ResolverRefines`, `ClassifierRefines`, `LogRefines` and `ManagerRefines` prove
that every step maps to a step of the abstract module or to none. For the two refreshes the phase is that of
the goroutine in flight (unique by `SingleFlight`), the value in use is the paths or the
version, and what may be found by a restart is what the files hold. For the log, `pending` is
the events in the file, or in the hands of a rewrite, and `lost` those in `cut` or `misread`;
`LostWasAppended` says that these were written once. For
the key manager, what was received (`Received`) is the answer that waits to be applied, of which
there is at most one by `RotationIsExclusive`, and otherwise the secret in use; an exchange is
under way while any goroutine is `InRotation`. So its many goroutines rotate like a single one,
which does not end an exchange with a secret in hand that it has not put in use.

The assumptions are named in the module that declares the constants, and TLC evaluates them
in every run.

**Only model-checked.** All liveness (`RefreshEnds`, `EventuallyCurrent`,
`MutexIsReleased`, `HealthyLogIsShipped`, `RotationEnds`, `DueKeyIsRotated`,
`ClassifiedRulesBecomeCurrent`): liveness under fairness and `ENABLED` are beyond the prover.
`CurrencyLasts` proves that what two of them reach is not lost again. Every safety property
of a holding run has a theorem. No module has a `RECURSIVE` operator.

## 6. What is not modelled

Text formats (JSON, `robots.txt`, `recognyze.txt`) and the conversions of names, categories,
patterns, addresses and networks themselves: they have no state and enter through their
results. The AES-GCM envelope of the key file and the temporary file of a save. A failed start
(`New` returns an error and nothing runs), and most of the validation that leads to it. Growth
of the log without a limit: no bound exists in the code to state. Denial pages, header fields,
byte counts and log wording.
Upstream handlers that send a second final status.

**Exceptions.** Some things the code leaves open are modelled, and the properties that would
be false without them name them as exceptions:

- *Validators of another URL, or of another document of the same one*
  (`resolver.go:152-157,181-182`): a site that takes an ETag or a date for its own answers 304,
  and the paths it never published stay for as long as nothing changes. `ValidatorNamesPaths`
  and `AnswerIsCurrent` are about snapshots that one URL gave, which is `Uniform`;
  `EventuallyCurrent` about a resolver that is not `Misled` at the moment the sites settle.
- *A 200 of zero bytes* (`resolver.go:167`) keeps the paths and takes the validators. Those
  three properties are about URLs that serve text.
- *Writes cut short* (`logging.go:224,421`): the end of a rewrite is lost, and an event behind
  a torn line is glued to it (`cut` in `NoEventLost`). The portal may refuse the file for that
  line ever after; `HealthyLogIsShipped` is about files without one.
- *A refusal taken for success* (`logging.go:332,509`) loses the events of the payload
  (`misread`), although `TestEventLoggerShipFailsOnJSONErrorField` has a refused shipment keep
  them: the answer in that test is short, and declared JSON.
- *Hops that the client wrote* (`utils.go:51,84`): where headers count, the first candidate
  that parses wins. With the default, empty list of trusted proxies that is whatever anybody
  writes (`CONFIGURATION.md:185` calls it untrusted for access control), and behind a proxy that
  appends it is the client's part of the header. `ClaimIsVerified` then only says that some
  offered address fits the name; in all other cases, that one does which the client did not
  write.
- *Events that are missing or wrong* (`main.go:97,109`): none is logged when the upstream
  handler panics, and one with a status of 103 when it sends that and no other header.
  `ARCHITECTURE.md:55,220` promise an event for every allowed request, and name no exception;
  `ProtectedIsLogged` names these two.
- *Policy keys that collide* (`policy.go:35`): which value wins is decided by the order of a map.
  `PolicyIsFollowed` orders something only where the keys of a bot or a category agree.

## 7. Plan

Everything of the first plan is written: the four components with shared state, the
decision, the composition, the abstract specifications and the proofs of all safety
properties. What could follow:

1. The merge of rules (`mergeBotDefs`) on the records of `Decision`, so that `Botwall` also
   meets indexes made of two sources.
2. The key file as an envelope that a changed configuration may not be able to read.
3. What loggers that share a file can still lose, and what they cannot, as theorems without
   `OneLogger`.
