------------------------------ MODULE Resolver ------------------------------
(***************************************************************************)
(* ProtectedResolver of resolver.go: the protected paths a site publishes  *)
(* in its recognyze document, cached in memory for the request path,       *)
(* refreshed in the background and saved to a file for the next start.     *)
(*                                                                         *)
(* Threads are the goroutines that serve requests (IsProtected), Workers   *)
(* the goroutines that refreshIfDue starts.  An instant is kept as the     *)
(* time left until it: due is what remains until NextRefreshAt, 0 when the *)
(* instant has passed; it is the only instant a decision reads.  FetchedAt,  *)
(* ExpiresAt, RecognyzeURL, Source and LastError are reported to the log   *)
(* and never read back, so they are left out.                              *)
(*                                                                         *)
(* A snapshot keeps the two validators of http_utils.go, the ETag and the  *)
(* Last-Modified date, each with a fallback of its own, and sends both to  *)
(* whatever URL discovery leads to next.  An ETag tells the documents of   *)
(* one URL apart, and a date only says how old a document may be, so a     *)
(* site may well answer 304 to a validator that another URL gave.          *)
(***************************************************************************)
EXTENDS Integers

CONSTANTS
  Threads, Workers,   \* request goroutines, and identities for refresh goroutines
  Hosts,              \* values of the Host header
  URLs,               \* discovery URLs
  Paths,              \* entries a recognyze document may list
  ETags,              \* values of the ETag header
  ETagOf,             \* the ETag a URL sends with a document, Unset for none
  Dated,              \* <<URL, document>> sent with a Last-Modified date
  MaxDate,            \* bound: the documents of a URL have dates up to it
  EmptyBody,          \* no bytes: a 304, or a 200 of zero bytes
  Unset,              \* a header that is missing
  NoURL, NoHost,
  CacheTTL, RefreshBefore, RefreshJitter,  \* configured durations, in ticks
  RetryDelay, NoDirectiveDelay             \* 15 and 30 minutes, in ticks

Docs == SUBSET Paths          \* a document with text, as parseRecognyzePaths reads it
Bodies == Docs \cup {EmptyBody}
Dates == 1 .. MaxDate

ASSUME DelayAssumption ==
  /\ {CacheTTL, RefreshBefore, RefreshJitter, RetryDelay, NoDirectiveDelay} \subseteq Nat
  /\ RefreshBefore < CacheTTL          \* validateConfigTiming
  /\ RefreshJitter > 0                 \* rand.Int63n panics otherwise: not validated
  /\ RetryDelay > 0 /\ NoDirectiveDelay > 0

ASSUME NullAssumption ==
  /\ NoURL \notin URLs /\ NoHost \notin Hosts
  /\ Unset \notin ETags /\ Unset \notin Dates
  /\ \A d \in Docs : d # EmptyBody

\* HTTP's own promise, and no more: at one URL, documents that differ have different
\* ETags, when they have one.  Another URL may use the same ETag for another document.
ASSUME ValidatorAssumption ==
  /\ ETagOf \in [URLs \X Bodies -> ETags \cup {Unset}]
  /\ \A u \in URLs : \A b, c \in Bodies :
       ETagOf[u, b] = ETagOf[u, c] /\ ETagOf[u, b] # Unset => b = c
  /\ Dated \subseteq URLs \X Bodies
  /\ MaxDate \in Nat \ {0}

VARIABLES
  state,        \* r.state, guarded by r.mu
  refreshing,   \* r.refreshing, guarded by r.mu
  disk,         \* the snapshot loaded from cacheFile at the next start, Empty without one
  tpc,          \* [Threads]: where a request is in refreshIfDue
  thost,        \* [Threads]: the host of the request
  wpc,          \* [Workers]: where a refresh is
  job,          \* [Workers]: the local variables of a refresh
  cfgURL,       \* cfg.RecognyzeURL, NoURL when not configured
  site,         \* [URLs]: the document each URL serves, and its date
  robots,       \* [Hosts]: the directive of the host's robots.txt, or NoURL
  settled,      \* from now on the sites answer and stay as they are
  secured,      \* history: paths that some saved snapshot protected
  dropped       \* history: paths some document read by a refresh left out

resolver == <<state, refreshing, tpc, thost, wpc, job>>
environment == <<cfgURL, site, robots, settled>>
vars == <<state, refreshing, disk, tpc, thost, wpc, job, cfgURL, site, robots,
          settled, secured, dropped>>

\* origin is history, and no step reads it for anything else: the one URL that
\* everything in the snapshot came from, NoURL when there is no such URL.
Snapshots == [due : Nat, etag : ETags \cup {Unset}, date : Dates \cup {Unset},
              paths : SUBSET Paths, origin : URLs \cup {NoURL}]
Jobs == [host : Hosts \cup {NoHost}, url : URLs \cup {NoURL},
         etag : ETags \cup {Unset}, date : Dates \cup {Unset},
         paths : SUBSET Paths, origin : URLs \cup {NoURL}]

NoJob == [host |-> NoHost, url |-> NoURL, etag |-> Unset, date |-> Unset,
          paths |-> {}, origin |-> NoURL]

-----------------------------------------------------------------------------
(* The pure steps of refresh.                                              *)

\* NextRefreshAt after a success: expiry less refreshBeforeExpiry plus jitter.
MutEarlyRefresh(j) == RefreshBefore - CacheTTL + j
NextRefresh(j) == CacheTTL - RefreshBefore + j

\* NewProtectedResolver: an instance that finds no snapshot refreshes at once.
Empty == [due |-> 0, etag |-> Unset, date |-> Unset, paths |-> {}, origin |-> NoURL]

\* The paths after an answer: those of a body with text, else (304, or no bytes)
\* the ones the snapshot holds, which the refresh reads without the lock.
MutKeepPaths(body, held) == held
PathsAfter(body, held) == IF body # EmptyBody THEN body ELSE held

\* An answer without the header leaves the validator that was sent.
MutSentFirst(answered, sent) == IF sent # Unset THEN sent ELSE answered
fallbackString(answered, sent) == IF answered # Unset THEN answered ELSE sent

\* History: the paths and the validators are all the URL's if it sent the paths, or
\* if they were its already.
OriginAfter(u, body, origin) == IF body # EmptyBody \/ origin = u THEN u ELSE NoURL

\* After a fetch that failed: the same snapshot, and a retry in a quarter of an hour.
MutForget == [Empty EXCEPT !.due = RetryDelay]
MutNoRetry == state
KeptForRetry == [state EXCEPT !.due = RetryDelay]

-----------------------------------------------------------------------------
(* A request: refreshIfDue.                                                *)

\* The test made twice, under RLock and again under Lock.
IsDue == ~refreshing /\ state.due = 0

MutNoRecheck == TRUE
StillDue == IsDue

\* Under RLock: a request that finds nothing due goes on with the snapshot.
CheckDue(t, h) ==
  /\ tpc[t] = "idle"
  /\ IsDue
  /\ tpc' = [tpc EXCEPT ![t] = "recheck"]
  /\ thost' = [thost EXCEPT ![t] = h]
  /\ UNCHANGED <<state, refreshing, disk, wpc, job, environment, secured, dropped>>

\* Under Lock: someone else started the refresh, or finished one, in between.
NotDue(t) ==
  /\ tpc[t] = "recheck"
  /\ ~StillDue
  /\ tpc' = [tpc EXCEPT ![t] = "idle"]
  /\ thost' = [thost EXCEPT ![t] = NoHost]
  /\ UNCHANGED <<state, refreshing, disk, wpc, job, environment, secured, dropped>>

\* Under Lock: still due, so this request starts the refresh of its host.
StartRefresh(t, k) ==
  /\ tpc[t] = "recheck"
  /\ wpc[k] = "idle"
  /\ StillDue
  /\ refreshing' = TRUE
  /\ tpc' = [tpc EXCEPT ![t] = "idle"]
  /\ thost' = [thost EXCEPT ![t] = NoHost]
  /\ wpc' = [wpc EXCEPT ![k] = "discover"]
  /\ job' = [job EXCEPT ![k] = [NoJob EXCEPT !.host = thost[t]]]
  /\ UNCHANGED <<state, disk, environment, secured, dropped>>

-----------------------------------------------------------------------------
(* The refresh goroutine.                                                  *)

RefreshUnchanged == UNCHANGED <<tpc, thost, environment, secured>>

\* A configured URL wins over the directive of robots.txt (extractRecognyzeURL).
DiscoveryURL(h) == IF cfgURL # NoURL THEN cfgURL ELSE robots[h]

\* The discovery URL is known: read the validators of the snapshot under RLock,
\* whatever URL they came from.
Discovered(k, u) ==
  /\ wpc[k] = "discover"
  /\ u \in URLs /\ u = DiscoveryURL(job[k].host)
  /\ wpc' = [wpc EXCEPT ![k] = "fetch"]
  /\ job' = [job EXCEPT ![k] = [NoJob EXCEPT !.url = u, !.etag = state.etag,
                                                     !.date = state.date]]
  /\ UNCHANGED <<state, refreshing, disk, dropped>> /\ RefreshUnchanged

\* robots.txt has no directive: try again in half an hour.
NoDirective(k) ==
  /\ wpc[k] = "discover"
  /\ DiscoveryURL(job[k].host) = NoURL
  /\ state' = [state EXCEPT !.due = NoDirectiveDelay]
  /\ wpc' = [wpc EXCEPT ![k] = "done"]
  /\ job' = [job EXCEPT ![k] = NoJob]
  /\ UNCHANGED <<refreshing, disk, dropped>> /\ RefreshUnchanged

\* robots.txt cannot be fetched: refresh returns the error.
RobotsFails(k) ==
  /\ wpc[k] = "discover"
  /\ cfgURL = NoURL /\ ~settled
  /\ wpc' = [wpc EXCEPT ![k] = "done"]
  /\ job' = [job EXCEPT ![k] = NoJob]
  /\ UNCHANGED <<state, refreshing, disk, dropped>> /\ RefreshUnchanged

\* The document cannot be fetched: the snapshot stays, a retry is scheduled.
FetchFails(k) ==
  /\ wpc[k] = "fetch" /\ ~settled
  /\ state' = KeptForRetry
  /\ wpc' = [wpc EXCEPT ![k] = "done"]
  /\ job' = [job EXCEPT ![k] = NoJob]
  /\ UNCHANGED <<refreshing, disk, dropped>> /\ RefreshUnchanged

\* The validators that a URL sends with its document.
ETag(u) == ETagOf[u, site[u].body]
LastModified(u) == IF <<u, site[u].body>> \in Dated THEN site[u].date ELSE Unset

\* When a site may answer 304 to If-None-Match and If-Modified-Since: an ETag is
\* compared with an ETag; where one is missing, the date of the document must not be
\* later than the date sent.
NotModified(u, etag, date) ==
  IF etag # Unset /\ ETag(u) # Unset
  THEN etag = ETag(u)
  ELSE date # Unset /\ LastModified(u) # Unset /\ LastModified(u) <= date

\* An answer of the site: each validator falls back on its own.
Answered(k, body, etag, date) ==
  /\ wpc[k] = "fetch"
  /\ wpc' = [wpc EXCEPT ![k] = "apply"]
  /\ job' = [job EXCEPT ![k].etag = fallbackString(etag, job[k].etag),
                        ![k].date = fallbackString(date, job[k].date),
                        ![k].paths = PathsAfter(body, state.paths),
                        ![k].origin = OriginAfter(job[k].url, body, state.origin)]
  /\ UNCHANGED <<state, refreshing, disk>> /\ RefreshUnchanged

\* 200: the document, which the site may send whatever the request said.
FetchOK(k) ==
  LET u == job[k].url  body == site[u].body IN
  /\ Answered(k, body, ETag(u), LastModified(u))
  /\ dropped' = IF body # EmptyBody THEN dropped \cup (Paths \ body) ELSE dropped

\* 304: no bytes, with the validators of the document or without them.
FetchNotModified(k) ==
  LET u == job[k].url IN
  /\ wpc[k] = "fetch"
  /\ NotModified(u, job[k].etag, job[k].date)
  /\ \E etag \in {Unset, ETag(u)}, date \in {Unset, LastModified(u)} :
       Answered(k, EmptyBody, etag, date)
  /\ UNCHANGED dropped

\* Under Lock: the new snapshot replaces the old one as a whole.
Apply(k) ==
  \E j \in 0 .. RefreshJitter - 1 :
    /\ wpc[k] = "apply"
    /\ state' = [due |-> NextRefresh(j), etag |-> job[k].etag, date |-> job[k].date,
                  paths |-> job[k].paths, origin |-> job[k].origin]
    /\ wpc' = [wpc EXCEPT ![k] = "save"]
    /\ job' = [job EXCEPT ![k] = NoJob]
    /\ UNCHANGED <<refreshing, disk, dropped>> /\ RefreshUnchanged

\* saveSnapshot: temporary file, fsync and rename, so all or nothing.
Save(k) ==
  /\ wpc[k] = "save"
  /\ disk' = state
  /\ secured' = secured \cup state.paths
  /\ wpc' = [wpc EXCEPT ![k] = "done"]
  /\ UNCHANGED <<state, refreshing, tpc, thost, job, environment, dropped>>

SaveFails(k) ==
  /\ wpc[k] = "save" /\ ~settled
  /\ wpc' = [wpc EXCEPT ![k] = "done"]
  /\ UNCHANGED <<state, refreshing, disk, job, dropped>> /\ RefreshUnchanged

\* The deferred function, whatever the outcome was.
MutFinishOnlyIfScheduled(k) ==
  /\ wpc[k] = "done"
  /\ refreshing' = (state.due = 0)
  /\ wpc' = [wpc EXCEPT ![k] = "idle"]
  /\ UNCHANGED <<state, disk, job, dropped>> /\ RefreshUnchanged

Finish(k) ==
  /\ wpc[k] = "done"
  /\ refreshing' = FALSE
  /\ wpc' = [wpc EXCEPT ![k] = "idle"]
  /\ UNCHANGED <<state, disk, job, dropped>> /\ RefreshUnchanged

-----------------------------------------------------------------------------
(* Restart and environment.                                                *)

\* The process stops at any point, and New builds a resolver from the file,
\* perhaps with another recognyzeURL than the one the snapshot came from.
Restart(u) ==
  /\ ~settled
  /\ state' = disk
  /\ refreshing' = FALSE
  /\ tpc' = [t \in Threads |-> "idle"] /\ thost' = [t \in Threads |-> NoHost]
  /\ wpc' = [k \in Workers |-> "idle"] /\ job' = [k \in Workers |-> NoJob]
  /\ cfgURL' = u
  /\ UNCHANGED <<disk, site, robots, settled, secured, dropped>>

Earlier(snapshot) ==
  [snapshot EXCEPT !.due = IF snapshot.due > 0 THEN snapshot.due - 1 ELSE 0]

Tick ==
  /\ state' = Earlier(state)
  /\ disk' = Earlier(disk)
  /\ UNCHANGED <<refreshing, tpc, thost, wpc, job, environment, secured, dropped>>

SendsDates(u) == \E b \in Bodies : <<u, b>> \in Dated

\* A document that replaces another one has a later date.  (Where no date is ever sent,
\* none is kept.)
Publish(u, b, d) ==
  /\ ~settled
  /\ IF SendsDates(u) THEN d > site[u].date ELSE d = site[u].date
  /\ site' = [site EXCEPT ![u] = [body |-> b, date |-> d]]
  /\ UNCHANGED <<resolver, disk, cfgURL, robots, settled, secured, dropped>>

EditRobots(h, u) ==
  /\ ~settled
  /\ robots' = [robots EXCEPT ![h] = u]
  /\ UNCHANGED <<resolver, disk, cfgURL, site, settled, secured, dropped>>

Settle ==
  /\ settled' = TRUE
  /\ UNCHANGED <<resolver, disk, cfgURL, site, robots, secured, dropped>>

-----------------------------------------------------------------------------
Init ==
  /\ disk = Empty /\ state = Empty
  /\ refreshing = FALSE
  /\ tpc = [t \in Threads |-> "idle"] /\ thost = [t \in Threads |-> NoHost]
  /\ wpc = [k \in Workers |-> "idle"] /\ job = [k \in Workers |-> NoJob]
  /\ cfgURL \in URLs \cup {NoURL}
  /\ site \in [URLs -> [body : Bodies, date : Dates]]
  /\ \A u \in URLs : SendsDates(u) \/ site[u].date = 1
  /\ robots \in [Hosts -> URLs \cup {NoURL}]
  /\ settled = FALSE /\ secured = {} /\ dropped = {}

Request(t) ==
  \/ \E h \in Hosts : CheckDue(t, h)
  \/ NotDue(t)
  \/ \E k \in Workers : StartRefresh(t, k)

Refresh(k) ==
  \/ \E u \in URLs : Discovered(k, u)
  \/ NoDirective(k) \/ RobotsFails(k)
  \/ FetchFails(k) \/ FetchOK(k) \/ FetchNotModified(k)
  \/ Apply(k) \/ Save(k) \/ SaveFails(k) \/ Finish(k)

Environment ==
  \/ \E u \in URLs \cup {NoURL} : Restart(u)
  \/ \E u \in URLs, b \in Bodies, d \in Dates : Publish(u, b, d)
  \/ \E h \in Hosts, u \in URLs \cup {NoURL} : EditRobots(h, u)
  \/ Settle

Next ==
  \/ \E t \in Threads : Request(t)
  \/ \E k \in Workers : Refresh(k)
  \/ Tick
  \/ Environment

Spec == Init /\ [][Next]_vars

\* Requests keep arriving and are scheduled, a refresh goes on (the client gives
\* up on an answer after 10 s), and time passes.  Nothing makes a fetch fail or
\* succeed, a site change, or the process stop.
Fairness ==
  /\ \A t \in Threads : WF_vars(Request(t))
  /\ \A k \in Workers : WF_vars(Refresh(k))
  /\ WF_vars(Tick)

LiveSpec == Spec /\ Fairness

-----------------------------------------------------------------------------
(* Properties.                                                             *)

\* Every variable stays in its type; a refresh's locals are set only in between.
TypeOK ==
  /\ state \in Snapshots /\ disk \in Snapshots
  /\ refreshing \in BOOLEAN /\ settled \in BOOLEAN
  /\ tpc \in [Threads -> {"idle", "recheck"}]
  /\ thost \in [Threads -> Hosts \cup {NoHost}]
  /\ wpc \in [Workers -> {"idle", "discover", "fetch", "apply", "save", "done"}]
  /\ job \in [Workers -> Jobs]
  /\ cfgURL \in URLs \cup {NoURL}
  /\ site \in [URLs -> [body : Bodies, date : Dates]]
  /\ robots \in [Hosts -> URLs \cup {NoURL}]
  /\ secured \subseteq Paths /\ dropped \subseteq Paths

Active(k) == wpc[k] # "idle"

\* However the requests interleave between the check under the read lock and the
\* one under the write lock, at most one refresh is in flight (refreshIfDue), which
\* is also what makes the unlocked read of r.state in refresh safe.
SingleFlight == \A k, l \in Workers : Active(k) /\ Active(l) => k = l

\* The flag that keeps requests from starting a refresh is never left behind by one
\* that is gone, whatever its outcome was: else nothing would ever be refreshed again.
FlagMeansFlight == refreshing => \E k \in Workers : Active(k)

\* A URL that sends an ETag with every document, or with none; and then it sends a date
\* with every document, or with none.
AlwaysETag(u) == \A b \in Bodies : ETagOf[u, b] # Unset
OnlyDates(u) == \A b \in Bodies : ETagOf[u, b] = Unset /\ <<u, b>> \in Dated
NoValidators(u) == \A b \in Bodies : ETagOf[u, b] = Unset /\ <<u, b>> \notin Dated
Uniform(u) == AlwaysETag(u) \/ OnlyDates(u) \/ NoValidators(u)

\* A 304 to the validators of the snapshot, from the URL it came from, can only mean
\* the document whose paths are beside them.
NamesPaths(snapshot) ==
  LET u == snapshot.origin IN
  ( /\ u # NoURL /\ Uniform(u) /\ site[u].body # EmptyBody
    /\ NotModified(u, snapshot.etag, snapshot.date) )
  => site[u].body = snapshot.paths

\* Through documents that change and change back, failures and restarts, refresh never
\* leaves in memory or on disk validators that make the URL they came from answer 304
\* for another document than that of the paths beside them.  (Two fallbacks make this
\* false of a URL that sends an ETag with one document and only a date with the next:
\* the ETag of the first stays beside the paths of the second.  Of a URL that gave
\* neither the validators nor the paths it says nothing.)
ValidatorNamesPaths == NamesPaths(state) /\ NamesPaths(disk)

\* A path that was protected by a saved snapshot stays protected, through failed
\* fetches, failed saves and restarts, until a document leaves it out.
ProtectionIsDurable == secured \subseteq state.paths \cup dropped

Busy(phases) == \E k \in Workers : wpc[k] \in phases

InUse(snapshot) ==
  [etag |-> snapshot.etag, date |-> snapshot.date, paths |-> snapshot.paths]
RefreshPhase ==
  IF Busy({"discover", "fetch", "apply"}) THEN "looking"
  ELSE IF Busy({"save"}) THEN "keeping" ELSE IF Busy({"done"}) THEN "ending" ELSE "none"

Promise == INSTANCE RefreshedValue WITH
  Values <- [etag : ETags \cup {Unset}, date : Dates \cup {Unset}, paths : SUBSET Paths],
  Initial <- InUse(Empty), Own <- {},
  current <- InUse(state), kept <- {InUse(disk)}, phase <- RefreshPhase

\* Whatever the interleaving, the requests see one value that changes as a whole, at
\* the end of a refresh that brought a document or at a restart: the paths never go
\* with a refresh that failed, and a restart finds paths that were served once.
RefinesPromise == Promise!Spec

Gone(k) == wpc[k] \in {"discover", "fetch"} /\ wpc'[k] = "done"

\* A refresh of a configured recognyzeURL that ends without a snapshot has
\* scheduled its retry.
FailureSchedulesRetry ==
  [][cfgURL # NoURL => \A k \in Workers : Gone(k) => state'.due > 0]_vars

\* The same of every refresh, as the comment of refresh states it.
EveryFailureSchedulesRetry ==
  [][\A k \in Workers : Gone(k) => state'.due > 0]_vars

NothingSent(k) == job[k].etag = Unset /\ job[k].date = Unset

\* A refresh that got an answer, be it a 304 to validators it read before it sent the
\* request, goes on with the paths that the site serves then, also when a restart
\* brought the snapshot.  (The code sends the validators of one URL to another, which
\* may take them for those of its own document and keep the wrong paths with a 304; so
\* the snapshot must come from the URL asked, or nothing be sent.)
AnswerIsCurrent ==
  [][\A k \in Workers :
       LET u == job[k].url IN
       /\ wpc[k] = "fetch" /\ wpc'[k] = "apply"
       /\ site[u].body # EmptyBody
       /\ (Uniform(u) /\ state.origin = u) \/ NothingSent(k)
       => job'[k].paths = site[u].body]_vars

\* A refresh that was started ends, and leaves the resolver free to start another.
RefreshEnds == refreshing ~> ~refreshing

Targets == {u \in URLs : \E h \in Hosts : u = DiscoveryURL(h)}
Reachable ==
  \A h \in Hosts : DiscoveryURL(h) \in URLs /\ site[DiscoveryURL(h)].body # EmptyBody
Served == {site[u].body : u \in Targets}

\* Some URL that discovery leads to would take the validators that are kept, or that a
\* refresh is about to keep, for those of another document than that of the paths.
Misled ==
  \E s \in {state} \cup {job[k] : k \in {l \in Workers : wpc[l] = "apply"}} :
    \E u \in Targets : NotModified(u, s.etag, s.date) /\ site[u].body # s.paths

\* No refresh is asking a URL that discovery has left.
AsksTargets == \A k \in Workers : wpc[k] = "fetch" => job[k].url \in Targets

\* Once the sites answer and no longer change, the paths served are, from some moment
\* on, those of a document that discovery leads to.  Not so when the resolver is misled
\* at that moment: a site that takes an ETag or a date of another URL, or of another of
\* its documents, for its own answers 304 for good.  ValidatorNamesPaths says when that
\* cannot be.
EventuallyCurrent ==
  settled /\ Reachable /\ ~Misled /\ AsksTargets ~> [](state.paths \in Served)

=============================================================================
