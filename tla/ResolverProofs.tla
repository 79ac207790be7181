--------------------------- MODULE ResolverProofs ---------------------------
(***************************************************************************)
(* Proofs about Resolver, for any number of request goroutines, refresh    *)
(* goroutines, hosts, URLs and paths.                                      *)
(*                                                                         *)
(* The safety properties are not inductive by themselves: that validators  *)
(* name the paths beside them rests on what the validators of a URL may    *)
(* be, while its documents change, and on the local copies of a refresh    *)
(* agreeing with the snapshot, which rests on no other refresh writing the *)
(* snapshot in between.  Inv adds those facts.                             *)
(***************************************************************************)
EXTENDS Resolver, TLAPS

\* A refresh in flight is announced by the flag that keeps others from starting.
FlagCoversFlight == \A k \in Workers : Active(k) => refreshing

\* A snapshot that all came from u, when u serves doc: its ETag is that of its paths, or
\* of a body of zero bytes since; its date is that of its paths, or of such a body, and
\* no later than that of doc.
Fits(s, u, doc) ==
  /\ AlwaysETag(u) => s.etag = ETagOf[u, s.paths] \/ s.etag = ETagOf[u, EmptyBody]
  /\ OnlyDates(u) =>
       /\ s.date \in Dates /\ s.date <= doc.date
       /\ s.date = doc.date => doc.body = s.paths \/ doc.body = EmptyBody

Coherent(s) == s.origin \in URLs => Fits(s, s.origin, site[s.origin])

SnapshotsFit == Coherent(state) /\ Coherent(disk)

\* What a refresh holds in its local variables is still true of the snapshot.
LocalsAgree ==
  \A k \in Workers :
    /\ wpc[k] = "fetch" =>
         job[k].url \in URLs /\ job[k].etag = state.etag /\ job[k].date = state.date
    /\ wpc[k] = "apply" => Coherent(job[k])

\* Wherever the next snapshot can come from, it protects what was secured.
SecuredEverywhere ==
  /\ secured \subseteq state.paths \cup dropped
  /\ secured \subseteq disk.paths \cup dropped
  /\ \A k \in Workers : wpc[k] = "apply" => secured \subseteq job[k].paths \cup dropped

\* The host of a request stays with what it sets off until discovery is done.
HostsKnown ==
  /\ \A t \in Threads : tpc[t] = "recheck" => thost[t] \in Hosts
  /\ \A k \in Workers : wpc[k] = "discover" => job[k].host \in Hosts

Inv ==
  /\ TypeOK
  /\ SingleFlight
  /\ FlagCoversFlight
  /\ FlagMeansFlight
  /\ HostsKnown
  /\ SnapshotsFit
  /\ LocalsAgree
  /\ SecuredEverywhere

-----------------------------------------------------------------------------

\* NewProtectedResolver starts with nothing in flight and an empty snapshot.
LEMMA InitInv == Init => Inv
<1> SUFFICES ASSUME Init PROVE Inv
  OBVIOUS
<1> USE DEF Init
<1>1. TypeOK
  BY DEF TypeOK, Empty, Snapshots, Jobs, NoJob, Bodies
<1>2. SingleFlight /\ FlagCoversFlight /\ FlagMeansFlight /\ HostsKnown
  BY DEF SingleFlight, FlagCoversFlight, FlagMeansFlight, HostsKnown, Active
<1>3. SnapshotsFit
  BY NullAssumption DEF SnapshotsFit, Coherent, Empty
<1>4. LocalsAgree /\ SecuredEverywhere
  BY DEF LocalsAgree, SecuredEverywhere, Empty
<1> QED
  BY <1>1, <1>2, <1>3, <1>4 DEF Inv

\* The delays computed after a success are instants to come.
LEMMA NextRefreshPositive ==
  ASSUME NEW j \in 0 .. RefreshJitter - 1
  PROVE NextRefresh(j) \in Nat /\ NextRefresh(j) > 0
  BY DelayAssumption DEF NextRefresh

\* What a site sends with its document, and what it may answer 304 to, in one place.
LEMMA Validators ==
  ASSUME NEW u \in URLs, site[u] \in [body : Bodies, date : Dates]
  PROVE  /\ ETag(u) \in ETags \cup {Unset} /\ LastModified(u) \in Dates \cup {Unset}
         /\ AlwaysETag(u) => ETag(u) # Unset
         /\ OnlyDates(u) => ETag(u) = Unset /\ LastModified(u) = site[u].date
         /\ NoValidators(u) => ETag(u) = Unset /\ LastModified(u) = Unset
  BY ValidatorAssumption, NullAssumption
     DEF ETag, LastModified, AlwaysETag, OnlyDates, NoValidators

\* An ETag is that of one document of its URL.
LEMMA ETagNames ==
  ASSUME NEW u \in URLs, AlwaysETag(u), NEW b \in Bodies, NEW c \in Bodies,
         ETagOf[u, b] = ETagOf[u, c]
  PROVE  b = c
  BY ValidatorAssumption DEF AlwaysETag

\* Validators that fit what their URL serves name the paths beside them.
LEMMA FittingNames ==
  ASSUME NEW s, s.origin \in URLs \cup {NoURL}, s.paths \in SUBSET Paths, Coherent(s),
         site \in [URLs -> [body : Bodies, date : Dates]]
  PROVE  NamesPaths(s)
<1> DEFINE u == s.origin
<1> SUFFICES ASSUME u \in URLs, Uniform(u), site[u].body # EmptyBody,
                    NotModified(u, s.etag, s.date)
             PROVE  site[u].body = s.paths
  BY DEF NamesPaths
<1>1. /\ site[u].body \in Bodies /\ s.paths \in Bodies /\ EmptyBody \in Bodies
      /\ site[u].date \in Nat
  BY DEF Bodies, Docs, Dates
<1>2. Fits(s, u, site[u])
  BY DEF Coherent
<1>3. CASE AlwaysETag(u)
  <2>1. ETag(u) # Unset /\ s.etag # Unset
    BY <1>1, <1>2, <1>3, Validators DEF Fits, AlwaysETag
  <2>2. s.etag = ETagOf[u, site[u].body]
    BY <2>1 DEF NotModified, ETag
  <2> QED
    BY <1>1, <1>2, <1>3, <2>2, ETagNames DEF Fits
<1>4. CASE OnlyDates(u)
  <2>1. ETag(u) = Unset /\ LastModified(u) = site[u].date
    BY <1>4, Validators
  <2>2. site[u].date <= s.date
    BY <2>1 DEF NotModified
  <2>3. s.date \in Dates /\ s.date <= site[u].date
    BY <1>2, <1>4 DEF Fits
  <2>4. s.date \in Nat
    BY <2>3 DEF Dates
  <2>5. s.date = site[u].date
    BY <1>1, <2>2, <2>3, <2>4
  <2> QED
    BY <1>2, <1>4, <2>5 DEF Fits
<1>5. CASE NoValidators(u)
  BY <1>5, Validators DEF NotModified
<1> QED
  BY <1>3, <1>4, <1>5 DEF Uniform

\* A document pairs its paths with its own validators, and a body of zero bytes its own
\* with what was there, when they are the URL's.
LEMMA DocumentFits ==
  ASSUME NEW u \in URLs, NEW held \in SUBSET Paths, NEW e, NEW d, NEW origin, NEW r,
         site \in [URLs -> [body : Bodies, date : Dates]],
         r.etag = fallbackString(ETag(u), e), r.date = fallbackString(LastModified(u), d),
         r.paths = PathsAfter(site[u].body, held),
         r.origin = OriginAfter(u, site[u].body, origin)
  PROVE  Coherent(r)
<1> DEFINE body == site[u].body
<1> SUFFICES ASSUME r.origin = u PROVE Fits(r, u, site[u])
  BY NullAssumption DEF Coherent, OriginAfter
<1>1. body \in Bodies /\ site[u].date \in Dates
  OBVIOUS
<1>2. body = EmptyBody \/ r.paths = body
  BY DEF PathsAfter
<1>3. ASSUME AlwaysETag(u) PROVE r.etag = ETagOf[u, body]
  BY <1>3, Validators DEF fallbackString, ETag
<1>4. ASSUME OnlyDates(u) PROVE r.date = site[u].date
  BY <1>4, Validators, NullAssumption DEF fallbackString
<1>5. \A n \in Dates : n <= n
  BY DEF Dates
<1> QED
  BY <1>1, <1>2, <1>3, <1>4, <1>5 DEF Fits

\* A 304 leaves validators and paths as they are, but for a date that is the same: the
\* document is no older than the snapshot that came from its URL.
LEMMA NotModifiedFits ==
  ASSUME NEW u \in URLs, NEW s, Coherent(s), NotModified(u, s.etag, s.date),
         site \in [URLs -> [body : Bodies, date : Dates]],
         s.paths \in SUBSET Paths,
         NEW e \in {Unset, ETag(u)}, NEW d \in {Unset, LastModified(u)}, NEW r,
         r.etag = fallbackString(e, s.etag), r.date = fallbackString(d, s.date),
         r.paths = PathsAfter(EmptyBody, s.paths),
         r.origin = OriginAfter(u, EmptyBody, s.origin)
  PROVE  Coherent(r)
<1> SUFFICES ASSUME r.origin = u, u # NoURL PROVE Fits(r, u, site[u])
  BY NullAssumption DEF Coherent, OriginAfter
<1>1. s.origin = u /\ Fits(s, u, site[u]) /\ r.paths = s.paths
  BY DEF OriginAfter, Coherent, PathsAfter
<1>2. s.paths \in Bodies /\ EmptyBody \in Bodies
  BY DEF Bodies, Docs
<1>3. ASSUME AlwaysETag(u) PROVE r.etag = s.etag
  <2>1. s.etag # Unset
    BY <1>1, <1>2, <1>3 DEF Fits, AlwaysETag
  <2>2. s.etag = ETag(u)
    BY <1>3, <2>1, Validators DEF NotModified
  <2> QED
    BY <2>2 DEF fallbackString
<1>4. ASSUME OnlyDates(u) PROVE r.date = s.date
  <2>1. s.date \in Dates /\ site[u].date \in Dates /\ s.date <= site[u].date
    BY <1>1, <1>4 DEF Fits
  <2>2. ETag(u) = Unset /\ LastModified(u) = site[u].date
    BY <1>4, Validators
  <2>3. site[u].date <= s.date
    BY <2>2 DEF NotModified
  <2>4. s.date = site[u].date
    BY <2>1, <2>3 DEF Dates
  <2> QED
    BY <2>2, <2>4 DEF fallbackString
<1> QED
  BY <1>1, <1>3, <1>4 DEF Fits

\* A document that replaces another one has a later date than any snapshot.
LEMMA PublishFits ==
  ASSUME NEW s, NEW v \in URLs, NEW u \in URLs, NEW b \in Bodies, NEW d \in Dates,
         NEW doc \in [body : Bodies, date : Dates], Fits(s, v, doc),
         v = u => IF SendsDates(u) THEN d > doc.date ELSE d = doc.date
  PROVE  Fits(s, v, IF v = u THEN [body |-> b, date |-> d] ELSE doc)
<1> SUFFICES ASSUME v = u, OnlyDates(u)
             PROVE  s.date \in Dates /\ s.date <= d /\ s.date # d
  BY DEF Fits
<1>1. SendsDates(u)
  BY DEF OnlyDates, SendsDates, Bodies
<1>2. s.date \in Dates /\ s.date <= doc.date /\ d > doc.date
  BY <1>1 DEF Fits
<1> QED
  BY <1>2 DEF Dates

\* The environment changes no snapshot, and the documents only as PublishFits says.
LEMMA EnvironmentFits ==
  ASSUME TypeOK, NEW u \in URLs, NEW b \in Bodies, NEW d \in Dates, Publish(u, b, d),
         NEW s, Coherent(s)
  PROVE  s.origin \in URLs => Fits(s, s.origin, site'[s.origin])
<1> SUFFICES ASSUME s.origin \in URLs PROVE Fits(s, s.origin, site'[s.origin])
  OBVIOUS
<1> DEFINE v == s.origin
<1>1. site[v] \in [body : Bodies, date : Dates] /\ Fits(s, v, site[v])
  BY DEF TypeOK, Coherent
<1>2. v = u => IF SendsDates(u) THEN d > site[v].date ELSE d = site[v].date
  BY DEF Publish
<1>3. site'[v] = IF v = u THEN [body |-> b, date |-> d] ELSE site[v]
  BY DEF Publish, TypeOK
<1> QED
  BY <1>1, <1>2, <1>3, PublishFits

\* Recording an answer keeps a refresh's local variables in their type.
LEMMA AnswerTyped ==
  ASSUME TypeOK, NEW k \in Workers, job[k].url \in URLs, NEW body \in Bodies,
         NEW etag \in ETags \cup {Unset}, NEW date \in Dates \cup {Unset},
         Answered(k, body, etag, date)
  PROVE  /\ job' \in [Workers -> Jobs]
         /\ wpc' = [wpc EXCEPT ![k] = "apply"]
         /\ job'[k].etag = fallbackString(etag, job[k].etag)
         /\ job'[k].date = fallbackString(date, job[k].date)
         /\ job'[k].paths = PathsAfter(body, state.paths)
         /\ job'[k].origin = OriginAfter(job[k].url, body, state.origin)
         /\ \A l \in Workers : l # k => job'[l] = job[l]
<1> DEFINE e == fallbackString(etag, job[k].etag)
           d == fallbackString(date, job[k].date)
           p == PathsAfter(body, state.paths)
           o == OriginAfter(job[k].url, body, state.origin)
<1>1. job[k] \in Jobs
  BY DEF TypeOK
<1>2. e \in ETags \cup {Unset} /\ d \in Dates \cup {Unset}
  BY <1>1 DEF fallbackString, Jobs
<1>3. p \in SUBSET Paths /\ o \in URLs \cup {NoURL}
  BY DEF PathsAfter, OriginAfter, Bodies, Docs, TypeOK, Snapshots
<1>4. job' = [job EXCEPT ![k] = [job[k] EXCEPT !.etag = e, !.date = d, !.paths = p,
                                               !.origin = o]]
  BY DEF Answered, TypeOK
<1> HIDE DEF e, d, p, o
<1>5. [job[k] EXCEPT !.etag = e, !.date = d, !.paths = p, !.origin = o] \in Jobs
  BY <1>1, <1>2, <1>3 DEF Jobs
<1>6. job'[k] = [job[k] EXCEPT !.etag = e, !.date = d, !.paths = p, !.origin = o]
  BY <1>4 DEF TypeOK
<1>7. /\ job'[k].etag = e /\ job'[k].date = d /\ job'[k].paths = p
      /\ job'[k].origin = o
  BY <1>1, <1>6 DEF Jobs
<1>8. job' \in [Workers -> Jobs] /\ \A l \in Workers : l # k => job'[l] = job[l]
  BY <1>4, <1>5 DEF TypeOK
<1> QED
  BY <1>7, <1>8 DEF Answered, e, d, p, o

\* Every step of a refresh that gets an answer is an Answered, whose validators the URL
\* sent or left out.
LEMMA AnswerIsAnswered ==
  ASSUME TypeOK, LocalsAgree, NEW k \in Workers, FetchOK(k) \/ FetchNotModified(k)
  PROVE  /\ wpc[k] = "fetch" /\ job[k].url \in URLs
         /\ site[job[k].url] \in [body : Bodies, date : Dates]
         /\ UNCHANGED <<state, refreshing, disk, tpc, thost, cfgURL, site, robots, settled,
                        secured>>
         /\ \E body \in Bodies, etag \in ETags \cup {Unset}, date \in Dates \cup {Unset} :
              Answered(k, body, etag, date)
<1> DEFINE u == job[k].url
<1>1. wpc[k] = "fetch" /\ u \in URLs /\ site[u] \in [body : Bodies, date : Dates]
  BY DEF FetchOK, FetchNotModified, Answered, LocalsAgree, TypeOK
<1>2. /\ ETag(u) \in ETags \cup {Unset} /\ LastModified(u) \in Dates \cup {Unset}
      /\ EmptyBody \in Bodies /\ site[u].body \in Bodies
  BY <1>1, Validators DEF Bodies
<1>3. \E body \in Bodies, etag \in ETags \cup {Unset}, date \in Dates \cup {Unset} :
        Answered(k, body, etag, date)
  BY <1>2 DEF FetchOK, FetchNotModified
<1> QED
  BY <1>1, <1>3 DEF Answered, RefreshUnchanged, environment

\* Every step keeps the types; Apply needs the locals it publishes to be set.
LEMMA TypeStep == TypeOK /\ LocalsAgree /\ [Next]_vars => TypeOK'
<1> SUFFICES ASSUME TypeOK, LocalsAgree, [Next]_vars PROVE TypeOK'
  OBVIOUS
<1> USE DEF TypeOK, Snapshots
<1>1. ASSUME NEW t \in Threads, Request(t) PROVE TypeOK'
  <2>1. ASSUME NEW h \in Hosts, CheckDue(t, h) PROVE TypeOK'
    BY <2>1 DEF CheckDue, environment
  <2>2. CASE NotDue(t)
    BY <2>2 DEF NotDue, environment
  <2>3. ASSUME NEW k \in Workers, StartRefresh(t, k) PROVE TypeOK'
    <3>1. [NoJob EXCEPT !.host = thost[t]] \in Jobs
      BY DEF NoJob, Jobs
    <3> QED
      BY <2>3, <3>1 DEF StartRefresh, environment
  <2> QED
    BY <1>1, <2>1, <2>2, <2>3 DEF Request
<1>2. ASSUME NEW k \in Workers, Refresh(k) PROVE TypeOK'
  <2> USE DEF RefreshUnchanged, environment
  <2>0. NoJob \in Jobs
    BY DEF NoJob, Jobs
  <2>1. ASSUME NEW u \in URLs, Discovered(k, u) PROVE TypeOK'
    <3>1. [NoJob EXCEPT !.url = u, !.etag = state.etag, !.date = state.date] \in Jobs
      BY DEF NoJob, Jobs
    <3> QED
      BY <2>1, <3>1 DEF Discovered
  <2>2. CASE NoDirective(k)
    BY <2>0, <2>2, DelayAssumption DEF NoDirective
  <2>3. CASE RobotsFails(k)
    BY <2>0, <2>3 DEF RobotsFails
  <2>4. CASE FetchFails(k)
    BY <2>0, <2>4, DelayAssumption DEF FetchFails, KeptForRetry
  <2>5. CASE FetchOK(k) \/ FetchNotModified(k)
    <3>1. PICK body \in Bodies, etag \in ETags \cup {Unset}, date \in Dates \cup {Unset} :
            Answered(k, body, etag, date)
      BY <2>5, AnswerIsAnswered
    <3>2. /\ job[k].url \in URLs
          /\ UNCHANGED <<state, refreshing, disk, tpc, thost, cfgURL, site, robots, settled,
                         secured>>
      BY <2>5, AnswerIsAnswered
    <3>3. job' \in [Workers -> Jobs] /\ wpc' = [wpc EXCEPT ![k] = "apply"]
      BY <3>1, <3>2, AnswerTyped
    <3>4. dropped' \subseteq Paths
      BY <2>5 DEF FetchOK, FetchNotModified
    <3> QED
      BY <3>2, <3>3, <3>4
  <2>7. CASE Apply(k)
    <3>1. PICK j \in 0 .. RefreshJitter - 1 :
            state' = [due |-> NextRefresh(j), etag |-> job[k].etag, date |-> job[k].date,
                      paths |-> job[k].paths, origin |-> job[k].origin]
      BY <2>7 DEF Apply
    <3>2. state' \in Snapshots
      BY <3>1, NextRefreshPositive DEF Jobs
    <3> QED
      BY <2>0, <2>7, <3>2 DEF Apply
  <2>8. CASE Save(k)
    BY <2>8 DEF Save
  <2>9. CASE SaveFails(k)
    BY <2>9 DEF SaveFails
  <2>10. CASE Finish(k)
    BY <2>10 DEF Finish
  <2> QED
    BY <1>2, <2>1, <2>2, <2>3, <2>4, <2>5, <2>7, <2>8, <2>9, <2>10 DEF Refresh
<1>3. CASE Tick
  BY <1>3 DEF Tick, Earlier, environment
<1>4. CASE Environment
  <2>1. ASSUME NEW u \in URLs \cup {NoURL}, Restart(u) PROVE TypeOK'
    <3>1. NoJob \in Jobs
      BY DEF NoJob, Jobs
    <3> QED
      BY <2>1, <3>1 DEF Restart
  <2>2. ASSUME NEW u \in URLs, NEW b \in Bodies, NEW d \in Dates, Publish(u, b, d)
        PROVE TypeOK'
    BY <2>2 DEF Publish, resolver
  <2>3. ASSUME NEW h \in Hosts, NEW u \in URLs \cup {NoURL}, EditRobots(h, u)
        PROVE TypeOK'
    BY <2>3 DEF EditRobots, resolver
  <2>4. CASE Settle
    BY <2>4 DEF Settle, resolver
  <2> QED
    BY <1>4, <2>1, <2>2, <2>3, <2>4 DEF Environment
<1>5. CASE UNCHANGED vars
  BY <1>5 DEF vars
<1> QED
  BY <1>1, <1>2, <1>3, <1>4, <1>5 DEF Next

\* A step of a refresh, or of a request that starts one, sees the others idle.
LEMMA FlightStep ==
  Inv /\ [Next]_vars => SingleFlight' /\ FlagCoversFlight'
<1> SUFFICES ASSUME Inv, [Next]_vars PROVE SingleFlight' /\ FlagCoversFlight'
  OBVIOUS
<1> USE DEF Inv, TypeOK, SingleFlight, FlagCoversFlight, Active
<1>1. ASSUME NEW t \in Threads, Request(t) PROVE SingleFlight' /\ FlagCoversFlight'
  <2>1. ASSUME NEW h \in Hosts, CheckDue(t, h) PROVE SingleFlight' /\ FlagCoversFlight'
    BY <2>1 DEF CheckDue
  <2>2. CASE NotDue(t)
    BY <2>2 DEF NotDue
  <2>3. ASSUME NEW k \in Workers, StartRefresh(t, k)
        PROVE SingleFlight' /\ FlagCoversFlight'
    <3>1. \A l \in Workers : wpc[l] = "idle"
      BY <2>3 DEF StartRefresh, StillDue, IsDue
    <3>2. refreshing' /\ wpc' = [wpc EXCEPT ![k] = "discover"]
      BY <2>3 DEF StartRefresh
    <3> QED
      BY <3>1, <3>2
  <2> QED
    BY <1>1, <2>1, <2>2, <2>3 DEF Request
<1>2. ASSUME NEW k \in Workers, Refresh(k) PROVE SingleFlight' /\ FlagCoversFlight'
  <2>1. CASE Finish(k)
    <3>1. \A l \in Workers : wpc[l] # "idle" => l = k
      BY <2>1 DEF Finish
    <3> QED
      BY <2>1, <3>1 DEF Finish
  <2>2. CASE ~Finish(k)
    <3>1. wpc[k] # "idle" /\ refreshing' = refreshing
      BY <1>2, <2>2 DEF Refresh, Discovered, NoDirective, RobotsFails, FetchFails,
           FetchOK, FetchNotModified, Answered, Apply, Save, SaveFails
    <3>2. \A l \in Workers : l # k => wpc'[l] = wpc[l]
      BY <1>2, <2>2 DEF Refresh, Discovered, NoDirective, RobotsFails, FetchFails,
           FetchOK, FetchNotModified, Answered, Apply, Save, SaveFails
    <3> QED
      BY <3>1, <3>2
  <2> QED
    BY <2>1, <2>2
<1>3. CASE Tick
  BY <1>3 DEF Tick
<1>4. CASE Environment
  BY <1>4 DEF Environment, Restart, Publish, EditRobots, Settle, resolver
<1>5. CASE UNCHANGED vars
  BY <1>5 DEF vars
<1> QED
  BY <1>1, <1>2, <1>3, <1>4, <1>5 DEF Next

\* The flag is set with the start of a refresh, and cleared with its end, not before:
\* no other step of a refresh leaves it idle.
LEMMA FlagStep == Inv /\ [Next]_vars => FlagMeansFlight'
<1> SUFFICES ASSUME Inv, [Next]_vars PROVE FlagMeansFlight'
  OBVIOUS
<1> USE DEF Inv, FlagMeansFlight, Active
<1>0. TypeOK
  OBVIOUS
<1>1. ASSUME NEW t \in Threads, Request(t) PROVE FlagMeansFlight'
  <2>1. ASSUME NEW k \in Workers, StartRefresh(t, k) PROVE FlagMeansFlight'
    <3>1. wpc'[k] = "discover"
      BY <1>0, <2>1 DEF StartRefresh, TypeOK
    <3> QED
      BY <3>1
  <2>2. CASE ~\E k \in Workers : StartRefresh(t, k)
    BY <1>1, <2>2 DEF Request, CheckDue, NotDue
  <2> QED
    BY <2>1, <2>2
<1>2. ASSUME NEW k \in Workers, Refresh(k) PROVE FlagMeansFlight'
  <2>1. CASE Finish(k)
    BY <2>1 DEF Finish
  <2>2. CASE ~Finish(k)
    <3>1. wpc'[k] # "idle"
      BY <1>0, <1>2, <2>2 DEF TypeOK, Refresh, Discovered, NoDirective, RobotsFails,
         FetchFails, FetchOK, FetchNotModified, Answered, Apply, Save, SaveFails
    <3> QED
      BY <3>1
  <2> QED
    BY <2>1, <2>2
<1>3. CASE Tick
  BY <1>3 DEF Tick
<1>4. CASE Environment
  BY <1>4 DEF Environment, Restart, Publish, EditRobots, Settle, resolver
<1>5. CASE UNCHANGED vars
  BY <1>5 DEF vars
<1> QED
  BY <1>1, <1>2, <1>3, <1>4, <1>5 DEF Next

\* A request keeps its host from the first check to the second, and hands it over.
LEMMA HostsStep == Inv /\ [Next]_vars => HostsKnown'
<1> SUFFICES ASSUME Inv, [Next]_vars PROVE HostsKnown'
  OBVIOUS
<1> USE DEF Inv, HostsKnown
<1>0. TypeOK
  OBVIOUS
<1>1. ASSUME NEW t \in Threads, Request(t) PROVE HostsKnown'
  <2>1. ASSUME NEW h \in Hosts, CheckDue(t, h) PROVE HostsKnown'
    <3>1. \A r \in Threads : thost'[r] = IF r = t THEN h ELSE thost[r]
      BY <1>0, <2>1 DEF CheckDue, TypeOK
    <3>2. \A r \in Threads : tpc'[r] = "recheck" => r = t \/ tpc[r] = "recheck"
      BY <1>0, <2>1 DEF CheckDue, TypeOK
    <3>3. UNCHANGED <<wpc, job>>
      BY <2>1 DEF CheckDue
    <3> QED
      BY <3>1, <3>2, <3>3
  <2>2. CASE NotDue(t)
    BY <1>0, <2>2 DEF NotDue, TypeOK
  <2>3. ASSUME NEW k \in Workers, StartRefresh(t, k) PROVE HostsKnown'
    <3>1. \A r \in Threads : tpc'[r] = "recheck" => tpc[r] = "recheck" /\ thost'[r] = thost[r]
      BY <1>0, <2>3 DEF StartRefresh, TypeOK
    <3>2. job'[k] = [NoJob EXCEPT !.host = thost[t]] /\ thost[t] \in Hosts
      BY <1>0, <2>3 DEF StartRefresh, TypeOK
    <3>3. job'[k].host \in Hosts
      BY <3>2 DEF NoJob
    <3>4. \A l \in Workers : l # k => wpc'[l] = wpc[l] /\ job'[l] = job[l]
      BY <1>0, <2>3 DEF StartRefresh, TypeOK
    <3> QED
      BY <3>1, <3>3, <3>4
  <2> QED
    BY <1>1, <2>1, <2>2, <2>3 DEF Request
<1>2. ASSUME NEW k \in Workers, Refresh(k) PROVE HostsKnown'
  <2>1. UNCHANGED <<tpc, thost>> /\ wpc'[k] # "discover"
    BY <1>0, <1>2 DEF TypeOK, Refresh, Discovered, NoDirective, RobotsFails,
       FetchFails, FetchOK, FetchNotModified, Answered, Apply, Save, SaveFails, Finish,
       RefreshUnchanged
  <2>2. \A l \in Workers : l # k => wpc'[l] = wpc[l] /\ job'[l] = job[l]
    BY <1>0, <1>2 DEF TypeOK, Refresh, Discovered, NoDirective, RobotsFails,
       FetchFails, FetchOK, FetchNotModified, Answered, Apply, Save, SaveFails, Finish
  <2> QED
    BY <2>1, <2>2
<1>3. CASE Tick
  BY <1>3 DEF Tick
<1>4. CASE Environment
  BY <1>4 DEF Environment, Restart, Publish, EditRobots, Settle, resolver
<1>5. CASE UNCHANGED vars
  BY <1>5 DEF vars
<1> QED
  BY <1>1, <1>2, <1>3, <1>4, <1>5 DEF Next

\* The locals of a refresh agree with the snapshot after any step: nobody else
\* writes the snapshot while the refresh is between its reads and its write.
LEMMA LocalsStep == Inv /\ [Next]_vars => LocalsAgree'
<1> SUFFICES ASSUME Inv, [Next]_vars PROVE LocalsAgree'
  OBVIOUS
<1> USE DEF Inv, LocalsAgree
<1>0. TypeOK
  OBVIOUS
<1>1. ASSUME NEW t \in Threads, Request(t) PROVE LocalsAgree'
  <2>1. ASSUME NEW h \in Hosts, CheckDue(t, h) PROVE LocalsAgree'
    BY <2>1 DEF CheckDue, environment, Coherent
  <2>2. CASE NotDue(t)
    BY <2>2 DEF NotDue, environment, Coherent
  <2>3. ASSUME NEW k \in Workers, StartRefresh(t, k) PROVE LocalsAgree'
    <3>1. wpc' = [wpc EXCEPT ![k] = "discover"] /\ state' = state
      BY <2>3 DEF StartRefresh
    <3>2. \A l \in Workers : l # k => job'[l] = job[l] /\ wpc'[l] = wpc[l]
      BY <1>0, <2>3 DEF StartRefresh, TypeOK
    <3>3. wpc'[k] = "discover"
      BY <1>0, <3>1 DEF TypeOK
    <3>4. ASSUME NEW l \in Workers, wpc'[l] = "apply" PROVE Coherent(job'[l])
      <4>1. wpc[l] = "apply" /\ job'[l] = job[l]
        BY <3>2, <3>3, <3>4
      <4> QED
        BY <4>1 DEF Coherent
    <3>5. ASSUME NEW l \in Workers, wpc'[l] = "fetch"
          PROVE  /\ job'[l].url \in URLs /\ job'[l].etag = state'.etag
                 /\ job'[l].date = state'.date
      BY <3>1, <3>2, <3>3, <3>5
    <3>6. site' = site
      BY <2>3 DEF StartRefresh, environment
    <3> QED
      BY <3>4, <3>5, <3>6 DEF Coherent
  <2> QED
    BY <1>1, <2>1, <2>2, <2>3 DEF Request
<1>2. ASSUME NEW k \in Workers, Refresh(k) PROVE LocalsAgree'
  <2>0. wpc[k] # "idle" /\ \A l \in Workers : wpc[l] # "idle" => l = k
    BY <1>2 DEF SingleFlight, Active, Refresh, Discovered, NoDirective, RobotsFails,
       FetchFails, FetchOK, FetchNotModified, Answered, Apply, Save, SaveFails, Finish
  <2>1. \A l \in Workers : l # k => wpc'[l] = "idle"
    BY <1>0, <1>2, <2>0 DEF TypeOK, Refresh, Discovered, NoDirective, RobotsFails,
       FetchFails, FetchOK, FetchNotModified, Answered, Apply, Save, SaveFails, Finish
  <2> DEFINE Mine == /\ wpc'[k] = "fetch" => /\ job'[k].url \in URLs
                                             /\ job'[k].etag = state'.etag
                                             /\ job'[k].date = state'.date
                     /\ wpc'[k] = "apply" => Coherent(job'[k])
  <2>4. site' = site
    BY <1>2 DEF Refresh, Discovered, NoDirective, RobotsFails, FetchFails, FetchOK,
       FetchNotModified, Answered, Apply, Save, SaveFails, Finish, RefreshUnchanged,
       environment
  <2> SUFFICES Mine
    BY <2>1, <2>4 DEF Coherent
  <2>2. ASSUME NEW u \in URLs, Discovered(k, u) PROVE Mine
    <3>1. wpc'[k] = "fetch" /\ state' = state
      BY <1>0, <2>2 DEF TypeOK, Discovered
    <3>2. job'[k] = [NoJob EXCEPT !.url = u, !.etag = state.etag, !.date = state.date]
      BY <1>0, <2>2 DEF TypeOK, Discovered
    <3> QED
      BY <3>1, <3>2 DEF NoJob
  <2>3. CASE FetchOK(k) \/ FetchNotModified(k)
    <3> DEFINE u == job[k].url
    <3>1. /\ wpc[k] = "fetch" /\ u \in URLs
          /\ site[u] \in [body : Bodies, date : Dates]
          /\ ETag(u) \in ETags \cup {Unset} /\ LastModified(u) \in Dates \cup {Unset}
          /\ EmptyBody \in Bodies /\ state.paths \in SUBSET Paths
          /\ site \in [URLs -> [body : Bodies, date : Dates]]
      BY <1>0, <2>3, AnswerIsAnswered, Validators DEF Bodies, TypeOK, Snapshots
    <3>2. ASSUME NEW body \in Bodies, NEW etag \in ETags \cup {Unset},
                 NEW date \in Dates \cup {Unset}, Answered(k, body, etag, date)
          PROVE  /\ wpc'[k] = "apply"
                 /\ job'[k].etag = fallbackString(etag, state.etag)
                 /\ job'[k].date = fallbackString(date, state.date)
                 /\ job'[k].paths = PathsAfter(body, state.paths)
                 /\ job'[k].origin = OriginAfter(u, body, state.origin)
      BY <1>0, <3>1, <3>2, AnswerTyped DEF TypeOK
    <3>3. CASE FetchOK(k)
      <4>1. Answered(k, site[u].body, ETag(u), LastModified(u)) /\ site[u].body \in Bodies
        BY <3>1, <3>3 DEF FetchOK
      <4> QED
        BY <3>1, <3>2, <4>1, DocumentFits
    <3>4. CASE FetchNotModified(k)
      <4>1. PICK etag \in {Unset, ETag(u)}, date \in {Unset, LastModified(u)} :
              Answered(k, EmptyBody, etag, date)
        BY <3>4 DEF FetchNotModified
      <4>2. etag \in ETags \cup {Unset} /\ date \in Dates \cup {Unset}
        BY <3>1
      <4>3. NotModified(u, state.etag, state.date) /\ Coherent(state)
        BY <3>1, <3>4 DEF FetchNotModified, SnapshotsFit
      <4>4. /\ wpc'[k] = "apply"
            /\ job'[k].etag = fallbackString(etag, state.etag)
            /\ job'[k].date = fallbackString(date, state.date)
            /\ job'[k].paths = PathsAfter(EmptyBody, state.paths)
            /\ job'[k].origin = OriginAfter(u, EmptyBody, state.origin)
        BY <3>1, <3>2, <4>1, <4>2
      <4>5. Coherent(job'[k])
        BY <3>1, <4>1, <4>3, <4>4, NotModifiedFits
      <4> QED
        BY <4>4, <4>5
    <3> QED
      BY <2>3, <3>3, <3>4
  <2>5. CASE NoDirective(k) \/ RobotsFails(k) \/ FetchFails(k) \/ Apply(k) \/ Save(k)
             \/ SaveFails(k) \/ Finish(k)
    <3>1. wpc'[k] \in {"save", "done", "idle"}
      BY <1>0, <2>5 DEF TypeOK, NoDirective, RobotsFails, FetchFails, Apply, Save,
         SaveFails, Finish
    <3> QED
      BY <3>1
  <2> QED
    BY <1>2, <2>2, <2>3, <2>5 DEF Refresh
<1>3. CASE Tick
  <2>1. /\ state'.etag = state.etag /\ state'.date = state.date
        /\ UNCHANGED <<wpc, job, site>>
    BY <1>0, <1>3 DEF Tick, Earlier, TypeOK, Snapshots, environment
  <2> QED
    BY <2>1 DEF Coherent
<1>4. CASE Environment
  <2>1. ASSUME NEW u \in URLs \cup {NoURL}, Restart(u) PROVE LocalsAgree'
    BY <2>1 DEF Restart
  <2>2. ASSUME NEW u \in URLs, NEW b \in Bodies, NEW d \in Dates, Publish(u, b, d)
        PROVE LocalsAgree'
    <3>1. UNCHANGED <<wpc, job, state>>
      BY <2>2 DEF Publish, resolver
    <3>2. ASSUME NEW k \in Workers, wpc[k] = "apply" PROVE Coherent(job[k])'
      BY <1>0, <2>2, <3>1, <3>2, EnvironmentFits DEF Coherent
    <3> QED
      BY <3>1, <3>2
  <2>3. CASE Settle \/ \E h \in Hosts, u \in URLs \cup {NoURL} : EditRobots(h, u)
    <3>1. UNCHANGED <<wpc, job, state, site>>
      BY <2>3 DEF EditRobots, Settle, resolver
    <3> QED
      BY <3>1 DEF Coherent
  <2> QED
    BY <1>4, <2>1, <2>2, <2>3 DEF Environment
<1>5. CASE UNCHANGED vars
  BY <1>5 DEF vars, Coherent
<1> QED
  BY <1>1, <1>2, <1>3, <1>4, <1>5 DEF Next

\* Only Apply publishes a snapshot and only Save stores one, both as a whole; and a
\* document that changes leaves them fitting.
LEMMA FitStep == Inv /\ [Next]_vars => SnapshotsFit'
<1> SUFFICES ASSUME Inv, [Next]_vars PROVE SnapshotsFit'
  OBVIOUS
<1> USE DEF Inv, SnapshotsFit
<1>0. TypeOK
  OBVIOUS
<1>1. ASSUME NEW t \in Threads, Request(t) PROVE SnapshotsFit'
  <2>1. UNCHANGED <<state, disk, site>>
    BY <1>1 DEF Request, CheckDue, NotDue, StartRefresh, environment
  <2> QED
    BY <2>1 DEF Coherent
<1>2. ASSUME NEW k \in Workers, Refresh(k) PROVE SnapshotsFit'
  <2>0. site' = site
    BY <1>2 DEF Refresh, Discovered, NoDirective, RobotsFails, FetchFails, FetchOK,
       FetchNotModified, Answered, Apply, Save, SaveFails, Finish, RefreshUnchanged,
       environment
  <2>1. CASE Apply(k)
    <3>1. /\ wpc[k] = "apply" /\ disk' = disk /\ state'.etag = job[k].etag
          /\ state'.date = job[k].date /\ state'.paths = job[k].paths
          /\ state'.origin = job[k].origin
      BY <2>1 DEF Apply
    <3>2. Coherent(job[k])
      BY <3>1 DEF LocalsAgree
    <3> QED
      BY <2>0, <3>1, <3>2 DEF Coherent, Fits
  <2>2. CASE NoDirective(k) \/ FetchFails(k)
    <3>1. /\ disk' = disk /\ state'.etag = state.etag /\ state'.date = state.date
          /\ state'.paths = state.paths /\ state'.origin = state.origin
      BY <1>0, <2>2 DEF NoDirective, FetchFails, KeptForRetry, TypeOK, Snapshots
    <3> QED
      BY <2>0, <3>1 DEF Coherent, Fits
  <2>3. CASE Save(k)
    BY <2>0, <2>3 DEF Save, Coherent
  <2>4. CASE ~Apply(k) /\ ~NoDirective(k) /\ ~FetchFails(k) /\ ~Save(k)
    <3>1. UNCHANGED <<state, disk>>
      BY <1>2, <2>4 DEF Refresh, Discovered, RobotsFails, FetchOK, FetchNotModified,
         Answered, SaveFails, Finish
    <3> QED
      BY <2>0, <3>1 DEF Coherent
  <2> QED
    BY <2>1, <2>2, <2>3, <2>4
<1>3. CASE Tick
  <2>1. /\ state'.etag = state.etag /\ state'.date = state.date
        /\ state'.paths = state.paths /\ state'.origin = state.origin
        /\ disk'.etag = disk.etag /\ disk'.date = disk.date
        /\ disk'.paths = disk.paths /\ disk'.origin = disk.origin
        /\ site' = site
    BY <1>0, <1>3 DEF Tick, Earlier, TypeOK, Snapshots, environment
  <2> QED
    BY <2>1 DEF Coherent, Fits
<1>4. CASE Environment
  <2>1. ASSUME NEW u \in URLs, NEW b \in Bodies, NEW d \in Dates, Publish(u, b, d)
        PROVE SnapshotsFit'
    <3>1. UNCHANGED <<state, disk>>
      BY <2>1 DEF Publish, resolver
    <3> QED
      BY <1>0, <2>1, <3>1, EnvironmentFits DEF Coherent
  <2>2. CASE ~\E u \in URLs, b \in Bodies, d \in Dates : Publish(u, b, d)
    <3>1. site' = site /\ disk' = disk /\ state' \in {state, disk}
      BY <1>4, <2>2 DEF Environment, Restart, EditRobots, Settle, resolver
    <3> QED
      BY <3>1 DEF Coherent
  <2> QED
    BY <2>1, <2>2
<1>5. CASE UNCHANGED vars
  BY <1>5 DEF vars, Coherent
<1> QED
  BY <1>1, <1>2, <1>3, <1>4, <1>5 DEF Next

\* A path leaves the snapshot, the file or a refresh's locals only through a document
\* that dropped it.
LEMMA SecuredStep == Inv /\ [Next]_vars => SecuredEverywhere'
<1> SUFFICES ASSUME Inv, [Next]_vars PROVE SecuredEverywhere'
  OBVIOUS
<1> USE DEF Inv, SecuredEverywhere
<1>0. TypeOK
  OBVIOUS
<1>1. ASSUME NEW t \in Threads, Request(t) PROVE SecuredEverywhere'
  <2>1. UNCHANGED <<state, disk, job, secured, dropped>>
             \/ \E k \in Workers : StartRefresh(t, k)
    BY <1>1 DEF Request, CheckDue, NotDue
  <2>2. ASSUME NEW k \in Workers, StartRefresh(t, k) PROVE SecuredEverywhere'
    <3>1. UNCHANGED <<state, disk, secured, dropped>>
      BY <2>2 DEF StartRefresh
    <3>2. \A l \in Workers : wpc'[l] = "apply" => wpc[l] = "apply" /\ job'[l] = job[l]
      BY <1>0, <2>2 DEF StartRefresh, TypeOK
    <3> QED
      BY <3>1, <3>2
  <2>3. \A l \in Workers : wpc'[l] = "apply" => wpc[l] = "apply"
    BY <1>0, <1>1 DEF Request, CheckDue, NotDue, StartRefresh, TypeOK
  <2> QED
    BY <2>1, <2>2, <2>3
<1>2. ASSUME NEW k \in Workers, Refresh(k) PROVE SecuredEverywhere'
  <2>1. \A l \in Workers : l # k => wpc'[l] = wpc[l] /\ job'[l] = job[l]
    BY <1>0, <1>2 DEF TypeOK, Refresh, Discovered, NoDirective, RobotsFails,
       FetchFails, FetchOK, FetchNotModified, Answered, Apply, Save, SaveFails, Finish
  <2>2. CASE FetchOK(k)
    <3> DEFINE body == site[job[k].url].body
    <3>0. /\ job[k].url \in URLs /\ body \in Bodies
          /\ ETag(job[k].url) \in ETags \cup {Unset}
          /\ LastModified(job[k].url) \in Dates \cup {Unset}
      BY <1>0, <2>2, AnswerIsAnswered, Validators
    <3>1. UNCHANGED <<state, disk, secured>>
      BY <2>2 DEF FetchOK, Answered, RefreshUnchanged
    <3>2. job'[k].paths = PathsAfter(body, state.paths)
      BY <1>0, <2>2, <3>0, AnswerTyped DEF FetchOK
    <3>3. secured \subseteq Paths /\ dropped \subseteq dropped'
      BY <1>0, <2>2 DEF TypeOK, FetchOK
    <3>4. body # EmptyBody => dropped' = dropped \cup (Paths \ body)
      BY <2>2 DEF FetchOK
    <3>6. secured \subseteq PathsAfter(body, state.paths) \cup dropped'
      <4>1. CASE body = EmptyBody
        BY <3>3, <4>1, NullAssumption DEF PathsAfter
      <4>2. CASE body # EmptyBody
        BY <3>0, <3>3, <3>4, <4>2 DEF PathsAfter, Bodies
      <4> QED
        BY <4>1, <4>2
    <3>8. \A l \in Workers : wpc'[l] = "apply" => secured' \subseteq job'[l].paths \cup dropped'
      BY <2>1, <3>1, <3>2, <3>3, <3>6
    <3> QED
      BY <3>1, <3>3, <3>8
  <2>3. CASE FetchNotModified(k)
    <3>1. PICK etag \in {Unset, ETag(job[k].url)}, date \in {Unset, LastModified(job[k].url)} :
            Answered(k, EmptyBody, etag, date)
      BY <2>3 DEF FetchNotModified
    <3>2. /\ job[k].url \in URLs /\ EmptyBody \in Bodies
          /\ etag \in ETags \cup {Unset} /\ date \in Dates \cup {Unset}
      BY <1>0, <2>3, AnswerIsAnswered, Validators DEF Bodies
    <3>3. job'[k].paths = state.paths
      BY <1>0, <3>1, <3>2, AnswerTyped DEF PathsAfter
    <3>4. UNCHANGED <<state, disk, secured, dropped>>
      BY <2>3, <3>1 DEF FetchNotModified, Answered, RefreshUnchanged
    <3> QED
      BY <2>1, <3>3, <3>4
  <2>4. CASE Apply(k)
    <3>1. wpc[k] = "apply" /\ UNCHANGED <<disk, secured, dropped>>
            /\ state'.paths = job[k].paths /\ wpc'[k] = "save"
      BY <1>0, <2>4 DEF Apply, RefreshUnchanged, TypeOK
    <3> QED
      BY <2>1, <3>1
  <2>5. CASE NoDirective(k) \/ FetchFails(k)
    <3>1. disk' = disk /\ state'.paths = state.paths /\ UNCHANGED <<secured, dropped>>
            /\ wpc'[k] = "done"
      BY <1>0, <2>5 DEF NoDirective, FetchFails, KeptForRetry, TypeOK, Snapshots,
         RefreshUnchanged
    <3> QED
      BY <2>1, <3>1
  <2>6. CASE Save(k)
    <3>1. /\ disk' = state /\ secured' = secured \cup state.paths
          /\ wpc'[k] = "done" /\ UNCHANGED <<state, dropped>>
      BY <1>0, <2>6 DEF Save, TypeOK
    <3>2. \A l \in Workers : wpc'[l] # "apply"
      <4>1. \A l \in Workers : l # k => wpc[l] = "idle"
        BY <2>6 DEF Save, SingleFlight, Active
      <4> QED
        BY <2>1, <3>1, <4>1
    <3> QED
      BY <3>1, <3>2
  <2>7. CASE (\E u \in URLs : Discovered(k, u)) \/ RobotsFails(k) \/ SaveFails(k) \/ Finish(k)
    <3>1. UNCHANGED <<state, disk, secured, dropped>> /\ wpc'[k] # "apply"
      BY <1>0, <2>7 DEF TypeOK, Discovered, RobotsFails, SaveFails, Finish, RefreshUnchanged
    <3> QED
      BY <2>1, <3>1
  <2> QED
    BY <1>2, <2>2, <2>3, <2>4, <2>5, <2>6, <2>7 DEF Refresh
<1>3. CASE Tick
  <2>1. /\ state'.paths = state.paths /\ disk'.paths = disk.paths
        /\ UNCHANGED <<wpc, job, secured, dropped>>
    BY <1>0, <1>3 DEF Tick, Earlier, TypeOK, Snapshots
  <2> QED
    BY <2>1
<1>4. CASE Environment
  BY <1>4 DEF Environment, Restart, Publish, EditRobots, Settle, resolver
<1>5. CASE UNCHANGED vars
  BY <1>5 DEF vars
<1> QED
  BY <1>1, <1>2, <1>3, <1>4, <1>5 DEF Next

\* Inv holds of every state the resolver reaches.
THEOREM Invariance == Spec => []Inv
<1>1. Init => Inv
  BY InitInv
<1>2. Inv /\ [Next]_vars => Inv'
  BY TypeStep, FlightStep, FlagStep, HostsStep, LocalsStep, FitStep, SecuredStep DEF Inv
<1> QED
  BY <1>1, <1>2, PTL DEF Spec

-----------------------------------------------------------------------------

\* Type correctness.
THEOREM TypeCorrect == Spec => []TypeOK
<1>1. Inv => TypeOK
  BY DEF Inv
<1> QED
  BY <1>1, Invariance, PTL

\* refreshIfDue starts at most one refresh at a time, whatever the requests do
\* between its two checks.
THEOREM AtMostOneRefresh == Spec => []SingleFlight
<1>1. Inv => SingleFlight
  BY DEF Inv
<1> QED
  BY <1>1, Invariance, PTL

\* The flag is up only while a refresh that will clear it is in flight, so no failure
\* or restart leaves the resolver unable to refresh.
THEOREM FlagIsNeverStuck == Spec => []FlagMeansFlight
<1>1. Inv => FlagMeansFlight
  BY DEF Inv
<1> QED
  BY <1>1, Invariance, PTL

\* Of any URL that sends its validators uniformly: validators that all came from it, in
\* memory or in the cache file, get a 304 from it only while it serves the paths beside
\* them.  The two fallbacks, restarts and other URLs in between included.
THEOREM SnapshotsCoherent == Spec => []ValidatorNamesPaths
<1>1. Inv => ValidatorNamesPaths
  BY FittingNames DEF Inv, ValidatorNamesPaths, SnapshotsFit, TypeOK, Snapshots
<1> QED
  BY <1>1, Invariance, PTL

\* A path protected by a saved snapshot stays protected until a document drops it.
THEOREM DurableProtection == Spec => []ProtectionIsDurable
<1>1. Inv => ProtectionIsDurable
  BY DEF Inv, SecuredEverywhere, ProtectionIsDurable
<1> QED
  BY <1>1, Invariance, PTL

\* A refresh of a configured recognyzeURL that fails leaves a retry in the future.
LEMMA RetryStep ==
  Inv /\ [Next]_vars =>
    [cfgURL # NoURL => \A k \in Workers : Gone(k) => state'.due > 0]_vars
<1> SUFFICES ASSUME Inv, Next, cfgURL # NoURL, NEW k \in Workers, Gone(k)
             PROVE state'.due > 0
  BY DEF vars
<1>0. TypeOK /\ wpc[k] \in {"discover", "fetch"} /\ wpc'[k] = "done"
  BY DEF Inv, Gone
<1>1. PICK l \in Workers : Refresh(l)
  BY <1>0 DEF Next, Request, CheckDue, NotDue, StartRefresh, Tick, Environment,
     Restart, Publish, EditRobots, Settle, resolver, TypeOK
<1>2. l = k
  BY <1>0, <1>1 DEF TypeOK, Refresh, Discovered, NoDirective, RobotsFails,
     FetchFails, FetchOK, FetchNotModified, Answered, Apply, Save, SaveFails, Finish
<1>3. FetchFails(k)
  <2>1. ~FetchOK(k) /\ ~FetchNotModified(k)
    BY <1>0 DEF FetchOK, FetchNotModified, Answered, TypeOK
  <2>2. (\A u \in URLs : ~Discovered(k, u)) /\ ~Apply(k) /\ ~Save(k) /\ ~SaveFails(k) /\ ~Finish(k)
    BY <1>0 DEF Discovered, Apply, Save, SaveFails, Finish, TypeOK
  <2>3. ~NoDirective(k) /\ ~RobotsFails(k)
    BY DEF NoDirective, RobotsFails, DiscoveryURL
  <2> QED
    BY <1>1, <1>2, <2>1, <2>2, <2>3 DEF Refresh
<1> QED
  BY <1>0, <1>3, DelayAssumption DEF FetchFails, KeptForRetry, TypeOK, Snapshots

\* Every execution: a refresh of a configured recognyzeURL never ends without a
\* snapshot and without a retry ahead.
THEOREM RetryScheduled == Spec => FailureSchedulesRetry
<1>1. Inv /\ [Next]_vars =>
        [cfgURL # NoURL => \A k \in Workers : Gone(k) => state'.due > 0]_vars
  BY RetryStep
<1> QED
  BY <1>1, Invariance, PTL DEF Spec, FailureSchedulesRetry

\* Only an answer takes a refresh from the fetch to the write.
LEMMA AnswerOnly ==
  ASSUME Inv, Next, NEW k \in Workers, wpc[k] = "fetch", wpc'[k] = "apply"
  PROVE  FetchOK(k) \/ FetchNotModified(k)
<1>0. TypeOK
  BY DEF Inv
<1>1. PICK l \in Workers : Refresh(l)
  BY <1>0 DEF Next, Request, CheckDue, NotDue, StartRefresh, Tick, Environment,
     Restart, Publish, EditRobots, Settle, resolver, TypeOK
<1>2. l = k
  BY <1>0, <1>1 DEF TypeOK, Refresh, Discovered, NoDirective, RobotsFails,
     FetchFails, FetchOK, FetchNotModified, Answered, Apply, Save, SaveFails, Finish
<1> QED
  BY <1>0, <1>1, <1>2 DEF TypeOK, Refresh, Discovered, NoDirective, RobotsFails,
     FetchFails, FetchOK, FetchNotModified, Answered, Apply, Save, SaveFails, Finish

\* A 200 brings the document; a 304 to validators of its own URL says that the document
\* is still that of the paths held, and without validators there is no 304.
LEMMA AnswerStep ==
  ASSUME Inv, Next, NEW k \in Workers, wpc[k] = "fetch", wpc'[k] = "apply",
         site[job[k].url].body # EmptyBody,
         (Uniform(job[k].url) /\ state.origin = job[k].url) \/ NothingSent(k)
  PROVE  job'[k].paths = site[job[k].url].body
<1> DEFINE u == job[k].url
<1>0. TypeOK /\ LocalsAgree
  BY DEF Inv
<1>1. /\ u \in URLs /\ job[k].etag = state.etag /\ job[k].date = state.date
      /\ u # NoURL /\ NamesPaths(state)
  BY NullAssumption, FittingNames DEF Inv, LocalsAgree, SnapshotsFit, TypeOK, Snapshots
<1>2. /\ site[u].body \in Bodies /\ EmptyBody \in Bodies
      /\ ETag(u) \in ETags \cup {Unset} /\ LastModified(u) \in Dates \cup {Unset}
  BY <1>0, <1>1, Validators DEF TypeOK, Bodies
<1>3. CASE FetchOK(k)
  <2>1. job'[k].paths = PathsAfter(site[u].body, state.paths)
    BY <1>0, <1>1, <1>2, <1>3, AnswerTyped DEF FetchOK
  <2> QED
    BY <2>1 DEF PathsAfter
<1>4. CASE FetchNotModified(k)
  <2>1. NotModified(u, state.etag, state.date)
    BY <1>1, <1>4 DEF FetchNotModified
  <2>2. Uniform(u) /\ state.origin = u
    BY <1>1, <2>1 DEF NothingSent, NotModified
  <2>3. state.paths = site[u].body
    BY <1>1, <2>1, <2>2 DEF NamesPaths
  <2>4. PICK etag \in {Unset, ETag(u)}, date \in {Unset, LastModified(u)} :
          Answered(k, EmptyBody, etag, date)
    BY <1>4 DEF FetchNotModified
  <2>5. job'[k].paths = state.paths
    BY <1>0, <1>1, <1>2, <2>4, AnswerTyped DEF PathsAfter
  <2> QED
    BY <2>3, <2>5
<1> QED
  BY <1>3, <1>4, AnswerOnly

\* The paths a refresh goes on with are those of the document that its URL serves when
\* the answer is given, although a 304 compares with validators read earlier: of every
\* URL that sends its validators uniformly and gave those that are sent, and of every
\* URL when none are.
THEOREM AnswersAreCurrent == Spec => AnswerIsCurrent
<1> DEFINE Right(k) ==
      LET u == job[k].url IN
      /\ wpc[k] = "fetch" /\ wpc'[k] = "apply"
      /\ site[u].body # EmptyBody
      /\ (Uniform(u) /\ state.origin = u) \/ NothingSent(k)
      => job'[k].paths = site[u].body
<1>1. Inv /\ [Next]_vars => [\A k \in Workers : Right(k)]_vars
  BY AnswerStep
<1> QED
  BY <1>1, Invariance, PTL DEF Spec, AnswerIsCurrent

-----------------------------------------------------------------------------
(* Convergence, once it is reached, lasts: the half of EventuallyCurrent   *)
(* that is not about fairness.                                             *)

\* The paths in use are served, and a refresh in flight asks and brings nothing else.
Converged ==
  /\ state.paths \in Served
  /\ \A k \in Workers :
       /\ wpc[k] = "fetch" => job[k].url \in Targets
       /\ wpc[k] = "apply" => job[k].paths \in Served

\* No step takes the resolver from paths that are served once the sites are settled.
LEMMA ConvergedStep ==
  ASSUME Inv, [Next]_vars, settled, Reachable, Converged
  PROVE  settled' /\ Reachable' /\ Converged'
<1>0. TypeOK
  BY DEF Inv
<1>1. settled' /\ UNCHANGED <<cfgURL, site, robots>>
  <2>1. ASSUME NEW t \in Threads, Request(t) PROVE UNCHANGED environment
    BY <2>1 DEF Request, CheckDue, NotDue, StartRefresh
  <2>2. ASSUME NEW k \in Workers, Refresh(k) PROVE UNCHANGED environment
    BY <2>2 DEF Refresh, Discovered, NoDirective, RobotsFails, FetchFails, FetchOK,
       FetchNotModified, Answered, Apply, Save, SaveFails, Finish, RefreshUnchanged,
       environment
  <2>3. CASE Tick \/ Environment \/ UNCHANGED vars
    BY <2>3 DEF Tick, Environment, Restart, Publish, EditRobots, Settle, environment, vars
  <2> QED
    BY <2>1, <2>2, <2>3 DEF Next, environment
<1>2. Targets' = Targets /\ Served' = Served /\ Reachable'
  BY <1>1 DEF Targets, DiscoveryURL, Served, Reachable
<1> SUFFICES Converged'
  BY <1>1, <1>2
<1> USE DEF Converged
<1>3. ASSUME NEW t \in Threads, Request(t) PROVE Converged'
  <2>1. UNCHANGED state
    BY <1>3 DEF Request, CheckDue, NotDue, StartRefresh
  <2>2. \A l \in Workers : wpc'[l] \in {"fetch", "apply"} => wpc'[l] = wpc[l] /\ job'[l] = job[l]
    BY <1>0, <1>3 DEF Request, CheckDue, NotDue, StartRefresh, TypeOK
  <2> QED
    BY <1>2, <2>1, <2>2
<1>4. ASSUME NEW k \in Workers, Refresh(k) PROVE Converged'
  <2>0. \A l \in Workers : l # k => wpc'[l] = wpc[l] /\ job'[l] = job[l]
    BY <1>0, <1>4 DEF TypeOK, Refresh, Discovered, NoDirective, RobotsFails,
       FetchFails, FetchOK, FetchNotModified, Answered, Apply, Save, SaveFails, Finish
  <2>1. ASSUME NEW u \in URLs, Discovered(k, u) PROVE Converged'
    <3>1. job[k].host \in Hosts /\ u = DiscoveryURL(job[k].host)
      BY <2>1 DEF Discovered, Inv, HostsKnown
    <3>2. u \in Targets
      BY <3>1 DEF Targets
    <3>3. /\ wpc'[k] = "fetch" /\ UNCHANGED state
          /\ job'[k] = [NoJob EXCEPT !.url = u, !.etag = state.etag, !.date = state.date]
      BY <1>0, <2>1 DEF Discovered, TypeOK
    <3>4. job'[k].url = u
      BY <3>3 DEF NoJob
    <3> QED
      BY <1>2, <2>0, <3>2, <3>3, <3>4
  <2>2. CASE FetchOK(k) \/ FetchNotModified(k)
    <3> DEFINE u == job[k].url
    <3>0. TypeOK /\ LocalsAgree
      BY DEF Inv
    <3>1. /\ wpc[k] = "fetch" /\ u \in URLs /\ u \in Targets /\ UNCHANGED state
          /\ EmptyBody \in Bodies /\ site[u].body \in Bodies
          /\ ETag(u) \in ETags \cup {Unset} /\ LastModified(u) \in Dates \cup {Unset}
      BY <3>0, <2>2, AnswerIsAnswered, Validators DEF Bodies
    <3>2. site[u].body # EmptyBody /\ site[u].body \in Served
      BY <3>1 DEF Reachable, Targets, Served
    <3>3. ASSUME NEW body \in Bodies, NEW etag \in ETags \cup {Unset},
                 NEW date \in Dates \cup {Unset}, Answered(k, body, etag, date)
          PROVE  wpc'[k] = "apply" /\ job'[k].paths = PathsAfter(body, state.paths)
      BY <3>0, <3>1, <3>3, AnswerTyped DEF TypeOK
    <3>4. CASE FetchOK(k)
      <4>1. wpc'[k] = "apply" /\ job'[k].paths = PathsAfter(site[u].body, state.paths)
        BY <3>1, <3>3, <3>4 DEF FetchOK
      <4> QED
        BY <1>2, <2>0, <3>1, <3>2, <4>1 DEF PathsAfter
    <3>5. CASE FetchNotModified(k)
      <4>1. PICK etag \in {Unset, ETag(u)}, date \in {Unset, LastModified(u)} :
              Answered(k, EmptyBody, etag, date)
        BY <3>5 DEF FetchNotModified
      <4>2. etag \in ETags \cup {Unset} /\ date \in Dates \cup {Unset}
        BY <3>1
      <4>3. wpc'[k] = "apply" /\ job'[k].paths = PathsAfter(EmptyBody, state.paths)
        BY <3>1, <3>3, <4>1, <4>2
      <4> QED
        BY <1>2, <2>0, <3>1, <4>3 DEF PathsAfter
    <3> QED
      BY <2>2, <3>4, <3>5
  <2>4. CASE Apply(k)
    <3>1. wpc[k] = "apply" /\ state'.paths = job[k].paths /\ wpc'[k] = "save"
      BY <1>0, <2>4 DEF Apply, TypeOK
    <3> QED
      BY <1>2, <2>0, <3>1
  <2>5. CASE NoDirective(k) \/ RobotsFails(k) \/ FetchFails(k) \/ Save(k)
             \/ SaveFails(k) \/ Finish(k)
    <3>1. state'.paths = state.paths /\ wpc'[k] \in {"done", "idle"}
      BY <1>0, <2>5 DEF NoDirective, RobotsFails, FetchFails, KeptForRetry, Save,
         SaveFails, Finish, TypeOK, Snapshots
    <3> QED
      BY <1>2, <2>0, <3>1
  <2> QED
    BY <1>4, <2>1, <2>2, <2>4, <2>5 DEF Refresh
<1>5. CASE Tick
  <2>1. state'.paths = state.paths /\ UNCHANGED <<wpc, job>>
    BY <1>0, <1>5 DEF Tick, Earlier, TypeOK, Snapshots
  <2> QED
    BY <1>2, <2>1
<1>6. CASE Environment
  <2>1. UNCHANGED <<state, wpc, job>>
    BY <1>6 DEF Environment, Restart, Publish, EditRobots, Settle, resolver
  <2> QED
    BY <1>2, <2>1
<1>7. CASE UNCHANGED vars
  BY <1>2, <1>7 DEF vars
<1> QED
  BY <1>3, <1>4, <1>5, <1>6, <1>7 DEF Next

\* Once the paths in use are those of a document that discovery leads to, no refresh
\* takes them away while the sites stay as they are: not even a 304 to validators of
\* another URL or another document, which keeps what is there.
THEOREM CurrencyLasts ==
  Spec => [](settled /\ Reachable /\ Converged => [](state.paths \in Served))
<1> DEFINE P == settled /\ Reachable /\ Converged
<1>1. Inv /\ P /\ [Next]_vars => P'
  BY ConvergedStep
<1>2. P => state.paths \in Served
  BY DEF Converged
<1> HIDE DEF P
<1>3. Spec => [](P => [](state.paths \in Served))
  BY <1>1, <1>2, Invariance, PTL DEF Spec
<1> QED
  BY <1>3 DEF P

-----------------------------------------------------------------------------
(* The resolver implements RefreshedValue.                                 *)

\* The phase of the promise that a refresh at wpc stands for.
PhaseAt(w) ==
  IF w \in {"discover", "fetch", "apply"} THEN "looking"
  ELSE IF w = "save" THEN "keeping" ELSE IF w = "done" THEN "ending" ELSE "none"

\* With one refresh in flight, the phase is its own.
LEMMA PhaseOfFlight ==
  ASSUME SingleFlight, NEW k \in Workers, Active(k)
  PROVE  RefreshPhase = PhaseAt(wpc[k])
  BY DEF SingleFlight, Active, RefreshPhase, Busy, PhaseAt

\* The same of the next state.
LEMMA PhaseOfFlightNext ==
  ASSUME SingleFlight', NEW k \in Workers, wpc'[k] # "idle"
  PROVE  RefreshPhase' = PhaseAt(wpc'[k])
  BY DEF SingleFlight, Active, RefreshPhase, Busy, PhaseAt

\* What is in use, what is kept and the phase stay when the snapshots and the
\* refreshes do, whatever becomes of the instants.
LEMMA PromiseStutters ==
  ASSUME InUse(state') = InUse(state), InUse(disk') = InUse(disk), wpc' = wpc
  PROVE  UNCHANGED Promise!vars
  BY DEF Promise!vars, InUse, RefreshPhase, Busy

\* A new resolver has the empty snapshot in memory and nothing else to find.
LEMMA PromiseInit == Init => Promise!Init
  BY DEF Init, Promise!Init, InUse, RefreshPhase, Busy

\* Starting a refresh is Look: none was in flight.
LEMMA StartLooks ==
  ASSUME Inv, Inv', NEW t \in Threads, NEW k \in Workers, StartRefresh(t, k)
  PROVE  Promise!Look
<1>1. \A l \in Workers : wpc[l] = "idle"
  BY DEF Inv, FlagCoversFlight, Active, StartRefresh, StillDue, IsDue
<1>2. RefreshPhase = "none"
  BY <1>1 DEF RefreshPhase, Busy
<1>3. wpc'[k] = "discover"
  BY DEF StartRefresh, Inv, TypeOK
<1>4. RefreshPhase' = "looking"
  BY <1>3, PhaseOfFlightNext DEF Inv, PhaseAt
<1> QED
  BY <1>2, <1>4 DEF Promise!Look, StartRefresh, InUse

\* Every step of a refresh is a step of the promise, or leaves it as it is.
LEMMA RefreshKeepsPromise ==
  ASSUME Inv, Inv', NEW k \in Workers, Refresh(k)
  PROVE  [Promise!Next]_(Promise!vars)
<1> USE DEF Promise!Next, Promise!vars
<1>1. Active(k) /\ RefreshPhase = PhaseAt(wpc[k])
  <2>1. Active(k)
    BY DEF Refresh, Active, Discovered, NoDirective, RobotsFails, FetchFails, FetchOK,
       FetchNotModified, Answered, Apply, Save, SaveFails, Finish
  <2> QED
    BY <2>1, PhaseOfFlight DEF Inv
<1>2. wpc'[k] # "idle" => RefreshPhase' = PhaseAt(wpc'[k])
  BY PhaseOfFlightNext DEF Inv
<1>3. TypeOK /\ TypeOK'
  BY DEF Inv
<1>4. ASSUME NEW u \in URLs, Discovered(k, u) PROVE UNCHANGED Promise!vars
  <2>1. wpc[k] = "discover" /\ wpc'[k] = "fetch"
    BY <1>3, <1>4 DEF Discovered, TypeOK
  <2> QED
    BY <1>1, <1>2, <1>4, <2>1 DEF PhaseAt, Discovered
<1>5. CASE NoDirective(k) \/ RobotsFails(k) \/ FetchFails(k)
  <2>1. wpc[k] \in {"discover", "fetch"} /\ wpc'[k] = "done" /\ UNCHANGED disk
    BY <1>3, <1>5 DEF NoDirective, RobotsFails, FetchFails, TypeOK
  <2>2. InUse(state') = InUse(state)
    BY <1>3, <1>5 DEF NoDirective, RobotsFails, FetchFails, KeptForRetry, InUse, TypeOK,
       Snapshots
  <2>3. Promise!GiveUp
    BY <1>1, <1>2, <2>1, <2>2 DEF PhaseAt, Promise!GiveUp
  <2> QED
    BY <2>3
<1>6. CASE FetchOK(k) \/ FetchNotModified(k)
  <2>1. wpc[k] = "fetch" /\ wpc'[k] = "apply" /\ UNCHANGED <<state, disk>>
    BY <1>3, <1>6 DEF FetchOK, FetchNotModified, Answered, TypeOK
  <2> QED
    BY <1>1, <1>2, <2>1 DEF PhaseAt
<1>7. CASE Apply(k)
  <2>1. wpc[k] = "apply" /\ wpc'[k] = "save" /\ UNCHANGED disk
    BY <1>3, <1>7 DEF Apply, TypeOK
  <2>2. InUse(state') \in [etag : ETags \cup {Unset}, date : Dates \cup {Unset},
                           paths : SUBSET Paths]
    BY <1>3 DEF InUse, TypeOK, Snapshots
  <2>3. Promise!Replace
    BY <1>1, <1>2, <2>1, <2>2 DEF PhaseAt, Promise!Replace
  <2> QED
    BY <2>3
<1>8. CASE Save(k) \/ SaveFails(k)
  <2>1. /\ wpc[k] = "save" /\ wpc'[k] = "done" /\ UNCHANGED state
        /\ disk' = state \/ disk' = disk
    BY <1>3, <1>8 DEF Save, SaveFails, TypeOK
  <2>2. Promise!Keep
    BY <1>1, <1>2, <2>1 DEF PhaseAt, Promise!Keep
  <2> QED
    BY <2>2
<1>9. CASE Finish(k)
  <2>1. wpc[k] = "done" /\ wpc'[k] = "idle" /\ UNCHANGED <<state, disk>>
    BY <1>3, <1>9 DEF Finish, TypeOK
  <2>2. \A l \in Workers : wpc'[l] = "idle"
    BY <1>1, <1>3, <1>9 DEF Finish, Inv, SingleFlight, Active, TypeOK
  <2>3. RefreshPhase' = "none"
    BY <2>2 DEF RefreshPhase, Busy
  <2>4. Promise!End
    BY <1>1, <2>1, <2>3 DEF PhaseAt, Promise!End
  <2> QED
    BY <2>4
<1> QED
  BY <1>4, <1>5, <1>6, <1>7, <1>8, <1>9 DEF Refresh

\* So is every step of the resolver and its environment.
LEMMA PromiseStep ==
  Inv /\ Inv' /\ [Next]_vars => [Promise!Next]_(Promise!vars)
<1> SUFFICES ASSUME Inv, Inv', [Next]_vars PROVE [Promise!Next]_(Promise!vars)
  OBVIOUS
<1>1. ASSUME NEW t \in Threads, Request(t) PROVE [Promise!Next]_(Promise!vars)
  <2>1. ASSUME NEW k \in Workers, StartRefresh(t, k) PROVE Promise!Next
    BY <2>1, StartLooks DEF Promise!Next
  <2>2. ASSUME UNCHANGED <<state, disk, wpc>> PROVE UNCHANGED Promise!vars
    BY <2>2, PromiseStutters
  <2> QED
    BY <1>1, <2>1, <2>2 DEF Request, CheckDue, NotDue
<1>2. ASSUME NEW k \in Workers, Refresh(k) PROVE [Promise!Next]_(Promise!vars)
  BY <1>2, RefreshKeepsPromise
<1>3. CASE Tick
  <2>1. InUse(state') = InUse(state) /\ InUse(disk') = InUse(disk) /\ wpc' = wpc
    BY <1>3 DEF Tick, Earlier, InUse, Inv, TypeOK, Snapshots
  <2> QED
    BY <2>1, PromiseStutters
<1>4. CASE Environment
  <2>1. ASSUME NEW u \in URLs \cup {NoURL}, Restart(u) PROVE Promise!Next
    <3>1. RefreshPhase' = "none"
      BY <2>1 DEF Restart, RefreshPhase, Busy
    <3>2. Promise!Restart
      BY <2>1, <3>1 DEF Restart, Promise!Restart
    <3> QED
      BY <3>2 DEF Promise!Next
  <2>2. ASSUME UNCHANGED <<state, disk, wpc>> PROVE UNCHANGED Promise!vars
    BY <2>2, PromiseStutters
  <2> QED
    BY <1>4, <2>1, <2>2 DEF Environment, Publish, EditRobots, Settle, resolver
<1>5. CASE UNCHANGED vars
  BY <1>5, PromiseStutters DEF vars
<1> QED
  BY <1>1, <1>2, <1>3, <1>4, <1>5 DEF Next

\* ProtectedResolver implements RefreshedValue: one look at a time, a value replaced as
\* a whole and only by a look that brought one, a restart with what was in use once.
THEOREM ResolverRefines == Spec => RefinesPromise
<1>1. Init => Promise!Init
  BY PromiseInit
<1>2. Inv /\ Inv' /\ [Next]_vars => [Promise!Next]_(Promise!vars)
  BY PromiseStep
<1> QED
  BY <1>1, <1>2, Invariance, PTL DEF Spec, RefinesPromise, Promise!Spec

=============================================================================
