-------------------------- MODULE ClassifierProofs --------------------------
(***************************************************************************)
(* Proofs about Classifier, for any requests, refreshes and versions.      *)
(*                                                                         *)
(* The flag covers every refresh, so one is in flight; nobody else changes *)
(* the rules while it is, so what it fetched is no older than what it      *)
(* replaces; and StartIsNoOlder is inductive once the types are known.     *)
(***************************************************************************)
EXTENDS Classifier, TLAPS

Active(k) == wpc[k] # "idle"

FlagCoversFlight == \A k \in Refreshes : Active(k) => refreshing

\* No rules are newer than the portal's, and what is to be applied is not older than
\* what is there.
VersionsKnown ==
  /\ defs.version =< portal.version
  /\ local \in Rules => local.version =< portal.version
  /\ cache \in Rules => cache.version =< portal.version
  /\ \A k \in Refreshes : job[k].version =< portal.version
  /\ \A k \in Refreshes : wpc[k] = "apply" => defs.version =< job[k].version

Inv ==
  /\ TypeOK
  /\ FlagCoversFlight
  /\ FlagMeansFlight
  /\ SingleFlight
  /\ VersionsKnown
  /\ StartIsNoOlder

-----------------------------------------------------------------------------

\* The default rules are rules.
LEMMA DefaultTyped == Default \in Rules
  BY VersionAssumption DEF Default, Rules

\* What a start loads is always rules.
LEMMA StartTyped == TypeOK => StartRules \in Rules
  BY VersionAssumption DEF TypeOK, StartRules, CacheWins, FromLocal, Default, Rules

\* Nor does it load what the portal has not published.
LEMMA StartKnown == TypeOK /\ VersionsKnown => StartRules.version =< portal.version
<1> SUFFICES ASSUME TypeOK, VersionsKnown PROVE StartRules.version =< portal.version
  OBVIOUS
<1>1. Default.version =< portal.version
  BY VersionAssumption DEF TypeOK, Default, Rules
<1> QED
  BY <1>1 DEF VersionsKnown, StartRules, CacheWins, FromLocal

\* A new classifier has the default rules and no refresh in flight.
LEMMA InitInv == Init => Inv
<1> SUFFICES ASSUME Init PROVE Inv
  OBVIOUS
<1>1. TypeOK
  <2>1. portal \in Rules /\ portal.version > 0 /\ defs \in Rules
    BY DefaultTyped DEF Init
  <2>2. 0 \in 0 .. MaxVersion
    BY VersionAssumption
  <2> QED
    BY <2>1, <2>2, DefaultTyped DEF Init, TypeOK
<1>2. FlagCoversFlight /\ FlagMeansFlight /\ SingleFlight
  BY DEF Init, FlagCoversFlight, FlagMeansFlight, Active, SingleFlight
<1>3. VersionsKnown
  BY FileAssumption, VersionAssumption DEF Init, VersionsKnown, Default, Rules
<1>4. StartIsNoOlder
  BY FileAssumption DEF Init, StartIsNoOlder, StartRules, CacheWins, FromLocal, Default
<1> QED
  BY <1>1, <1>2, <1>3, <1>4 DEF Inv

\* Every step keeps the types.
LEMMA TypeStep == TypeOK /\ [Next]_vars => TypeOK'
<1> SUFFICES ASSUME TypeOK, [Next]_vars PROVE TypeOK'
  OBVIOUS
<1> USE VersionAssumption DEF TypeOK, Goto, Continue, files, outside
<1>1. ASSUME NEW t \in Callers, Call(t) PROVE TypeOK'
  <2>1. CASE TakenBySoftmax(t)
    BY <2>1 DEF TakenBySoftmax, CallerUnchanged
  <2>2. CASE SoftmaxDone(t)
    BY <2>2 DEF SoftmaxDone, CallerUnchanged
  <2>3. CASE Classify(t)
    BY <2>3 DEF Classify, CallerUnchanged
  <2>4. CASE Check(t)
    BY <2>4 DEF Check, CallerUnchanged
  <2>5. CASE NotDue(t)
    BY <2>5 DEF NotDue, CallerUnchanged
  <2>6. ASSUME NEW k \in Refreshes, StartRefresh(t, k) PROVE TypeOK'
    BY <2>6 DEF StartRefresh, CallerUnchanged
  <2> QED
    BY <1>1, <2>1, <2>2, <2>3, <2>4, <2>5, <2>6 DEF Call
<1>2. ASSUME NEW k \in Refreshes, Refresh(k) PROVE TypeOK'
  <2>1. CASE FetchFails(k)
    BY <2>1 DEF FetchFails, RefreshUnchanged
  <2>2. CASE FetchOK(k)
    BY <2>2 DEF FetchOK, RefreshUnchanged
  <2>3. CASE Apply(k)
    BY <2>3 DEF Apply, Merged, RefreshUnchanged, Rules
  <2>4. CASE SaveCache(k)
    BY <2>4 DEF SaveCache, RefreshUnchanged, Rules
  <2>5. CASE SaveCacheFails(k)
    BY <2>5 DEF SaveCacheFails, RefreshUnchanged
  <2>6. CASE SaveLocal(k)
    BY <2>6 DEF SaveLocal, RefreshUnchanged, Rules
  <2>7. CASE SaveLocalFails(k)
    BY <2>7 DEF SaveLocalFails, RefreshUnchanged
  <2>8. CASE Finish(k)
    BY <2>8, DefaultTyped DEF Finish, RefreshUnchanged
  <2> QED
    BY <1>2, <2>1, <2>2, <2>3, <2>4, <2>5, <2>6, <2>7, <2>8 DEF Refresh
<1>3. CASE Environment
  <2>1. CASE Restart
    BY <2>1, StartTyped, DefaultTyped DEF Restart
  <2>2. CASE Elapse \/ Settle
    BY <2>2 DEF Elapse, Settle
  <2>3. ASSUME NEW r \in Rules, Publish(r) PROVE TypeOK'
    <3>1. r.version > 0
      BY <2>3 DEF Publish, Rules
    <3> QED
      BY <2>3, <3>1 DEF Publish
  <2>4. ASSUME NEW f \in OwnRules \cup {Absent, Unreadable}, EditLocal(f) PROVE TypeOK'
    BY <2>4 DEF EditLocal, OwnRules
  <2> QED
    BY <1>3, <2>1, <2>2, <2>3, <2>4 DEF Environment
<1>4. CASE UNCHANGED vars
  BY <1>4 DEF vars
<1> QED
  BY <1>1, <1>2, <1>3, <1>4 DEF Next

\* The flag covers every refresh through its start and its end, so a second one does
\* not start.
LEMMA FlightStep ==
  TypeOK /\ FlagCoversFlight /\ SingleFlight /\ [Next]_vars =>
    FlagCoversFlight' /\ SingleFlight'
<1> SUFFICES ASSUME TypeOK, FlagCoversFlight, SingleFlight, [Next]_vars
             PROVE FlagCoversFlight' /\ SingleFlight'
  OBVIOUS
<1> USE DEF TypeOK, Continue, Active, FlagCoversFlight, SingleFlight
<1>1. ASSUME NEW t \in Callers, NEW k \in Refreshes, StartRefresh(t, k)
      PROVE FlagCoversFlight' /\ SingleFlight'
  <2>1. \A l \in Refreshes : wpc[l] = "idle"
    BY <1>1 DEF StartRefresh, StillDue, IsDue
  <2> QED
    BY <1>1, <2>1 DEF StartRefresh
<1>2. ASSUME NEW k \in Refreshes, Finish(k) PROVE FlagCoversFlight' /\ SingleFlight'
  <2>1. \A l \in Refreshes : l # k => wpc[l] = "idle"
    BY <1>2 DEF Finish
  <2> QED
    BY <1>2, <2>1 DEF Finish
<1>3. CASE Restart
  BY <1>3 DEF Restart
<1>4. ASSUME NEW k \in Refreshes, Refresh(k), ~Finish(k)
      PROVE FlagCoversFlight' /\ SingleFlight'
  <2>1. UNCHANGED refreshing /\ wpc[k] # "idle"
    BY <1>4 DEF Refresh, FetchFails, FetchOK, Apply, SaveCache, SaveCacheFails, SaveLocal,
       SaveLocalFails
  <2>2. \A l \in Refreshes : l # k => wpc'[l] = wpc[l]
    BY <1>4 DEF Refresh, FetchFails, FetchOK, Apply, SaveCache, SaveCacheFails, SaveLocal,
       SaveLocalFails
  <2> QED
    BY <2>1, <2>2
<1>5. ASSUME UNCHANGED <<refreshing, wpc>> PROVE FlagCoversFlight' /\ SingleFlight'
  BY <1>5
<1>6. ASSUME NEW t \in Callers, Call(t), \A k \in Refreshes : ~StartRefresh(t, k)
      PROVE UNCHANGED <<refreshing, wpc>>
  BY <1>6 DEF Call, TakenBySoftmax, SoftmaxDone, Classify, Check, NotDue
<1>7. ASSUME Environment, ~Restart PROVE UNCHANGED <<refreshing, wpc>>
  BY <1>7 DEF Environment, Elapse, Settle, Publish, EditLocal
<1> QED
  BY <1>1, <1>2, <1>3, <1>4, <1>5, <1>6, <1>7 DEF Next, vars

\* The flag goes up with a refresh and down with its end; no step in between ends it.
LEMMA FlagStep == TypeOK /\ FlagMeansFlight /\ [Next]_vars => FlagMeansFlight'
<1> SUFFICES ASSUME TypeOK, FlagMeansFlight, [Next]_vars PROVE FlagMeansFlight'
  OBVIOUS
<1> USE DEF TypeOK, Continue, FlagMeansFlight
<1>1. ASSUME NEW t \in Callers, NEW k \in Refreshes, StartRefresh(t, k)
      PROVE FlagMeansFlight'
  <2>1. wpc'[k] = "fetch"
    BY <1>1 DEF StartRefresh
  <2> QED
    BY <2>1
<1>2. ASSUME NEW k \in Refreshes, Finish(k) PROVE FlagMeansFlight'
  BY <1>2 DEF Finish
<1>3. CASE Restart
  BY <1>3 DEF Restart
<1>4. ASSUME NEW k \in Refreshes, Refresh(k), ~Finish(k) PROVE FlagMeansFlight'
  <2>1. wpc'[k] # "idle"
    BY <1>4 DEF Refresh, FetchFails, FetchOK, Apply, SaveCache, SaveCacheFails, SaveLocal,
       SaveLocalFails
  <2> QED
    BY <2>1
<1>5. ASSUME UNCHANGED <<refreshing, wpc>> PROVE FlagMeansFlight'
  BY <1>5
<1>6. ASSUME NEW t \in Callers, Call(t), \A k \in Refreshes : ~StartRefresh(t, k)
      PROVE UNCHANGED <<refreshing, wpc>>
  BY <1>6 DEF Call, TakenBySoftmax, SoftmaxDone, Classify, Check, NotDue
<1>7. ASSUME Environment, ~Restart PROVE UNCHANGED <<refreshing, wpc>>
  BY <1>7 DEF Environment, Elapse, Settle, Publish, EditLocal
<1> QED
  BY <1>1, <1>2, <1>3, <1>4, <1>5, <1>6, <1>7 DEF Next, vars

\* What a refresh fetched is no older than the rules it replaces: between its fetch and
\* its Apply nobody else touches them.
LEMMA VersionStep == Inv /\ [Next]_vars => VersionsKnown'
<1> SUFFICES ASSUME Inv, [Next]_vars PROVE VersionsKnown'
  OBVIOUS
<1>0. /\ TypeOK /\ TypeOK' /\ VersionsKnown /\ SingleFlight
      /\ defs.version \in Int /\ portal.version \in Int
      /\ \A k \in Refreshes : job[k].version \in Int
      /\ local \in Rules => local.version \in Int
      /\ cache \in Rules => cache.version \in Int
  BY TypeStep, VersionAssumption DEF Inv, TypeOK, Rules
<1>1. ASSUME UNCHANGED <<defs, local, cache, portal, job>>,
             \A k \in Refreshes : wpc'[k] = "apply" => wpc[k] = "apply"
      PROVE VersionsKnown'
  BY <1>0, <1>1 DEF VersionsKnown
<1>2. ASSUME NEW t \in Callers, Call(t) PROVE VersionsKnown'
  BY <1>0, <1>1, <1>2 DEF Call, TakenBySoftmax, SoftmaxDone, Classify, Check, NotDue,
     StartRefresh, CallerUnchanged, files, outside, Continue, TypeOK
<1>3. ASSUME NEW k \in Refreshes, Refresh(k) PROVE VersionsKnown'
  <2>0. \A l \in Refreshes : l # k => wpc'[l] # "apply" /\ job'[l] = job[l]
    BY <1>0, <1>3 DEF SingleFlight, Refresh, FetchFails, FetchOK, Apply, SaveCache,
       SaveCacheFails, SaveLocal, SaveLocalFails, Finish, Continue, TypeOK
  <2>1. CASE FetchFails(k) \/ SaveCacheFails(k) \/ SaveLocalFails(k)
    <3>1. UNCHANGED <<defs, local, cache, portal, job>> /\ wpc'[k] # "apply"
      BY <1>0, <2>1 DEF FetchFails, SaveCacheFails, SaveLocalFails, Continue, files,
         RefreshUnchanged, outside, TypeOK
    <3> QED
      BY <1>1, <2>0, <3>1
  <2>2. CASE FetchOK(k)
    <3>1. UNCHANGED <<defs, local, cache, portal>> /\ job'[k] = portal
      BY <1>0, <2>2 DEF FetchOK, files, RefreshUnchanged, outside, TypeOK
    <3> QED
      BY <1>0, <2>0, <3>1 DEF VersionsKnown
  <2>3. CASE Apply(k)
    <3>1. UNCHANGED <<local, cache, portal, job>> /\ wpc'[k] # "apply"
      BY <1>0, <2>3 DEF Apply, Continue, files, RefreshUnchanged, outside, TypeOK
    <3>2. defs'.version = job[k].version
      BY <1>0, <2>3 DEF Apply, Merged, TypeOK, Rules
    <3> QED
      BY <1>0, <2>0, <3>1, <3>2 DEF VersionsKnown
  <2>4. CASE SaveCache(k) \/ SaveLocal(k)
    <3>1. /\ UNCHANGED <<defs, portal, job>> /\ wpc'[k] # "apply"
          /\ local' \in {local, job[k]} /\ cache' \in {cache, job[k]}
      BY <1>0, <2>4 DEF SaveCache, SaveLocal, Continue, RefreshUnchanged, outside, TypeOK
    <3> QED
      BY <1>0, <2>0, <3>1 DEF VersionsKnown
  <2>5. CASE Finish(k)
    <3>1. UNCHANGED <<defs, local, cache, portal>> /\ wpc'[k] # "apply"
            /\ job'[k] = Default
      BY <1>0, <2>5 DEF Finish, Continue, files, RefreshUnchanged, outside, TypeOK
    <3>2. Default.version =< portal.version
      BY <1>0 DEF Default, TypeOK
    <3> QED
      BY <1>0, <2>0, <3>1, <3>2 DEF VersionsKnown
  <2> QED
    BY <1>3, <2>1, <2>2, <2>3, <2>4, <2>5 DEF Refresh
<1>4. CASE Restart
  <2>1. /\ UNCHANGED <<local, cache, portal>> /\ defs' = StartRules
        /\ \A k \in Refreshes : job'[k] = Default /\ wpc'[k] # "apply"
    BY <1>4 DEF Restart, files, outside
  <2>2. StartRules.version =< portal.version /\ Default.version =< portal.version
    BY <1>0, StartKnown DEF Default, TypeOK
  <2> QED
    BY <1>0, <2>1, <2>2 DEF VersionsKnown
<1>5. CASE Elapse \/ Settle \/ UNCHANGED vars
  BY <1>1, <1>5 DEF Elapse, Settle, files, outside, vars
<1>6. ASSUME NEW r \in Rules, Publish(r) PROVE VersionsKnown'
  <2>1. /\ UNCHANGED <<defs, local, cache, job, wpc>>
        /\ portal'.version > portal.version /\ portal'.version \in Int
    BY <1>6, VersionAssumption DEF Publish, files, Rules
  <2> QED
    BY <1>0, <2>1 DEF VersionsKnown
<1>7. ASSUME NEW f \in OwnRules \cup {Absent, Unreadable}, EditLocal(f)
      PROVE VersionsKnown'
  <2>1. /\ UNCHANGED <<defs, cache, portal, job, wpc>>
        /\ local' \in Rules => local'.version = 0
    BY <1>7, FileAssumption DEF EditLocal, outside, OwnRules
  <2> QED
    BY <1>0, <2>1 DEF VersionsKnown, TypeOK
<1> QED
  BY <1>2, <1>3, <1>4, <1>5, <1>6, <1>7 DEF Next, Environment

\* A start finds no older rules than were saved last: the first write of a refresh puts
\* its rules into the cache, which then is not the older file, the second leaves the
\* cache as it is or makes the local file win with the same rules.
LEMMA StartStep == Inv /\ [Next]_vars => StartIsNoOlder'
<1> SUFFICES ASSUME Inv, [Next]_vars PROVE StartIsNoOlder'
  OBVIOUS
<1>0. TypeOK /\ TypeOK' /\ StartIsNoOlder
  BY TypeStep DEF Inv
<1>1. ASSUME UNCHANGED <<cfg, files>> PROVE StartIsNoOlder'
  BY <1>0, <1>1 DEF StartIsNoOlder, StartRules, CacheWins, FromLocal, files
<1>2. ASSUME NEW t \in Callers, Call(t) PROVE StartIsNoOlder'
  <2>1. UNCHANGED <<cfg, files>>
    BY <1>2 DEF Call, TakenBySoftmax, SoftmaxDone, Classify, Check, NotDue, StartRefresh,
       CallerUnchanged
  <2> QED
    BY <1>1, <2>1
<1>3. ASSUME NEW k \in Refreshes, Refresh(k) PROVE StartIsNoOlder'
  <2>0. job[k] \in Rules /\ job[k].version \in Int /\ saved \in Int
    BY <1>0, <1>3, VersionAssumption DEF TypeOK, Rules
  <2>1. CASE SaveCache(k)
    <3>1. /\ UNCHANGED <<cfg, local>>
          /\ cache' = job[k] /\ cacheOlder' = FALSE /\ saved' = job[k].version
      BY <2>1 DEF SaveCache, RefreshUnchanged
    <3>2. CASE cfg.preferLocal
      BY <3>1, <3>2 DEF StartIsNoOlder
    <3>3. CASE ~cfg.preferLocal
      <4>1. CacheWins'
        BY <2>0, <3>1, <3>3 DEF CacheWins
      <4> QED
        BY <2>0, <3>1, <4>1 DEF StartIsNoOlder, StartRules
    <3> QED
      BY <3>2, <3>3
  <2>2. CASE SaveLocal(k)
    <3>1. /\ local' = job[k] /\ saved' = job[k].version /\ UNCHANGED cache
          /\ cacheOlder' = TRUE \/ cache = job[k]
          /\ job[k] # Absent
      BY <2>0, <2>2, FileAssumption DEF SaveLocal
    <3>2. StartRules' = job[k]
      <4>1. FromLocal' = job[k]
        BY <2>0, <3>1 DEF FromLocal
      <4>2. CacheWins' => cache' = job[k]
        BY <3>1 DEF CacheWins
      <4> QED
        BY <4>1, <4>2 DEF StartRules
    <3> QED
      BY <2>0, <3>1, <3>2 DEF StartIsNoOlder
  <2>3. CASE Refresh(k) /\ ~SaveCache(k) /\ ~SaveLocal(k)
    <3>1. UNCHANGED <<cfg, files>>
      BY <2>3 DEF Refresh, FetchFails, FetchOK, Apply, SaveCacheFails, SaveLocalFails,
         Finish, RefreshUnchanged
    <3> QED
      BY <1>1, <3>1
  <2> QED
    BY <1>3, <2>1, <2>2, <2>3
<1>4. ASSUME NEW f \in OwnRules \cup {Absent, Unreadable}, EditLocal(f)
      PROVE StartIsNoOlder'
  <2>1. saved' = 0
    BY <1>4 DEF EditLocal
  <2>2. StartRules' \in Rules
    <3>1. FromLocal' \in Rules
      BY DefaultTyped DEF FromLocal
    <3> QED
      BY <3>1 DEF StartRules, CacheWins
  <2> QED
    BY <2>1, <2>2, VersionAssumption DEF StartIsNoOlder, Rules
<1>5. CASE Restart \/ Elapse \/ Settle \/ UNCHANGED vars
  BY <1>1, <1>5 DEF Restart, Elapse, Settle, files, vars
<1>6. ASSUME NEW r \in Rules, Publish(r) PROVE StartIsNoOlder'
  BY <1>1, <1>6 DEF Publish
<1> QED
  BY <1>2, <1>3, <1>4, <1>5, <1>6 DEF Next, Environment

-----------------------------------------------------------------------------

\* The inductive invariant holds in every behaviour.
THEOREM Invariance == Spec => []Inv
<1>1. Inv /\ [Next]_vars => Inv'
  BY TypeStep, FlightStep, FlagStep, VersionStep, StartStep DEF Inv
<1> QED
  BY InitInv, <1>1, PTL DEF Spec

\* The variables keep their types, and what is applied and saved came from the portal.
THEOREM TypeCorrect == Spec => []TypeOK
<1>1. Inv => TypeOK
  BY DEF Inv
<1> QED
  BY Invariance, <1>1, PTL

\* refreshRulesIfDue: however many requests race, one refresh is in flight.
THEOREM AtMostOneRefresh == Spec => []SingleFlight
<1>1. Inv => SingleFlight
  BY DEF Inv
<1> QED
  BY Invariance, <1>1, PTL

\* The flag is up only while a refresh that will clear it is in flight.
THEOREM FlagIsNeverStuck == Spec => []FlagMeansFlight
<1>1. Inv => FlagMeansFlight
  BY DEF Inv
<1> QED
  BY Invariance, <1>1, PTL

\* bootstrapRules: whenever the process stops, the next start finds rules no older than
\* those saved last.
THEOREM StartKeepsSaved == Spec => []StartIsNoOlder
<1>1. Inv => StartIsNoOlder
  BY DEF Inv
<1> QED
  BY Invariance, <1>1, PTL

\* Only Apply and a restart replace the rules, and Apply has newer ones or the same.
LEMMA AdvanceStep ==
  Inv /\ [Next]_vars =>
    [\/ Restart
     \/ /\ defs'.version >= defs.version
        /\ cfg.merge /\ defs.ip => defs'.ip]_vars
<1> SUFFICES ASSUME Inv, [Next]_vars, ~Restart
             PROVE /\ defs'.version >= defs.version
                   /\ cfg.merge /\ defs.ip => defs'.ip
  BY DEF vars
<1>0. TypeOK /\ VersionsKnown /\ defs \in Rules /\ defs.version \in Int
  BY VersionAssumption DEF Inv, TypeOK, Rules
<1>1. ASSUME UNCHANGED defs PROVE defs'.version >= defs.version /\ (defs.ip => defs'.ip)
  BY <1>0, <1>1
<1>2. ASSUME NEW k \in Refreshes, Apply(k)
      PROVE /\ defs'.version >= defs.version
            /\ cfg.merge /\ defs.ip => defs'.ip
  <2>1. job[k] \in Rules /\ job[k].version \in Int /\ defs.version =< job[k].version
    BY <1>0, <1>2, VersionAssumption DEF Apply, VersionsKnown, TypeOK, Rules
  <2>2. defs'.version = job[k].version
    BY <1>2, <2>1 DEF Apply, Merged, Rules
  <2>3. cfg.merge => defs'.ip = (job[k].ip \/ defs.ip)
    BY <1>2, <2>1 DEF Apply, Merged, Rules
  <2> QED
    BY <2>1, <2>2, <2>3, <1>0
<1>3. ASSUME \A k \in Refreshes : ~Apply(k) PROVE UNCHANGED defs
  <2>1. ASSUME NEW t \in Callers, Call(t) PROVE UNCHANGED defs
    BY <2>1 DEF Call, TakenBySoftmax, SoftmaxDone, Classify, Check, NotDue, StartRefresh,
       CallerUnchanged
  <2>2. ASSUME NEW k \in Refreshes, Refresh(k) PROVE UNCHANGED defs
    BY <1>3, <2>2 DEF Refresh, FetchFails, FetchOK, SaveCache, SaveCacheFails, SaveLocal,
       SaveLocalFails, Finish
  <2>3. ASSUME Environment PROVE UNCHANGED defs
    BY <2>3 DEF Environment, Elapse, Settle, Publish, EditLocal
  <2> QED
    BY <2>1, <2>2, <2>3 DEF Next, vars
<1> QED
  BY <1>1, <1>2, <1>3

\* While a process runs its rules do not go back to an older version, and with the merge
\* strategy they keep their sections.
THEOREM RulesDoNotGoBack == Spec => RulesOnlyAdvance
<1> QED
  BY Invariance, AdvanceStep, PTL DEF Spec, RulesOnlyAdvance

\* Rules in memory that are the portal's stay so once the portal stays as it is: what a
\* refresh in flight fetched lies between the two.
LEMMA CurrentStep ==
  Inv /\ settled /\ Current /\ [Next]_vars => settled' /\ Current'
<1> SUFFICES ASSUME Inv, settled, Current, [Next]_vars PROVE settled' /\ Current'
  OBVIOUS
<1>0. TypeOK /\ VersionsKnown /\ defs.version \in Int /\ portal.version \in Int
  BY VersionAssumption DEF Inv, TypeOK, Rules
<1>1. settled' /\ UNCHANGED portal
  BY DEF Next, Call, TakenBySoftmax, SoftmaxDone, Classify, Check, NotDue, StartRefresh,
     CallerUnchanged, Refresh, FetchFails, FetchOK, Apply, SaveCache, SaveCacheFails,
     SaveLocal, SaveLocalFails, Finish, RefreshUnchanged, Environment, Restart, Elapse,
     Settle, Publish, EditLocal, outside, vars
<1>2. ASSUME NEW k \in Refreshes, Apply(k) PROVE defs'.version = portal.version
  <2>1. /\ job[k] \in Rules /\ job[k].version \in Int
        /\ defs.version =< job[k].version /\ job[k].version =< portal.version
    BY <1>0, <1>2, VersionAssumption DEF Apply, VersionsKnown, TypeOK, Rules
  <2>2. defs'.version = job[k].version
    BY <1>2, <2>1 DEF Apply, Merged, Rules
  <2> QED
    BY <1>0, <2>1, <2>2 DEF Current
<1>3. ASSUME \A k \in Refreshes : ~Apply(k) PROVE UNCHANGED defs
  BY <1>3 DEF Next, Call, TakenBySoftmax, SoftmaxDone, Classify, Check, NotDue,
     StartRefresh, CallerUnchanged, Refresh, FetchFails, FetchOK, SaveCache,
     SaveCacheFails, SaveLocal, SaveLocalFails, Finish, RefreshUnchanged, Environment,
     Restart, Elapse, Settle, Publish, EditLocal, vars
<1> QED
  BY <1>1, <1>2, <1>3 DEF Current

\* Once the portal stays as it is and its rules are in use, they remain in use: the half
\* of ClassifiedRulesBecomeCurrent that is not about fairness.
THEOREM CurrencyLasts == Spec => [](settled /\ Current => []Current)
<1>1. Inv /\ settled /\ Current /\ [Next]_vars => settled' /\ Current'
  BY CurrentStep
<1> QED
  BY <1>1, Invariance, PTL DEF Spec

-----------------------------------------------------------------------------
(* The classifier implements RefreshedValue.                               *)

\* What a refresh is about to save is what is in use.
SavesWhatIsUsed ==
  \A k \in Refreshes : wpc[k] \in {"cache", "local"} => job[k].version = defs.version

\* The rules in use stay those of the refresh until it has saved them: no other one
\* replaces them, and a restart ends it.
LEMMA SavesStep == Inv /\ SavesWhatIsUsed /\ [Next]_vars => SavesWhatIsUsed'
<1> SUFFICES ASSUME Inv, SavesWhatIsUsed, [Next]_vars PROVE SavesWhatIsUsed'
  OBVIOUS
<1> USE DEF SavesWhatIsUsed, Continue, RefreshUnchanged
<1>0. TypeOK
  BY DEF Inv
<1>1. ASSUME NEW t \in Callers, Call(t) PROVE SavesWhatIsUsed'
  <2>1. ASSUME NEW k \in Refreshes, StartRefresh(t, k) PROVE SavesWhatIsUsed'
    BY <1>0, <2>1 DEF TypeOK, StartRefresh, CallerUnchanged
  <2>2. ASSUME UNCHANGED <<defs, wpc, job>> PROVE SavesWhatIsUsed'
    BY <2>2
  <2> QED
    BY <1>1, <2>1, <2>2 DEF Call, TakenBySoftmax, SoftmaxDone, Classify, Check, NotDue,
       CallerUnchanged
<1>2. ASSUME NEW k \in Refreshes, Refresh(k) PROVE SavesWhatIsUsed'
  <2>1. CASE Apply(k)
    <3>1. \A l \in Refreshes : l # k => wpc[l] = "idle"
      BY <2>1 DEF Inv, SingleFlight, Apply
    <3>2. defs'.version = job[k].version
      BY <1>0, <2>1 DEF Apply, Merged, TypeOK, Rules
    <3>3. job' = job /\ \A l \in Refreshes : l # k => wpc'[l] = wpc[l]
      BY <1>0, <2>1 DEF Apply, TypeOK
    <3> QED
      BY <3>1, <3>2, <3>3
  <2>2. CASE FetchFails(k) \/ FetchOK(k) \/ Finish(k)
    BY <1>0, <2>2 DEF FetchFails, FetchOK, Finish, TypeOK
  <2>3. CASE SaveCache(k) \/ SaveCacheFails(k)
    BY <1>0, <2>3 DEF SaveCache, SaveCacheFails, TypeOK
  <2>4. CASE SaveLocal(k) \/ SaveLocalFails(k)
    BY <1>0, <2>4 DEF SaveLocal, SaveLocalFails, TypeOK
  <2> QED
    BY <1>2, <2>1, <2>2, <2>3, <2>4 DEF Refresh
<1>3. CASE Restart
  BY <1>3 DEF Restart
<1>4. CASE Elapse \/ Settle \/ UNCHANGED vars
  BY <1>4 DEF Elapse, Settle, vars
<1>5. ASSUME NEW r, Publish(r) \/ EditLocal(r) PROVE SavesWhatIsUsed'
  BY <1>5 DEF Publish, EditLocal
<1> QED
  BY <1>1, <1>2, <1>3, <1>4, <1>5 DEF Next, Environment

\* The phase of the promise that a refresh at w stands for.
PhaseAt(w) ==
  IF w \in {"fetch", "apply"} THEN "looking"
  ELSE IF w \in {"cache", "local"} THEN "keeping" ELSE IF w = "done" THEN "ending" ELSE "none"

\* With one refresh in flight, the phase is its own.
LEMMA PhaseOfFlight ==
  ASSUME SingleFlight, NEW k \in Refreshes, wpc[k] # "idle"
  PROVE  RefreshPhase = PhaseAt(wpc[k])
  BY DEF SingleFlight, RefreshPhase, Busy, PhaseAt

\* The same of the next state.
LEMMA PhaseOfFlightNext ==
  ASSUME SingleFlight', NEW k \in Refreshes, wpc'[k] # "idle"
  PROVE  RefreshPhase' = PhaseAt(wpc'[k])
  BY DEF SingleFlight, RefreshPhase, Busy, PhaseAt

\* A restart finds a version that is in one of the files, or the default.
LEMMA StartIsKept == TypeOK => StartRules.version \in VersionsKept
  BY DEF StartRules, CacheWins, FromLocal, Default, VersionsKept, TypeOK

\* A new classifier has version 0, whatever its files.
LEMMA PromiseInit == Init => Promise!Init
<1> SUFFICES ASSUME Init PROVE Promise!Init
  OBVIOUS
<1>1. VersionsKept = {0}
  BY FileAssumption DEF Init, VersionsKept
<1>2. RefreshPhase = "none" /\ defs.version = 0
  BY DEF Init, RefreshPhase, Busy, Default
<1> QED
  BY <1>1, <1>2 DEF Promise!Init

\* Every step of a refresh is a step of the promise, or leaves it as it is.
LEMMA RefreshKeepsPromise ==
  ASSUME Inv, Inv', SavesWhatIsUsed, NEW k \in Refreshes, Refresh(k)
  PROVE  [Promise!Next]_(Promise!vars)
<1> USE DEF Promise!Next, Promise!vars, Continue, RefreshUnchanged, files
<1>0. TypeOK /\ TypeOK'
  BY DEF Inv
<1>1. RefreshPhase = PhaseAt(wpc[k])
  BY PhaseOfFlight DEF Inv, Refresh, FetchFails, FetchOK, Apply, SaveCache,
     SaveCacheFails, SaveLocal, SaveLocalFails, Finish
<1>2. wpc'[k] # "idle" => RefreshPhase' = PhaseAt(wpc'[k])
  BY PhaseOfFlightNext DEF Inv
<1>3. CASE FetchFails(k)
  <2>1. wpc[k] = "fetch" /\ wpc'[k] = "done" /\ UNCHANGED <<defs, local, cache>>
    BY <1>0, <1>3 DEF FetchFails, TypeOK
  <2>2. Promise!GiveUp
    BY <1>1, <1>2, <2>1 DEF PhaseAt, Promise!GiveUp, VersionsKept
  <2> QED
    BY <2>2
<1>4. CASE FetchOK(k)
  <2>1. wpc[k] = "fetch" /\ wpc'[k] = "apply" /\ UNCHANGED <<defs, local, cache>>
    BY <1>0, <1>4 DEF FetchOK, TypeOK
  <2> QED
    BY <1>1, <1>2, <2>1 DEF PhaseAt, VersionsKept
<1>5. CASE Apply(k)
  <2>1. wpc[k] = "apply" /\ wpc'[k] = "cache" /\ UNCHANGED <<local, cache>>
    BY <1>0, <1>5 DEF Apply, TypeOK
  <2>2. defs'.version \in 0 .. MaxVersion
    BY <1>0 DEF TypeOK, Rules
  <2>3. Promise!Replace
    BY <1>1, <1>2, <2>1, <2>2 DEF PhaseAt, Promise!Replace, VersionsKept
  <2> QED
    BY <2>3
<1>6. CASE SaveCache(k) \/ SaveCacheFails(k) \/ SaveLocal(k) \/ SaveLocalFails(k)
  <2>1. /\ wpc[k] \in {"cache", "local"} /\ wpc'[k] \in {"local", "done"}
        /\ UNCHANGED defs
        /\ cache' = cache \/ cache' = job[k]
        /\ local' = local \/ local' = job[k]
    BY <1>0, <1>6 DEF SaveCache, SaveCacheFails, SaveLocal, SaveLocalFails, TypeOK
  <2>2. job[k].version = defs.version
    BY <2>1 DEF SavesWhatIsUsed
  <2>3. VersionsKept' # {} /\ VersionsKept' \subseteq VersionsKept \cup {defs.version}
    BY <2>1, <2>2 DEF VersionsKept
  <2>4. Promise!Keep
    BY <1>1, <1>2, <2>1, <2>3 DEF PhaseAt, Promise!Keep
  <2> QED
    BY <2>4
<1>7. CASE Finish(k)
  <2>1. wpc[k] = "done" /\ UNCHANGED <<defs, local, cache>>
    BY <1>7 DEF Finish
  <2>2. \A l \in Refreshes : wpc'[l] = "idle"
    BY <1>0, <1>7 DEF Finish, Inv, SingleFlight, TypeOK
  <2>3. RefreshPhase' = "none"
    BY <2>2 DEF RefreshPhase, Busy
  <2>4. Promise!End
    BY <1>1, <2>1, <2>3 DEF PhaseAt, Promise!End, VersionsKept
  <2> QED
    BY <2>4
<1> QED
  BY <1>3, <1>4, <1>5, <1>6, <1>7 DEF Refresh

\* So is every step of the requests, the process and its environment.
LEMMA PromiseStep ==
  Inv /\ Inv' /\ SavesWhatIsUsed /\ [Next]_vars => [Promise!Next]_(Promise!vars)
<1> SUFFICES ASSUME Inv, Inv', SavesWhatIsUsed, [Next]_vars
             PROVE  [Promise!Next]_(Promise!vars)
  OBVIOUS
<1>0. ASSUME UNCHANGED <<defs, local, cache, wpc>> PROVE UNCHANGED Promise!vars
  BY <1>0 DEF Promise!vars, VersionsKept, RefreshPhase, Busy
<1>1. ASSUME NEW t \in Callers, Call(t) PROVE [Promise!Next]_(Promise!vars)
  <2>1. ASSUME NEW k \in Refreshes, StartRefresh(t, k) PROVE Promise!Next
    <3>1. \A l \in Refreshes : wpc[l] = "idle"
      BY <2>1 DEF Inv, FlagCoversFlight, Active, StartRefresh, StillDue, IsDue
    <3>2. RefreshPhase = "none"
      BY <3>1 DEF RefreshPhase, Busy
    <3>3. wpc'[k] = "fetch"
      BY <2>1 DEF StartRefresh, Continue, Inv, TypeOK
    <3>4. RefreshPhase' = "looking"
      BY <3>3, PhaseOfFlightNext DEF Inv, PhaseAt
    <3>5. Promise!Look
      BY <2>1, <3>2, <3>4 DEF Promise!Look, StartRefresh, CallerUnchanged, files, VersionsKept
    <3> QED
      BY <3>5 DEF Promise!Next
  <2> QED
    BY <1>0, <1>1, <2>1 DEF Call, TakenBySoftmax, SoftmaxDone, Classify, Check, NotDue,
       CallerUnchanged, files
<1>2. ASSUME NEW k \in Refreshes, Refresh(k) PROVE [Promise!Next]_(Promise!vars)
  BY <1>2, RefreshKeepsPromise
<1>3. CASE Restart
  <2>1. RefreshPhase' = "none"
    BY <1>3 DEF Restart, RefreshPhase, Busy
  <2>2. defs'.version \in VersionsKept /\ VersionsKept' = VersionsKept
    BY <1>3, StartIsKept DEF Restart, Inv, files, VersionsKept
  <2>3. Promise!Restart
    BY <2>1, <2>2 DEF Promise!Restart
  <2> QED
    BY <2>3 DEF Promise!Next
<1>4. ASSUME NEW f \in OwnRules \cup {Absent, Unreadable}, EditLocal(f) PROVE Promise!Next
  <2>1. VersionsKept' # {} /\ VersionsKept' \subseteq VersionsKept \cup {0}
    BY <1>4, FileAssumption DEF EditLocal, VersionsKept, OwnRules
  <2>2. RefreshPhase' = RefreshPhase /\ defs' = defs
    BY <1>4 DEF EditLocal, RefreshPhase, Busy
  <2>3. Promise!Edit
    BY <2>1, <2>2 DEF Promise!Edit
  <2> QED
    BY <2>3 DEF Promise!Next
<1>5. ASSUME Elapse \/ Settle \/ (\E r \in Rules : Publish(r)) \/ UNCHANGED vars
      PROVE  UNCHANGED Promise!vars
  BY <1>0, <1>5 DEF Elapse, Settle, Publish, files, vars
<1> QED
  BY <1>1, <1>2, <1>3, <1>4, <1>5 DEF Next, Environment

\* Classifier implements RefreshedValue: one look at a time, rules replaced as a whole and
\* only by a look that brought some, no file with rules that were not in use.
THEOREM ClassifierRefines == Spec => RefinesPromise
<1>1. Init => SavesWhatIsUsed
  BY DEF Init, SavesWhatIsUsed
<1>2. Inv /\ SavesWhatIsUsed /\ [Next]_vars => SavesWhatIsUsed'
  BY SavesStep
<1>3. Init => Promise!Init
  BY PromiseInit
<1>4. Inv /\ Inv' /\ SavesWhatIsUsed /\ [Next]_vars => [Promise!Next]_(Promise!vars)
  BY PromiseStep
<1> QED
  BY <1>1, <1>2, <1>3, <1>4, Invariance, PTL DEF Spec, RefinesPromise, Promise!Spec

=============================================================================
