----------------------------- MODULE Classifier -----------------------------
(***************************************************************************)
(* Classifier of classifier.go, with the rules the portal publishes: which *)
(* rules a start takes from its three files, the refresh that a request    *)
(* sets off, and the two files it writes.  Remote rules are enabled: with  *)
(* botRulesURL disabled nothing here changes after the start.              *)
(*                                                                         *)
(* Callers are the goroutines in refreshRulesIfDue: requests for protected *)
(* paths, and Boot, which bootstrapRules starts.  Refreshes are the        *)
(* goroutines that it starts in turn.                                      *)
(*                                                                         *)
(* Rules are a version and whether they have ipVerification, the section   *)
(* that decides how ClassifyForBotWall goes.  Version 0 is what does not   *)
(* come from the portal: the default file and the operator's own rules.    *)
(***************************************************************************)
EXTENDS Integers

CONSTANTS
  Requests, Boot, Refreshes,
  MaxVersion,             \* bound: the portal publishes versions 1 .. MaxVersion
  Absent, Unreadable      \* a file that is missing, one that is no rules

Callers == Requests \cup {Boot}
Rules == [version : 0 .. MaxVersion, ip : BOOLEAN]

ASSUME CallerAssumption == Boot \notin Requests
ASSUME VersionAssumption == MaxVersion \in Nat \ {0}
ASSUME FileAssumption == Absent \notin Rules /\ Unreadable \notin Rules

VARIABLES
  cfg,          \* botRulesFile set, preferLocalBotRulesFile, merge, enableIPSoftmax
  defs,         \* c.defs, with what setDefs derives from it
  refreshing,   \* c.refreshing
  due,          \* c.nextSync has passed
  local,        \* the file botRulesFile
  cache,        \* the file rulesCacheFile
  cacheOlder,   \* the cache was modified before the local file
  pc,           \* [Callers]: where a caller is
  wpc,          \* [Refreshes]: where a refresh is
  job,          \* [Refreshes]: the remote rules it fetched
  portal,       \* the rules the portal serves
  saved,        \* history: version saved last, 0 when the files were changed since
  settled       \* from now on the portal answers and stays as it is

files == <<local, cache, cacheOlder, saved>>
outside == <<portal, settled>>
vars == <<cfg, defs, refreshing, due, local, cache, cacheOlder, pc, wpc, job, portal,
          saved, settled>>

Goto(t, p) == pc' = [pc EXCEPT ![t] = p]
Continue(k, p) == wpc' = [wpc EXCEPT ![k] = p]

-----------------------------------------------------------------------------
(* Choices of the code that are made in one place each.                    *)

\* defaultBotDef.json, which has ipVerification.
Default == [version |-> 0, ip |-> TRUE]

\* bootstrapRules: the local file, if readable, over the default, and the cache over
\* both, if readable and not older than the local file, wanted or not.
FromLocal == IF local \in Rules THEN local ELSE Default

MutNewerLocalLoses == cache \in Rules /\ (local = Absent \/ cacheOlder)
CacheWins ==
  /\ cache \in Rules
  /\ local = Absent \/ ~cacheOlder
  /\ ~(cfg.preferLocal /\ local # Absent)

StartRules == IF CacheWins THEN cache ELSE FromLocal

\* mergeBotDefs: remote sections over the current ones, if there are any.
MutReplace(base, remote) == remote
Merged(base, remote) == [remote EXCEPT !.ip = remote.ip \/ base.ip]

\* The test made twice, under RLock and again under Lock.
IsDue == ~refreshing /\ due
MutNoRecheck == TRUE
StillDue == IsDue

-----------------------------------------------------------------------------
(* A request: ClassifyForBotWall.                                          *)

CallerUnchanged == UNCHANGED <<cfg, defs, due, files, outside>>

\* Softmax decides by itself: a winner, or one that fails its IP test.
TakenBySoftmax(t) ==
  /\ pc[t] = "idle" /\ t # Boot
  /\ cfg.softmax /\ defs.ip
  /\ Goto(t, "softmax")
  /\ UNCHANGED <<refreshing, wpc, job>> /\ CallerUnchanged

SoftmaxDone(t) ==
  /\ pc[t] = "softmax"
  /\ Goto(t, "idle")
  /\ UNCHANGED <<refreshing, wpc, job>> /\ CallerUnchanged

\* No softmax, no ipVerification or no evidence: Classify, which looks after the rules.
Classify(t) ==
  /\ pc[t] = "idle" /\ t # Boot
  /\ Goto(t, "check")
  /\ UNCHANGED <<refreshing, wpc, job>> /\ CallerUnchanged

\* refreshRulesIfDue under RLock.
Check(t) ==
  /\ pc[t] = "check"
  /\ Goto(t, IF IsDue THEN "recheck" ELSE "idle")
  /\ UNCHANGED <<refreshing, wpc, job>> /\ CallerUnchanged

\* Under Lock: someone else started the refresh, or finished one, in between.
NotDue(t) ==
  /\ pc[t] = "recheck" /\ ~StillDue
  /\ Goto(t, "idle")
  /\ UNCHANGED <<refreshing, wpc, job>> /\ CallerUnchanged

StartRefresh(t, k) ==
  /\ pc[t] = "recheck" /\ StillDue
  /\ wpc[k] = "idle"
  /\ refreshing' = TRUE
  /\ Goto(t, "idle")
  /\ Continue(k, "fetch")
  /\ UNCHANGED job /\ CallerUnchanged

-----------------------------------------------------------------------------
(* The refresh goroutine.                                                  *)

RefreshUnchanged == UNCHANGED <<cfg, pc, outside>>

\* No answer, no 2xx, or no rules in it: the rules in memory stay.
MutNoReturn(k) ==
  /\ wpc[k] = "fetch" /\ ~settled
  /\ Continue(k, "apply")
  /\ UNCHANGED <<defs, refreshing, due, files, job>> /\ RefreshUnchanged

FetchFails(k) ==
  /\ wpc[k] = "fetch" /\ ~settled
  /\ Continue(k, "done")
  /\ UNCHANGED <<defs, refreshing, due, files, job>> /\ RefreshUnchanged

FetchOK(k) ==
  /\ wpc[k] = "fetch"
  /\ job' = [job EXCEPT ![k] = portal]
  /\ Continue(k, "apply")
  /\ UNCHANGED <<defs, refreshing, due, files>> /\ RefreshUnchanged

\* Under Lock, by rulesMergeStrategy.
Apply(k) ==
  /\ wpc[k] = "apply"
  /\ defs' = IF cfg.merge THEN Merged(defs, job[k]) ELSE job[k]
  /\ Continue(k, "cache")
  /\ UNCHANGED <<refreshing, due, files, job>> /\ RefreshUnchanged

\* writeJSON is all or nothing; what is written is what was fetched, not the merge.
SaveCache(k) ==
  /\ wpc[k] = "cache"
  /\ cache' = job[k] /\ cacheOlder' = FALSE /\ saved' = job[k].version
  /\ Continue(k, "local")
  /\ UNCHANGED <<defs, refreshing, due, local, job>> /\ RefreshUnchanged

SaveCacheFails(k) ==
  /\ wpc[k] = "cache" /\ ~settled
  /\ Continue(k, "local")
  /\ UNCHANGED <<defs, refreshing, due, files, job>> /\ RefreshUnchanged

\* The two writes of one refresh may get the same modification time.
SaveLocal(k) ==
  /\ wpc[k] = "local" /\ cfg.local
  /\ local' = job[k] /\ saved' = job[k].version
  /\ cacheOlder' = TRUE \/ (cache = job[k] /\ UNCHANGED cacheOlder)
  /\ Continue(k, "done")
  /\ UNCHANGED <<defs, refreshing, due, cache, job>> /\ RefreshUnchanged

SaveLocalFails(k) ==
  /\ wpc[k] = "local"
  /\ ~settled \/ ~cfg.local         \* or there is no local file to write
  /\ Continue(k, "done")
  /\ UNCHANGED <<defs, refreshing, due, files, job>> /\ RefreshUnchanged

\* The deferred function, whatever the outcome was.
MutFinishOnSuccess(k) ==
  /\ wpc[k] = "done"
  /\ refreshing' = (job[k] = Default) /\ due' = FALSE
  /\ job' = [job EXCEPT ![k] = Default]
  /\ Continue(k, "idle")
  /\ UNCHANGED <<defs, files>> /\ RefreshUnchanged

Finish(k) ==
  /\ wpc[k] = "done"
  /\ refreshing' = FALSE /\ due' = FALSE
  /\ job' = [job EXCEPT ![k] = Default]
  /\ Continue(k, "idle")
  /\ UNCHANGED <<defs, files>> /\ RefreshUnchanged

-----------------------------------------------------------------------------
(* The process and its environment.                                        *)

\* The process stops at any point and NewClassifier starts over from the files.
Restart ==
  /\ ~settled
  /\ defs' = StartRules
  /\ refreshing' = FALSE /\ due' = FALSE
  /\ pc' = [t \in Callers |-> IF t = Boot THEN "check" ELSE "idle"]
  /\ wpc' = [k \in Refreshes |-> "idle"] /\ job' = [k \in Refreshes |-> Default]
  /\ UNCHANGED <<cfg, files, outside>>

\* rulesRefreshInterval passes, positive as CONFIGURATION.md has it (no check is made).
Elapse ==
  /\ due' = TRUE
  /\ UNCHANGED <<cfg, defs, refreshing, files, pc, wpc, job, outside>>

\* The portal publishes rules with a section more or less.
Publish(r) ==
  /\ ~settled
  /\ r.version > portal.version
  /\ portal' = r
  /\ UNCHANGED <<cfg, defs, refreshing, due, files, pc, wpc, job, settled>>

\* The operator edits the local file, or breaks or removes it.
EditLocal(f) ==
  /\ ~settled /\ cfg.local
  /\ local' = f /\ cacheOlder' = (f # Absent) /\ saved' = 0
  /\ UNCHANGED <<cfg, defs, refreshing, due, cache, pc, wpc, job, outside>>

Settle ==
  /\ settled' = TRUE
  /\ UNCHANGED <<cfg, defs, refreshing, due, files, pc, wpc, job, portal>>

-----------------------------------------------------------------------------
Init ==
  /\ cfg \in [local : BOOLEAN, preferLocal : BOOLEAN, merge : BOOLEAN, softmax : BOOLEAN]
  /\ local = Absent /\ cache = Absent /\ cacheOlder = FALSE /\ saved = 0
  /\ defs = Default
  /\ refreshing = FALSE /\ due = FALSE
  /\ pc = [t \in Callers |-> IF t = Boot THEN "check" ELSE "idle"]
  /\ wpc = [k \in Refreshes |-> "idle"] /\ job = [k \in Refreshes |-> Default]
  /\ portal \in {r \in Rules : r.version = 1} /\ settled = FALSE

Call(t) ==
  \/ TakenBySoftmax(t) \/ SoftmaxDone(t)
  \/ Classify(t) \/ Check(t) \/ NotDue(t)
  \/ \E k \in Refreshes : StartRefresh(t, k)

Refresh(k) ==
  \/ FetchFails(k) \/ FetchOK(k) \/ Apply(k)
  \/ SaveCache(k) \/ SaveCacheFails(k) \/ SaveLocal(k) \/ SaveLocalFails(k)
  \/ Finish(k)

OwnRules == {r \in Rules : r.version = 0}

Environment ==
  \/ Restart \/ Elapse \/ Settle
  \/ \E r \in Rules : Publish(r)
  \/ \E f \in OwnRules \cup {Absent, Unreadable} : EditLocal(f)

Next ==
  \/ \E t \in Callers : Call(t)
  \/ \E k \in Refreshes : Refresh(k)
  \/ Environment

Spec == Init /\ [][Next]_vars

\* Requests for protected paths keep arriving and are served, a refresh goes on (the
\* client gives up after 10 s), and time passes.
Fairness ==
  /\ \A t \in Callers : WF_vars(Call(t))
  /\ \A k \in Refreshes : WF_vars(Refresh(k))
  /\ WF_vars(Elapse)

LiveSpec == Spec /\ Fairness

-----------------------------------------------------------------------------
(* Properties.                                                             *)

\* Types; a refresh has fetched rules of the portal when it applies and saves them.
TypeOK ==
  /\ cfg \in [local : BOOLEAN, preferLocal : BOOLEAN, merge : BOOLEAN, softmax : BOOLEAN]
  /\ defs \in Rules /\ portal \in Rules /\ portal.version > 0
  /\ refreshing \in BOOLEAN /\ due \in BOOLEAN
  /\ local \in Rules \cup {Absent, Unreadable} /\ cache \in Rules \cup {Absent}
  /\ cacheOlder \in BOOLEAN /\ saved \in 0 .. MaxVersion /\ settled \in BOOLEAN
  /\ pc \in [Callers -> {"idle", "softmax", "check", "recheck"}]
  /\ wpc \in [Refreshes -> {"idle", "fetch", "apply", "cache", "local", "done"}]
  /\ job \in [Refreshes -> Rules]
  /\ \A k \in Refreshes : wpc[k] \in {"apply", "cache", "local"} => job[k].version > 0

\* However requests and the start's own check interleave, one refresh is in flight.
SingleFlight == \A k, l \in Refreshes : wpc[k] # "idle" /\ wpc[l] # "idle" => k = l

\* The flag that keeps requests from starting a refresh goes down with the refresh that
\* put it up, whatever became of it: else no rules would be fetched until a restart.
FlagMeansFlight == refreshing => \E k \in Refreshes : wpc[k] # "idle"

\* Rules that a refresh saved, be it to one of its two files only, are not lost to
\* older ones at the next start, whenever the process stops, unless the operator
\* changed a file since or wants the local file come what may.
StartIsNoOlder == cfg.preferLocal \/ StartRules.version >= saved

\* While the process runs, its rules never go back to an older version, and with
\* merge never lose a section.
RulesOnlyAdvance ==
  [][\/ Restart
     \/ /\ defs'.version >= defs.version
        /\ cfg.merge /\ defs.ip => defs'.ip]_vars

Busy(phases) == \E k \in Refreshes : wpc[k] \in phases

RefreshPhase ==
  IF Busy({"fetch", "apply"}) THEN "looking"
  ELSE IF Busy({"cache", "local"}) THEN "keeping" ELSE IF Busy({"done"}) THEN "ending" ELSE "none"

VersionsKept == {0} \cup {f.version : f \in {local, cache} \cap Rules}

Promise == INSTANCE RefreshedValue WITH
  Values <- 0 .. MaxVersion, Initial <- 0, Own <- {0},
  current <- defs.version, kept <- VersionsKept, phase <- RefreshPhase

\* Whatever the interleaving, the rules go from one version to the next at the end of
\* a refresh that brought some or at a restart, a refresh that failed leaves them
\* alone, and no file ever holds a version that was not in use.
RefinesPromise == Promise!Spec

\* A refresh ends, and leaves the classifier free to start another.
RefreshEnds == refreshing ~> ~refreshing

Current == defs.version = portal.version

\* When every request is classified by Classify, the rules become those of the portal
\* and stay so, once it answers.
ClassifiedRulesBecomeCurrent == settled /\ ~cfg.softmax ~> []Current

\* The same whatever the configuration: "If botRulesURL is enabled ..., start periodic
\* background refresh to remote rules".
RulesBecomeCurrent == settled ~> []Current

=============================================================================
