---------------------------- MODULE PublisherKey ----------------------------
(***************************************************************************)
(* PublisherKeyManager of publisher_api_key.go: the live secret that log   *)
(* shipping sends, its state file, and its rotation before it expires.     *)
(*                                                                         *)
(* The portal numbers the keys it issues: key g has secret g and id g, and *)
(* rotating key g revokes it and issues g + 1.  The dates of a key are     *)
(* known by its number, and due[g] says that the clock has passed          *)
(* expiration - bufferDays of key g.                                       *)
(*                                                                         *)
(* The goroutines are Ticker (runRotationLoop) and those that              *)
(* scheduleDueRotation starts, one each time it is called: a Timer sleeps, *)
(* looks, and starts its successor.  A tick of the clock is 15 s, the time *)
(* the HTTP client allows a request; it is counted only while the lock of  *)
(* rotate is held.                                                         *)
(***************************************************************************)
EXTENDS Integers

CONSTANTS
  Ticker, Timers,
  MaxKey,        \* bound: the portal issues keys 0 .. MaxKey
  LockTicks,     \* publisherRotationLockDuration, 8 ticks
  RequestTicks,  \* timeout of the HTTP client, 1 tick
  NoKey,         \* no metadata yet
  Faulty,        \* FALSE: portal, disk and process are well from the start
  Shared         \* TRUE: another instance has the same key and state file

Keys == 0 .. MaxKey
Workers == Timers \cup {Ticker}

\* rotate makes at most three requests: two candidates for the PUT, and the GET.
ASSUME LockAssumption ==
  /\ MaxKey \in Nat /\ LockTicks \in Nat /\ RequestTicks \in Nat
  /\ 3 * RequestTicks < LockTicks

ASSUME NameAssumption ==
  Ticker \notin Timers /\ NoKey \notin Keys /\ Faulty \in BOOLEAN /\ Shared \in BOOLEAN

VARIABLES
  mem,         \* m.state: secret, key id, the key its dates are of, status active
  disk,        \* the state file, as the next start loads it
  lockLeft,    \* what is left until m.rotateUntil
  pc,          \* [Workers]: where a goroutine is
  ret,         \* [Workers]: what called RefreshMetadata
  got,         \* [Workers]: the key of the last answer
  okay,        \* [Workers]: the status of the last answer is active
  spent,       \* [Workers]: ticks the request in flight has taken
  armedFor,    \* [Timers]: the key whose due time a timer sleeps until
  portal,      \* the current key
  due,         \* [Keys]: the key's rotation is due
  other,       \* the secret of the other instance's manager
  lost,        \* history: the secret of a rotation never reached the manager
  settled      \* from now on the portal, the disk and the process are well

locals == <<ret, got, okay, spent, armedFor>>
outside == <<portal, due, other, settled>>
vars == <<mem, disk, lockLeft, pc, ret, got, okay, spent, armedFor, portal, due,
          other, lost, settled>>

Goto(w, p) == pc' = [pc EXCEPT ![w] = p]

\* Between acquireRotateLock and releaseRotateLock, and with a request out.
InRotation(w) ==
  \/ pc[w] \in {"putId", "putCurrent", "apply", "failed", "release"}
  \/ pc[w] \in {"get", "meta"} /\ ret[w] = "rotate"
Requesting(w) == InRotation(w) /\ pc[w] \in {"putId", "putCurrent", "get"}

-----------------------------------------------------------------------------
(* Choices of the code that are made in one place each.                    *)

States == [secret : Keys, id : Keys, dates : Keys \cup {NoKey}, active : BOOLEAN]

\* NewPublisherKeyManager without a state file: the bootstrap secret and its id.
Bootstrap == [secret |-> 0, id |-> 0, dates |-> NoKey, active |-> TRUE]

\* IsRotationDue and the status test of MaybeRotateProactive.
MutSkipWhenActive(st) == st.dates # NoKey /\ due[st.dates] /\ ~st.active
RotationDue(st) == st.dates # NoKey /\ due[st.dates] /\ st.active

\* acquireRotateLock: until when the lock is taken.
MutTwoRequests == 2 * RequestTicks
MutTwice == 2 * LockTicks
LockTaken == LockTicks

\* rotate goes through rotateKeyIDCandidates: the key's id, then "current".
MutStartOver(p) == "putId"
AfterRefusal(p) == IF p = "putId" THEN "putCurrent" ELSE "failed"

\* rotate, under Lock: what the answer to the PUT changes.
MutKeepSecret(st, g) == [st EXCEPT !.id = g, !.active = TRUE]
Rotated(st, g) == [st EXCEPT !.secret = g, !.id = g, !.active = TRUE]

\* RefreshMetadata, under Lock: what the answer to the GET changes.
MutTakeSecret(st, g, ok) == [st EXCEPT !.secret = g, !.id = g, !.dates = g, !.active = ok]
Refreshed(st, g, ok) == [st EXCEPT !.id = g, !.dates = g, !.active = ok]

Caller(r) ==
  CASE r = "start" -> "schedule" [] r = "tick" -> "check" [] r = "rotate" -> "release"

\* RefreshMetadata returns: its local variables are gone.
Return(w) ==
  /\ Goto(w, Caller(ret[w]))
  /\ ret' = [ret EXCEPT ![w] = "start"]
  /\ got' = [got EXCEPT ![w] = 0] /\ okay' = [okay EXCEPT ![w] = TRUE]
  /\ spent' = [spent EXCEPT ![w] = 0]

-----------------------------------------------------------------------------
(* The ticker's loop, and RefreshMetadata.                                 *)

DailyTick ==
  /\ pc[Ticker] = "wait"
  /\ Goto(Ticker, "get")
  /\ ret' = [ret EXCEPT ![Ticker] = "tick"]
  /\ UNCHANGED <<mem, disk, lockLeft, got, okay, spent, armedFor, lost, outside>>

\* fetchCurrentKeyMetadata, without the lock: the portal answers a live secret.
GetOK(w, ok) ==
  /\ pc[w] = "get"
  /\ mem.secret = portal
  /\ settled => ok
  /\ got' = [got EXCEPT ![w] = portal]
  /\ okay' = [okay EXCEPT ![w] = ok]
  /\ spent' = [spent EXCEPT ![w] = 0]
  /\ Goto(w, "meta")
  /\ UNCHANGED <<mem, disk, lockLeft, ret, armedFor, lost, outside>>

\* No answer, or a refusal: the secret is revoked, or a rotation overtook the request.
GetFails(w) ==
  /\ pc[w] = "get"
  /\ ~settled \/ mem.secret # portal \/ (ret[w] # "rotate" /\ lockLeft > 0)
  /\ Return(w)
  /\ UNCHANGED <<mem, disk, lockLeft, armedFor, lost, outside>>

\* The answer is applied and the state saved (temporary file and rename), under Lock.
ApplyMetadata(w) ==
  /\ pc[w] = "meta"
  /\ mem' = Refreshed(mem, got[w], okay[w])
  /\ \/ disk' = mem'
     \/ ~settled /\ disk' = disk
  /\ Return(w)
  /\ UNCHANGED <<lockLeft, armedFor, lost, outside>>

-----------------------------------------------------------------------------
(* MaybeRotateProactive and rotate.                                        *)

\* A snapshot of the state says whether to rotate.
Check(w) ==
  /\ pc[w] = "check"
  /\ Goto(w, IF RotationDue(mem) THEN "lock" ELSE "schedule")
  /\ UNCHANGED <<mem, disk, lockLeft, locals, lost, outside>>

AcquireRotateLock(w) ==
  /\ pc[w] = "lock" /\ lockLeft = 0
  /\ lockLeft' = LockTaken
  /\ Goto(w, "putId")
  /\ UNCHANGED <<mem, disk, locals, lost, outside>>

AlreadyInProgress(w) ==
  /\ pc[w] = "lock" /\ lockLeft > 0
  /\ Goto(w, "schedule")
  /\ UNCHANGED <<mem, disk, lockLeft, locals, lost, outside>>

\* The portal rotates the key named, if the secret is the live one.
Rotatable(w) ==
  /\ pc[w] \in {"putId", "putCurrent"}
  /\ mem.secret = portal /\ portal < MaxKey
  /\ pc[w] = "putId" => mem.id = portal

PutOK(w) ==
  /\ Rotatable(w)
  /\ portal' = portal + 1
  /\ got' = [got EXCEPT ![w] = portal + 1]
  /\ spent' = [spent EXCEPT ![w] = 0]
  /\ Goto(w, "apply")
  /\ UNCHANGED <<mem, disk, lockLeft, ret, okay, armedFor, due, other, lost, settled>>

\* 404, another refusal, or no connection: the next candidate is tried.
PutFails(w) ==
  /\ pc[w] \in {"putId", "putCurrent"}
  /\ ~settled \/ ~Rotatable(w)
  /\ Goto(w, AfterRefusal(pc[w]))
  /\ spent' = [spent EXCEPT ![w] = 0]
  /\ UNCHANGED <<mem, disk, lockLeft, ret, got, okay, armedFor, lost, outside>>

\* The portal rotates and its answer, with the new secret, does not arrive.
PutAnswerLost(w) ==
  /\ Rotatable(w) /\ ~settled
  /\ portal' = portal + 1
  /\ lost' = TRUE
  /\ Goto(w, AfterRefusal(pc[w]))
  /\ spent' = [spent EXCEPT ![w] = 0]
  /\ UNCHANGED <<mem, disk, lockLeft, ret, got, okay, armedFor, due, other, settled>>

\* The new secret is in use from here on; RefreshMetadata is to save it.
ApplyRotation(w) ==
  /\ pc[w] = "apply"
  /\ mem' = Rotated(mem, got[w])
  /\ Goto(w, "get")
  /\ ret' = [ret EXCEPT ![w] = "rotate"]
  /\ UNCHANGED <<disk, lockLeft, got, okay, spent, armedFor, lost, outside>>

\* No candidate worked: the error is recorded, and the state saved with it.
RotationFails(w) ==
  /\ pc[w] = "failed"
  /\ \/ disk' = mem
     \/ ~settled /\ disk' = disk
  /\ Goto(w, "release")
  /\ UNCHANGED <<mem, lockLeft, locals, lost, outside>>

\* Deferred, and without a look at whose lock it is.
ReleaseRotateLock(w) ==
  /\ pc[w] = "release"
  /\ lockLeft' = 0
  /\ Goto(w, "schedule")
  /\ UNCHANGED <<mem, disk, locals, lost, outside>>

-----------------------------------------------------------------------------
(* scheduleDueRotation.                                                    *)

Rest(w) == IF w = Ticker THEN "wait" ELSE "free"

NothingScheduled(w) ==
  /\ pc[w] = "schedule" /\ mem.dates = NoKey
  /\ Goto(w, Rest(w))
  /\ UNCHANGED <<mem, disk, lockLeft, locals, lost, outside>>

\* One more goroutine, in place of a timer that has gone off, besides the others
\* otherwise.  Bound: the model has no more goroutines than Timers.
StartTimer(w, x) ==
  /\ pc[w] = "schedule" /\ mem.dates # NoKey
  /\ x = w \/ (w = Ticker /\ pc[x] = "free")
  /\ pc' = [pc EXCEPT ![w] = Rest(w), ![x] = "armed"]
  /\ armedFor' = [armedFor EXCEPT ![x] = mem.dates]
  /\ UNCHANGED <<mem, disk, lockLeft, ret, got, okay, spent, lost, outside>>

TooManyTimers ==
  /\ pc[Ticker] = "schedule" /\ mem.dates # NoKey
  /\ \A x \in Timers : pc[x] # "free"
  /\ Goto(Ticker, "wait")
  /\ UNCHANGED <<mem, disk, lockLeft, locals, lost, outside>>

\* A timer whose time has come already sleeps a minute: due[..] is all it waits for.
Fire(x) ==
  /\ pc[x] = "armed" /\ due[armedFor[x]]
  /\ Goto(x, "check")
  /\ armedFor' = [armedFor EXCEPT ![x] = 0]
  /\ UNCHANGED <<mem, disk, lockLeft, ret, got, okay, spent, lost, outside>>

-----------------------------------------------------------------------------
(* New builds a manager for every instance of the middleware, and all of    *)
(* them with the configured state file: another one does the same things,  *)
(* here in one step each, and knows nothing of this one's lock.            *)

OtherUnchanged == UNCHANGED <<mem, lockLeft, pc, locals, due, settled>>

\* Traefik reloads: the new instance reads the state file.
OtherStarts ==
  /\ Shared
  /\ other' = disk.secret
  /\ UNCHANGED <<disk, portal, lost>> /\ OtherUnchanged

\* It rotates a key that is due, and saves the new one or stops before that.
OtherRotates ==
  /\ Shared /\ other = portal /\ due[portal] /\ portal < MaxKey
  /\ portal' = portal + 1 /\ other' = portal + 1
  /\ lost' = TRUE
  /\ disk' \in {disk, [Bootstrap EXCEPT !.secret = other', !.id = other', !.dates = other']}
  /\ OtherUnchanged

\* Its secret is revoked, so its rotation fails and saves the state it has.
OtherFails ==
  /\ Shared /\ other # portal /\ due[other]
  /\ disk' = [Bootstrap EXCEPT !.secret = other, !.id = other, !.dates = other]
  /\ UNCHANGED <<portal, other, lost>> /\ OtherUnchanged

-----------------------------------------------------------------------------
(* The clock, the process and the portal.                                  *)

\* Time passes in a rotation while its request is out, and no request outlives the
\* client's timeout.  What a rotation does in between takes no time to speak of.
Tick ==
  /\ lockLeft > 0
  /\ \A w \in Workers : InRotation(w) => Requesting(w) /\ spent[w] < RequestTicks
  /\ lockLeft' = lockLeft - 1
  /\ spent' = [w \in Workers |->
       IF Requesting(w) THEN spent[w] + 1 ELSE spent[w]]
  /\ UNCHANGED <<mem, disk, pc, ret, got, okay, armedFor, lost, outside>>

Age(g) ==
  /\ g <= portal /\ g < MaxKey
  /\ due' = [due EXCEPT ![g] = TRUE]
  /\ UNCHANGED <<mem, disk, lockLeft, pc, locals, lost, portal, other, settled>>

Restart ==
  /\ ~settled
  /\ mem' = disk
  /\ lockLeft' = 0
  /\ pc' = [w \in Workers |-> IF w = Ticker THEN "get" ELSE "free"]
  /\ ret' = [w \in Workers |-> "start"]
  /\ got' = [w \in Workers |-> 0] /\ okay' = [w \in Workers |-> TRUE]
  /\ spent' = [w \in Workers |-> 0] /\ armedFor' = [x \in Timers |-> 0]
  /\ lost' = (disk.secret # portal)
  /\ UNCHANGED <<disk, outside>>

Settle ==
  /\ settled' = TRUE
  /\ UNCHANGED <<mem, disk, lockLeft, pc, locals, lost, portal, due, other>>

-----------------------------------------------------------------------------
Init ==
  /\ mem = Bootstrap /\ disk = Bootstrap
  /\ lockLeft = 0
  /\ pc = [w \in Workers |-> IF w = Ticker THEN "get" ELSE "free"]
  /\ ret = [w \in Workers |-> "start"]
  /\ got = [w \in Workers |-> 0] /\ okay = [w \in Workers |-> TRUE]
  /\ spent = [w \in Workers |-> 0] /\ armedFor = [x \in Timers |-> 0]
  /\ portal = 0 /\ due = [g \in Keys |-> FALSE]
  /\ other = 0 /\ lost = FALSE /\ settled = ~Faulty

RefreshMetadata(w) ==
  (\E ok \in BOOLEAN : GetOK(w, ok)) \/ GetFails(w) \/ ApplyMetadata(w)

Rotate(w) ==
  \/ Check(w) \/ AcquireRotateLock(w) \/ AlreadyInProgress(w)
  \/ PutOK(w) \/ PutFails(w) \/ PutAnswerLost(w)
  \/ ApplyRotation(w) \/ RotationFails(w) \/ ReleaseRotateLock(w)

Schedule(w) == NothingScheduled(w) \/ \E x \in Timers : StartTimer(w, x)

Work(w) == RefreshMetadata(w) \/ Rotate(w) \/ Schedule(w)

Next ==
  \/ \E w \in Workers : Work(w)
  \/ TooManyTimers \/ DailyTick
  \/ \E x \in Timers : Fire(x)
  \/ OtherStarts \/ OtherRotates \/ OtherFails
  \/ Tick
  \/ \E g \in Keys : Age(g)
  \/ Restart
  \/ Settle

Spec == Init /\ [][Next]_vars

\* Goroutines go on (requests time out), the ticker ticks and timers go off.  When a
\* key falls due, and whether a request succeeds, is free.
Fairness ==
  /\ \A w \in Workers : WF_vars(Work(w))
  /\ \A x \in Timers : WF_vars(Fire(x))
  /\ WF_vars(TooManyTimers) /\ WF_vars(DailyTick)

LiveSpec == Spec /\ Fairness

-----------------------------------------------------------------------------
(* Properties.                                                             *)

Phases == {"wait", "free", "armed", "get", "meta", "check", "lock", "putId",
           "putCurrent", "apply", "failed", "release", "schedule"}

\* Types; that spent and lockLeft are bounded says that no request outlives the client's
\* timeout and no lock is taken twice over.
TypeOK ==
  /\ mem \in States /\ disk \in States
  /\ lockLeft \in 0 .. LockTicks
  /\ pc \in [Workers -> Phases]
  /\ ret \in [Workers -> {"start", "tick", "rotate"}]
  /\ got \in [Workers -> Keys] /\ okay \in [Workers -> BOOLEAN]
  /\ spent \in [Workers -> 0 .. RequestTicks]
  /\ armedFor \in [Timers -> Keys]
  /\ portal \in Keys /\ other \in Keys /\ due \in [Keys -> BOOLEAN]
  /\ lost \in BOOLEAN /\ settled \in BOOLEAN

\* One rotation at a time, although the lock is a deadline that may pass and is
\* released without a look at who took it: the deadline outlasts the requests.
RotationIsExclusive ==
  \A v, w \in Workers : InRotation(v) /\ InRotation(w) => v = w

\* However the ticker and the timers interleave, the secret that log shipping sends
\* is the one the portal accepts, but for the moment an answer takes to be applied,
\* and unless a new secret was lost (with an answer, or with a crash before the save).
SecretIsLive ==
  lost \/ mem.secret = portal \/ \E w \in Workers : pc[w] = "apply" /\ got[w] = portal

\* While the process runs, the secret in use never goes back to one that a rotation
\* revoked, although the answer to a GET may be applied after a rotation overtook it.
SecretAdvances == [][Restart \/ mem'.secret >= mem.secret]_vars

\* The secret of an answer that waits to be applied, else the one in use.
Received ==
  IF \E w \in Workers : pc[w] = "apply"
  THEN got[CHOOSE w \in Workers : pc[w] = "apply"]
  ELSE mem.secret

Rotating == \E w \in Workers : InRotation(w)

Custody == INSTANCE KeyCustody WITH
  issued <- portal, received <- Received, inUse <- mem.secret, saved <- disk.secret,
  rotating <- Rotating

\* However the goroutines, the two candidates of a rotation and the saves of its metadata
\* interleave, it is as if one goroutine exchanged the live secret for the next and put
\* that in use before it started over; no rotation ends with a secret that it dropped.
RefinesCustody == Custody!Spec

\* A rotation comes to an end.
RotationEnds == \A w \in Workers : InRotation(w) ~> ~InRotation(w)

\* A key that is due is rotated, once portal and disk are well.
DueKeyIsRotated ==
  \A g \in Keys : settled /\ ~lost /\ portal = g /\ due[g] ~> portal # g

\* "It calls PUT .../?op=rotate and persists the new secret to the state file": when no
\* rotation is under way, the file holds the secret in use.
RotatedSecretIsSaved ==
  (\A w \in Workers : ~InRotation(w)) => disk.secret = mem.secret

\* "When now >= expiration_date - bufferDays ... it calls PUT": no key is rotated that
\* is not due.
OnlyDueKeysAreRotated == [][portal' # portal => due[portal]]_vars

=============================================================================
