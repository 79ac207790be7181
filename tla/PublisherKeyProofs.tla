------------------------- MODULE PublisherKeyProofs -------------------------
(***************************************************************************)
(* Proofs about PublisherKey, for any number of timers and of keys, and    *)
(* any timeout of which three fit into the time the lock is taken for,     *)
(* with or without another instance on the same state file.                *)
(*                                                                         *)
(* The lock of rotate is a deadline, so that rotations exclude each other  *)
(* is a matter of time: what is left of the lock and what the rotation has *)
(* used of it make up LockTicks (LockOutlasts), and no rotation uses all   *)
(* of it.                                                                  *)
(***************************************************************************)
EXTENDS PublisherKey, TLAPS

\* The requests that a rotation at p has behind it, and the ticks they can take.
Behind(p) == CASE p = "putId" -> 0
               [] p = "putCurrent" -> RequestTicks
               [] p \in {"apply", "failed", "get"} -> RequestTicks + RequestTicks
               [] p \in {"meta", "release"} -> RequestTicks + RequestTicks + RequestTicks
               [] OTHER -> 0

\* A rotation's lock lasts for what it has not used yet.
LockOutlasts ==
  \A w \in Workers : InRotation(w) => LockTicks =< lockLeft + Behind(pc[w]) + spent[w]

\* Only a request that is out spends time.
SpentByRequests == \A w \in Workers : ~Requesting(w) => spent[w] = 0

\* The secret that the portal answered is live until it is in use.
AnswerIsLive == \A w \in Workers : pc[w] = "apply" => lost \/ got[w] = portal

\* Nobody has a secret that was not issued, and an answer that waits to be applied
\* brings a newer one than that in use.
SecretsWereIssued ==
  /\ mem.secret =< portal /\ disk.secret =< portal /\ other =< portal
  /\ \A w \in Workers : pc[w] = "apply" => mem.secret < got[w] /\ got[w] =< portal

\* What this instance saves is no newer than what it uses.
FileFollows == ~Shared => disk.secret =< mem.secret

Inv ==
  /\ TypeOK
  /\ RotationIsExclusive
  /\ LockOutlasts
  /\ SpentByRequests
  /\ AnswerIsLive
  /\ SecretIsLive
  /\ SecretsWereIssued
  /\ FileFollows

-----------------------------------------------------------------------------

\* A rotation never uses up the time its lock was taken for.
LEMMA LockIsLong ==
  ASSUME TypeOK, LockOutlasts, SpentByRequests, NEW w \in Workers, InRotation(w)
  PROVE  lockLeft > 0
<1>1. spent[w] \in 0 .. RequestTicks /\ lockLeft \in Nat
  BY LockAssumption DEF TypeOK
<1>2. LockTicks =< lockLeft + Behind(pc[w]) + spent[w]
  BY DEF LockOutlasts
<1>3. pc[w] \notin {"putId", "putCurrent", "get"} => spent[w] = 0
  BY DEF SpentByRequests, Requesting
<1>4. CASE pc[w] = "putId"
  BY <1>1, <1>2, <1>4, LockAssumption DEF Behind
<1>5. CASE pc[w] = "putCurrent"
  BY <1>1, <1>2, <1>5, LockAssumption DEF Behind
<1>6. CASE pc[w] \in {"apply", "failed", "get"}
  BY <1>1, <1>2, <1>6, LockAssumption DEF Behind
<1>7. CASE pc[w] \in {"meta", "release"}
  BY <1>1, <1>2, <1>3, <1>7, LockAssumption DEF Behind
<1> QED
  BY <1>4, <1>5, <1>6, <1>7 DEF InRotation

\* A manager starts with no rotation under way and the portal's secret.
LEMMA InitInv == Init => Inv
<1> SUFFICES ASSUME Init PROVE Inv
  OBVIOUS
<1> USE DEF Init, Bootstrap
<1>1. 0 \in Keys /\ 0 \in 0 .. LockTicks /\ 0 \in 0 .. RequestTicks
  BY LockAssumption DEF Keys
<1>2. TypeOK
  BY <1>1, NameAssumption DEF TypeOK, States, Phases
<1>3. \A w \in Workers : ~InRotation(w) /\ pc[w] # "apply"
  BY DEF InRotation
<1>4. RotationIsExclusive /\ LockOutlasts /\ AnswerIsLive
  BY <1>3 DEF RotationIsExclusive, LockOutlasts, AnswerIsLive
<1>5. SpentByRequests /\ SecretIsLive
  BY DEF SpentByRequests, SecretIsLive
<1>6. SecretsWereIssued /\ FileFollows
  BY <1>3 DEF SecretsWereIssued, FileFollows
<1> QED
  BY <1>2, <1>4, <1>5, <1>6 DEF Inv

\* RefreshMetadata returns to one of its callers, its locals reset.
LEMMA ReturnTyped ==
  ASSUME TypeOK, NEW w \in Workers, Return(w)
  PROVE  /\ pc' \in [Workers -> Phases]
         /\ ret' \in [Workers -> {"start", "tick", "rotate"}]
         /\ got' \in [Workers -> Keys] /\ okay' \in [Workers -> BOOLEAN]
         /\ spent' \in [Workers -> 0 .. RequestTicks]
<1>1. Caller(ret[w]) \in Phases
  BY DEF TypeOK, Caller, Phases
<1>2. 0 \in Keys /\ 0 \in 0 .. RequestTicks
  BY LockAssumption DEF Keys
<1> QED
  BY <1>1, <1>2 DEF TypeOK, Return, Goto

\* Every step of a goroutine keeps the types.
LEMMA WorkTyped ==
  ASSUME TypeOK, NEW w \in Workers, Work(w)
  PROVE  TypeOK'
<1> USE DEF Goto, locals, outside
<1>0. 0 \in Keys /\ 0 \in 0 .. RequestTicks /\ LockTicks \in 0 .. LockTicks
        /\ 0 \in 0 .. LockTicks
  BY LockAssumption DEF Keys
<1>1. ASSUME NEW ok \in BOOLEAN, GetOK(w, ok) PROVE TypeOK'
  BY <1>0, <1>1 DEF GetOK, TypeOK, Phases
<1>2. CASE GetFails(w)
  BY <1>2, ReturnTyped DEF GetFails, TypeOK
<1>3. CASE ApplyMetadata(w)
  <2>1. mem' \in States
    BY <1>3 DEF ApplyMetadata, Refreshed, TypeOK, States
  <2> QED
    BY <1>3, <2>1, ReturnTyped DEF ApplyMetadata, TypeOK
<1>4. CASE Check(w) \/ AlreadyInProgress(w) \/ NothingScheduled(w)
  BY <1>4 DEF Check, AlreadyInProgress, NothingScheduled, Rest, TypeOK, Phases
<1>5. CASE AcquireRotateLock(w) \/ ReleaseRotateLock(w)
  BY <1>0, <1>5 DEF AcquireRotateLock, LockTaken, ReleaseRotateLock, TypeOK, Phases
<1>6. CASE PutOK(w) \/ PutAnswerLost(w) \/ PutFails(w)
  <2>1. Rotatable(w) => portal + 1 \in Keys
    BY LockAssumption DEF TypeOK, Rotatable, Keys
  <2>2. AfterRefusal(pc[w]) \in Phases /\ "apply" \in Phases
    BY DEF AfterRefusal, Phases
  <2> QED
    BY <1>0, <1>6, <2>1, <2>2 DEF PutOK, PutAnswerLost, PutFails, TypeOK
<1>7. CASE ApplyRotation(w)
  <2>1. mem' \in States
    BY <1>7 DEF ApplyRotation, Rotated, TypeOK, States
  <2> QED
    BY <1>7, <2>1 DEF ApplyRotation, TypeOK, Phases
<1>8. CASE RotationFails(w)
  BY <1>8 DEF RotationFails, TypeOK, Phases
<1>9. ASSUME NEW x \in Timers, StartTimer(w, x) PROVE TypeOK'
  <2>1. mem.dates \in Keys
    BY <1>9 DEF StartTimer, TypeOK, States
  <2> QED
    BY <1>9, <2>1 DEF StartTimer, Rest, TypeOK, Phases
<1> QED
  BY <1>1, <1>2, <1>3, <1>4, <1>5, <1>6, <1>7, <1>8, <1>9
     DEF Work, RefreshMetadata, Rotate, Schedule

\* So do the ticker's rounds, the timers, the other instance, the clock and a restart.
LEMMA TypeStep == TypeOK /\ [Next]_vars => TypeOK'
<1> SUFFICES ASSUME TypeOK, [Next]_vars PROVE TypeOK'
  OBVIOUS
<1> USE DEF Goto, locals, outside
<1>0. 0 \in Keys /\ 0 \in 0 .. RequestTicks /\ 0 \in 0 .. LockTicks
  BY LockAssumption DEF Keys
<1>1. ASSUME NEW w \in Workers, Work(w) PROVE TypeOK'
  BY <1>1, WorkTyped
<1>2. CASE TooManyTimers \/ DailyTick
  BY <1>2 DEF TooManyTimers, DailyTick, TypeOK, Phases
<1>3. ASSUME NEW x \in Timers, Fire(x) PROVE TypeOK'
  BY <1>0, <1>3 DEF Fire, TypeOK, Phases
<1>4. CASE OtherStarts
  BY <1>4 DEF OtherStarts, OtherUnchanged, TypeOK, States
<1>5. CASE OtherRotates \/ OtherFails
  <2>1. OtherRotates => portal + 1 \in Keys
    BY LockAssumption DEF OtherRotates, TypeOK, Keys
  <2>2. other' \in Keys /\ portal' \in Keys
    BY <1>5, <2>1 DEF OtherRotates, OtherFails, TypeOK
  <2>3. ASSUME NEW g \in Keys
        PROVE  [Bootstrap EXCEPT !.secret = g, !.id = g, !.dates = g] \in States
    BY DEF Bootstrap, States
  <2>4. disk' \in States
    BY <1>5, <2>2, <2>3 DEF OtherRotates, OtherFails, TypeOK
  <2> QED
    BY <1>5, <2>2, <2>4 DEF OtherRotates, OtherFails, OtherUnchanged, TypeOK
<1>6. CASE Tick
  <2>1. lockLeft' \in 0 .. LockTicks
    BY <1>6, LockAssumption DEF Tick, TypeOK
  <2>2. spent' \in [Workers -> 0 .. RequestTicks]
    <3>1. ASSUME NEW w \in Workers
          PROVE  (IF Requesting(w) THEN spent[w] + 1 ELSE spent[w]) \in 0 .. RequestTicks
      <4>1. spent[w] \in 0 .. RequestTicks
        BY DEF TypeOK
      <4>2. Requesting(w) => spent[w] < RequestTicks
        BY <1>6 DEF Tick, Requesting
      <4> QED
        BY <4>1, <4>2, LockAssumption
    <3> QED
      BY <1>6, <3>1 DEF Tick
  <2> QED
    BY <1>6, <2>1, <2>2 DEF Tick, TypeOK
<1>7. ASSUME NEW g \in Keys, Age(g) PROVE TypeOK'
  BY <1>7 DEF Age, TypeOK
<1>8. CASE Restart
  <2>1. lost' \in BOOLEAN
    BY <1>8 DEF Restart
  <2>2. pc' \in [Workers -> Phases]
    BY <1>8 DEF Restart, Phases
  <2> QED
    BY <1>0, <1>8, <2>1, <2>2 DEF Restart, TypeOK
<1>9. CASE Settle \/ UNCHANGED vars
  BY <1>9 DEF Settle, vars, TypeOK
<1> QED
  BY <1>1, <1>2, <1>3, <1>4, <1>5, <1>6, <1>7, <1>8, <1>9 DEF Next

-----------------------------------------------------------------------------
(* The lock outlasts the rotation.                                         *)

Timing == RotationIsExclusive /\ LockOutlasts /\ SpentByRequests

\* Ticks are counted in natural numbers.
LEMMA TicksTyped ==
  ASSUME TypeOK, NEW w \in Workers, NEW p
  PROVE  Behind(p) \in Nat /\ spent[w] \in Nat /\ spent[w] =< RequestTicks /\ lockLeft \in Nat
  BY LockAssumption DEF TypeOK, Behind

\* A step that leaves the lock alone, starts no rotation, and takes those under way no
\* less far than they have spent, keeps the timing.
LEMMA TimingFrame ==
  ASSUME TypeOK, TypeOK', Timing, lockLeft' = lockLeft,
         \A v \in Workers :
           /\ InRotation(v)' => /\ InRotation(v)
                                /\ Behind(pc[v]) + spent[v] =< Behind(pc'[v]) + spent'[v]
           /\ ~Requesting(v)' => spent'[v] = 0
  PROVE  Timing'
<1>1. RotationIsExclusive'
  BY DEF Timing, RotationIsExclusive
<1>2. SpentByRequests'
  BY DEF SpentByRequests
<1>3. ASSUME NEW v \in Workers, InRotation(v)'
      PROVE  LockTicks =< lockLeft' + Behind(pc'[v]) + spent'[v]
  <2>1. LockTicks =< lockLeft + Behind(pc[v]) + spent[v]
    BY <1>3 DEF Timing, LockOutlasts
  <2>2. /\ Behind(pc[v]) \in Nat /\ spent[v] \in Nat /\ lockLeft \in Nat
        /\ Behind(pc'[v]) \in Nat /\ spent'[v] \in Nat
    BY TicksTyped, LockAssumption DEF TypeOK
  <2>3. Behind(pc[v]) + spent[v] =< Behind(pc'[v]) + spent'[v]
    BY <1>3
  <2> QED
    BY <2>1, <2>2, <2>3, LockAssumption
<1> QED
  BY <1>1, <1>2, <1>3 DEF Timing, LockOutlasts

\* The same of a step of one goroutine that leaves the others alone.
LEMMA TimingOfOne ==
  ASSUME TypeOK, TypeOK', Timing, lockLeft' = lockLeft, NEW w \in Workers,
         \A v \in Workers \ {w} : pc'[v] = pc[v] /\ ret'[v] = ret[v] /\ spent'[v] = spent[v],
         InRotation(w)' => /\ InRotation(w)
                           /\ Behind(pc[w]) + spent[w] =< Behind(pc'[w]) + spent'[w],
         ~Requesting(w)' => spent'[w] = 0
  PROVE  Timing'
<1>1. ASSUME NEW v \in Workers \ {w}
      PROVE  /\ InRotation(v)' = InRotation(v) /\ Requesting(v)' = Requesting(v)
             /\ Behind(pc[v]) + spent[v] =< Behind(pc'[v]) + spent'[v]
  <2>1. pc'[v] = pc[v] /\ ret'[v] = ret[v] /\ spent'[v] = spent[v]
    OBVIOUS
  <2>2. Behind(pc[v]) \in Nat /\ spent[v] \in Nat
    BY TicksTyped
  <2> QED
    BY <2>1, <2>2 DEF InRotation, Requesting
<1>2. \A v \in Workers \ {w} : ~Requesting(v)' => spent'[v] = 0
  BY <1>1 DEF Timing, SpentByRequests
<1> QED
  BY <1>1, <1>2, TimingFrame

\* RefreshMetadata, called by a rotation or not.
LEMMA MetadataTiming ==
  ASSUME TypeOK, TypeOK', Timing, NEW w \in Workers, RefreshMetadata(w)
  PROVE  Timing'
<1> USE DEF Goto, outside
<1>0. spent[w] \in Nat /\ spent[w] =< RequestTicks /\ RequestTicks \in Nat
  BY TicksTyped, LockAssumption
<1>1. ASSUME NEW ok \in BOOLEAN, GetOK(w, ok) PROVE Timing'
  <2>1. /\ pc[w] = "get" /\ pc'[w] = "meta" /\ spent'[w] = 0 /\ ret'[w] = ret[w]
        /\ lockLeft' = lockLeft
        /\ \A v \in Workers \ {w} : pc'[v] = pc[v] /\ ret'[v] = ret[v] /\ spent'[v] = spent[v]
    BY <1>1 DEF GetOK, TypeOK
  <2>2. InRotation(w)' => /\ InRotation(w)
                          /\ Behind(pc[w]) + spent[w] =< Behind(pc'[w]) + spent'[w]
    BY <1>0, <2>1 DEF InRotation, Behind
  <2> QED
    BY <2>1, <2>2, TimingOfOne
<1>2. CASE GetFails(w) \/ ApplyMetadata(w)
  <2>1. /\ pc[w] \in {"get", "meta"} /\ pc'[w] = Caller(ret[w]) /\ spent'[w] = 0
        /\ lockLeft' = lockLeft /\ ret[w] \in {"start", "tick", "rotate"}
        /\ \A v \in Workers \ {w} : pc'[v] = pc[v] /\ ret'[v] = ret[v] /\ spent'[v] = spent[v]
    BY <1>2 DEF GetFails, ApplyMetadata, Return, TypeOK
  <2>2. pc[w] = "meta" => spent[w] = 0
    BY DEF Timing, SpentByRequests, Requesting
  <2>3. InRotation(w)' => ret[w] = "rotate" /\ pc'[w] = "release"
    BY <2>1 DEF InRotation, Caller
  <2>4. InRotation(w)' => /\ InRotation(w)
                          /\ Behind(pc[w]) + spent[w] =< Behind(pc'[w]) + spent'[w]
    BY <1>0, <2>1, <2>2, <2>3 DEF InRotation, Behind
  <2> QED
    BY <2>1, <2>4, TimingOfOne
<1> QED
  BY <1>1, <1>2 DEF RefreshMetadata

\* MaybeRotateProactive and rotate: who takes the lock finds no other rotation, and who
\* releases it leaves none.
LEMMA RotateTiming ==
  ASSUME TypeOK, TypeOK', Timing, NEW w \in Workers, Rotate(w)
  PROVE  Timing'
<1> USE DEF Goto, outside, locals
<1>0. spent[w] \in Nat /\ spent[w] =< RequestTicks /\ RequestTicks \in Nat
  BY TicksTyped, LockAssumption
<1>1. ~Requesting(w) => spent[w] = 0
  BY DEF Timing, SpentByRequests
<1>2. CASE Check(w) \/ AlreadyInProgress(w)
  <2>1. /\ pc[w] \in {"check", "lock"} /\ pc'[w] \in {"lock", "schedule"}
        /\ spent' = spent /\ ret' = ret /\ lockLeft' = lockLeft
        /\ \A v \in Workers \ {w} : pc'[v] = pc[v]
    BY <1>2 DEF Check, AlreadyInProgress, TypeOK
  <2>2. ~InRotation(w)' /\ ~Requesting(w)
    BY <2>1 DEF InRotation, Requesting
  <2> QED
    BY <1>1, <2>1, <2>2, TimingOfOne
<1>3. CASE AcquireRotateLock(w)
  <2>1. /\ lockLeft = 0 /\ lockLeft' = LockTicks /\ pc[w] = "lock" /\ pc'[w] = "putId"
        /\ spent' = spent /\ ret' = ret
        /\ \A v \in Workers \ {w} : pc'[v] = pc[v]
    BY <1>3 DEF AcquireRotateLock, LockTaken, TypeOK
  <2>2. \A v \in Workers : ~InRotation(v)
    BY <2>1, LockIsLong DEF Timing
  <2>3. \A v \in Workers \ {w} : ~InRotation(v)'
    BY <2>1, <2>2 DEF InRotation
  <2>4. \A v \in Workers : spent[v] = 0
    BY <2>2 DEF Timing, SpentByRequests, Requesting
  <2>5. RotationIsExclusive' /\ SpentByRequests'
    BY <2>1, <2>3, <2>4 DEF RotationIsExclusive, SpentByRequests
  <2>6. LockTicks =< lockLeft' + Behind(pc'[w]) + spent'[w]
    BY <2>1, <2>4, LockAssumption DEF Behind
  <2>7. LockOutlasts'
    BY <2>3, <2>6 DEF LockOutlasts
  <2> QED
    BY <2>5, <2>7 DEF Timing
<1>4. CASE PutOK(w) \/ PutFails(w) \/ PutAnswerLost(w)
  <2>1. /\ pc[w] \in {"putId", "putCurrent"} /\ pc'[w] \in {"apply", AfterRefusal(pc[w])}
        /\ spent'[w] = 0 /\ ret' = ret /\ lockLeft' = lockLeft
        /\ \A v \in Workers \ {w} : pc'[v] = pc[v] /\ spent'[v] = spent[v]
    BY <1>4 DEF PutOK, PutFails, PutAnswerLost, Rotatable, TypeOK
  <2>2. InRotation(w) /\ Behind(pc[w]) + spent[w] =< Behind(pc'[w]) + spent'[w]
    BY <1>0, <2>1 DEF InRotation, Behind, AfterRefusal
  <2> QED
    BY <2>1, <2>2, TimingOfOne
<1>5. CASE ApplyRotation(w) \/ RotationFails(w)
  <2>1. /\ \/ pc[w] = "apply" /\ pc'[w] = "get"
           \/ pc[w] = "failed" /\ pc'[w] = "release"
        /\ spent' = spent /\ lockLeft' = lockLeft
        /\ \A v \in Workers \ {w} : pc'[v] = pc[v] /\ ret'[v] = ret[v]
    BY <1>5 DEF ApplyRotation, RotationFails, TypeOK
  <2>2. spent[w] = 0 /\ InRotation(w)
    BY <1>1, <2>1 DEF Requesting, InRotation
  <2>3. Behind(pc[w]) + spent[w] =< Behind(pc'[w]) + spent'[w]
    BY <1>0, <2>1, <2>2 DEF Behind
  <2> QED
    BY <2>1, <2>2, <2>3, TimingOfOne
<1>6. CASE ReleaseRotateLock(w)
  <2>1. /\ pc[w] = "release" /\ pc'[w] = "schedule" /\ spent' = spent /\ ret' = ret
        /\ \A v \in Workers \ {w} : pc'[v] = pc[v]
    BY <1>6 DEF ReleaseRotateLock, TypeOK
  <2>2. \A v \in Workers \ {w} : ~InRotation(v)
    BY <2>1 DEF Timing, RotationIsExclusive, InRotation
  <2>3. \A v \in Workers : ~InRotation(v)'
    BY <2>1, <2>2 DEF InRotation
  <2>4. \A v \in Workers : ~Requesting(v)
    BY <2>1, <2>2 DEF Requesting
  <2> QED
    BY <2>1, <2>3, <2>4 DEF Timing, RotationIsExclusive, LockOutlasts, SpentByRequests
<1> QED
  BY <1>2, <1>3, <1>4, <1>5, <1>6 DEF Rotate

\* scheduleDueRotation, the ticker and the timers are outside of rotations.
LEMMA ScheduleTiming ==
  ASSUME TypeOK, TypeOK', Timing,
         \/ \E w \in Workers : Schedule(w)
         \/ TooManyTimers \/ DailyTick \/ \E x \in Timers : Fire(x)
  PROVE  Timing'
<1> USE DEF Goto, outside, locals, Rest
<1>1. /\ lockLeft' = lockLeft /\ spent' = spent
      /\ \A v \in Workers :
           \/ pc'[v] = pc[v] /\ ret'[v] = ret[v]
           \/ /\ pc[v] \in {"schedule", "wait", "free", "armed"}
              /\ pc'[v] \in {"wait", "free", "armed", "check"} \/ ret'[v] = "tick"
              /\ pc'[v] \in {"wait", "free", "armed", "check", "get"}
  BY DEF Schedule, NothingScheduled, StartTimer, TooManyTimers, DailyTick, Fire, TypeOK, Workers
<1>2. ASSUME NEW v \in Workers
      PROVE  /\ InRotation(v)' => /\ InRotation(v)
                                 /\ Behind(pc[v]) + spent[v] =< Behind(pc'[v]) + spent'[v]
             /\ ~Requesting(v)' => spent'[v] = 0
  <2>1. Behind(pc[v]) \in Nat /\ spent[v] \in Nat
    BY TicksTyped
  <2>2. CASE pc'[v] = pc[v] /\ ret'[v] = ret[v]
    BY <1>1, <2>1, <2>2 DEF InRotation, Requesting, Timing, SpentByRequests
  <2>3. CASE ~(pc'[v] = pc[v] /\ ret'[v] = ret[v])
    <3>1. pc[v] \in {"schedule", "wait", "free", "armed"} /\ ~InRotation(v)'
      BY <1>1, <2>3 DEF InRotation
    <3>2. spent[v] = 0
      BY <3>1 DEF Timing, SpentByRequests, Requesting
    <3> QED
      BY <1>1, <3>1, <3>2
  <2> QED
    BY <2>2, <2>3
<1> QED
  BY <1>1, <1>2, TimingFrame

\* The clock takes from the lock what it adds to the requests.
LEMMA TickTiming ==
  ASSUME TypeOK, TypeOK', Timing, Tick
  PROVE  Timing'
<1>1. \A v \in Workers : InRotation(v)' = InRotation(v) /\ Requesting(v)' = Requesting(v)
  BY DEF Tick, InRotation, Requesting
<1>2. RotationIsExclusive'
  BY <1>1 DEF Timing, RotationIsExclusive
<1>3. SpentByRequests'
  BY <1>1 DEF Timing, SpentByRequests, Tick
<1>4. ASSUME NEW v \in Workers, InRotation(v)
      PROVE  LockTicks =< lockLeft' + Behind(pc'[v]) + spent'[v]
  <2>1. lockLeft' = lockLeft - 1 /\ spent'[v] = spent[v] + 1 /\ pc' = pc
    BY <1>4 DEF Tick
  <2>2. LockTicks =< lockLeft + Behind(pc[v]) + spent[v]
    BY <1>4 DEF Timing, LockOutlasts
  <2>3. Behind(pc[v]) \in Nat /\ spent[v] \in Nat /\ lockLeft \in Nat
    BY TicksTyped
  <2> QED
    BY <2>1, <2>2, <2>3, LockAssumption
<1> QED
  BY <1>1, <1>2, <1>3, <1>4 DEF Timing, LockOutlasts

\* Every step keeps the timing.
LEMMA TimingStep == TypeOK /\ TypeOK' /\ Timing /\ [Next]_vars => Timing'
<1> SUFFICES ASSUME TypeOK, TypeOK', Timing, [Next]_vars PROVE Timing'
  OBVIOUS
<1>1. ASSUME NEW w \in Workers, Work(w) PROVE Timing'
  BY <1>1, MetadataTiming, RotateTiming, ScheduleTiming DEF Work
<1>2. ASSUME UNCHANGED <<lockLeft, pc, ret, spent>> PROVE Timing'
  BY <1>2 DEF Timing, RotationIsExclusive, LockOutlasts, SpentByRequests, InRotation, Requesting
<1>3. CASE Restart
  <2>1. \A w \in Workers : ~InRotation(w)' /\ spent'[w] = 0
    BY <1>3 DEF Restart, InRotation
  <2> QED
    BY <2>1 DEF Timing, RotationIsExclusive, LockOutlasts, SpentByRequests
<1>4. ASSUME \/ OtherStarts \/ OtherRotates \/ OtherFails
             \/ Settle \/ UNCHANGED vars \/ \E g \in Keys : Age(g)
      PROVE  UNCHANGED <<lockLeft, pc, ret, spent>>
  BY <1>4 DEF OtherStarts, OtherRotates, OtherFails, OtherUnchanged, Settle, vars, Age, locals
<1> QED
  BY <1>1, <1>2, <1>3, <1>4, ScheduleTiming, TickTiming DEF Next

-----------------------------------------------------------------------------
(* The secret in use is live.                                              *)

\* The portal's key changes by a rotation, and no other one has an answer then.
LEMMA SecretStep ==
  Inv /\ [Next]_vars => AnswerIsLive' /\ SecretIsLive'
<1> SUFFICES ASSUME Inv, [Next]_vars PROVE AnswerIsLive' /\ SecretIsLive'
  OBVIOUS
<1> USE DEF Goto, locals, outside, Inv
<1>1. ASSUME NEW w \in Workers, PutOK(w) PROVE AnswerIsLive' /\ SecretIsLive'
  <2>1. \A v \in Workers \ {w} : pc[v] # "apply"
    BY <1>1 DEF PutOK, Rotatable, RotationIsExclusive, InRotation
  <2>2. /\ pc'[w] = "apply" /\ got'[w] = portal'
        /\ \A v \in Workers \ {w} : pc'[v] = pc[v]
    BY <1>1 DEF PutOK, TypeOK
  <2> QED
    BY <2>1, <2>2 DEF AnswerIsLive, SecretIsLive
<1>2. ASSUME NEW w \in Workers, ApplyRotation(w) PROVE AnswerIsLive' /\ SecretIsLive'
  <2>1. mem'.secret = got[w] /\ (lost \/ got[w] = portal)
    BY <1>2 DEF ApplyRotation, Rotated, AnswerIsLive, TypeOK, States
  <2>2. /\ UNCHANGED <<lost, portal, got>>
        /\ \A v \in Workers : pc'[v] = "apply" => pc[v] = "apply"
    BY <1>2 DEF ApplyRotation, TypeOK
  <2> QED
    BY <2>1, <2>2 DEF AnswerIsLive, SecretIsLive
<1>3. CASE Restart
  BY <1>3 DEF Restart, AnswerIsLive, SecretIsLive
<1>4. CASE OtherRotates \/ \E w \in Workers : PutAnswerLost(w)
  BY <1>4 DEF OtherRotates, PutAnswerLost, AnswerIsLive, SecretIsLive
<1>5. ASSUME /\ mem'.secret = mem.secret /\ UNCHANGED <<lost, portal>>
             /\ \A v \in Workers : pc'[v] = "apply" <=> pc[v] = "apply"
             /\ \A v \in Workers : pc[v] = "apply" => got'[v] = got[v]
      PROVE  AnswerIsLive' /\ SecretIsLive'
  BY <1>5 DEF AnswerIsLive, SecretIsLive
<1>6. ASSUME NEW w \in Workers, Work(w), ~PutOK(w), ~ApplyRotation(w), ~PutAnswerLost(w)
      PROVE  AnswerIsLive' /\ SecretIsLive'
  <2>1. CASE RefreshMetadata(w)
    <3>1. /\ pc[w] \in {"get", "meta"} /\ pc'[w] # "apply" /\ UNCHANGED <<lost, portal>>
          /\ \A v \in Workers \ {w} : pc'[v] = pc[v] /\ got'[v] = got[v]
      BY <2>1 DEF RefreshMetadata, GetOK, GetFails, ApplyMetadata, Return, Caller, TypeOK
    <3>2. mem'.secret = mem.secret
      BY <2>1 DEF RefreshMetadata, GetOK, GetFails, ApplyMetadata, Refreshed, TypeOK, States
    <3> QED
      BY <1>5, <3>1, <3>2
  <2>2. CASE Rotate(w)
    <3>1. /\ pc[w] # "apply" /\ pc'[w] # "apply" /\ UNCHANGED <<mem, lost, portal, got>>
          /\ \A v \in Workers \ {w} : pc'[v] = pc[v]
      BY <1>6, <2>2 DEF Rotate, Check, AcquireRotateLock, AlreadyInProgress, PutFails,
         AfterRefusal, RotationFails, ReleaseRotateLock, TypeOK
    <3> QED
      BY <1>5, <3>1
  <2>3. CASE Schedule(w)
    <3>1. UNCHANGED <<mem, lost, portal, got>>
      BY <2>3 DEF Schedule, NothingScheduled, StartTimer
    <3>2. \A v \in Workers : pc'[v] = "apply" <=> pc[v] = "apply"
      BY <2>3 DEF Schedule, NothingScheduled, StartTimer, Rest, TypeOK
    <3> QED
      BY <1>5, <3>1, <3>2
  <2> QED
    BY <1>6, <2>1, <2>2, <2>3 DEF Work
<1>7. CASE TooManyTimers \/ DailyTick \/ \E x \in Timers : Fire(x)
  <2>1. UNCHANGED <<mem, lost, portal, got>>
    BY <1>7 DEF TooManyTimers, DailyTick, Fire
  <2>2. \A v \in Workers : pc'[v] = "apply" <=> pc[v] = "apply"
    BY <1>7 DEF TooManyTimers, DailyTick, Fire, TypeOK
  <2> QED
    BY <1>5, <2>1, <2>2
<1>8. CASE \/ OtherStarts \/ OtherFails \/ Tick
           \/ Settle \/ UNCHANGED vars \/ \E g \in Keys : Age(g)
  <2>1. UNCHANGED <<mem, pc, got, portal, lost>>
    BY <1>8 DEF OtherStarts, OtherFails, OtherUnchanged, Tick, Settle, vars, Age
  <2> QED
    BY <1>5, <2>1
<1> QED
  BY <1>1, <1>2, <1>3, <1>4, <1>6, <1>7, <1>8 DEF Next

-----------------------------------------------------------------------------
(* Secrets only go forward.                                                *)

\* Secrets are numbers.
LEMMA SecretsTyped ==
  ASSUME TypeOK
  PROVE  /\ mem.secret \in Nat /\ disk.secret \in Nat /\ portal \in Nat /\ other \in Nat
         /\ \A w \in Workers : got[w] \in Nat
<1>1. Keys \subseteq Nat
  BY LockAssumption DEF Keys
<1> QED
  BY <1>1 DEF TypeOK, States

\* What the steps of the manager do to the secrets: an exchange, the use of an answer,
\* or a save; the answers that wait to be applied are otherwise left alone.
LEMMA SecretMoves ==
  ASSUME Inv, NEW w \in Workers, Work(w)
  PROVE  \/ /\ PutOK(w) /\ mem' = mem /\ disk' = disk
            /\ mem.secret = portal /\ portal' = portal + 1
            /\ pc'[w] = "apply" /\ got'[w] = portal + 1
            /\ \A v \in Workers : pc[v] # "apply"
            /\ \A v \in Workers \ {w} : pc'[v] # "apply"
         \/ /\ ApplyRotation(w) /\ disk' = disk /\ portal' = portal
            /\ pc[w] = "apply" /\ mem'.secret = got[w]
            /\ \A v \in Workers : pc'[v] # "apply"
         \/ /\ mem'.secret = mem.secret
            /\ disk'.secret \in {disk.secret, mem.secret}
            /\ \/ portal' = portal
               \/ portal' = portal + 1 /\ disk' = disk
            /\ \A v \in Workers :
                 /\ pc'[v] = "apply" <=> pc[v] = "apply"
                 /\ pc[v] = "apply" => got'[v] = got[v]
<1> USE DEF Goto, locals, outside
<1>0. TypeOK
  BY DEF Inv
<1>1. CASE PutOK(w)
  <2>1. \A v \in Workers : pc[v] # "apply"
    BY <1>1 DEF PutOK, Rotatable, Inv, RotationIsExclusive, InRotation
  <2> QED
    BY <1>0, <1>1, <2>1 DEF PutOK, Rotatable, TypeOK
<1>2. CASE ApplyRotation(w)
  <2>1. \A v \in Workers \ {w} : pc[v] # "apply"
    BY <1>2 DEF ApplyRotation, Inv, RotationIsExclusive, InRotation
  <2>2. mem'.secret = got[w]
    BY <1>0, <1>2 DEF ApplyRotation, Rotated, TypeOK, States
  <2> QED
    BY <1>0, <1>2, <2>1, <2>2 DEF ApplyRotation, TypeOK
<1>3. CASE RefreshMetadata(w)
  <2>1. /\ pc[w] \in {"get", "meta"} /\ pc'[w] # "apply" /\ portal' = portal
        /\ \A v \in Workers \ {w} : pc'[v] = pc[v] /\ got'[v] = got[v]
    BY <1>0, <1>3 DEF RefreshMetadata, GetOK, GetFails, ApplyMetadata, Return, Caller, TypeOK
  <2>2. mem'.secret = mem.secret
    BY <1>0, <1>3 DEF RefreshMetadata, GetOK, GetFails, ApplyMetadata, Refreshed, TypeOK,
       States
  <2>3. disk'.secret \in {disk.secret, mem.secret}
    BY <1>3, <2>2 DEF RefreshMetadata, GetOK, GetFails, ApplyMetadata
  <2> QED
    BY <2>1, <2>2, <2>3
<1>4. CASE PutAnswerLost(w)
  <2>1. /\ UNCHANGED <<mem, disk, got>> /\ portal' = portal + 1
        /\ pc[w] # "apply" /\ pc'[w] # "apply"
        /\ \A v \in Workers \ {w} : pc'[v] = pc[v]
    BY <1>0, <1>4 DEF PutAnswerLost, Rotatable, AfterRefusal, TypeOK
  <2> QED
    BY <2>1
<1>5. CASE Rotate(w) /\ ~PutOK(w) /\ ~PutAnswerLost(w) /\ ~ApplyRotation(w)
  <2>1. /\ pc[w] # "apply" /\ pc'[w] # "apply" /\ UNCHANGED <<mem, portal, got>>
        /\ disk' \in {disk, mem}
        /\ \A v \in Workers \ {w} : pc'[v] = pc[v]
    BY <1>0, <1>5 DEF Rotate, Check, AcquireRotateLock, AlreadyInProgress, PutFails,
       AfterRefusal, RotationFails, ReleaseRotateLock, TypeOK
  <2> QED
    BY <2>1
<1>6. CASE Schedule(w)
  <2>1. UNCHANGED <<mem, disk, portal, got>>
    BY <1>6 DEF Schedule, NothingScheduled, StartTimer
  <2>2. \A v \in Workers : pc'[v] = "apply" <=> pc[v] = "apply"
    BY <1>0, <1>6 DEF Schedule, NothingScheduled, StartTimer, Rest, TypeOK
  <2> QED
    BY <2>1, <2>2
<1> QED
  BY <1>1, <1>2, <1>3, <1>4, <1>5, <1>6 DEF Work, Rotate

\* What the other steps leave as it is.
LEMMA SecretsApart ==
  ASSUME Inv,
         \/ TooManyTimers \/ DailyTick \/ \E x \in Timers : Fire(x)
         \/ OtherStarts \/ OtherRotates \/ OtherFails
         \/ Tick \/ Settle \/ UNCHANGED vars \/ \E g \in Keys : Age(g)
  PROVE  /\ UNCHANGED <<mem, got>>
         /\ \A v \in Workers : pc'[v] = "apply" <=> pc[v] = "apply"
<1>1. CASE TooManyTimers \/ DailyTick \/ \E x \in Timers : Fire(x)
  BY <1>1 DEF TooManyTimers, DailyTick, Fire, Goto, locals, Inv, TypeOK
<1>2. CASE \/ OtherStarts \/ OtherRotates \/ OtherFails
           \/ Tick \/ Settle \/ UNCHANGED vars \/ \E g \in Keys : Age(g)
  BY <1>2 DEF OtherStarts, OtherRotates, OtherFails, OtherUnchanged, Tick, Settle, vars,
     Age, locals
<1> QED
  BY <1>1, <1>2

\* Every step leaves the secrets issued, and the file behind the manager.
LEMMA IssuedStep ==
  Inv /\ [Next]_vars => SecretsWereIssued' /\ FileFollows'
<1> SUFFICES ASSUME Inv, [Next]_vars PROVE SecretsWereIssued' /\ FileFollows'
  OBVIOUS
<1> USE DEF SecretsWereIssued, FileFollows
<1>0. /\ SecretsWereIssued /\ FileFollows
      /\ mem.secret \in Nat /\ disk.secret \in Nat /\ portal \in Nat /\ other \in Nat
      /\ \A w \in Workers : got[w] \in Nat
  BY SecretsTyped DEF Inv
<1>1. ASSUME NEW w \in Workers, Work(w) PROVE SecretsWereIssued' /\ FileFollows'
  <2>1. UNCHANGED other
    BY <1>1 DEF Work, RefreshMetadata, GetOK, GetFails, ApplyMetadata, Rotate, Check,
       AcquireRotateLock, AlreadyInProgress, PutOK, PutFails, PutAnswerLost,
       ApplyRotation, RotationFails, ReleaseRotateLock, Schedule, NothingScheduled,
       StartTimer, outside
  <2>2. CASE PutOK(w) /\ mem' = mem /\ disk' = disk
               /\ mem.secret = portal /\ portal' = portal + 1
               /\ pc'[w] = "apply" /\ got'[w] = portal + 1
               /\ \A v \in Workers \ {w} : pc'[v] # "apply"
    BY <1>0, <2>1, <2>2
  <2>3. CASE /\ ApplyRotation(w) /\ disk' = disk /\ portal' = portal
             /\ pc[w] = "apply" /\ mem'.secret = got[w]
             /\ \A v \in Workers : pc'[v] # "apply"
    BY <1>0, <2>1, <2>3
  <2>4. CASE /\ mem'.secret = mem.secret
             /\ disk'.secret \in {disk.secret, mem.secret}
             /\ portal' = portal \/ portal' = portal + 1
             /\ \A v \in Workers :
                  /\ pc'[v] = "apply" <=> pc[v] = "apply"
                  /\ pc[v] = "apply" => got'[v] = got[v]
    BY <1>0, <2>1, <2>4
  <2> QED
    BY <1>1, <2>2, <2>3, <2>4, SecretMoves
<1>2. CASE Restart
  <2>1. \A v \in Workers : pc'[v] # "apply"
    BY <1>2 DEF Restart
  <2> QED
    BY <1>0, <1>2, <2>1 DEF Restart, outside
<1>3. CASE OtherRotates
  <2>1. /\ Shared /\ portal' = portal + 1 /\ other' = portal + 1
        /\ disk'.secret \in {disk.secret, portal + 1}
    BY <1>3 DEF OtherRotates, Bootstrap
  <2> QED
    BY <1>0, <1>3, <2>1, SecretsApart
<1>4. CASE OtherStarts \/ OtherFails
  <2>1. /\ Shared /\ portal' = portal
        /\ other' \in {other, disk.secret} /\ disk'.secret \in {disk.secret, other}
    BY <1>4 DEF OtherStarts, OtherFails, Bootstrap
  <2> QED
    BY <1>0, <1>4, <2>1, SecretsApart
<1>5. CASE \/ TooManyTimers \/ DailyTick \/ \E x \in Timers : Fire(x)
           \/ Tick \/ Settle \/ UNCHANGED vars \/ \E g \in Keys : Age(g)
  <2>1. UNCHANGED <<disk, portal, other>>
    BY <1>5 DEF TooManyTimers, DailyTick, Fire, Tick, Settle, vars, Age, outside
  <2> QED
    BY <1>0, <1>5, <2>1, SecretsApart
<1> QED
  BY <1>1, <1>2, <1>3, <1>4, <1>5 DEF Next

-----------------------------------------------------------------------------

\* Inv holds of every state the manager reaches.
THEOREM Invariance == Spec => []Inv
<1>1. Inv /\ [Next]_vars => Inv'
  <2>1. Inv /\ [Next]_vars => TypeOK'
    BY TypeStep DEF Inv
  <2>2. Inv /\ [Next]_vars /\ TypeOK' => Timing'
    BY TimingStep DEF Inv, Timing
  <2> QED
    BY <2>1, <2>2, SecretStep, IssuedStep DEF Inv, Timing
<1> QED
  BY InitInv, <1>1, PTL DEF Spec

\* The variables keep their types: no request outlives its timeout, and the lock is never
\* taken for longer than its duration.
THEOREM TypeCorrect == Spec => []TypeOK
<1>1. Inv => TypeOK
  BY DEF Inv
<1> QED
  BY <1>1, Invariance, PTL

\* rotate: a deadline that nobody checks at its release still keeps rotations apart.
THEOREM OneRotation == Spec => []RotationIsExclusive
<1>1. Inv => RotationIsExclusive
  BY DEF Inv
<1> QED
  BY <1>1, Invariance, PTL

\* Log shipping sends the secret the portal accepts, unless one went missing on its way.
THEOREM LiveSecret == Spec => []SecretIsLive
<1>1. Inv => SecretIsLive
  BY DEF Inv
<1> QED
  BY <1>1, Invariance, PTL

\* acquireRotateLock: the deadline does not pass while the rotation that set it goes on.
THEOREM LockIsHeld == Spec => [](\A w \in Workers : InRotation(w) => lockLeft > 0)
<1>1. Inv => \A w \in Workers : InRotation(w) => lockLeft > 0
  BY LockIsLong DEF Inv
<1> QED
  BY <1>1, Invariance, PTL

\* Only a rotation changes the secret in use, to the newer one of its answer.
LEMMA AdvanceStep ==
  Inv /\ [Next]_vars => [Restart \/ mem'.secret >= mem.secret]_vars
<1> SUFFICES ASSUME Inv, Next, ~Restart PROVE mem'.secret >= mem.secret
  BY DEF vars
<1>0. /\ mem.secret \in Nat
      /\ \A w \in Workers : got[w] \in Nat /\ (pc[w] = "apply" => mem.secret < got[w])
  BY SecretsTyped DEF Inv, SecretsWereIssued
<1>1. ASSUME NEW w \in Workers, Work(w) PROVE mem'.secret >= mem.secret
  BY <1>0, <1>1, SecretMoves
<1>2. CASE \A w \in Workers : ~Work(w)
  <2>1. UNCHANGED mem
    BY <1>2, SecretsApart DEF Next
  <2> QED
    BY <1>0, <2>1
<1> QED
  BY <1>1, <1>2

\* A process never goes back to a secret that was revoked by one of its rotations, also
\* when the answer to a GET is applied after the rotation that overtook it.
THEOREM SecretDoesNotGoBack == Spec => SecretAdvances
<1> QED
  BY AdvanceStep, Invariance, PTL DEF Spec, SecretAdvances

\* Of one instance, the state file never goes back to an older secret, whatever saves
\* fail and whenever the process stops.
THEOREM FileDoesNotGoBack == Spec => [][~Shared => disk'.secret >= disk.secret]_vars
<1>1. Inv /\ [Next]_vars => [~Shared => disk'.secret >= disk.secret]_vars
  <2> SUFFICES ASSUME Inv, Next, ~Shared PROVE disk'.secret >= disk.secret
    BY DEF vars
  <2>0. mem.secret \in Nat /\ disk.secret \in Nat /\ disk.secret =< mem.secret
    BY SecretsTyped DEF Inv, FileFollows
  <2>1. ASSUME NEW w \in Workers, Work(w) PROVE disk'.secret \in {disk.secret, mem.secret}
    BY <2>1, SecretMoves
  <2>2. ASSUME \A w \in Workers : ~Work(w) PROVE disk' = disk
    BY <2>2 DEF Next, TooManyTimers, DailyTick, Fire, OtherStarts, OtherRotates,
       OtherFails, Tick, Age, Restart, Settle
  <2> QED
    BY <2>0, <2>1, <2>2
<1> QED
  BY <1>1, Invariance, PTL DEF Spec

-----------------------------------------------------------------------------
(* The manager implements KeyCustody.                                      *)

\* A rotation that waits to apply its answer is the only one.
LEMMA ReceivedByRotation ==
  ASSUME RotationIsExclusive, NEW w \in Workers, pc[w] = "apply"
  PROVE  Received = got[w]
<1>1. \A v \in Workers : pc[v] = "apply" => v = w
  BY DEF RotationIsExclusive, InRotation
<1>2. (CHOOSE v \in Workers : pc[v] = "apply") = w
  BY <1>1
<1> QED
  BY <1>2 DEF Received

\* The same of the next state.
LEMMA ReceivedByRotationNext ==
  ASSUME RotationIsExclusive', NEW w \in Workers, pc'[w] = "apply"
  PROVE  Received' = got'[w]
<1>1. \A v \in Workers : pc'[v] = "apply" => v = w
  BY DEF RotationIsExclusive, InRotation
<1>2. (CHOOSE v \in Workers : pc'[v] = "apply") = w
  BY <1>1
<1> QED
  BY <1>2 DEF Received

\* A step that leaves the answers that wait alone receives nothing.
LEMMA ReceivedStays ==
  ASSUME RotationIsExclusive, RotationIsExclusive', mem'.secret = mem.secret,
         \A v \in Workers : /\ pc'[v] = "apply" <=> pc[v] = "apply"
                            /\ pc[v] = "apply" => got'[v] = got[v]
  PROVE  Received' = Received
<1>1. ASSUME NEW w \in Workers, pc[w] = "apply" PROVE Received' = Received
  BY <1>1, ReceivedByRotation, ReceivedByRotationNext
<1>2. CASE \A w \in Workers : pc[w] # "apply"
  BY <1>2 DEF Received
<1> QED
  BY <1>1, <1>2

\* Within rotate and the refresh it calls, and outside of them, a goroutine stays there.
LEMMA RotationFrame ==
  ASSUME TypeOK, NEW w \in Workers, Work(w), ~AcquireRotateLock(w), ~ReleaseRotateLock(w)
  PROVE  Rotating' = Rotating
<1> USE DEF Goto, locals, outside
<1> SUFFICES \A v \in Workers : InRotation(v)' <=> InRotation(v)
  BY DEF Rotating
<1>1. ASSUME /\ InRotation(w)' <=> InRotation(w)
             /\ \A v \in Workers \ {w} : pc'[v] = pc[v] /\ ret'[v] = ret[v]
      PROVE  \A v \in Workers : InRotation(v)' <=> InRotation(v)
  BY <1>1 DEF InRotation
<1>2. CASE RefreshMetadata(w)
  <2>1. /\ \A v \in Workers \ {w} : pc'[v] = pc[v] /\ ret'[v] = ret[v]
        /\ pc[w] \in {"get", "meta"}
        /\ \/ pc'[w] = "meta" /\ ret'[w] = ret[w]
           \/ pc'[w] = Caller(ret[w]) /\ ret'[w] = "start"
    BY <1>2 DEF RefreshMetadata, GetOK, GetFails, ApplyMetadata, Return, TypeOK
  <2>2. ret[w] \in {"start", "tick", "rotate"}
    BY DEF TypeOK
  <2>3. InRotation(w)' <=> InRotation(w)
    BY <2>1, <2>2 DEF InRotation, Caller
  <2> QED
    BY <1>1, <2>1, <2>3
<1>3. CASE Check(w) \/ AlreadyInProgress(w) \/ PutOK(w) \/ PutFails(w) \/ PutAnswerLost(w)
           \/ RotationFails(w) \/ ApplyRotation(w)
  <2>1. \A v \in Workers \ {w} : pc'[v] = pc[v] /\ ret'[v] = ret[v]
    BY <1>3 DEF Check, AlreadyInProgress, PutOK, PutFails, PutAnswerLost, RotationFails,
       ApplyRotation, TypeOK
  <2>2. \/ pc[w] \in {"check", "lock"} /\ pc'[w] \in {"lock", "schedule"}
        \/ /\ pc[w] \in {"putId", "putCurrent"}
           /\ pc'[w] \in {"apply", "putCurrent", "failed"}
        \/ pc[w] = "failed" /\ pc'[w] = "release"
        \/ pc[w] = "apply" /\ pc'[w] = "get" /\ ret'[w] = "rotate"
    BY <1>3 DEF Check, AlreadyInProgress, PutOK, PutFails, PutAnswerLost, Rotatable,
       AfterRefusal, RotationFails, ApplyRotation, TypeOK
  <2>3. InRotation(w)' <=> InRotation(w)
    BY <2>2 DEF InRotation
  <2> QED
    BY <1>1, <2>1, <2>3
<1>4. CASE Schedule(w)
  <2>1. ret' = ret
    BY <1>4 DEF Schedule, NothingScheduled, StartTimer
  <2>2. \A v \in Workers :
          pc'[v] = pc[v] \/ {pc[v], pc'[v]} \subseteq {"schedule", "wait", "free", "armed"}
    BY <1>4 DEF Schedule, NothingScheduled, StartTimer, Rest, TypeOK
  <2> QED
    BY <2>1, <2>2 DEF InRotation
<1> QED
  BY <1>2, <1>3, <1>4 DEF Work, Rotate

\* Nor do the other steps but a restart begin or end a rotation.
LEMMA RotationApart ==
  ASSUME TypeOK,
         \/ TooManyTimers \/ DailyTick \/ \E x \in Timers : Fire(x)
         \/ OtherStarts \/ OtherRotates \/ OtherFails
         \/ Tick \/ Settle \/ UNCHANGED vars \/ \E g \in Keys : Age(g)
  PROVE  Rotating' = Rotating
<1> USE DEF Goto, locals, outside
<1>1. CASE DailyTick
  <2>1. pc[Ticker] = "wait" /\ pc'[Ticker] = "get" /\ ret'[Ticker] = "tick"
    BY <1>1 DEF DailyTick, TypeOK, Workers
  <2>2. \A v \in Workers \ {Ticker} : pc'[v] = pc[v] /\ ret'[v] = ret[v]
    BY <1>1 DEF DailyTick, TypeOK
  <2> QED
    BY <2>1, <2>2 DEF InRotation, Rotating
<1>2. CASE ~DailyTick
  <2>1. ret' = ret
    BY <1>2 DEF TooManyTimers, Fire, OtherStarts, OtherRotates, OtherFails, OtherUnchanged,
       Tick, Settle, vars, Age
  <2>2. \A v \in Workers :
          \/ pc'[v] = pc[v]
          \/ {pc[v], pc'[v]} \subseteq {"schedule", "wait", "armed", "check"}
    BY <1>2 DEF TooManyTimers, Fire, OtherStarts, OtherRotates, OtherFails, OtherUnchanged,
       Tick, Settle, vars, Age, TypeOK
  <2> QED
    BY <2>1, <2>2 DEF InRotation, Rotating
<1> QED
  BY <1>1, <1>2

\* A new manager has the portal's secret, and so has its file.
LEMMA CustodyInit == Init => Custody!Init
<1> SUFFICES ASSUME Init PROVE Custody!Init
  OBVIOUS
<1>1. \A w \in Workers : pc[w] \in {"get", "free"} /\ ret[w] = "start"
  BY DEF Init
<1>2. Rotating = FALSE
  BY <1>1 DEF Rotating, InRotation
<1>3. Received = 0 /\ mem.secret = 0 /\ disk.secret = 0 /\ portal = 0
  BY <1>1 DEF Init, Received, Bootstrap
<1> QED
  BY <1>2, <1>3 DEF Custody!Init

\* Every step is one of the custody's, or leaves the secrets where they are.
LEMMA CustodyStep ==
  Inv /\ Inv' /\ [Next]_vars => [Custody!Next]_(Custody!vars)
<1> SUFFICES ASSUME Inv, Inv', [Next]_vars PROVE [Custody!Next]_(Custody!vars)
  OBVIOUS
<1> USE DEF Custody!Next, Custody!vars
<1>0. TypeOK /\ RotationIsExclusive /\ RotationIsExclusive' /\ SecretsWereIssued
  BY DEF Inv
<1>1. ASSUME NEW w \in Workers, PutOK(w) PROVE Custody!Exchange
  <2>0. pc[w] # "apply" /\ pc'[w] = "apply"
    BY <1>1 DEF PutOK, Rotatable, Goto, Inv, TypeOK
  <2>1. /\ mem' = mem /\ disk' = disk /\ mem.secret = portal /\ portal' = portal + 1
        /\ pc'[w] = "apply" /\ got'[w] = portal + 1
        /\ \A v \in Workers : pc[v] # "apply"
    BY <1>1, <2>0, SecretMoves DEF Work, Rotate, ApplyRotation
  <2>2. Received = mem.secret
    BY <2>1 DEF Received
  <2>3. Received' = portal + 1
    BY <1>0, <2>1, ReceivedByRotationNext
  <2>4. Rotating = TRUE /\ Rotating' = TRUE
    BY <1>1, <2>1 DEF PutOK, Rotatable, InRotation, Rotating
  <2> QED
    BY <2>1, <2>2, <2>3, <2>4 DEF Custody!Exchange
<1>2. ASSUME NEW w \in Workers, ApplyRotation(w) PROVE Custody!Use
  <2>0. pc[w] = "apply" /\ pc'[w] # "apply"
    BY <1>2 DEF ApplyRotation, Goto, Inv, TypeOK
  <2>1. /\ disk' = disk /\ portal' = portal /\ pc[w] = "apply" /\ mem'.secret = got[w]
        /\ \A v \in Workers : pc'[v] # "apply"
    BY <1>2, <2>0, SecretMoves DEF Work, Rotate
  <2>2. Received = got[w]
    BY <1>0, <2>1, ReceivedByRotation
  <2>3. Received' = mem'.secret
    BY <2>1 DEF Received
  <2>4. pc'[w] = "get" /\ ret'[w] = "rotate"
    BY <1>0, <1>2 DEF ApplyRotation, Goto, TypeOK
  <2>5. Rotating = TRUE /\ Rotating' = TRUE
    BY <2>1, <2>4 DEF InRotation, Rotating
  <2> QED
    BY <2>1, <2>2, <2>3, <2>5 DEF Custody!Use
<1>3. ASSUME NEW w \in Workers, Work(w), ~PutOK(w), ~ApplyRotation(w)
      PROVE  [Custody!Next]_(Custody!vars)
  <2>1. /\ mem'.secret = mem.secret
        /\ disk'.secret \in {disk.secret, mem.secret}
        /\ portal' = portal \/ (portal' = portal + 1 /\ disk' = disk)
        /\ \A v \in Workers : /\ pc'[v] = "apply" <=> pc[v] = "apply"
                              /\ pc[v] = "apply" => got'[v] = got[v]
    BY <1>3, SecretMoves
  <2>2. Received' = Received
    BY <1>0, <2>1, ReceivedStays
  <2>3. CASE AcquireRotateLock(w)
    <3>1. UNCHANGED <<mem, disk, portal>> /\ pc'[w] = "putId"
      BY <1>0, <2>3 DEF AcquireRotateLock, Goto, locals, outside, TypeOK
    <3>2. Rotating = FALSE
      BY <2>3, LockIsLong DEF AcquireRotateLock, Rotating, Inv
    <3>3. Rotating' = TRUE
      BY <3>1 DEF Rotating, InRotation
    <3> QED
      BY <2>2, <3>1, <3>2, <3>3 DEF Custody!Begin
  <2>4. CASE ReleaseRotateLock(w)
    <3>1. /\ UNCHANGED <<mem, disk, portal, ret>>
          /\ pc[w] = "release" /\ pc'[w] = "schedule"
          /\ \A v \in Workers \ {w} : pc'[v] = pc[v]
      BY <1>0, <2>4 DEF ReleaseRotateLock, Goto, locals, outside, TypeOK
    <3>2. \A v \in Workers \ {w} : ~InRotation(v)
      BY <1>0, <3>1 DEF RotationIsExclusive, InRotation
    <3>3. Rotating = TRUE /\ Rotating' = FALSE
      BY <3>1, <3>2 DEF Rotating, InRotation
    <3>4. \A v \in Workers : pc[v] # "apply"
      BY <3>1, <3>2 DEF InRotation
    <3>5. Received = mem.secret
      BY <3>4 DEF Received
    <3> QED
      BY <2>2, <3>1, <3>3, <3>5 DEF Custody!End
  <2>5. CASE ~AcquireRotateLock(w) /\ ~ReleaseRotateLock(w)
    <3>1. Rotating' = Rotating
      BY <1>0, <1>3, <2>5, RotationFrame
    <3>2. CASE portal' = portal
      BY <2>1, <2>2, <3>1, <3>2 DEF Custody!Save
    <3>3. CASE portal' # portal
      <4>1. PutAnswerLost(w)
        BY <1>3, <3>3 DEF Work, RefreshMetadata, GetOK, GetFails, ApplyMetadata, Rotate, Check,
           AcquireRotateLock, AlreadyInProgress, PutFails, RotationFails, ReleaseRotateLock,
           Schedule, NothingScheduled, StartTimer, outside
      <4>2. Rotating = TRUE /\ mem.secret = portal
        BY <4>1 DEF PutAnswerLost, Rotatable, InRotation, Rotating
      <4> QED
        BY <2>1, <2>2, <3>1, <3>3, <4>2 DEF Custody!Miss
    <3> QED
      BY <3>2, <3>3
  <2> QED
    BY <2>3, <2>4, <2>5
<1>4. CASE Restart
  <2>1. Received' = disk.secret
    BY <1>4 DEF Restart, Received
  <2>2. \A w \in Workers : pc'[w] \in {"get", "free"} /\ ret'[w] = "start"
    BY <1>4 DEF Restart
  <2>3. Rotating' = FALSE
    BY <2>2 DEF InRotation, Rotating
  <2> QED
    BY <1>4, <2>1, <2>3 DEF Restart, outside, Custody!Restart
<1>5. CASE \/ TooManyTimers \/ DailyTick \/ \E x \in Timers : Fire(x)
           \/ OtherStarts \/ OtherRotates \/ OtherFails
           \/ Tick \/ Settle \/ UNCHANGED vars \/ \E g \in Keys : Age(g)
  <2>1. UNCHANGED mem /\ Received' = Received /\ Rotating' = Rotating
    BY <1>0, <1>5, SecretsApart, ReceivedStays, RotationApart
  <2>2. CASE OtherRotates
    <3>1. /\ Shared /\ portal' = portal + 1
          /\ disk' = disk \/ disk'.secret = portal + 1
      BY <2>2 DEF OtherRotates, Bootstrap
    <3> QED
      BY <2>1, <3>1 DEF Custody!Miss
  <2>3. CASE OtherFails
    <3>1. Shared /\ portal' = portal /\ disk'.secret = other
      BY <2>3 DEF OtherFails, Bootstrap
    <3>2. other \in 0 .. portal
      BY <1>0, SecretsTyped DEF SecretsWereIssued, Inv
    <3> QED
      BY <2>1, <3>1, <3>2 DEF Custody!Overwrite
  <2>4. CASE ~OtherRotates /\ ~OtherFails
    <3>1. UNCHANGED <<disk, portal>>
      BY <1>5, <2>4 DEF TooManyTimers, DailyTick, Fire, OtherStarts, Tick, Settle, vars,
         Age, outside
    <3> QED
      BY <2>1, <3>1
  <2> QED
    BY <2>2, <2>3, <2>4
<1> QED
  BY <1>1, <1>2, <1>3, <1>4, <1>5 DEF Next

\* PublisherKeyManager implements KeyCustody: seen from the secrets, its goroutines rotate
\* like one, and none ends with a secret it received and did not put in use.
THEOREM ManagerRefines == Spec => RefinesCustody
<1>1. Init => Custody!Init
  BY CustodyInit
<1>2. Inv /\ Inv' /\ [Next]_vars => [Custody!Next]_(Custody!vars)
  BY CustodyStep
<1> QED
  BY <1>1, <1>2, Invariance, PTL DEF Spec, RefinesCustody, Custody!Spec

=============================================================================
