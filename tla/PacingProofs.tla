---------------------------- MODULE PacingProofs ----------------------------
(***************************************************************************)
(* What the clock of a task and its clients are promised holds for every   *)
(* task, store, clock and number of clients.                               *)
(***************************************************************************)
EXTENDS PacingProps, FiniteSetTheorems, WellFoundedInduction, TLAPS

-----------------------------------------------------------------------------
(* The inductive invariant: what was let through in the last window is     *)
(* still in the bucket, and a bucket is never fuller than the limit.       *)

ClockOK == setting \in Settings /\ now \in Nat \ {0}
BucketOK == IsFiniteSet(bucket) /\ \A f \in bucket : f.t \in Nat \ {0}
FiredKept == fired \subseteq bucket /\ \A f \in fired : f.t > now - def.window
BucketCapped == Limited => Cardinality(bucket) <= def.count

LimiterInv == ClockOK /\ BucketOK /\ FiredKept /\ BucketCapped

(* The limits of a task are natural numbers.                               *)
LEMMA LimitsTyped == ClockOK => def.count \in Nat /\ def.window \in Nat
<1> SUFFICES ASSUME ClockOK PROVE def.count \in Nat /\ def.window \in Nat
  OBVIOUS
<1>1. def \in Params
  BY PacingAssumption DEF ClockOK, def
<1>2. def.count \in U64 /\ def.window \in U64
  BY <1>1 DEF Params
<1>3. U64 \subseteq Nat
  BY DEF U64
<1> QED BY <1>2, <1>3

(* A daemon starts with an empty bucket.                                   *)
LEMMA InitLimiter == Init => LimiterInv
<1> SUFFICES ASSUME Init PROVE LimiterInv
  OBVIOUS
<1>1. ClockOK
  BY PacingAssumption DEF Init, PacingInit, ClockOK
<1>2. bucket = {} /\ fired = {}
  BY DEF Init, PacingInit
<1>3. IsFiniteSet(bucket) /\ Cardinality(bucket) = 0
  BY <1>2, FS_EmptySet
<1>4. BucketCapped
  BY <1>1, <1>3, LimitsTyped DEF BucketCapped
<1> QED BY <1>1, <1>2, <1>3, <1>4 DEF LimiterInv, BucketOK, FiredKept

(* The retain of check_and_record drops nothing the window still holds.    *)
LEMMA KeptHoldsFired ==
  ASSUME LimiterInv
  PROVE  /\ fired \subseteq Kept /\ Kept \subseteq bucket
         /\ IsFiniteSet(Kept) /\ Cardinality(Kept) \in Nat
         /\ Cardinality(Kept) <= Cardinality(bucket) /\ Cardinality(bucket) \in Nat
<1>1. Kept \subseteq bucket
  BY DEF Kept
<1>2. \A f \in fired : f \in bucket /\ f.t \in Nat \ {0} /\ f.t > now - def.window
  BY DEF LimiterInv, FiredKept, BucketOK
<1>3. fired \subseteq Kept
  BY <1>2, LimitsTyped DEF LimiterInv, ClockOK, Kept
<1>4. IsFiniteSet(bucket)
  BY DEF LimiterInv, BucketOK
<1> QED BY <1>1, <1>3, <1>4, FS_Subset, FS_CardinalityType

(* A step that touches neither clock nor limiter.                          *)
LEMMA StillKeeps ==
  ASSUME LimiterInv, UNCHANGED <<setting, now, limiterVars>>
  PROVE  LimiterInv'
BY DEF LimiterInv, ClockOK, BucketOK, FiredKept, BucketCapped, Limited, def, limiterVars

(* check_and_record lets a trigger pass.                                   *)
LEMMA PassKeeps ==
  ASSUME LimiterInv, Pass, UNCHANGED <<setting, now>>
  PROVE  LimiterInv'
<1>1. CASE ~Limited
  BY <1>1, StillKeeps DEF Pass
<1>2. CASE Limited
  <2>1. PICK k : /\ bucket' = Kept \cup {[t |-> now, k |-> k]}
                 /\ fired' = fired \cup {[t |-> now, k |-> k]}
    BY <1>2 DEF Pass
  <2> DEFINE f == [t |-> now, k |-> k]
  <2>2. f.t = now
    OBVIOUS
  <2> HIDE DEF f
  <2>3. def.count \in Nat /\ def.window \in Nat /\ def.window > 0 /\ def' = def
    BY <1>2, LimitsTyped DEF LimiterInv, Limited, def
  <2>4. Cardinality(Kept) < def.count
    BY <1>2, <2>3, KeptHoldsFired DEF Pass, Full
  <2>5. ClockOK' /\ now \in Nat \ {0} /\ now' = now
    BY DEF LimiterInv, ClockOK
  <2>6. IsFiniteSet(bucket') /\ Cardinality(bucket') <= Cardinality(Kept) + 1
    <3> DEFINE n == Cardinality(Kept)
    <3>1. IsFiniteSet(Kept) /\ n \in Nat
      BY KeptHoldsFired
    <3>2. /\ IsFiniteSet(Kept \cup {f})
          /\ Cardinality(Kept \cup {f}) = n \/ Cardinality(Kept \cup {f}) = n + 1
      BY <3>1, FS_AddElement
    <3>3. bucket' = Kept \cup {f}
      BY <2>1 DEF f
    <3> QED BY <3>1, <3>2, <3>3
  <2>7. BucketOK'
    <3>1. \A g \in Kept : g.t \in Nat \ {0}
      BY KeptHoldsFired DEF LimiterInv, BucketOK
    <3> QED BY <2>1, <2>2, <2>5, <2>6, <3>1 DEF BucketOK, f
  <2>8. FiredKept'
    <3>1. now > now - def.window
      BY <2>3, <2>5
    <3>2. \A g \in fired : g.t > now - def.window
      BY DEF LimiterInv, FiredKept
    <3> QED BY <2>1, <2>2, <2>3, <2>5, <3>1, <3>2, KeptHoldsFired DEF FiredKept, f
  <2>9. BucketCapped'
    <3>1. Cardinality(bucket') \in Nat
      BY <2>6, FS_CardinalityType
    <3> QED BY <2>3, <2>4, <2>6, <3>1, KeptHoldsFired DEF BucketCapped
  <2> QED BY <2>5, <2>7, <2>8, <2>9 DEF LimiterInv
<1> QED BY <1>1, <1>2

(* check_and_record refuses one.                                           *)
LEMMA RefuseKeeps ==
  ASSUME LimiterInv, Refuse, UNCHANGED <<setting, now>>
  PROVE  LimiterInv'
<1>1. bucket' = Kept /\ fired' = fired /\ def' = def
  BY DEF Refuse, def
<1>2. BucketOK'
  BY <1>1, KeptHoldsFired DEF LimiterInv, BucketOK
<1>3. FiredKept'
  BY <1>1, KeptHoldsFired DEF LimiterInv, FiredKept
<1>4. BucketCapped'
  BY <1>1, KeptHoldsFired, LimitsTyped DEF LimiterInv, BucketCapped, Limited
<1> QED BY <1>2, <1>3, <1>4 DEF LimiterInv, ClockOK

(* The limiter forgets the task.                                           *)
LEMMA ForgetKeeps ==
  ASSUME LimiterInv, Forget, UNCHANGED <<setting, now>>
  PROVE  LimiterInv'
<1>1. IsFiniteSet(bucket') /\ Cardinality(bucket') = 0
  BY FS_EmptySet DEF Forget
<1>2. BucketCapped'
  BY <1>1, LimitsTyped DEF LimiterInv, BucketCapped, def
<1> QED BY <1>1, <1>2 DEF LimiterInv, ClockOK, BucketOK, FiredKept, Forget

(* A second passes: the window has slid, the bucket is as it was.          *)
LEMMA TickKeeps ==
  ASSUME LimiterInv, Tick
  PROVE  LimiterInv'
<1>1. now' = now + 1 /\ bucket' = bucket /\ setting' = setting /\ def' = def
  BY DEF Tick, def
<1>2. fired' \subseteq fired /\ \A f \in fired' : f.t > now' - def.window
  BY DEF Tick
<1>3. ClockOK'
  BY <1>1 DEF LimiterInv, ClockOK
<1>4. BucketOK' /\ BucketCapped'
  BY <1>1 DEF LimiterInv, BucketOK, BucketCapped, Limited
<1> QED BY <1>1, <1>2, <1>3, <1>4 DEF LimiterInv, FiredKept

-----------------------------------------------------------------------------
(* The steps of the task's clock.                                          *)
LEMMA PacingKeeps ==
  ASSUME LimiterInv, PacingStep
  PROVE  LimiterInv'
<1>1. CASE Tick
  BY <1>1, TickKeeps
<1>2. CASE Wake \/ ScanExpires \/ ScanRunAt \/ ScanInterval \/ ScanCron
           \/ ScanRetries
  BY <1>2, StillKeeps
     DEF Wake, ScanExpires, ScanRunAt, ScanInterval, ScanCron, ScanRetries
<1>3. CASE ProcessGone \/ ProcessExpired \/ ProcessEarly
  BY <1>3, StillKeeps DEF ProcessGone, ProcessExpired, ProcessEarly, Drain
<1>4. CASE ProcessLimited
  BY <1>4, RefuseKeeps DEF ProcessLimited, Drain
<1>5. CASE ProcessOverlap \/ ProcessStart
  BY <1>5, PassKeeps DEF ProcessOverlap, ProcessStart, Drain
<1>6. ASSUME NEW code, Finish(code) PROVE LimiterInv'
  BY <1>6, ForgetKeeps, StillKeeps DEF Finish
<1> QED BY <1>1, <1>2, <1>3, <1>4, <1>5, <1>6 DEF PacingStep

(* No request touches the clock or the limiter.                            *)
LEMMA RequestKeeps ==
  ASSUME LimiterInv, NEW c \in Call, Send(c) \/ Accept(c) \/ Handle(c) \/ Drop(c)
  PROVE  LimiterInv'
<1> SUFFICES UNCHANGED <<setting, now, limiterVars>>
  BY StillKeeps
<1>1. CASE Send(c) \/ Accept(c) \/ Drop(c)
  BY <1>1 DEF Send, Accept, Drop, Closed, pacingVars, clockVars
<1>2. CASE DispatchInvalid(c) \/ DispatchConflict(c) \/ Ask(c) \/ Reply(c)
  BY <1>2 DEF DispatchInvalid, DispatchConflict, Ask, Reply, Closed, pacingVars, clockVars
<1>3. CASE DispatchReplacing(c) \/ DispatchNew(c)
  BY <1>3 DEF DispatchReplacing, DispatchNew, Built
<1>4. CASE Insert(c) \/ Enqueue(c) \/ Remove(c)
  BY <1>4 DEF Insert, Enqueue, Remove
<1>5. CASE Modify(c)
  BY <1>5 DEF Modify, Apply
<1>6. CASE RescheduleTask(c)
  BY <1>6 DEF RescheduleTask, Apply
<1>7. CASE RequeueTask(c)
  BY <1>7 DEF RequeueTask, Apply
<1>8. CASE SetPaused(c)
  BY <1>8 DEF SetPaused, Apply
<1> QED BY <1>1, <1>2, <1>3, <1>4, <1>5, <1>6, <1>7, <1>8 DEF Handle

(* The rate limiter's invariant holds in every behaviour.                  *)
THEOREM LimiterInvariant == Spec => []LimiterInv
<1>1. Init => LimiterInv
  BY InitLimiter
<1>2. LimiterInv /\ [Next]_vars => LimiterInv'
  <2> SUFFICES ASSUME LimiterInv, [Next]_vars PROVE LimiterInv'
    OBVIOUS
  <2>1. CASE Next
    BY <2>1, PacingKeeps, RequestKeeps DEF Next
  <2>2. CASE UNCHANGED vars
    BY <2>2, StillKeeps DEF vars, pacingVars, clockVars
  <2> QED BY <2>1, <2>2
<1> QED BY <1>1, <1>2, PTL DEF Spec

(* For every task, store and clock, and any number of clients: at most     *)
(* rate_limit_count triggers pass the limiter in rate_limit_window seconds,*)
(* since it last forgot the task.                                          *)
THEOREM RateAlwaysCapped == Spec => []RateCap
<1>1. LimiterInv => RateCap
  <2> SUFFICES ASSUME LimiterInv, Limited PROVE Cardinality(fired) <= def.count
    BY DEF RateCap
  <2>1. fired \subseteq bucket /\ IsFiniteSet(bucket)
    BY DEF LimiterInv, FiredKept, BucketOK
  <2>2. /\ Cardinality(fired) \in Nat /\ Cardinality(bucket) \in Nat
        /\ Cardinality(fired) <= Cardinality(bucket)
    BY <2>1, FS_Subset, FS_CardinalityType
  <2> QED BY <2>2, LimitsTyped DEF LimiterInv, BucketCapped
<1> QED BY <1>1, LimiterInvariant, PTL

-----------------------------------------------------------------------------
(* The operators of Schedule.                                              *)

(* The width of a time is that of a natural number.                        *)
LEMMA WidthTyped == U64Max \in Nat /\ \A a \in Nat : 2^a \in Nat \ {0}
<1>1. ASSUME NEW a \in Nat PROVE 2^a \in Nat \ {0}
  <2>1. IsFiniteSet(1..a) /\ Cardinality(1..a) = a
    BY FS_Interval
  <2>2. IsFiniteSet(SUBSET (1..a)) /\ Cardinality(SUBSET (1..a)) = 2^a
    BY <2>1, FS_SUBSET
  <2>3. Cardinality(SUBSET (1..a)) # 0
    BY <2>2, FS_EmptySet
  <2> QED BY <2>2, <2>3, FS_CardinalityType
<1> QED BY <1>1, ScheduleAssumption DEF U64Max

(* A set of natural numbers has its least element.                         *)
LEMMA MinIsLeast ==
  ASSUME NEW S \in SUBSET Nat, S # {}
  PROVE  Min(S) \in S /\ \A n \in S : Min(S) <= n
<1>1. IsWellFoundedOn(OpToRel(<, Nat), Nat)
  BY NatLessThanWellFounded
<1>2. PICK x \in S : \A y \in S : ~(<<y, x>> \in OpToRel(<, Nat))
  BY <1>1, WFMin
<1>3. \A y \in Nat : y < x => <<y, x>> \in OpToRel(<, Nat)
  BY DEF OpToRel
<1>4. \A y \in S : ~(y < x)
  BY <1>2, <1>3
<1>5. \A y \in S : x <= y
  BY <1>4
<1> QED BY <1>5 DEF Min

(* saturating_add and saturating_mul stay in the width.                    *)
LEMMA SaturatingTyped ==
  ASSUME NEW n \in Nat
  PROVE  Saturating(n) \in U64 /\ Saturating(n) <= n /\ (n <= U64Max => Saturating(n) = n)
BY WidthTyped DEF Saturating, U64

(* So does a sum that wraps.                                               *)
LEMMA WrapTyped ==
  ASSUME NEW n \in Nat
  PROVE  WrapAt(n) \in U64 /\ (n <= U64Max => WrapAt(n) = n)
BY WidthTyped DEF WrapAt, U64

(* next_fire of several expressions: an occurrence of one of them that is  *)
(* still to come.                                                          *)
LEMMA NextFireTyped ==
  ASSUME NEW exprs \in SUBSET Expr, exprs # {}, NEW z \in Zone, NEW from \in Nat,
         Computable(exprs, from, z)
  PROVE  /\ MinNextFire(exprs, from, z) \in U64 /\ MinNextFire(exprs, from, z) > from
         /\ \E e \in exprs : MinNextFire(exprs, from, z) \in Occurs[e][z]
<1> DEFINE S == UNION {Matches(e, from, z) : e \in exprs}
<1>1. \A e \in exprs : Occurs[e][z] \subseteq U64
  BY ScheduleAssumption
<1>2. S \subseteq U64 /\ S # {}
  BY <1>1 DEF Matches, Computable
<1>3. Min(S) \in S
  BY <1>2, WidthTyped, MinIsLeast DEF U64
<1>4. PICK e \in exprs : Min(S) \in Matches(e, from, z)
  BY <1>3
<1> QED BY <1>2, <1>3, <1>4 DEF MinNextFire, Matches

(* A retry's delay and time stay in the width.                             *)
LEMMA RetryTyped ==
  ASSUME NEW t \in Row, NEW at \in Nat
  PROVE  BackoffDelay(t) \in U64 /\ NextRetry(t, at) \in U64
<1>1. t.retryDelay \in U64 /\ t.attempts \in Nat
  BY DEF Row
<1>2. \A n \in U64 : n \in Nat
  BY WidthTyped DEF U64
<1>3. Factor(t.attempts) \in Nat
  BY <1>1, WidthTyped DEF Factor
<1>4. t.retryDelay * Factor(t.attempts) \in Nat /\ t.retryDelay * BackoffCap \in Nat
  BY <1>1, <1>2, <1>3, ScheduleAssumption
<1>5. BackoffDelay(t) \in U64
  <2> DEFINE S == {Saturating(t.retryDelay * Factor(t.attempts)),
                   Saturating(t.retryDelay * BackoffCap)}
  <2>1. S \subseteq U64
    BY <1>4, SaturatingTyped
  <2>2. Min(S) \in S
    BY <1>2, <2>1, MinIsLeast
  <2> QED BY <1>1, <2>1, <2>2 DEF BackoffDelay
<1>6. at + BackoffDelay(t) \in Nat
  BY <1>2, <1>5
<1> QED BY <1>5, <1>6, SaturatingTyped DEF NextRetry

(* The fields of a row.                                                    *)
Field ==
  PatchKeys \cup {"countdown", "start", "type", "safe", "count", "window", "state",
                  "attempts", "next", "created"}

(* The fields of a row, one by one.                                        *)
LEMMA RowFields == \A r \in Row : DOMAIN r = Field
BY DEF Row, Field, PatchKeys, TriggerKeys

(* A row is its fields.                                                    *)
LEMMA RowOf ==
  ASSUME NEW q, q = [k \in Field |-> q[k]], NEW r \in Row,
         q.cron \in Maybe(Expr), q.orCron \in SUBSET Expr, q.interval \in Maybe(U64),
         q.runAt \in Maybe(U64), q.jitter \in U64, q.expires \in U64,
         q.retryMax \in U64, q.retryDelay \in U64, q.backoff \in BOOLEAN,
         q.coalesce \in BOOLEAN, q.grace \in U64, q.skip \in SUBSET U64, q.zone \in Zone,
         q.paused \in BOOLEAN,
         \A k \in Field \ PatchKeys : q[k] = r[k]
  PROVE  q \in Row
<1>1. /\ q.countdown = r.countdown /\ q.start = r.start /\ q.type = r.type
      /\ q.safe = r.safe /\ q.count = r.count /\ q.window = r.window
      /\ q.state = r.state /\ q.attempts = r.attempts /\ q.next = r.next
      /\ q.created = r.created
  BY DEF Field, PatchKeys, TriggerKeys
<1> QED BY <1>1 DEF Row, Field, PatchKeys, TriggerKeys

(* A patch that gives one row typed fields gives them to every row.        *)
LEMMA OverTyped ==
  ASSUME NEW p, DOMAIN p \subseteq PatchKeys, NEW s \in Row, Over(p, s) \in Row, NEW r \in Row
  PROVE  /\ Over(p, r) \in Row
         /\ \A k \in Field : Over(p, r)[k] = IF k \in DOMAIN p THEN p[k] ELSE r[k]
<1> DEFINE q == Over(p, r)
           m == Over(p, s)
<1>1. \A k \in Field : q[k] = IF k \in DOMAIN p THEN p[k] ELSE r[k]
  BY RowFields DEF Over, Field
<1>2. \A k \in Field : m[k] = IF k \in DOMAIN p THEN p[k] ELSE s[k]
  BY RowFields DEF Over, Field
<1>3. q = [k \in Field |-> q[k]]
  BY RowFields DEF Over, Field
<1>4. \A k \in Field : q[k] = r[k] \/ q[k] = m[k]
  BY <1>1, <1>2
<1>5. \A k \in Field \ PatchKeys : q[k] = r[k]
  BY <1>1
<1> HIDE DEF q, m
<1>6. m \in Row
  BY DEF m
<1>7. /\ q.cron \in Maybe(Expr) /\ q.orCron \in SUBSET Expr /\ q.interval \in Maybe(U64)
      /\ q.runAt \in Maybe(U64) /\ q.jitter \in U64 /\ q.expires \in U64
  BY <1>4, <1>6 DEF Row, Field, PatchKeys, TriggerKeys
<1>8. /\ q.retryMax \in U64 /\ q.retryDelay \in U64 /\ q.backoff \in BOOLEAN
      /\ q.coalesce \in BOOLEAN /\ q.grace \in U64 /\ q.skip \in SUBSET U64
      /\ q.zone \in Zone /\ q.paused \in BOOLEAN
  BY <1>4, <1>6 DEF Row, Field, PatchKeys, TriggerKeys
<1>9. q \in Row
  BY <1>3, <1>5, <1>7, <1>8, RowOf
<1> QED BY <1>1, <1>9 DEF q

(* A zero is no value.                                                     *)
LEMMA GivenTyped == \A v \in Maybe(U64) : Given(v) \in Maybe(U64) /\ Given(v) # 0
BY ScheduleAssumption, WidthTyped DEF Maybe, Given, U64

(* A jitter is a time.                                                     *)
LEMMA JitterTyped == \A secs \in U64 : Jitters(secs) \subseteq U64
BY WidthTyped DEF Jitters, U64

(* A builder's run_at and its first fires are times.                       *)
LEMMA FirstFiresTyped ==
  ASSUME NEW b \in Params, NEW at \in U64, Builds(b, at)
  PROVE  /\ RunAt(b, at) \in Maybe(U64)
         /\ FirstFires(b, at) \subseteq Maybe(U64)
<1>1. /\ b.runAt \in Maybe(U64) /\ b.countdown \in Maybe(U64) /\ b.interval \in Maybe(U64)
      /\ b.jitter \in U64 /\ b.cron \in Maybe(Expr) /\ b.orCron \in SUBSET Expr
      /\ b.zone \in Zone
  BY DEF Params
<1>2. \A n \in U64 : n \in Nat
  BY WidthTyped DEF U64
<1>3. ASSUME NEW v \in Maybe(U64), v # None PROVE v \in Nat
  BY <1>2, <1>3 DEF Maybe
<1>4. RunAt(b, at) \in Maybe(U64)
  <2>1. CASE Given(b.runAt) # None \/ Given(b.countdown) = None
    BY <1>1, <2>1, GivenTyped DEF RunAt
  <2>2. CASE Given(b.runAt) = None /\ Given(b.countdown) # None
    <3>1. b.countdown # None
      BY <2>2, ScheduleAssumption DEF Given
    <3>2. at + b.countdown \in Nat
      BY <1>1, <1>2, <1>3, <3>1
    <3> QED BY <2>2, <3>2, SaturatingTyped DEF RunAt, Maybe
  <2> QED BY <2>1, <2>2
<1>5. CronExprs(b) \in SUBSET Expr
  BY <1>1 DEF CronExprs, Maybe
<1>6. \A j \in Jitters(b.jitter) : j \in Nat
  BY <1>1, <1>2, JitterTyped
<1>7. CASE RunAt(b, at) # None
  BY <1>4, <1>7 DEF FirstFires
<1>8. CASE RunAt(b, at) = None
  <2>1. CASE CronExprs(b) # {}
    <3> DEFINE base == MinNextFire(CronExprs(b), at, b.zone)
    <3>1. base \in U64
      BY <1>1, <1>2, <1>5, <1>8, <2>1, NextFireTyped DEF Builds
    <3> HIDE DEF base
    <3>2. \A j \in Jitters(b.jitter) : Saturating(base + j) \in U64
      BY <1>2, <1>6, <3>1, SaturatingTyped
    <3>3. FirstFires(b, at) = {Saturating(base + j) : j \in Jitters(b.jitter)}
      BY <1>8, <2>1 DEF FirstFires, base
    <3> QED BY <1>4, <3>2, <3>3 DEF Maybe
  <2>2. CASE CronExprs(b) = {} /\ Given(b.interval) = None
    BY <1>4, <1>8, <2>2 DEF FirstFires, Maybe
  <2>3. CASE CronExprs(b) = {} /\ Given(b.interval) # None
    <3> DEFINE base == Saturating(at + b.interval)
    <3>1. b.interval # None
      BY <2>3, ScheduleAssumption DEF Given
    <3>2. at + b.interval \in Nat
      BY <1>1, <1>2, <1>3, <3>1
    <3>3. base \in U64
      BY <3>2, SaturatingTyped
    <3> HIDE DEF base
    <3>4. \A j \in Jitters(b.jitter) : Saturating(base + j) \in U64
      BY <1>2, <1>6, <3>3, SaturatingTyped
    <3>5. FirstFires(b, at) = {Saturating(base + j) : j \in Jitters(b.jitter)}
      BY <1>8, <2>3 DEF FirstFires, base
    <3> QED BY <1>4, <3>4, <3>5 DEF Maybe
  <2> QED BY <2>1, <2>2, <2>3
<1> QED BY <1>4, <1>7, <1>8

(* What build leaves is a row.                                             *)
LEMMA TaskTyped ==
  ASSUME NEW b \in Params, NEW at \in U64, NEW next \in Maybe(U64), NEW t,
         t = Task(b, next, at), RunAt(b, at) \in Maybe(U64)
  PROVE  /\ t \in Row
         /\ t.cron = b.cron /\ t.orCron = b.orCron /\ t.zone = b.zone /\ t.jitter = b.jitter
         /\ t.interval = Given(b.interval) /\ t.runAt = RunAt(b, at)
         /\ t.retryMax = b.retryMax /\ t.retryDelay = b.retryDelay /\ t.backoff = b.backoff
         /\ t.skip = b.skip /\ t.expires = b.expires
         /\ t.state = "pending" /\ t.attempts = 0 /\ t.next = next /\ t.created = at
         /\ t.start = Given(b.start) /\ t.countdown = None
<1> DEFINE d == [b EXCEPT !.runAt = RunAt(b, at), !.countdown = None,
                          !.interval = Given(@), !.start = Given(@)]
           e == [state |-> "pending", attempts |-> 0, next |-> next, created |-> at,
                 paused |-> FALSE]
<1>1. Given(b.interval) \in Maybe(U64) /\ Given(b.start) \in Maybe(U64)
  BY GivenTyped DEF Params
<1>2. /\ DOMAIN d = Field \ {"state", "attempts", "next", "created", "paused"}
      /\ DOMAIN e = {"state", "attempts", "next", "created", "paused"}
  BY DEF Params, Field, PatchKeys, TriggerKeys
<1>3. /\ d \in Params
      /\ d.runAt = RunAt(b, at) /\ d.countdown = None /\ d.interval = Given(b.interval)
      /\ d.start = Given(b.start) /\ d.cron = b.cron /\ d.orCron = b.orCron
      /\ d.jitter = b.jitter /\ d.zone = b.zone /\ d.retryMax = b.retryMax
      /\ d.retryDelay = b.retryDelay /\ d.backoff = b.backoff /\ d.skip = b.skip
      /\ d.expires = b.expires
  BY <1>1 DEF Params, Maybe
<1>4. /\ e.state = "pending" /\ e.attempts = 0 /\ e.next = next /\ e.created = at
      /\ e.paused = FALSE
  OBVIOUS
<1>5. t = [k \in DOMAIN d \cup DOMAIN e |-> IF k \in DOMAIN d THEN d[k] ELSE e[k]]
  BY DEF Task, Over
<1> HIDE DEF d, e
<1>6. t = [k \in Field |-> t[k]]
  BY <1>2, <1>5 DEF Field, PatchKeys, TriggerKeys
<1>7. \A k \in DOMAIN d : t[k] = d[k]
  BY <1>2, <1>5
<1>8. \A k \in DOMAIN e : t[k] = e[k]
  BY <1>2, <1>5
<1>9. /\ t.state = "pending" /\ t.attempts = 0 /\ t.next = next /\ t.created = at
      /\ t.paused = FALSE
  BY <1>2, <1>4, <1>8
<1>10. /\ t.cron = d.cron /\ t.orCron = d.orCron /\ t.interval = d.interval
       /\ t.runAt = d.runAt /\ t.countdown = d.countdown /\ t.jitter = d.jitter
       /\ t.start = d.start /\ t.expires = d.expires /\ t.type = d.type /\ t.safe = d.safe
       /\ t.retryMax = d.retryMax /\ t.retryDelay = d.retryDelay /\ t.backoff = d.backoff
       /\ t.coalesce = d.coalesce /\ t.grace = d.grace /\ t.skip = d.skip
       /\ t.count = d.count /\ t.window = d.window /\ t.zone = d.zone
  BY <1>2, <1>7 DEF Field, PatchKeys, TriggerKeys
<1>11. t \in Row
  <2>1. 0 \in Nat /\ at \in U64
    OBVIOUS
  <2> QED BY <1>3, <1>6, <1>9, <1>10, <2>1
          DEF Params, Row, Field, PatchKeys, TriggerKeys
<1> QED BY <1>3, <1>9, <1>10, <1>11

(* The daemon's clock is within the width of a time.                       *)
LEMMA ClockTyped == \A at \in Start..Horizon : at \in U64 /\ at \in Nat /\ at < U64Max
BY PacingAssumption, WidthTyped DEF U64

(* What a client asks to change fits any row.                              *)
LEMMA PatchTyped ==
  ASSUME NEW x \in Settings, NEW c \in Call, NEW op \in x.asks[c], op.kind = "modify",
         NEW r \in Row
  PROVE  /\ DOMAIN op.patch \subseteq PatchKeys
         /\ Over(op.patch, r) \in Row
         /\ \A k \in Field :
              Over(op.patch, r)[k] = IF k \in DOMAIN op.patch THEN op.patch[k] ELSE r[k]
<1>1. Asked(op, x.task) /\ x.task \in Params
  BY RequestsAssumption, PacingAssumption DEF Call
<1>2. Start \in U64
  BY ClockTyped, PacingAssumption
<1>3. RunAt(x.task, Start) \in Maybe(U64)
  <2>1. CASE Given(x.task.runAt) # None \/ Given(x.task.countdown) = None
    BY <1>1, <2>1, GivenTyped DEF RunAt, Params
  <2>2. CASE Given(x.task.runAt) = None
    <3>1. Builds(x.task, Start) => RunAt(x.task, Start) \in Maybe(U64)
      BY <1>1, <1>2, FirstFiresTyped
    <3>2. RunAt(x.task, Start) # None => Builds(x.task, Start)
      BY DEF Builds
    <3> QED BY <3>1, <3>2 DEF Maybe
  <2> QED BY <2>1, <2>2
<1>4. Task(x.task, None, Start) \in Row
  BY <1>1, <1>2, <1>3, TaskTyped DEF Maybe
<1>5. DOMAIN op.patch \subseteq PatchKeys /\ Over(op.patch, Task(x.task, None, Start)) \in Row
  BY <1>1 DEF Asked
<1> QED BY <1>4, <1>5, OverTyped

(* The expressions of a row.                                               *)
LEMMA ExprsTyped ==
  \A r \in Row : CronExprs(r) \in SUBSET Expr /\ r.zone \in Zone
BY DEF Row, CronExprs, Maybe

(* Recomputing a row's next_fire gives a time.                             *)
LEMMA RecomputedTyped ==
  ASSUME NEW r, r.cron \in Maybe(Expr), r.orCron \in SUBSET Expr, r.interval \in Maybe(U64),
         r.runAt \in Maybe(U64), r.zone \in Zone, r.next \in Maybe(U64),
         NEW at \in Nat, Computable(CronExprs(r), at, r.zone)
  PROVE  Recomputed(r, at) \in Maybe(U64)
<1>1. CronExprs(r) \in SUBSET Expr
  BY DEF CronExprs, Maybe
<1>2. CASE CronExprs(r) # {}
  BY <1>1, <1>2, NextFireTyped DEF Recomputed, Maybe
<1>3. CASE CronExprs(r) = {} /\ r.interval # None
  <2>1. at + r.interval \in Nat
    BY <1>3, WidthTyped DEF Maybe, U64
  <2> QED BY <1>3, <2>1, SaturatingTyped DEF Recomputed, Maybe
<1>4. CASE CronExprs(r) = {} /\ r.interval = None /\ r.runAt # None
  BY <1>4 DEF Recomputed
<1>5. CASE CronExprs(r) = {} /\ r.interval = None /\ r.runAt = None
  BY <1>5 DEF Recomputed
<1> QED BY <1>2, <1>3, <1>4, <1>5

(* Fields that stay.                                                       *)
KeptBut(q, r, ks) == \A k \in Field \ ks : q[k] = r[k]

(* A changed row: what no patch names stays, the rest is old or new.       *)
Changed(q, r, m) ==
  /\ q \in Row
  /\ \A k \in Field \ (PatchKeys \cup {"next"}) : q[k] = r[k]
  /\ \A k \in PatchKeys : q[k] \in {r[k], m[k]}

(* A row with another next_fire is a row.                                  *)
LEMMA SetNext ==
  ASSUME NEW m \in Row, NEW next \in Maybe(U64)
  PROVE  /\ [m EXCEPT !.next = next] \in Row
         /\ [m EXCEPT !.next = next].next = next
         /\ \A k \in Field \ {"next"} : [m EXCEPT !.next = next][k] = m[k]
<1>1. [m EXCEPT !.next = next] \in Row
  BY DEF Row
<1> QED BY <1>1, RowFields DEF Field

(* modify_job of the two stores.                                           *)
LEMMA ModifyTyped ==
  ASSUME NEW x \in Settings, NEW c \in Call, NEW op \in x.asks[c], op.kind = "modify",
         NEW r \in Row, NEW at \in Nat,
         NEW a \in {ModifyInMemory(r, op.patch, at), ModifySqlite(r, op.patch, at)}
  PROVE  Changed(a.row, r, Over(op.patch, r)) /\ a.reply \in {"yes", "no", "error"}
<1> DEFINE m == Over(op.patch, r)
<1>1. /\ DOMAIN op.patch \subseteq PatchKeys /\ m \in Row
      /\ \A k \in Field : m[k] = IF k \in DOMAIN op.patch THEN op.patch[k] ELSE r[k]
  BY PatchTyped
<1>2. \A k \in Field \ PatchKeys : m[k] = r[k]
  BY <1>1
<1>3. "next" \in Field /\ "next" \notin PatchKeys /\ PatchKeys \subseteq Field
  BY DEF Field, PatchKeys, TriggerKeys
<1> HIDE DEF m
<1>4. Changed(r, r, m) /\ Changed(m, r, m)
  BY <1>1, <1>2 DEF Changed
<1>5. ASSUME NEW next \in Maybe(U64) PROVE Changed([m EXCEPT !.next = next], r, m)
  BY <1>1, <1>2, <1>3, <1>5, SetNext DEF Changed
<1>6. CASE a = ModifyInMemory(r, op.patch, at)
  <2>1. CASE IsFinal(r)
    BY <1>4, <1>6, <2>1 DEF ModifyInMemory, Answer, m
  <2>2. CASE ~IsFinal(r) /\ DOMAIN op.patch \cap TriggerKeys = {}
    BY <1>4, <1>6, <2>2 DEF ModifyInMemory, Answer, m
  <2>3. CASE ~IsFinal(r) /\ DOMAIN op.patch \cap TriggerKeys # {}
    <3>1. CASE ~Computable(CronExprs(m), at, m.zone)
      BY <1>4, <1>6, <2>3, <3>1 DEF ModifyInMemory, Answer, m
    <3>2. CASE Computable(CronExprs(m), at, m.zone)
      <4>1. /\ m.cron \in Maybe(Expr) /\ m.orCron \in SUBSET Expr /\ m.zone \in Zone
            /\ m.interval \in Maybe(U64) /\ m.runAt \in Maybe(U64)
            /\ m.next \in Maybe(U64)
        BY <1>1 DEF Row
      <4>2. Recomputed(m, at) \in Maybe(U64)
        BY <3>2, <4>1, RecomputedTyped
      <4>3. a = Answer([m EXCEPT !.next = Recomputed(m, at)], "yes")
        BY <1>6, <2>3, <3>2 DEF ModifyInMemory, m
      <4> QED BY <1>5, <4>2, <4>3 DEF Answer, m
    <3> QED BY <3>1, <3>2
  <2> QED BY <2>1, <2>2, <2>3
<1>7. CASE a = ModifySqlite(r, op.patch, at)
  <2>1. CASE IsFinal(r)
    BY <1>4, <1>7, <2>1 DEF ModifySqlite, Answer, m
  <2>2. CASE ~IsFinal(r) /\ ~Computable(PatchedExprs(op.patch), at, r.zone)
    BY <1>4, <1>7, <2>2 DEF ModifySqlite, Answer, m
  <2>3. CASE ~IsFinal(r) /\ Computable(PatchedExprs(op.patch), at, r.zone)
    <3>1. PatchedNext(r, op.patch, at) \in Maybe(U64)
      <4> DEFINE p == [cron |-> Patched(op.patch, "cron", None),
                       orCron |-> Patched(op.patch, "orCron", {}),
                       interval |-> Patched(op.patch, "interval", None),
                       runAt |-> Patched(op.patch, "runAt", None),
                       zone |-> r.zone, next |-> r.next]
      <4>1. /\ p.cron = Patched(op.patch, "cron", None)
            /\ p.orCron = Patched(op.patch, "orCron", {})
            /\ p.interval = Patched(op.patch, "interval", None)
            /\ p.runAt = Patched(op.patch, "runAt", None)
            /\ p.zone = r.zone /\ p.next = r.next
        OBVIOUS
      <4> HIDE DEF p
      <4>2. /\ p.cron \in {None, m.cron} /\ p.orCron \in {{}, m.orCron}
            /\ p.interval \in {None, m.interval} /\ p.runAt \in {None, m.runAt}
        BY <1>1, <4>1 DEF Patched, Field, PatchKeys, TriggerKeys
      <4>3. /\ p.cron \in Maybe(Expr) /\ p.orCron \in SUBSET Expr
            /\ p.interval \in Maybe(U64) /\ p.runAt \in Maybe(U64)
        BY <1>1, <4>2 DEF Row, Maybe
      <4>4. p.zone \in Zone /\ p.next \in Maybe(U64)
        BY <4>1 DEF Row
      <4>5. CronExprs(p) = PatchedExprs(op.patch)
        BY <4>1 DEF CronExprs, PatchedExprs
      <4>6. Recomputed(p, at) \in Maybe(U64)
        BY <2>3, <4>1, <4>3, <4>4, <4>5, RecomputedTyped
      <4> QED BY <4>6 DEF PatchedNext, p
    <3>2. a = Answer([m EXCEPT !.next = PatchedNext(r, op.patch, at)], "yes")
      BY <1>7, <2>3 DEF ModifySqlite, m
    <3> QED BY <1>5, <3>1, <3>2 DEF Answer, m
  <2> QED BY <2>1, <2>2, <2>3
<1> QED BY <1>6, <1>7 DEF m

(* reschedule_task touches the expression and next_fire alone.             *)
LEMMA RescheduleTyped ==
  ASSUME NEW r \in Row, NEW e \in Expr, NEW at \in Nat, NEW a, a = Reschedule(r, e, at)
  PROVE  /\ a.row \in Row /\ a.reply \in {"yes", "no", "error"}
         /\ KeptBut(a.row, r, {"cron", "next"})
         /\ a.row = r \/ (~IsFinal(r) /\ r.cron # None /\ Computable({e}, at, r.zone)
                          /\ a.row.cron = e /\ a.row.next = MinNextFire({e}, at, r.zone))
<1>1. CASE r.cron = None \/ IsFinal(r) \/ ~Computable({e}, at, r.zone)
  BY <1>1 DEF Reschedule, Answer, KeptBut
<1>2. CASE ~(r.cron = None \/ IsFinal(r) \/ ~Computable({e}, at, r.zone))
  <2> DEFINE n == MinNextFire({e}, at, r.zone)
             q == [r EXCEPT !.cron = e, !.next = n]
  <2>1. n \in Maybe(U64)
    BY <1>2, ExprsTyped, NextFireTyped DEF Maybe
  <2>2. Reschedule(r, e, at) = Answer(q, "yes")
    BY <1>2 DEF Reschedule
  <2> HIDE DEF n
  <2>3. q \in Row
    BY <2>1 DEF Row, Maybe
  <2>4. q.cron = e /\ q.next = n /\ \A k \in Field \ {"cron", "next"} : q[k] = r[k]
    BY RowFields DEF Field, PatchKeys, TriggerKeys
  <2> HIDE DEF q
  <2>5. KeptBut(q, r, {"cron", "next"})
    BY <2>4 DEF KeptBut
  <2>6. a.row = q /\ a.reply = "yes"
    BY <2>2 DEF Answer
  <2> QED BY <1>2, <2>3, <2>4, <2>5, <2>6 DEF n
<1> QED BY <1>1, <1>2

(* requeue_task.                                                           *)
LEMMA RequeueTyped ==
  ASSUME NEW r \in Row, NEW at \in U64
  PROVE  LET a == Requeue(r, at) IN
         /\ a.row \in Row /\ a.reply \in {"yes", "no", "error"}
         /\ KeptBut(a.row, r, {"state", "attempts", "next"})
         /\ \/ ~IsFinal(r) /\ a.row = r
            \/ /\ IsFinal(r) /\ a.row.state = "pending" /\ a.row.attempts = 0
               /\ a.row.next = at
<1> DEFINE q == [r EXCEPT !.state = "pending", !.attempts = 0, !.next = at]
<1>1. q \in Row
  BY DEF Row, Maybe
<1>2. /\ q.state = "pending" /\ q.attempts = 0 /\ q.next = at
      /\ \A k \in Field \ {"state", "attempts", "next"} : q[k] = r[k]
  BY RowFields DEF Field, PatchKeys, TriggerKeys
<1> QED BY <1>1, <1>2 DEF Requeue, Answer, KeptBut

-----------------------------------------------------------------------------
(* Types.                                                                  *)

(* The task's row, its execution, and what waits, sleeps or was counted.   *)
PlacesTyped ==
  /\ setting \in Settings /\ now \in Start..Horizon
  /\ row \in Maybe(Row) /\ exec \in Maybe(Row)
  /\ waiting \in 0..MaxPending
  /\ (\A s \in timers : s.at \in Nat) /\ (\A f \in bucket : f.t \in Start..now)
  /\ lastDue \in Maybe(U64) /\ notBefore \in Nat

(* Where a request may be, and what is known of it there.                  *)
Pc == {"unsent", "sent", "closed"} \cup Open
(* What a client of some setting may ask.                                  *)
Requested == UNION {UNION {x.asks[c] : c \in Call} : x \in Settings}
Connection ==
  [pc : Pc, op : Maybe(Requested), task : Maybe(Row), reply : Maybe(Word),
   told : Maybe(Word), after : Maybe(Call)]

(* The tasks build may have left at some time since the start.             *)
Fresh ==
  UNION {{Task(def, next, at) : next \in FirstFires(def, at)} :
           at \in {a \in Start..now : Builds(def, a)}}

(* A request knows what its place in the handler has needed so far.        *)
CallOK(c) ==
  /\ call[c].pc = "unsent" => call[c] = Unsent
  /\ call[c].pc # "unsent" => call[c].op \in setting.asks[c]
  /\ call[c].pc = "insert" => call[c].op.kind = "dispatch" /\ call[c].task \in Fresh
  /\ call[c].pc = "enqueue" => call[c].op.kind = "dispatch"
  /\ call[c].pc = "answer" => call[c].reply # None
  /\ call[c].told # None <=> call[c].pc = "closed"

CallsTyped ==
  call \in [Call -> Connection] /\ author \in Maybe(Call) /\ \A c \in Call : CallOK(c)

(* Each permit is free or held by one connection.                          *)
Holding == {c \in Call : call[c].pc \in Open}
PermitsCounted == permits \in Nat /\ permits + Cardinality(Holding) = MaxConn

(* The inductive part of the types.                                        *)
TypesInv == PlacesTyped /\ CallsTyped /\ PermitsCounted

(* A daemon starts with nothing.                                           *)
LEMMA InitTypes == Init => TypesInv
<1> SUFFICES ASSUME Init PROVE TypesInv
  OBVIOUS
<1>1. PlacesTyped
  BY PacingAssumption DEF Init, PacingInit, PlacesTyped, Maybe
<1>2. Unsent \in Connection /\ Unsent.told = None /\ Unsent.pc = "unsent"
  BY DEF Unsent, Connection, Pc, Maybe
<1>3. call = [c \in Call |-> Unsent] /\ author = None /\ permits = MaxConn
  BY DEF Init
<1>4. CallsTyped
  BY <1>2, <1>3 DEF CallsTyped, CallOK, Maybe
<1>5. Holding = {}
  BY <1>2, <1>3 DEF Holding, Open
<1>6. PermitsCounted
  BY <1>3, <1>5, FS_EmptySet, RequestsAssumption DEF PermitsCounted
<1> QED BY <1>1, <1>4, <1>6 DEF TypesInv

-----------------------------------------------------------------------------
(* The steps of the clock: what they write to the row, and types.          *)

(* The row as it was but for where it stands.                              *)
Standing == {"state", "attempts", "next"}
(* q is r but for its state, its attempts and its next_fire.               *)
SameTask(q, r) == q \in Row /\ \A k \in Field \ Standing : q[k] = r[k]

RowState == {"pending", "running", "success", "failed", "expired"}

(* A row is the same task as itself, and writing any of the three leaves it*)
(* the same task: its next_fire,                                           *)
LEMMA SameRow == \A r \in Row : SameTask(r, r)
BY DEF SameTask

LEMMA SetsNext ==
  ASSUME NEW r \in Row, NEW n \in Maybe(U64)
  PROVE  LET q == [r EXCEPT !.next = n] IN
         SameTask(q, r) /\ q.next = n /\ q.state = r.state /\ q.attempts = r.attempts
<1>1. [r EXCEPT !.next = n] \in Row
  BY DEF Row
<1> QED BY <1>1, RowFields DEF SameTask, Standing, Field

(* its state,                                                              *)
LEMMA SetsState ==
  ASSUME NEW r \in Row, NEW s \in RowState
  PROVE  LET q == [r EXCEPT !.state = s] IN
         SameTask(q, r) /\ q.state = s /\ q.next = r.next /\ q.attempts = r.attempts
<1>1. [r EXCEPT !.state = s] \in Row
  BY DEF Row, RowState
<1> QED BY <1>1, RowFields DEF SameTask, Standing, Field

(* its state and attempts,                                                 *)
LEMMA SetsAttempts ==
  ASSUME NEW r \in Row, NEW s \in RowState, NEW a \in Nat,
         NEW q, q = [r EXCEPT !.state = s, !.attempts = a]
  PROVE  SameTask(q, r)
<1>1. q \in Row
  BY DEF Row, RowState
<1> QED BY <1>1, RowFields DEF SameTask, Standing, Field

(* or all three.                                                           *)
LEMMA SetsRetry ==
  ASSUME NEW r \in Row, NEW s \in RowState, NEW a \in Nat, NEW n \in Maybe(U64),
         NEW q, q = [r EXCEPT !.state = s, !.attempts = a, !.next = n]
  PROVE  SameTask(q, r)
<1>1. q \in Row
  BY DEF Row, RowState
<1> QED BY <1>1, RowFields DEF SameTask, Standing, Field

(* What is known of the places of a task.                                  *)
LEMMA PlacesFacts ==
  ASSUME PlacesTyped
  PROVE  /\ def \in Params /\ def.window \in Nat /\ def.count \in Nat
         /\ now \in U64 /\ now \in Nat /\ now < U64Max /\ Start \in Nat /\ U64Max \in U64
         /\ \A n \in U64 : n \in Nat /\ n <= U64Max
         /\ waiting \in Nat /\ MaxPending \in Nat \ {0}
         /\ row # None => row \in Row
         /\ exec # None => exec \in Row
<1>1. def \in Params
  BY PacingAssumption DEF PlacesTyped, def
<1>2. def.window \in U64 /\ def.count \in U64
  BY <1>1 DEF Params
<1> QED BY <1>1, <1>2, ClockTyped, PacingAssumption, WidthTyped DEF PlacesTyped, Maybe, U64

(* The triggers of a row are times.                                        *)
LEMMA TimesTyped ==
  ASSUME PlacesTyped, NEW r \in Row
  PROVE  /\ CronExprs(r) \in SUBSET Expr /\ r.zone \in Zone
         /\ r.interval # None => r.interval \in Nat
         /\ r.start # None => r.start \in Nat
         /\ r.runAt # None => r.runAt \in Nat
         /\ r.next # None => r.next \in Nat
         /\ r.created \in Nat /\ r.expires \in Nat
         /\ r.jitter \in U64 /\ \A j \in Jitters(r.jitter) : j \in Nat
<1>1. /\ r.interval \in Maybe(U64) /\ r.start \in Maybe(U64) /\ r.runAt \in Maybe(U64)
      /\ r.next \in Maybe(U64) /\ r.created \in U64 /\ r.expires \in U64 /\ r.jitter \in U64
  BY DEF Row
<1> QED BY <1>1, ExprsTyped, JitterTyped, WidthTyped DEF Maybe, U64

(* Rolling on gives a time.                                                *)
LEMMA RolledTyped ==
  ASSUME PlacesTyped, NEW r \in Row, NEW j \in Jitters(r.jitter), CronExprs(r) # {},
         Computable(CronExprs(r), now + 1, r.zone)
  PROVE  WrapAt(MinNextFire(CronExprs(r), now + 1, r.zone) + j) \in U64
<1>1. now + 1 \in Nat /\ j \in Nat
  BY PlacesFacts, TimesTyped
<1>2. MinNextFire(CronExprs(r), now + 1, r.zone) \in Nat
  BY <1>1, PlacesFacts, TimesTyped, NextFireTyped
<1> QED BY <1>1, <1>2, WrapTyped

(* A place in the list.                                                    *)
LEMMA EnqueuedTyped == PlacesTyped => Enqueued \in 0..MaxPending
BY PlacesFacts DEF Enqueued, Min2, PlacesTyped

(* What a step of the clock may write to the row.                          *)
RowKept == row' = row \/ (row # None /\ row \in Row /\ SameTask(row', row))

(* A row the clock kept has its type.                                      *)
LEMMA RowKeptTyped == RowKept /\ PlacesTyped => row' \in Maybe(Row)
BY DEF RowKept, SameTask, PlacesTyped, Maybe

(* The scans.                                                              *)
LEMMA ScansTyped ==
  ASSUME PlacesTyped,
         ScanExpires \/ ScanRunAt \/ ScanInterval \/ ScanCron \/ ScanRetries
  PROVE  PlacesTyped' /\ RowKept
<1>0. \A fires \in BOOLEAN : Fire(fires) => waiting' \in 0..MaxPending
  BY EnqueuedTyped DEF Fire, PlacesTyped
<1>1. CASE ScanExpires
  <2>1. SameTask(row', row) /\ row \in Row /\ row # None
    BY <1>1, PlacesFacts, SetsState DEF ScanExpires, Expire, RowState
  <2>2. UNCHANGED <<setting, now, waiting, timers, exec, lastDue, notBefore, bucket>>
    BY <1>1 DEF ScanExpires, limiterVars
  <2> QED BY <2>1, <2>2 DEF PlacesTyped, RowKept, SameTask, Maybe
<1>2. CASE ScanRunAt
  <2>1. row # None /\ row' = [row EXCEPT !.next = U64Max]
    BY <1>2 DEF ScanRunAt, Scanned
  <2>2. SameTask(row', row) /\ row \in Row
    BY <2>1, PlacesFacts, SetsNext DEF Maybe
  <2>3. UNCHANGED <<setting, now, timers, exec, lastDue, notBefore, bucket>>
    BY <1>2 DEF ScanRunAt, limiterVars
  <2> QED BY <1>0, <1>2, <2>1, <2>2, <2>3 DEF ScanRunAt, PlacesTyped, RowKept, SameTask, Maybe
<1>3. CASE ScanInterval
  <2>1. row # None /\ row.interval # None /\ row \in Row
    BY <1>3, PlacesFacts DEF ScanInterval, Scanned
  <2>2. PICK j \in Jitters(row.jitter) :
             row' = [row EXCEPT !.next = WrapAt(now + row.interval + j)]
    BY <1>3 DEF ScanInterval
  <2>3. WrapAt(now + row.interval + j) \in U64
    BY <2>1, PlacesFacts, TimesTyped, WrapTyped
  <2>4. SameTask(row', row)
    BY <2>1, <2>2, <2>3, SetsNext DEF Maybe
  <2>5. UNCHANGED <<setting, now, timers, exec, lastDue, notBefore, bucket>>
    BY <1>3 DEF ScanInterval, limiterVars
  <2> QED BY <1>0, <1>3, <2>1, <2>4, <2>5
          DEF ScanInterval, PlacesTyped, RowKept, SameTask, Maybe
<1>4. CASE ScanCron
  <2>1. row # None /\ row \in Row /\ CronExprs(row) # {}
    BY <1>4, PlacesFacts DEF ScanCron, Scanned
  <2>2. UNCHANGED <<setting, now, timers, exec, notBefore, bucket>>
    BY <1>4 DEF ScanCron, limiterVars
  <2>3. waiting' \in 0..MaxPending
    BY <1>0, <1>4 DEF ScanCron, ShouldFireDue
  <2>4. row' \in Maybe(Row) /\ RowKept
    <3>1. CASE Computable(CronExprs(row), now + 1, row.zone)
      <4>1. PICK j \in Jitters(row.jitter) : row' = [row EXCEPT !.next = Rolled(j)]
        BY <1>4, <3>1 DEF ScanCron
      <4>2. Rolled(j) \in U64
        BY <2>1, <3>1, RolledTyped DEF Rolled
      <4> QED BY <2>1, <4>1, <4>2, SetsNext DEF RowKept, SameTask, Maybe
    <3>2. CASE ~Computable(CronExprs(row), now + 1, row.zone)
      BY <1>4, <3>2 DEF ScanCron, RowKept, PlacesTyped
    <3> QED BY <3>1, <3>2
  <2>5. lastDue' \in {now, None, lastDue}
    BY <1>4 DEF ScanCron
  <2> QED BY <2>2, <2>3, <2>4, <2>5, PlacesFacts DEF PlacesTyped, Maybe
<1>5. CASE ScanRetries
  <2>1. row # None /\ row' = [row EXCEPT !.next = None] /\ waiting' = waiting + 1
        /\ waiting < MaxPending
    BY <1>5 DEF ScanRetries
  <2>2. SameTask(row', row) /\ row \in Row
    BY <2>1, PlacesFacts, SetsNext DEF Maybe
  <2>3. UNCHANGED <<setting, now, timers, exec, lastDue, notBefore, bucket>>
    BY <1>5 DEF ScanRetries, limiterVars
  <2>4. waiting' \in 0..MaxPending
    BY <2>1, PlacesFacts
  <2> QED BY <2>1, <2>2, <2>3, <2>4 DEF PlacesTyped, RowKept, SameTask, Maybe
<1> QED BY <1>1, <1>2, <1>3, <1>4, <1>5

(* The clock and the timers.                                               *)
LEMMA ClockStepsTyped ==
  ASSUME PlacesTyped, Tick \/ Wake
  PROVE  PlacesTyped' /\ RowKept
<1>1. CASE Tick
  <2>1. UNCHANGED <<setting, row, waiting, timers, exec, bucket, lastDue, notBefore>>
        /\ now' = now + 1 /\ now < Horizon
    BY <1>1 DEF Tick
  <2>2. now' \in Start..Horizon
    BY <2>1, PacingAssumption, WidthTyped DEF PlacesTyped
  <2>3. \A f \in bucket : f.t \in Start..now'
    BY <2>1, PlacesFacts DEF PlacesTyped
  <2> QED BY <2>1, <2>2, <2>3 DEF PlacesTyped, RowKept
<1>2. CASE Wake
  <2>1. UNCHANGED <<setting, now, row, exec, lastDue, notBefore, bucket>>
        /\ waiting' \in 0..MaxPending /\ timers' \subseteq timers
    BY <1>2, EnqueuedTyped DEF Wake, limiterVars
  <2> QED BY <2>1 DEF PlacesTyped, RowKept
<1> QED BY <1>1, <1>2

(* The limiter and a sleep.                                                *)
LEMMA BucketTyped ==
  ASSUME PlacesTyped, Pass \/ Refuse, now' = now
  PROVE  \A f \in bucket' : f.t \in Start..now'
<1>1. \A f \in Kept : f.t \in Start..now
  BY DEF PlacesTyped, Kept
<1>2. now \in Start..now
  BY PlacesFacts DEF PlacesTyped
<1>3. CASE Refuse
  BY <1>1, <1>3 DEF Refuse
<1>4. CASE Pass /\ Limited
  <2>1. PICK k : bucket' = Kept \cup {[t |-> now, k |-> k]}
    BY <1>4 DEF Pass
  <2> QED BY <1>1, <1>2, <2>1
<1>5. CASE Pass /\ ~Limited
  BY <1>5 DEF Pass, PlacesTyped, limiterVars
<1> QED BY <1>3, <1>4, <1>5

(* A sleep ends at a time.                                                 *)
LEMMA SleepTyped ==
  ASSUME PlacesTyped, NEW until \in Nat, Sleep(until)
  PROVE  \A s \in timers' : s.at \in Nat
<1>1. PICK k : timers' = timers \cup {[at |-> until, k |-> k]}
  BY DEF Sleep
<1> QED BY <1>1 DEF PlacesTyped

(* process_one.                                                            *)
LEMMA ProcessTyped ==
  ASSUME PlacesTyped,
         \/ ProcessGone \/ ProcessExpired \/ ProcessEarly \/ ProcessLimited
         \/ ProcessOverlap \/ ProcessStart
  PROVE  PlacesTyped' /\ RowKept
<1>0. UNCHANGED <<setting, now>> /\ waiting' \in 0..MaxPending
  <2>1. Drain
    BY DEF ProcessGone, ProcessExpired, ProcessEarly, ProcessLimited, ProcessOverlap,
           ProcessStart
  <2> QED BY <2>1, PlacesFacts DEF Drain, PlacesTyped
<1>a. Admits => row # None /\ row \in Row
  BY PlacesFacts DEF Admits, Gone
<1>1. CASE ProcessGone
  BY <1>0, <1>1 DEF ProcessGone, PlacesTyped, RowKept, limiterVars
<1>2. CASE ProcessExpired
  <2>1. SameTask(row', row) /\ row \in Row /\ row # None
    BY <1>2, PlacesFacts, SetsState DEF ProcessExpired, Expire, RowState, Gone
  <2> QED BY <1>0, <1>2, <2>1 DEF ProcessExpired, PlacesTyped, RowKept, SameTask, limiterVars,
                                  Maybe
<1>3. CASE ProcessEarly
  <2>1. row # None /\ row \in Row /\ row.start # None
    BY <1>3, PlacesFacts DEF ProcessEarly, Gone, Started
  <2>2. row.start \in Nat
    BY <2>1, TimesTyped
  <2>3. \A s \in timers' : s.at \in Nat
    BY <1>3, <2>2, SleepTyped DEF ProcessEarly
  <2> QED BY <1>0, <1>3, <2>3 DEF ProcessEarly, PlacesTyped, RowKept, limiterVars
<1>4. CASE ProcessLimited
  <2>1. now + def.window \in Nat
    BY PlacesFacts
  <2>2. \A s \in timers' : s.at \in Nat
    BY <1>4, <2>1, SleepTyped DEF ProcessLimited
  <2>3. WrapAt(now + def.window) \in Maybe(U64)
    BY <2>1, WrapTyped DEF Maybe
  <2>4. row' \in Maybe(Row) /\ RowKept /\ lastDue' \in {lastDue, None}
    <3>1. CASE row' = row /\ lastDue' = lastDue
      BY <3>1 DEF RowKept, PlacesTyped
    <3>2. CASE row' = [row EXCEPT !.next = WrapAt(now + def.window)] /\ lastDue' = None
      BY <1>4, <1>a, <2>3, <3>2, SetsNext DEF ProcessLimited, RowKept, SameTask, Maybe
    <3> QED BY <1>4, <3>1, <3>2 DEF ProcessLimited
  <2>5. \A f \in bucket' : f.t \in Start..now'
    BY <1>0, <1>4, BucketTyped DEF ProcessLimited
  <2> QED BY <1>0, <1>4, <2>2, <2>4, <2>5 DEF ProcessLimited, PlacesTyped, Maybe
<1>5. CASE ProcessOverlap
  <2>1. \A s \in timers' : s.at \in Nat
    BY <1>5, PlacesFacts, SleepTyped DEF ProcessOverlap
  <2>2. \A f \in bucket' : f.t \in Start..now'
    BY <1>0, <1>5, BucketTyped DEF ProcessOverlap
  <2> QED BY <1>0, <1>5, <2>1, <2>2 DEF ProcessOverlap, PlacesTyped, RowKept
<1>6. CASE ProcessStart
  <2>1. \A f \in bucket' : f.t \in Start..now'
    BY <1>0, <1>6, BucketTyped DEF ProcessStart
  <2>2. SameTask(row', row) /\ row \in Row /\ row # None
    BY <1>6, <1>a, SetsState DEF ProcessStart, RowState
  <2> QED BY <1>0, <1>6, <2>1, <2>2 DEF ProcessStart, PlacesTyped, RowKept, SameTask, Maybe
<1> QED BY <1>1, <1>2, <1>3, <1>4, <1>5, <1>6

(* The end of an execution.                                                *)
LEMMA IdealTyped == PlacesTyped /\ exec # None => IdealDelay \in Nat
<1> SUFFICES ASSUME PlacesTyped, exec # None PROVE IdealDelay \in Nat
  OBVIOUS
<1>1. exec.retryDelay \in Nat /\ exec.attempts \in Nat
  BY PlacesFacts DEF Row
<1>2. 2^exec.attempts \in Nat
  BY <1>1, WidthTyped
<1>3. (IF exec.backoff THEN Min2(2^exec.attempts, BackoffCap) ELSE 1) \in Nat
  BY <1>2, ScheduleAssumption DEF Min2
<1> QED BY <1>1, <1>3 DEF IdealDelay

(* The end of an execution writes rows.                                    *)
LEMMA FinishTyped ==
  ASSUME PlacesTyped, NEW code, Finish(code)
  PROVE  PlacesTyped' /\ RowKept
<1>1. exec # None /\ exec' = None /\ UNCHANGED <<setting, now, waiting, timers>>
  BY DEF Finish
<1>2. exec \in Row /\ exec.attempts \in Nat
  BY <1>1, PlacesFacts DEF Row
<1>3. \A f \in bucket' : f.t \in Start..now'
  BY <1>1 DEF Finish, Forget, PlacesTyped, limiterVars
<1>4. notBefore' \in Nat
  <2>1. now + IdealDelay \in Nat
    BY <1>1, IdealTyped, PlacesFacts
  <2> QED BY <2>1 DEF Finish, PlacesTyped
<1>5. lastDue' \in Maybe(U64)
  BY DEF Finish, PlacesTyped, Maybe
<1>6. RowKept
  <2>1. CASE row = None
    BY <2>1 DEF Finish, RowKept
  <2>2. CASE row # None
    <3>1. row \in Row /\ row' = Settled(code)
      BY <2>2, PlacesFacts DEF Finish
    <3>2. exec.attempts + 1 \in Nat
      BY <1>2
    <3>3. NextRetry(exec, now) \in Maybe(U64)
      BY <1>2, PlacesFacts, RetryTyped DEF Maybe
    <3>4. Outcome(code) \in {"again", "success", "failed", "retry"}
      BY DEF Outcome
    <3>5. SameTask(row', row)
      <4>1. CASE Outcome(code) = "again"
        BY <3>1, <4>1, SetsState DEF Settled, RowState
      <4>2. CASE Outcome(code) = "success"
        BY <3>1, <4>2, SetsState DEF Settled, RowState
      <4> DEFINE a == exec.attempts + 1
                 n == NextRetry(exec, now)
      <4> HIDE DEF a, n
      <4>3. CASE Outcome(code) = "failed"
        <5> DEFINE s == "failed"
        <5>1. row' = [row EXCEPT !.state = s, !.attempts = a]
          BY <3>1, <4>3 DEF Settled, a
        <5>2. a \in Nat /\ s \in RowState
          BY <3>2 DEF a, RowState
        <5> HIDE DEF s
        <5> QED BY <3>1, <5>1, <5>2, SetsAttempts
      <4>4. CASE Outcome(code) = "retry"
        <5> DEFINE s == "pending"
        <5>1. row' = [row EXCEPT !.state = s, !.attempts = a, !.next = n]
          BY <3>1, <4>4 DEF Settled, a, n
        <5>2. a \in Nat /\ n \in Maybe(U64) /\ s \in RowState
          BY <3>2, <3>3 DEF a, n, RowState
        <5> HIDE DEF s
        <5> QED BY <3>1, <5>1, <5>2, SetsRetry
      <4> QED BY <3>4, <4>1, <4>2, <4>3, <4>4
    <3> QED BY <2>2, <3>1, <3>5 DEF RowKept
  <2> QED BY <2>1, <2>2
<1>7. row' \in Maybe(Row)
  BY <1>6, RowKeptTyped
<1> QED BY <1>1, <1>3, <1>4, <1>5, <1>6, <1>7 DEF PlacesTyped, Maybe

(* So does every step of the clock.                                        *)
LEMMA StepTyped ==
  ASSUME PlacesTyped, PacingStep
  PROVE  PlacesTyped' /\ RowKept
BY ScansTyped, ClockStepsTyped, ProcessTyped, FinishTyped DEF PacingStep

-----------------------------------------------------------------------------
(* The steps of the requests.                                              *)

(* What a connection's step leaves of the others, and where it goes.       *)
LEMMA CallSet ==
  ASSUME CallsTyped, NEW c \in Call, NEW k \in Connection, call' = [call EXCEPT ![c] = k]
  PROVE  /\ call' \in [Call -> Connection] /\ call'[c] = k
         /\ \A d \in Call : d # c => call'[d] = call[d]
BY DEF CallsTyped

(* A task that was fresh is so later.                                      *)
LEMMA FreshStays ==
  ASSUME setting' = setting, now \in Int, now' \in Int, now <= now'
  PROVE  Fresh \subseteq Fresh'
<1>1. Start..now \subseteq Start..now' /\ def' = def
  BY PacingAssumption DEF def
<1> QED BY <1>1 DEF Fresh

(* A step of one connection: its own state is what matters.                *)
LEMMA CallsKept ==
  ASSUME TypesInv, NEW c \in Call, NEW k \in Connection, call' = [call EXCEPT ![c] = k],
         UNCHANGED <<setting, now>>, author' \in Maybe(Call),
         k.pc # "unsent", k.op \in setting.asks[c],
         k.pc = "insert" => k.op.kind = "dispatch" /\ k.task \in Fresh,
         k.pc = "enqueue" => k.op.kind = "dispatch",
         k.pc = "answer" => k.reply # None,
         k.told # None <=> k.pc = "closed"
  PROVE  CallsTyped'
<1>1. /\ call' \in [Call -> Connection] /\ call'[c] = k
      /\ \A d \in Call : d # c => call'[d] = call[d]
  BY CallSet DEF TypesInv
<1>2. now \in Int
  BY PlacesFacts DEF TypesInv
<1>3. Fresh \subseteq Fresh'
  BY <1>2, FreshStays
<1>4. ASSUME NEW d \in Call, d # c PROVE CallOK(d)'
  BY <1>1, <1>3, <1>4 DEF TypesInv, CallsTyped, CallOK
<1>5. CallOK(c)'
  BY <1>1, <1>3 DEF CallOK
<1> QED BY <1>1, <1>4, <1>5 DEF CallsTyped

(* The steps of the clock leave the connections alone.                     *)
LEMMA CallsStay ==
  ASSUME TypesInv, UNCHANGED <<requestVars, setting>>, now' \in Int, now <= now'
  PROVE  CallsTyped'
<1>1. UNCHANGED <<call, author>> /\ now \in Int
  BY PlacesFacts DEF requestVars, TypesInv
<1>2. Fresh \subseteq Fresh'
  BY <1>1, FreshStays
<1>3. ASSUME NEW d \in Call PROVE CallOK(d)'
  BY <1>1, <1>2 DEF CallOK, TypesInv, CallsTyped
<1> QED BY <1>1, <1>3 DEF CallsTyped, TypesInv

(* A connection with a permit.                                             *)
LEMMA HoldingFinite == IsFiniteSet(Holding) /\ Cardinality(Holding) \in Nat
<1>1. IsFiniteSet(Call)
  BY RequestsAssumption, FS_Interval DEF Call
<1>2. Holding \subseteq Call
  BY DEF Holding
<1> QED BY <1>1, <1>2, FS_Subset, FS_CardinalityType

(* A request that comes in takes a permit, one that ends gives it back.    *)
LEMMA PermitsKept ==
  ASSUME TypesInv, NEW c \in Call, NEW k \in Connection, call' = [call EXCEPT ![c] = k],
         \/ (call[c].pc \in Open <=> k.pc \in Open) /\ permits' = permits
         \/ /\ call[c].pc \notin Open /\ k.pc \in Open
            /\ permits > 0 /\ permits' = permits - 1
         \/ call[c].pc \in Open /\ k.pc \notin Open /\ permits' = permits + 1
  PROVE  PermitsCounted'
<1>1. call'[c] = k /\ \A d \in Call : d # c => call'[d] = call[d]
  BY CallSet DEF TypesInv
<1>2. permits \in Nat /\ permits + Cardinality(Holding) = MaxConn
  BY DEF TypesInv, PermitsCounted
<1>3. IsFiniteSet(Holding) /\ Cardinality(Holding) \in Nat
  BY HoldingFinite
<1>4. Holding' = {d \in Call : call'[d].pc \in Open}
  BY DEF Holding
<1>5. CASE (call[c].pc \in Open <=> k.pc \in Open) /\ permits' = permits
  <2>1. Holding' = Holding
    BY <1>1, <1>4, <1>5 DEF Holding
  <2> QED BY <1>2, <1>5, <2>1 DEF PermitsCounted
<1>6. CASE call[c].pc \notin Open /\ k.pc \in Open /\ permits > 0 /\ permits' = permits - 1
  <2>1. Holding' = Holding \cup {c} /\ c \notin Holding
    BY <1>1, <1>4, <1>6 DEF Holding
  <2>2. Cardinality(Holding \cup {c}) = Cardinality(Holding) + 1
    BY <1>3, <2>1, FS_AddElement
  <2>3. Cardinality(Holding') = Cardinality(Holding) + 1
    BY <2>1, <2>2
  <2> QED BY <1>2, <1>3, <1>6, <2>3 DEF PermitsCounted
<1>7. CASE call[c].pc \in Open /\ k.pc \notin Open /\ permits' = permits + 1
  <2>1. Holding' = Holding \ {c} /\ c \in Holding
    BY <1>1, <1>4, <1>7 DEF Holding
  <2>2. Cardinality(Holding \ {c}) = Cardinality(Holding) - 1
    BY <1>3, <2>1, FS_RemoveElement
  <2>3. Cardinality(Holding') = Cardinality(Holding) - 1
    BY <2>1, <2>2
  <2> QED BY <1>2, <1>3, <1>7, <2>3 DEF PermitsCounted
<1> QED BY <1>5, <1>6, <1>7

(* Nothing else moves one.                                                 *)
LEMMA PermitsStay ==
  ASSUME TypesInv, UNCHANGED requestVars
  PROVE  PermitsCounted'
BY DEF TypesInv, PermitsCounted, Holding, requestVars

(* A connection and its request.                                           *)
LEMMA ConnectionFacts ==
  ASSUME TypesInv, NEW c \in Call
  PROVE  /\ call[c] \in Connection /\ CallOK(c)
         /\ setting \in Settings /\ setting.asks[c] \subseteq Requested
         /\ None \notin setting.asks[c]
<1>1. setting \in Settings
  BY DEF TypesInv, PlacesTyped
<1> QED BY <1>1, RequestsAssumption DEF TypesInv, CallsTyped, Requested, Call

(* What a handler writes of its request: its place,                        *)
LEMMA SetPc ==
  ASSUME NEW k \in Connection, NEW pc \in Pc
  PROVE  LET q == [k EXCEPT !.pc = pc] IN
         /\ q \in Connection /\ q.pc = pc /\ q.op = k.op /\ q.task = k.task
         /\ q.reply = k.reply /\ q.told = k.told /\ q.after = k.after
BY DEF Connection

(* the task it built,                                                      *)
LEMMA SetBuilt ==
  ASSUME NEW k \in Connection, NEW t \in Row
  PROVE  LET q == [k EXCEPT !.pc = "insert", !.task = t] IN
         /\ q \in Connection /\ q.pc = "insert" /\ q.op = k.op /\ q.task = t
         /\ q.reply = k.reply /\ q.told = k.told /\ q.after = k.after
BY DEF Connection, Pc, Open, Maybe

(* and the request itself.                                                 *)
LEMMA SetSent ==
  ASSUME NEW op \in Requested, NEW d \in Maybe(Call)
  PROVE  LET q == [Unsent EXCEPT !.pc = "sent", !.op = op, !.after = d] IN
         /\ q \in Connection /\ q.pc = "sent" /\ q.op = op /\ q.after = d
         /\ q.told = None /\ q.reply = None
BY DEF Connection, Unsent, Pc, Maybe

(* What PHP is told is a word.                                             *)
LEMMA ReturnsTyped ==
  ASSUME NEW kind, NEW reply \in Word
  PROVE  Returns(kind, reply) \in Word
<1>1. /\ DispatchReturns(reply) \in Word /\ FlagReturns(reply) \in Word
      /\ AnswerReturns(reply) \in Word /\ StateReturns(reply) \in Word
      /\ GetReturns(reply) \in Word
  BY DEF DispatchReturns, FlagReturns, AnswerReturns, StateReturns, GetReturns, Word
<1> HIDE DEF DispatchReturns, FlagReturns, AnswerReturns, StateReturns, GetReturns
<1>2. Returns(kind, reply) \in {DispatchReturns(reply), FlagReturns(reply),
        AnswerReturns(reply), StateReturns(reply), GetReturns(reply), reply}
  BY DEF Returns
<1> QED BY <1>1, <1>2

(* A handler that has its answer.                                          *)
LEMMA RepliesTyped ==
  ASSUME TypesInv, NEW c \in Call, call[c].pc \in Open, NEW reply \in Word,
         Replies(c, reply), UNCHANGED <<setting, now, permits>>, author' \in Maybe(Call)
  PROVE  CallsTyped' /\ PermitsCounted'
<1> DEFINE k == [call[c] EXCEPT !.pc = "answer", !.reply = reply]
<1>1. call[c] \in Connection /\ CallOK(c) /\ call[c].pc # "unsent" /\ call[c].pc # "closed"
  BY ConnectionFacts DEF Open
<1>2. /\ k \in Connection /\ k.pc = "answer" /\ k.op = call[c].op /\ k.reply = reply
      /\ k.told = call[c].told
  <2>1. "answer" \in Pc /\ reply \in Maybe(Word)
    BY DEF Pc, Open, Maybe
  <2> QED BY <1>1, <2>1 DEF Connection
<1>3. call' = [call EXCEPT ![c] = k]
  BY <1>1 DEF Replies, TypesInv, CallsTyped
<1> HIDE DEF k
<1>4. k.op \in setting.asks[c] /\ k.told = None /\ k.reply # None
  BY <1>1, <1>2, RequestsAssumption DEF CallOK
<1>5. CallsTyped'
  BY <1>2, <1>3, <1>4, CallsKept
<1>6. PermitsCounted'
  BY <1>2, <1>3, PermitsKept DEF Open
<1> QED BY <1>5, <1>6

(* A connection ends.                                                      *)
LEMMA ClosedTyped ==
  ASSUME TypesInv, NEW c \in Call, call[c].pc \in Open, NEW reply \in Word,
         Closed(c, reply), permits' = permits + 1
  PROVE  CallsTyped' /\ PermitsCounted'
<1>1. CallOK(c) /\ call[c].pc # "unsent" /\ call[c].op \in setting.asks[c]
      /\ call[c].op \in Requested
  BY ConnectionFacts DEF Open, CallOK
<1>2. PICK heard \in {reply, "error"} :
        call' = [call EXCEPT ![c] = [Unsent EXCEPT !.pc = "closed", !.op = call[c].op,
                                     !.told = Returns(call[c].op.kind, heard)]]
  BY DEF Closed
<1>3. heard \in Word
  BY <1>2 DEF Word
<1> DEFINE told == Returns(call[c].op.kind, heard)
           k == [Unsent EXCEPT !.pc = "closed", !.op = call[c].op, !.told = told]
<1>4. told \in Word
  BY <1>3, ReturnsTyped
<1>5. call' = [call EXCEPT ![c] = k]
  BY <1>2
<1> HIDE DEF told
<1>6. /\ k \in Connection /\ k.pc = "closed" /\ k.op = call[c].op /\ k.told = told
  BY <1>1, <1>4 DEF Connection, Unsent, Pc, Maybe
<1> HIDE DEF k
<1>7. told # None
  BY <1>4, RequestsAssumption
<1>8. UNCHANGED <<setting, now, author>>
  BY DEF Closed, pacingVars, clockVars
<1>9. CallsTyped'
  BY <1>1, <1>5, <1>6, <1>7, <1>8, CallsKept DEF TypesInv, CallsTyped
<1>10. PermitsCounted'
  BY <1>5, <1>6, PermitsKept DEF Open
<1> QED BY <1>9, <1>10

(* Requests that leave the clock's variables alone.                        *)
LEMMA PlacesStay ==
  ASSUME PlacesTyped, UNCHANGED pacingVars
  PROVE  PlacesTyped'
BY DEF PlacesTyped, pacingVars, clockVars, limiterVars

(* A request is sent,                                                      *)
LEMMA SendTyped ==
  ASSUME TypesInv, NEW c \in Call, Send(c)
  PROVE  TypesInv'
<1>1. call[c].pc = "unsent" /\ UNCHANGED <<pacingVars, permits, author>>
  BY DEF Send
<1>2. PICK op \in setting.asks[c] :
        call' = [call EXCEPT ![c] = [Unsent EXCEPT !.pc = "sent", !.op = op,
                   !.after = IF Acknowledged(author) THEN author ELSE None]]
  BY DEF Send
<1> DEFINE d == IF Acknowledged(author) THEN author ELSE None
           k == [Unsent EXCEPT !.pc = "sent", !.op = op, !.after = d]
<1>3. author \in Maybe(Call) /\ d \in Maybe(Call)
  BY DEF TypesInv, CallsTyped, Maybe
<1>4. op \in Requested
  BY ConnectionFacts
<1> HIDE DEF d
<1>5. /\ k \in Connection /\ k.pc = "sent" /\ k.op = op /\ k.told = None
  BY <1>3, <1>4, SetSent
<1>6. call' = [call EXCEPT ![c] = k]
  BY <1>2 DEF d
<1> HIDE DEF k
<1>7. UNCHANGED <<setting, now, author, permits>>
  BY <1>1 DEF pacingVars, clockVars
<1>8. CallsTyped'
  BY <1>3, <1>5, <1>6, <1>7, CallsKept
<1>9. PermitsCounted'
  BY <1>1, <1>5, <1>6, <1>7, PermitsKept DEF Open
<1>10. PlacesTyped'
  BY <1>1, PlacesStay DEF TypesInv
<1> QED BY <1>8, <1>9, <1>10 DEF TypesInv

(* accepted,                                                               *)
LEMMA AcceptTyped ==
  ASSUME TypesInv, NEW c \in Call, Accept(c)
  PROVE  TypesInv'
<1> DEFINE k == [call[c] EXCEPT !.pc = "read"]
<1>1. /\ call[c].pc = "sent" /\ permits > 0 /\ permits' = permits - 1
      /\ call' = [call EXCEPT ![c] = k] /\ UNCHANGED <<pacingVars, author>>
  BY DEF Accept, TypesInv, CallsTyped
<1>2. call[c] \in Connection /\ CallOK(c)
  BY ConnectionFacts
<1>3. k \in Connection /\ k.pc = "read" /\ k.op = call[c].op /\ k.told = call[c].told
  BY <1>2, SetPc DEF Pc, Open
<1> HIDE DEF k
<1>4. UNCHANGED <<setting, now, author>>
  BY <1>1 DEF pacingVars, clockVars
<1>5. CallsTyped'
  BY <1>1, <1>2, <1>3, <1>4, CallsKept DEF CallOK, TypesInv, CallsTyped
<1>6. PermitsCounted'
  BY <1>1, <1>3, PermitsKept DEF Open
<1>7. PlacesTyped'
  BY <1>1, PlacesStay DEF TypesInv
<1> QED BY <1>5, <1>6, <1>7 DEF TypesInv

(* and answered or dropped.                                                *)
LEMMA EndTyped ==
  ASSUME TypesInv, NEW c \in Call, Reply(c) \/ Drop(c)
  PROVE  TypesInv'
<1>1. PlacesTyped'
  BY PlacesStay DEF Reply, Drop, Closed, TypesInv
<1>2. CASE Reply(c)
  <2>1. call[c].reply \in Word
    BY <1>2, ConnectionFacts DEF Reply, CallOK, Connection, Maybe
  <2> QED BY <1>1, <1>2, <2>1, ClosedTyped DEF Reply, Open, TypesInv
<1>3. CASE Drop(c)
  BY <1>1, <1>3, ClosedTyped DEF Drop, Word, TypesInv
<1> QED BY <1>2, <1>3

(* A dispatch that is refused, and the questions.                          *)
LEMMA AnswersTyped ==
  ASSUME TypesInv, NEW c \in Call,
         DispatchInvalid(c) \/ DispatchConflict(c) \/ Ask(c)
  PROVE  TypesInv'
<1>1. UNCHANGED <<pacingVars, permits, author>> /\ call[c].pc \in Open
  BY DEF DispatchInvalid, DispatchConflict, Ask, On, Open
<1>2. PlacesTyped' /\ UNCHANGED <<setting, now, permits>> /\ author' \in Maybe(Call)
  BY <1>1, PlacesStay DEF TypesInv, CallsTyped, pacingVars, clockVars
<1>3. row # None => row.state \in Word
  BY PlacesFacts DEF TypesInv, Row, Word
<1>4. \E reply \in Word : Replies(c, reply)
  BY <1>3 DEF DispatchInvalid, DispatchConflict, Ask, StateInfo, TaskJson, Listed, Word
<1>5. CallsTyped' /\ PermitsCounted'
  BY <1>1, <1>2, <1>4, RepliesTyped
<1> QED BY <1>2, <1>5 DEF TypesInv

(* A dispatch builds a task.                                               *)
LEMMA BuiltTyped ==
  ASSUME TypesInv, NEW c \in Call, DispatchReplacing(c) \/ DispatchNew(c)
  PROVE  TypesInv' /\ call'[c].task \in Fresh /\ call'[c].op = call[c].op
<1>1. /\ call[c].pc = "read" /\ call[c].op.kind = "dispatch"
      /\ UNCHANGED <<setting, now, waiting, timers, exec, limiterVars, permits, lastDue,
                     notBefore>>
      /\ row' \in {row, None} /\ author' \in {author, None}
  BY DEF DispatchReplacing, DispatchNew, Built, On
<1>2. PlacesTyped'
  BY <1>1 DEF PlacesTyped, TypesInv, Maybe, limiterVars
<1>3. def \in Params /\ now \in U64 /\ Builds(def, now)
  BY PlacesFacts DEF TypesInv, DispatchReplacing, DispatchNew, Built
<1>4. PICK next \in FirstFires(def, now) :
        call' = [call EXCEPT ![c].pc = "insert", ![c].task = Task(def, next, now)]
  BY DEF DispatchReplacing, DispatchNew, Built
<1> DEFINE t == Task(def, next, now)
           k == [call[c] EXCEPT !.pc = "insert", !.task = t]
<1>5. t \in Row
  BY <1>3, FirstFiresTyped, TaskTyped
<1>6. t \in Fresh
  BY <1>3, PlacesFacts DEF Fresh, TypesInv, PlacesTyped
<1>7. call[c] \in Connection /\ CallOK(c)
  BY ConnectionFacts
<1>8. call' = [call EXCEPT ![c] = k]
  BY <1>4, <1>7 DEF TypesInv, CallsTyped
<1> HIDE DEF t
<1>9. k \in Connection /\ k.pc = "insert" /\ k.op = call[c].op /\ k.task = t
      /\ k.told = call[c].told
  BY <1>5, <1>7, SetBuilt
<1> HIDE DEF k
<1>10. CallsTyped'
  BY <1>1, <1>6, <1>7, <1>8, <1>9, CallsKept DEF CallOK, TypesInv, CallsTyped, Maybe
<1>11. PermitsCounted'
  BY <1>1, <1>8, <1>9, PermitsKept DEF Open
<1>12. call'[c] = k
  BY <1>8, <1>9, CallSet DEF TypesInv
<1>13. Fresh' = Fresh
  BY <1>1 DEF Fresh, def
<1> QED BY <1>2, <1>6, <1>9, <1>10, <1>11, <1>12, <1>13 DEF TypesInv

(* A fresh task is a row.                                                  *)
LEMMA FreshTyped ==
  ASSUME PlacesTyped, NEW t \in Fresh
  PROVE  /\ t \in Row
         /\ t.retryMax = def.retryMax /\ t.attempts = 0 /\ t.state = "pending"
         /\ t.created \in Start..now
         /\ Builds(def, t.created) /\ t.next \in FirstFires(def, t.created)
         /\ t.runAt = RunAt(def, t.created)
         /\ t = Task(def, t.next, t.created)
         /\ t.cron = def.cron /\ t.orCron = def.orCron /\ t.interval = Given(def.interval)
         /\ t.zone = def.zone /\ t.jitter = def.jitter /\ t.skip = def.skip
         /\ t.retryDelay = def.retryDelay /\ t.backoff = def.backoff /\ t.expires = def.expires
<1>1. PICK at \in Start..now : Builds(def, at)
        /\ \E next \in FirstFires(def, at) : t = Task(def, next, at)
  BY DEF Fresh
<1>2. PICK next \in FirstFires(def, at) : t = Task(def, next, at)
  BY <1>1
<1>3. at \in U64 /\ def \in Params
  <2>1. at \in Start..Horizon
    BY PacingAssumption DEF PlacesTyped
  <2> QED BY <2>1, ClockTyped, PlacesFacts
<1>4. next \in Maybe(U64) /\ RunAt(def, at) \in Maybe(U64)
  BY <1>1, <1>3, FirstFiresTyped
<1>5. /\ t \in Row /\ t.retryMax = def.retryMax /\ t.attempts = 0 /\ t.state = "pending"
      /\ t.created = at /\ t.next = next /\ t.runAt = RunAt(def, at)
  BY <1>2, <1>3, <1>4, TaskTyped
<1>6. /\ t.cron = def.cron /\ t.orCron = def.orCron /\ t.interval = Given(def.interval)
      /\ t.zone = def.zone /\ t.jitter = def.jitter /\ t.skip = def.skip
      /\ t.retryDelay = def.retryDelay /\ t.backoff = def.backoff /\ t.expires = def.expires
  BY <1>2, <1>3, <1>4, TaskTyped
<1>7. /\ t.created \in Start..now /\ Builds(def, t.created)
      /\ t.next \in FirstFires(def, t.created)
      /\ t = Task(def, t.next, t.created)
  BY <1>1, <1>2, <1>5
<1> QED BY <1>5, <1>6, <1>7

(* The writes of a dispatch and of a removal.                              *)
LEMMA InsertTyped ==
  ASSUME TypesInv, NEW c \in Call, Insert(c)
  PROVE  TypesInv'
<1> DEFINE pc == IF Deferred(call[c].task) THEN "answer" ELSE "enqueue"
           k == [call[c] EXCEPT !.pc = pc, !.reply = "yes"]
<1>1. /\ call[c].pc = "insert" /\ call[c].op.kind = "dispatch"
      /\ UNCHANGED <<setting, now, waiting, timers, exec, limiterVars, permits>>
      /\ row' = call[c].task /\ author' = c /\ notBefore' = 0
      /\ lastDue' \in {None, call[c].task.created}
  BY DEF Insert, On
<1>2. call[c] \in Connection /\ CallOK(c)
  BY ConnectionFacts
<1>3. call[c].task \in Fresh
  BY <1>1, <1>2 DEF CallOK
<1>4. call[c].task \in Row /\ call[c].task.created \in U64
  BY <1>3, FreshTyped DEF TypesInv, Row
<1>5. PlacesTyped'
  BY <1>1, <1>4 DEF PlacesTyped, TypesInv, Maybe, limiterVars
<1>6. call' = [call EXCEPT ![c] = k]
  BY <1>2 DEF Insert, TypesInv, CallsTyped
<1>7. pc \in Pc /\ pc \in {"answer", "enqueue"} /\ "yes" \in Maybe(Word)
  BY DEF Pc, Open, Word, Maybe
<1> HIDE DEF pc
<1>8. k \in Connection /\ k.pc = pc /\ k.op = call[c].op /\ k.told = call[c].told
      /\ k.reply = "yes"
  BY <1>2, <1>7 DEF Connection
<1> HIDE DEF k
<1>9. "yes" # None
  BY RequestsAssumption DEF Word
<1>10. CallsTyped'
  BY <1>1, <1>2, <1>6, <1>7, <1>8, <1>9, CallsKept DEF CallOK, Maybe
<1>11. PermitsCounted'
  BY <1>1, <1>6, <1>7, <1>8, PermitsKept DEF Open
<1> QED BY <1>5, <1>10, <1>11 DEF TypesInv

LEMMA EnqueueTyped ==
  ASSUME TypesInv, NEW c \in Call, Enqueue(c) \/ Remove(c)
  PROVE  TypesInv'
<1>1. call[c].pc \in Open /\ UNCHANGED <<setting, now, permits>>
      /\ author' \in Maybe(Call)
  BY DEF Enqueue, Remove, On, Open, TypesInv, CallsTyped, Maybe
<1>2. \E reply \in Word : Replies(c, reply)
  BY DEF Enqueue, Remove, Word
<1>3. CallsTyped' /\ PermitsCounted'
  BY <1>1, <1>2, RepliesTyped
<1>4. PlacesTyped'
  BY EnqueuedTyped DEF Enqueue, Remove, PlacesTyped, TypesInv, Maybe, limiterVars
<1> QED BY <1>3, <1>4 DEF TypesInv

(* What the operations of one write make of a row.                         *)
LEMMA ModifyWrites ==
  ASSUME TypesInv, NEW c \in Call, Modify(c)
  PROVE  /\ UNCHANGED notBefore
         /\ row = None => row' = None
         /\ row # None =>
              /\ row \in Row /\ call[c].op \in setting.asks[c] /\ call[c].op.kind = "modify"
              /\ Changed(row', row, Over(call[c].op.patch, row))
         /\ \E reply \in Word : \E a : a.row = row' /\ a.reply = reply /\ Apply(c, "modify", a)
<1> DEFINE op == call[c].op
           a == CASE row = None -> Answer(row, "no")
                  [] row # None /\ store = "sqlite" -> ModifySqlite(row, op.patch, now)
                  [] OTHER -> ModifyInMemory(row, op.patch, now)
<1>1. Apply(c, "modify", a) /\ UNCHANGED notBefore /\ On(c, "read", "modify")
  BY DEF Modify
<1>2. call[c].pc = "read" /\ op.kind = "modify" /\ row' = a.row
  BY <1>1 DEF On, Apply
<1>3. op \in setting.asks[c] /\ setting \in Settings
  BY <1>2, ConnectionFacts DEF CallOK
<1>4. CASE row = None
  <2>1. a.row = None /\ a.reply = "no"
    BY <1>4 DEF Answer
  <2> HIDE DEF a
  <2>2. "no" \in Word
    BY DEF Word
  <2> QED BY <1>1, <1>2, <1>4, <2>1, <2>2
<1>5. CASE row # None
  <2>1. row \in Row /\ now \in Nat
    BY <1>5, PlacesFacts DEF TypesInv
  <2>2. a \in {ModifyInMemory(row, op.patch, now), ModifySqlite(row, op.patch, now)}
    BY <1>5
  <2> HIDE DEF a
  <2>3. Changed(a.row, row, Over(op.patch, row)) /\ a.reply \in {"yes", "no", "error"}
    BY <1>2, <1>3, <2>1, <2>2, ModifyTyped
  <2>4. a.reply \in Word
    BY <2>3 DEF Word
  <2> QED BY <1>1, <1>2, <1>3, <1>5, <2>1, <2>3, <2>4
<1> QED BY <1>4, <1>5

(* What reschedule writes: the expression and the next_fire it gives, or   *)
(* nothing.                                                                *)
LEMMA RescheduleWrites ==
  ASSUME TypesInv, NEW c \in Call, RescheduleTask(c)
  PROVE  /\ UNCHANGED notBefore
         /\ row = None => row' = None
         /\ row # None =>
              /\ row \in Row /\ row' \in Row
              /\ KeptBut(row', row, {"cron", "next"})
              /\ row' = row \/
                 \E e \in Expr : /\ ~IsFinal(row) /\ row.cron # None
                                 /\ Computable({e}, now, row.zone)
                                 /\ row'.cron = e /\ row'.next = MinNextFire({e}, now, row.zone)
         /\ \E reply \in Word : \E a : a.row = row' /\ a.reply = reply
                                       /\ Apply(c, "reschedule", a)
<1> DEFINE op == call[c].op
           a == IF row = None THEN Answer(row, "no") ELSE Reschedule(row, op.cron, now)
<1>1. Apply(c, "reschedule", a) /\ UNCHANGED notBefore /\ On(c, "read", "reschedule")
  BY DEF RescheduleTask
<1>2. call[c].pc = "read" /\ op.kind = "reschedule" /\ row' = a.row
  BY <1>1 DEF On, Apply
<1>3. op \in setting.asks[c] /\ setting \in Settings
  BY <1>2, ConnectionFacts DEF CallOK
<1>4. CASE row = None
  <2>1. a.row = None /\ a.reply = "no"
    BY <1>4 DEF Answer
  <2> HIDE DEF a
  <2>2. "no" \in Word
    BY DEF Word
  <2> QED BY <1>1, <1>2, <1>4, <2>1, <2>2
<1>5. CASE row # None
  <2>1. row \in Row /\ now \in Nat /\ op.cron \in Expr
    BY <1>2, <1>3, <1>5, PlacesFacts, RequestsAssumption DEF TypesInv, Asked, Call
  <2>2. a = Reschedule(row, op.cron, now)
    BY <1>5
  <2> HIDE DEF a
  <2>3. /\ a.row \in Row /\ a.reply \in {"yes", "no", "error"}
        /\ KeptBut(a.row, row, {"cron", "next"})
        /\ a.row = row \/ (~IsFinal(row) /\ row.cron # None
                           /\ Computable({op.cron}, now, row.zone) /\ a.row.cron = op.cron
                           /\ a.row.next = MinNextFire({op.cron}, now, row.zone))
    <3> DEFINE e == op.cron
    <3> HIDE DEF e
    <3>1. e \in Expr /\ a = Reschedule(row, e, now)
      BY <2>1, <2>2 DEF e
    <3>2. a.row \in Row /\ a.reply \in {"yes", "no", "error"}
      BY <2>1, <3>1, RescheduleTyped
    <3>3. KeptBut(a.row, row, {"cron", "next"})
      BY <2>1, <3>1, RescheduleTyped, Zenon
    <3>4. a.row = row \/ (~IsFinal(row) /\ row.cron # None /\ Computable({e}, now, row.zone)
                          /\ a.row.cron = e /\ a.row.next = MinNextFire({e}, now, row.zone))
      BY <2>1, <3>1, RescheduleTyped
    <3> QED BY <3>2, <3>3, <3>4 DEF e
  <2>4. a.reply \in Word
    BY <2>3 DEF Word
  <2> QED BY <1>1, <1>2, <1>5, <2>1, <2>3, <2>4
<1> QED BY <1>4, <1>5

(* What requeue writes: a final task pending and due now, or nothing.      *)
LEMMA RequeueWrites ==
  ASSUME TypesInv, NEW c \in Call, RequeueTask(c)
  PROVE  /\ notBefore' = 0
         /\ row = None => row' = None
         /\ row # None =>
              /\ row \in Row /\ SameTask(row', row)
              /\ \/ ~IsFinal(row) /\ row' = row
                 \/ /\ IsFinal(row) /\ row'.state = "pending" /\ row'.attempts = 0
                    /\ row'.next = now
         /\ \E reply \in Word : \E a : a.row = row' /\ a.reply = reply /\ Apply(c, "requeue", a)
<1> DEFINE a == IF row = None THEN Answer(row, "no") ELSE Requeue(row, now)
<1>1. Apply(c, "requeue", a) /\ notBefore' = 0 /\ row' = a.row
  BY DEF RequeueTask, Apply
<1>2. CASE row = None
  <2>1. a.row = None /\ a.reply = "no"
    BY <1>2 DEF Answer
  <2> HIDE DEF a
  <2>2. "no" \in Word
    BY DEF Word
  <2> QED BY <1>1, <1>2, <2>1, <2>2
<1>3. CASE row # None
  <2>1. row \in Row /\ now \in U64
    BY <1>3, PlacesFacts DEF TypesInv
  <2>2. a = Requeue(row, now)
    BY <1>3
  <2> HIDE DEF a
  <2>3. /\ a.row \in Row /\ a.reply \in {"yes", "no", "error"}
        /\ KeptBut(a.row, row, {"state", "attempts", "next"})
        /\ \/ ~IsFinal(row) /\ a.row = row
           \/ IsFinal(row) /\ a.row.state = "pending" /\ a.row.attempts = 0 /\ a.row.next = now
    BY <2>1, <2>2, RequeueTyped
  <2>4. a.reply \in Word
    BY <2>3 DEF Word
  <2> QED BY <1>1, <1>3, <2>1, <2>3, <2>4 DEF SameTask, Standing, KeptBut
<1> QED BY <1>2, <1>3

(* What pause and resume write.                                            *)
LEMMA PauseWrites ==
  ASSUME TypesInv, NEW c \in Call, SetPaused(c)
  PROVE  /\ UNCHANGED notBefore
         /\ row = None => row' = None
         /\ row # None => row \in Row /\ row' \in Row
                          /\ KeptBut(row', row, {"paused"})
         /\ \E reply \in Word : \E a : a.row = row' /\ a.reply = reply /\ Apply(c, "pause", a)
<1> DEFINE op == call[c].op
           q == [row EXCEPT !.paused = op.to]
           a == IF row = None THEN Answer(row, "error") ELSE Answer(q, "yes")
<1>1. Apply(c, "pause", a) /\ UNCHANGED notBefore /\ On(c, "read", "pause")
  BY DEF SetPaused
<1>2. call[c].pc = "read" /\ op.kind = "pause" /\ row' = a.row
  BY <1>1 DEF On, Apply
<1>3. op \in setting.asks[c] /\ setting \in Settings
  BY <1>2, ConnectionFacts DEF CallOK
<1>4. "yes" \in Word /\ "error" \in Word
  BY DEF Word
<1>5. CASE row = None
  <2>1. a.row = None /\ a.reply = "error"
    BY <1>5 DEF Answer
  <2> HIDE DEF a
  <2> QED BY <1>1, <1>2, <1>4, <1>5, <2>1
<1>6. CASE row # None
  <2>1. row \in Row /\ op.to \in BOOLEAN
    BY <1>2, <1>3, <1>6, PlacesFacts, RequestsAssumption DEF TypesInv, Asked, Call
  <2>2. q \in Row
    BY <2>1 DEF Row
  <2>3. KeptBut(q, row, {"paused"})
    BY <2>1, RowFields DEF KeptBut, Field, PatchKeys, TriggerKeys
  <2> HIDE DEF q
  <2>4. a.row = q /\ a.reply = "yes"
    BY <1>6 DEF Answer
  <2> HIDE DEF a
  <2> QED BY <1>1, <1>2, <1>4, <1>6, <2>1, <2>2, <2>3, <2>4
<1> QED BY <1>5, <1>6

(* A trigger that is not the expression's own is forgotten.                *)
LEMMA OnScheduleTyped ==
  ASSUME PlacesTyped, NEW r
  PROVE  OnSchedule(r) \in {lastDue, now, None}
BY DEF OnSchedule

(* A request that writes the row keeps the types.                          *)
LEMMA ApplyTyped ==
  ASSUME TypesInv, NEW c \in Call, NEW kind, NEW a, Apply(c, kind, a), a.reply \in Word,
         row' \in Maybe(Row), notBefore' \in Nat
  PROVE  TypesInv'
<1>1. /\ call[c].pc \in Open /\ Replies(c, a.reply)
      /\ UNCHANGED <<setting, now, waiting, timers, exec, limiterVars, permits, author>>
      /\ lastDue' = OnSchedule(a.row)
  BY DEF Apply, On, Open
<1>2. lastDue' \in {lastDue, now, None}
  BY <1>1, OnScheduleTyped DEF TypesInv
<1>3. PlacesTyped'
  BY <1>1, <1>2, PlacesFacts DEF PlacesTyped, TypesInv, Maybe, limiterVars
<1>4. author' \in Maybe(Call)
  BY <1>1 DEF TypesInv, CallsTyped
<1>5. CallsTyped' /\ PermitsCounted'
  BY <1>1, <1>4, RepliesTyped
<1> QED BY <1>3, <1>5 DEF TypesInv

(* The four that do.                                                       *)
LEMMA WritesTyped ==
  ASSUME TypesInv, NEW c \in Call,
         Modify(c) \/ RescheduleTask(c) \/ RequeueTask(c) \/ SetPaused(c)
  PROVE  TypesInv'
<1>1. notBefore \in Nat
  BY DEF TypesInv, PlacesTyped
<1>2. CASE Modify(c)
  BY <1>1, <1>2, ModifyWrites, ApplyTyped DEF Changed, Maybe
<1>3. CASE RescheduleTask(c)
  BY <1>1, <1>3, RescheduleWrites, ApplyTyped DEF Maybe
<1>4. CASE RequeueTask(c)
  BY <1>1, <1>4, RequeueWrites, ApplyTyped DEF Maybe, SameTask
<1>5. CASE SetPaused(c)
  BY <1>1, <1>5, PauseWrites, ApplyTyped DEF Maybe
<1> QED BY <1>2, <1>3, <1>4, <1>5

(* Every step keeps the types.                                             *)
LEMMA NextTypes ==
  ASSUME TypesInv, [Next]_vars
  PROVE  TypesInv'
<1>1. CASE PacingStep /\ UNCHANGED requestVars
  <2>1. PlacesTyped'
    BY <1>1, StepTyped DEF TypesInv
  <2>2. setting' = setting /\ now' \in {now, now + 1}
    BY <1>1 DEF PacingStep, Tick, Wake, ScanExpires, ScanRunAt, ScanInterval, ScanCron,
                ScanRetries, ProcessGone, ProcessExpired, ProcessEarly, ProcessLimited,
                ProcessOverlap, ProcessStart, Drain, Finish
  <2>3. now' \in Int /\ now <= now'
    BY <2>2, PlacesFacts DEF TypesInv
  <2> QED BY <1>1, <2>1, <2>2, <2>3, CallsStay, PermitsStay DEF TypesInv
<1>2. ASSUME NEW c \in Call, Send(c) \/ Accept(c) \/ Handle(c) \/ Drop(c) PROVE TypesInv'
  BY <1>2, SendTyped, AcceptTyped, EndTyped, AnswersTyped, BuiltTyped, InsertTyped,
     EnqueueTyped, WritesTyped DEF Handle
<1>3. CASE UNCHANGED vars
  <2>1. PlacesTyped' /\ now \in Int
    BY <1>3, PlacesStay, PlacesFacts DEF vars, TypesInv
  <2>2. UNCHANGED <<requestVars, setting, now>>
    BY <1>3 DEF vars, pacingVars, clockVars
  <2> QED BY <2>1, <2>2, CallsStay, PermitsStay DEF TypesInv
<1> QED BY <1>1, <1>2, <1>3 DEF Next

(* Every variable keeps its type.                                          *)
LEMMA TypesInvariant == Spec => []TypesInv
<1>1. Init => TypesInv
  BY InitTypes
<1>2. TypesInv /\ [Next]_vars => TypesInv'
  BY NextTypes
<1> QED BY <1>1, <1>2, PTL DEF Spec

-----------------------------------------------------------------------------
(* What each step of the clock writes to the row.                          *)

(* q is r with these three.                                                *)
Moved(q, r, state, attempts, next) ==
  SameTask(q, r) /\ q.state = state /\ q.attempts = attempts /\ q.next = next

(* A task that outlived its expiry,                                        *)
LEMMA ExpireWrites ==
  ASSUME PlacesTyped, ScanExpires \/ ProcessExpired
  PROVE  /\ row # None /\ row \in Row /\ Expired
         /\ Moved(row', row, "expired", row.attempts, row.next)
         /\ UNCHANGED <<setting, now, timers, exec, lastDue, notBefore>>
         /\ waiting' = waiting \/ waiting' = waiting - 1
<1>1. row # None /\ row \in Row /\ Expired /\ row' = [row EXCEPT !.state = "expired"]
  BY PlacesFacts DEF ScanExpires, ProcessExpired, Gone, Expire
<1>2. Moved(row', row, "expired", row.attempts, row.next)
  BY <1>1, SetsState DEF Moved, RowState
<1> QED BY <1>1, <1>2 DEF ScanExpires, ProcessExpired, Drain

(* the moment of a run_at task,                                            *)
LEMMA RunAtWrites ==
  ASSUME PlacesTyped, ScanRunAt
  PROVE  /\ row # None /\ row \in Row /\ Scanned /\ row.runAt # None
         /\ Moved(row', row, row.state, row.attempts, U64Max)
<1>1. row # None /\ row \in Row /\ row' = [row EXCEPT !.next = U64Max] /\ U64Max \in Maybe(U64)
  BY PlacesFacts DEF ScanRunAt, Scanned, Maybe
<1>2. Moved(row', row, row.state, row.attempts, U64Max)
  BY <1>1, SetsNext DEF Moved
<1> QED BY <1>1, <1>2 DEF ScanRunAt

(* a period that has passed,                                               *)
LEMMA IntervalWrites ==
  ASSUME PlacesTyped, ScanInterval
  PROVE  /\ row # None /\ row \in Row /\ Scanned /\ CronExprs(row) = {} /\ row.interval # None
         /\ \E n \in U64 : Moved(row', row, row.state, row.attempts, n)
<1>1. row # None /\ row.interval # None /\ row \in Row
  BY PlacesFacts DEF ScanInterval, Scanned
<1>2. PICK j \in Jitters(row.jitter) :
        row' = [row EXCEPT !.next = WrapAt(now + row.interval + j)]
  BY DEF ScanInterval
<1>3. WrapAt(now + row.interval + j) \in U64
  BY <1>1, PlacesFacts, TimesTyped, WrapTyped
<1>4. Moved(row', row, row.state, row.attempts, WrapAt(now + row.interval + j))
  BY <1>1, <1>2, <1>3, SetsNext DEF Moved, Maybe
<1> QED BY <1>1, <1>3, <1>4 DEF ScanInterval

(* an occurrence that has come,                                            *)
LEMMA CronWrites ==
  ASSUME PlacesTyped, ScanCron
  PROVE  /\ row # None /\ row \in Row /\ Scanned /\ CronExprs(row) # {} /\ row.runAt = None
         /\ \/ ~Computable(CronExprs(row), now + 1, row.zone) /\ row' = row /\ lastDue' = None
            \/ /\ Computable(CronExprs(row), now + 1, row.zone)
               /\ lastDue' = IF waiting' # waiting \/ lastDue = None THEN now ELSE lastDue
               /\ \E j \in Jitters(row.jitter) :
                    Rolled(j) \in U64 /\ Moved(row', row, row.state, row.attempts, Rolled(j))
<1>1. row # None /\ row \in Row /\ CronExprs(row) # {}
  BY PlacesFacts DEF ScanCron, Scanned
<1>2. CASE Computable(CronExprs(row), now + 1, row.zone)
  <2>1. PICK j \in Jitters(row.jitter) : row' = [row EXCEPT !.next = Rolled(j)]
    BY <1>2 DEF ScanCron
  <2>2. Rolled(j) \in U64
    BY <1>1, <1>2, RolledTyped DEF Rolled
  <2>3. Moved(row', row, row.state, row.attempts, Rolled(j))
    BY <1>1, <2>1, <2>2, SetsNext DEF Moved, Maybe
  <2> QED BY <1>1, <1>2, <2>2, <2>3 DEF ScanCron
<1>3. CASE ~Computable(CronExprs(row), now + 1, row.zone)
  BY <1>1, <1>3 DEF ScanCron
<1> QED BY <1>2, <1>3

(* a retry that is due,                                                    *)
LEMMA RetriesWrites ==
  ASSUME PlacesTyped, ScanRetries
  PROVE  /\ row # None /\ row \in Row /\ row.state = "pending" /\ row.cron = None
         /\ row.next # None /\ row.next <= now
         /\ Moved(row', row, row.state, row.attempts, None)
         /\ waiting' = waiting + 1
<1>1. row # None /\ row \in Row /\ row' = [row EXCEPT !.next = None] /\ None \in Maybe(U64)
  BY PlacesFacts DEF ScanRetries, Maybe
<1>2. Moved(row', row, row.state, row.attempts, None)
  BY <1>1, SetsNext DEF Moved
<1> QED BY <1>1, <1>2 DEF ScanRetries

(* a trigger over the limit,                                               *)
LEMMA LimitedWrites ==
  ASSUME PlacesTyped, ProcessLimited
  PROVE  /\ row # None /\ row \in Row /\ timers' # {}
         /\ \/ row' = row /\ lastDue' = lastDue
            \/ /\ row.cron # None \/ row.interval # None
               /\ lastDue' = None
               /\ \E n \in U64 : Moved(row', row, row.state, row.attempts, n)
<1>1. row # None /\ row \in Row
  BY PlacesFacts DEF ProcessLimited, Admits, Gone
<1>2. WrapAt(now + def.window) \in U64
  BY PlacesFacts, WrapTyped
<1>3. timers' # {}
  BY DEF ProcessLimited, Sleep
<1>4. CASE row.cron # None \/ row.interval # None
  <2>1. row' = [row EXCEPT !.next = WrapAt(now + def.window)] /\ lastDue' = None
    BY <1>4 DEF ProcessLimited
  <2>2. Moved(row', row, row.state, row.attempts, WrapAt(now + def.window))
    BY <1>1, <1>2, <2>1, SetsNext DEF Moved, Maybe
  <2> QED BY <1>1, <1>2, <1>3, <1>4, <2>1, <2>2
<1>5. CASE ~(row.cron # None \/ row.interval # None)
  BY <1>1, <1>3, <1>5 DEF ProcessLimited
<1> QED BY <1>4, <1>5

(* and the start of an execution.                                          *)
LEMMA StartWrites ==
  ASSUME PlacesTyped, ProcessStart
  PROVE  /\ row # None /\ row \in Row /\ ~IsFinal(row) /\ ~Expired /\ exec = None
         /\ row.state # "running" /\ exec' = row /\ notBefore' = 0
         /\ Moved(row', row, "running", row.attempts, row.next)
<1>1. row # None /\ row \in Row /\ row' = [row EXCEPT !.state = "running"]
  BY PlacesFacts DEF ProcessStart, Admits, Gone
<1>2. Moved(row', row, "running", row.attempts, row.next)
  BY <1>1, SetsState DEF Moved, RowState
<1> QED BY <1>1, <1>2 DEF ProcessStart, Admits, Gone

(* The four ends of an execution, when the row is still there.             *)
LEMMA FinishWrites ==
  ASSUME PlacesTyped, NEW code, Finish(code)
  PROVE  /\ exec # None /\ exec \in Row /\ exec' = None
         /\ UNCHANGED <<setting, now, waiting, timers>>
         /\ row = None => row' = None /\ UNCHANGED <<lastDue, notBefore>>
         /\ row # None =>
              /\ row \in Row
              /\ \/ /\ exec.cron # None \/ exec.interval # None
                    /\ Moved(row', row, "pending", row.attempts, row.next)
                    /\ UNCHANGED <<lastDue, notBefore>>
                 \/ /\ ~(exec.cron # None \/ exec.interval # None)
                    /\ Moved(row', row, "success", row.attempts, row.next)
                    /\ UNCHANGED <<lastDue, notBefore>>
                 \/ /\ Moved(row', row, "failed", exec.attempts + 1, row.next)
                    /\ UNCHANGED <<lastDue, notBefore>>
                 \/ /\ exec.attempts < exec.retryMax
                    /\ NextRetry(exec, now) \in U64
                    /\ Moved(row', row, "pending", exec.attempts + 1, NextRetry(exec, now))
                    /\ lastDue' = None /\ notBefore' = now + IdealDelay
<1>1. exec # None /\ exec' = None /\ UNCHANGED <<setting, now, waiting, timers>>
  BY DEF Finish
<1>2. exec \in Row /\ exec.attempts \in Nat
  BY <1>1, PlacesFacts DEF Row
<1>3. CASE row = None
  BY <1>1, <1>2, <1>3 DEF Finish
<1>4. CASE row # None
  <2>1. row \in Row /\ row' = Settled(code)
    BY <1>4, PlacesFacts DEF Finish
  <2>2. NextRetry(exec, now) \in U64
    BY <1>2, PlacesFacts, RetryTyped
  <2>3. Outcome(code) # "retry" => UNCHANGED <<lastDue, notBefore>>
    BY DEF Finish
  <2> DEFINE a == exec.attempts + 1
             n == NextRetry(exec, now)
  <2>4. a \in Nat /\ n \in Maybe(U64)
    BY <1>2, <2>2 DEF Maybe
  <2> HIDE DEF a, n
  <2>5. CASE Outcome(code) = "again"
    <3>1. exec.cron # None \/ exec.interval # None
      BY <2>5 DEF Outcome
    <3>2. Moved(row', row, "pending", row.attempts, row.next)
      BY <2>1, <2>5, SetsState DEF Settled, RowState, Moved
    <3> QED BY <1>1, <1>2, <1>4, <2>1, <2>3, <2>5, <3>1, <3>2
  <2>6. CASE Outcome(code) = "success"
    <3>1. ~(exec.cron # None \/ exec.interval # None)
      BY <2>6 DEF Outcome
    <3>2. Moved(row', row, "success", row.attempts, row.next)
      BY <2>1, <2>6, SetsState DEF Settled, RowState, Moved
    <3> QED BY <1>1, <1>2, <1>4, <2>1, <2>3, <2>6, <3>1, <3>2
  <2>7. CASE Outcome(code) = "failed"
    <3> DEFINE s == "failed"
    <3>1. row' = [row EXCEPT !.state = s, !.attempts = a] /\ s \in RowState
      BY <2>1, <2>7 DEF Settled, RowState, a
    <3> HIDE DEF s
    <3>2. Moved(row', row, s, a, row.next)
      <4>1. SameTask(row', row)
        BY <2>1, <2>4, <3>1, SetsAttempts
      <4>2. row'.state = s /\ row'.attempts = a /\ row'.next = row.next
        BY <2>1, <3>1, RowFields DEF Field
      <4> QED BY <4>1, <4>2 DEF Moved
    <3>3. Moved(row', row, "failed", a, row.next)
      BY <3>2 DEF s
    <3> QED BY <1>1, <1>2, <1>4, <2>1, <2>3, <2>7, <3>3 DEF a
  <2>8. CASE Outcome(code) = "retry"
    <3> DEFINE s == "pending"
    <3>1. row' = [row EXCEPT !.state = s, !.attempts = a, !.next = n] /\ s \in RowState
      BY <2>1, <2>8 DEF Settled, RowState, a, n
    <3> HIDE DEF s
    <3>2. Moved(row', row, s, a, n)
      <4>1. SameTask(row', row)
        BY <2>1, <2>4, <3>1, SetsRetry
      <4>2. row'.state = s /\ row'.attempts = a /\ row'.next = n
        BY <2>1, <3>1, RowFields DEF Field
      <4> QED BY <4>1, <4>2 DEF Moved
    <3>3. Moved(row', row, "pending", a, n)
      BY <3>2 DEF s
    <3>4. exec.attempts < exec.retryMax
      BY <2>8 DEF Outcome, ShouldRetry
    <3>5. lastDue' = None /\ notBefore' = now + IdealDelay
      BY <1>4, <2>8 DEF Finish
    <3> QED BY <1>1, <1>2, <1>4, <2>1, <2>2, <3>3, <3>4, <3>5 DEF a, n
  <2>9. Outcome(code) \in {"again", "success", "failed", "retry"}
    BY DEF Outcome
  <2> QED BY <2>5, <2>6, <2>7, <2>8, <2>9
<1> QED BY <1>3, <1>4

(* What no request touches, and when a request touches the row.            *)
LEMMA RequestFrame ==
  ASSUME NEW c \in Call, Send(c) \/ Accept(c) \/ Handle(c) \/ Drop(c)
  PROVE  UNCHANGED <<setting, now, exec, timers, bucket>>
<1>1. CASE Send(c) \/ Accept(c) \/ Drop(c)
  BY <1>1 DEF Send, Accept, Drop, Closed, pacingVars, clockVars, limiterVars
<1>2. CASE DispatchInvalid(c) \/ DispatchConflict(c) \/ Ask(c) \/ Reply(c)
  BY <1>2 DEF DispatchInvalid, DispatchConflict, Ask, Reply, Closed, pacingVars, clockVars,
              limiterVars
<1>3. CASE DispatchReplacing(c) \/ DispatchNew(c)
  BY <1>3 DEF DispatchReplacing, DispatchNew, Built, limiterVars
<1>4. CASE Insert(c) \/ Enqueue(c) \/ Remove(c)
  BY <1>4 DEF Insert, Enqueue, Remove, limiterVars
<1>5. CASE Modify(c)
  BY <1>5 DEF Modify, Apply, limiterVars
<1>6. CASE RescheduleTask(c)
  BY <1>6 DEF RescheduleTask, Apply, limiterVars
<1>7. CASE RequeueTask(c)
  BY <1>7 DEF RequeueTask, Apply, limiterVars
<1>8. CASE SetPaused(c)
  BY <1>8 DEF SetPaused, Apply, limiterVars
<1> QED BY <1>1, <1>2, <1>3, <1>4, <1>5, <1>6, <1>7, <1>8 DEF Handle

(* The steps of a request that touch nothing but itself.                   *)
LEMMA RequestStays ==
  ASSUME NEW c \in Call,
         \/ Send(c) \/ Accept(c) \/ DispatchInvalid(c) \/ DispatchConflict(c) \/ Ask(c)
         \/ Reply(c) \/ Drop(c)
  PROVE  UNCHANGED <<pacingVars, author>> /\ UNCHANGED <<row, waiting, lastDue, notBefore>>
<1>1. UNCHANGED <<pacingVars, author>>
  BY DEF Send, Accept, DispatchInvalid, DispatchConflict, Ask, Reply, Drop, Closed
<1> QED BY <1>1 DEF pacingVars, clockVars

-----------------------------------------------------------------------------
(* Attempts.                                                               *)

(* No client changes how often a task may be retried.                      *)
RetriesFixed ==
  \A c \in Call : \A op \in setting.asks[c] :
    op.kind = "modify" => "retryMax" \notin DOMAIN op.patch

(* An execution has an attempt left to count, a row that has none is       *)
(* failed, and a row under way is not.                                     *)
AttemptsInv ==
  /\ row # None =>
       /\ row.retryMax = def.retryMax /\ row.attempts <= def.retryMax + 1
       /\ row.attempts > def.retryMax => row.state = "failed"
       /\ exec # None => row.state # "failed"
  /\ exec # None => exec.retryMax = def.retryMax /\ exec.attempts <= def.retryMax

(* A field that no step of the clock writes.                               *)
LEMMA SameFields ==
  ASSUME NEW q, NEW r, SameTask(q, r)
  PROVE  /\ q.retryMax = r.retryMax /\ q.retryDelay = r.retryDelay
         /\ q.cron = r.cron /\ q.orCron = r.orCron /\ CronExprs(q) = CronExprs(r)
         /\ q.interval = r.interval /\ q.runAt = r.runAt /\ q.zone = r.zone
         /\ q.jitter = r.jitter /\ q.skip = r.skip /\ q.created = r.created
         /\ q.expires = r.expires /\ q.backoff = r.backoff
BY DEF SameTask, Standing, Field, PatchKeys, TriggerKeys, CronExprs

LEMMA RetryMaxTyped == PlacesTyped => def.retryMax \in Nat
BY PlacesFacts DEF Params

(* A row as it was, with the attempts it had.                              *)
LEMMA AttemptsStay ==
  ASSUME PlacesTyped, AttemptsInv, row # None, SameTask(row', row), def' = def, exec' = exec,
         row'.attempts = row.attempts,
         row'.state = row.state \/ (row.state = "pending" /\ row'.state = "expired")
  PROVE  AttemptsInv'
<1>1. row'.retryMax = row.retryMax
  BY SameFields
<1> QED BY <1>1 DEF AttemptsInv

(* A step of the clock counts no attempt beyond the definition's last.     *)
LEMMA StepAttempts ==
  ASSUME PlacesTyped, AttemptsInv, PacingStep
  PROVE  AttemptsInv'
<1>0. def' = def /\ def.retryMax \in Nat
  <2>1. setting' = setting
    BY DEF PacingStep, Tick, Wake, ScanExpires, ScanRunAt, ScanInterval, ScanCron,
           ScanRetries, ProcessGone, ProcessExpired, ProcessEarly, ProcessLimited,
           ProcessOverlap, ProcessStart, Drain, Finish
  <2> QED BY <2>1, RetryMaxTyped DEF def
<1>1. CASE Tick \/ Wake \/ ProcessGone \/ ProcessEarly \/ ProcessOverlap
  BY <1>0, <1>1 DEF Tick, Wake, ProcessGone, ProcessEarly, ProcessOverlap, AttemptsInv
<1>2. CASE ScanExpires \/ ProcessExpired
  BY <1>0, <1>2, ExpireWrites, AttemptsStay DEF Moved, Expired
<1>3. CASE ScanRunAt
  <2>1. exec' = exec
    BY <1>3 DEF ScanRunAt
  <2> QED BY <1>0, <1>3, <2>1, RunAtWrites, AttemptsStay DEF Moved
<1>4. CASE ScanInterval
  <2>1. exec' = exec
    BY <1>4 DEF ScanInterval
  <2> QED BY <1>0, <1>4, <2>1, IntervalWrites, AttemptsStay DEF Moved
<1>5. CASE ScanCron
  <2>1. exec' = exec
    BY <1>5 DEF ScanCron
  <2>2. CASE row' = row
    BY <1>0, <2>1, <2>2 DEF AttemptsInv
  <2>3. CASE row' # row
    BY <1>0, <1>5, <2>1, <2>3, CronWrites, AttemptsStay DEF Moved
  <2> QED BY <2>2, <2>3
<1>6. CASE ScanRetries
  <2>1. exec' = exec
    BY <1>6 DEF ScanRetries
  <2> QED BY <1>0, <1>6, <2>1, RetriesWrites, AttemptsStay DEF Moved
<1>7. CASE ProcessLimited
  <2>1. exec' = exec
    BY <1>7 DEF ProcessLimited
  <2>2. CASE row' = row
    BY <1>0, <2>1, <2>2 DEF AttemptsInv
  <2>3. CASE row' # row
    BY <1>0, <1>7, <2>1, <2>3, LimitedWrites, AttemptsStay DEF Moved
  <2> QED BY <2>2, <2>3
<1>8. CASE ProcessStart
  <2>1. /\ row # None /\ row \in Row /\ ~IsFinal(row) /\ exec' = row
        /\ SameTask(row', row) /\ row'.state = "running" /\ row'.attempts = row.attempts
    BY <1>8, StartWrites DEF Moved
  <2>2. row.attempts <= def.retryMax /\ row.attempts \in Nat
    BY <1>0, <2>1 DEF AttemptsInv, IsFinal, Row
  <2>3. row'.retryMax = row.retryMax /\ row' # None
    BY <2>1, SameFields, ScheduleAssumption DEF SameTask
  <2> QED BY <1>0, <2>1, <2>2, <2>3 DEF AttemptsInv
<1>9. ASSUME NEW code, Finish(code) PROVE AttemptsInv'
  <2>1. exec # None /\ exec \in Row /\ exec' = None /\ exec.attempts \in Nat
    BY <1>9, FinishWrites DEF Row
  <2>2. CASE row = None
    BY <1>0, <1>9, <2>1, <2>2, FinishWrites DEF AttemptsInv
  <2>3. CASE row # None
    <3>1. /\ row \in Row /\ SameTask(row', row) /\ row.attempts \in Nat
      BY <1>9, <2>3, FinishWrites DEF Moved, Row
    <3>2. row'.retryMax = row.retryMax
      BY <3>1, SameFields
    <3>3. row.attempts <= def.retryMax /\ row.state # "failed"
      BY <1>0, <2>1, <2>3, <3>1 DEF AttemptsInv
    <3>4. \/ row'.attempts = row.attempts
          \/ row'.state = "failed" /\ row'.attempts = exec.attempts + 1
          \/ exec.attempts < exec.retryMax /\ row'.attempts = exec.attempts + 1
      BY <1>9, <2>3, FinishWrites DEF Moved
    <3> QED BY <1>0, <2>1, <2>3, <3>2, <3>3, <3>4 DEF AttemptsInv
  <2> QED BY <2>2, <2>3
<1> QED BY <1>1, <1>2, <1>3, <1>4, <1>5, <1>6, <1>7, <1>8, <1>9 DEF PacingStep

(* Nor does a request: what it inserts or requeues starts at zero.         *)
LEMMA RequestAttempts ==
  ASSUME RetriesFixed, TypesInv, AttemptsInv,
         NEW c \in Call, Send(c) \/ Accept(c) \/ Handle(c) \/ Drop(c)
  PROVE  AttemptsInv'
<1>0. def' = def /\ exec' = exec /\ def.retryMax \in Nat
  BY RequestFrame, RetryMaxTyped DEF def, TypesInv
<1>1. CASE row' = row
  BY <1>0, <1>1 DEF AttemptsInv
<1>2. CASE row' = None
  BY <1>0, <1>2 DEF AttemptsInv
<1>3. CASE Insert(c)
  <2>1. row' = call[c].task /\ call[c].task \in Fresh
    BY <1>3, ConnectionFacts DEF Insert, On, CallOK
  <2>2. row'.retryMax = def.retryMax /\ row'.attempts = 0 /\ row'.state = "pending"
    BY <2>1, FreshTyped DEF TypesInv
  <2> QED BY <1>0, <2>2 DEF AttemptsInv
<1>4. ASSUME row # None, row \in Row, row'.state = row.state, row'.attempts = row.attempts,
             row'.retryMax = row.retryMax
      PROVE  AttemptsInv'
  BY <1>0, <1>4 DEF AttemptsInv
<1>5. CASE Modify(c) /\ row # None
  <2> DEFINE op == call[c].op
             m == Over(op.patch, row)
  <2>1. /\ row \in Row /\ op \in setting.asks[c] /\ op.kind = "modify"
        /\ Changed(row', row, m)
    BY <1>5, ModifyWrites
  <2>2. "retryMax" \notin DOMAIN op.patch
    BY <2>1, ConnectionFacts DEF RetriesFixed
  <2>3. m.retryMax = row.retryMax
    BY <2>1, <2>2, ConnectionFacts, PatchTyped DEF Field, PatchKeys, TriggerKeys
  <2> HIDE DEF m
  <2>4. /\ row'.state = row.state /\ row'.attempts = row.attempts
        /\ row'.retryMax = row.retryMax
    BY <2>1, <2>3 DEF Changed, Field, PatchKeys, TriggerKeys
  <2> QED BY <1>4, <1>5, <2>1, <2>4
<1>6. CASE RescheduleTask(c) /\ row # None
  <2>1. row \in Row /\ KeptBut(row', row, {"cron", "next"})
    BY <1>6, RescheduleWrites
  <2> QED BY <1>4, <1>6, <2>1 DEF KeptBut, Field, PatchKeys, TriggerKeys
<1>7. CASE RequeueTask(c) /\ row # None /\ row' # row
  <2>1. /\ row \in Row /\ SameTask(row', row)
        /\ row'.state = "pending" /\ row'.attempts = 0
    BY <1>7, RequeueWrites
  <2>2. row'.retryMax = row.retryMax
    BY <2>1, SameFields
  <2> QED BY <1>0, <1>7, <2>1, <2>2 DEF AttemptsInv
<1>8. CASE SetPaused(c) /\ row # None
  <2>1. row \in Row /\ KeptBut(row', row, {"paused"})
    BY <1>8, PauseWrites
  <2> QED BY <1>4, <1>8, <2>1 DEF KeptBut, Field, PatchKeys, TriggerKeys
<1>9. CASE (Modify(c) \/ RescheduleTask(c) \/ RequeueTask(c) \/ SetPaused(c)) /\ row = None
  BY <1>2, <1>9, ModifyWrites, RescheduleWrites, RequeueWrites, PauseWrites
<1>10. CASE \/ Send(c) \/ Accept(c) \/ DispatchInvalid(c) \/ DispatchConflict(c) \/ Ask(c)
            \/ Reply(c) \/ Drop(c)
  BY <1>1, <1>10, RequestStays
<1>11. CASE DispatchReplacing(c) \/ DispatchNew(c) \/ Enqueue(c) \/ Remove(c)
  BY <1>1, <1>2, <1>11 DEF DispatchReplacing, DispatchNew, Enqueue, Remove
<1> QED BY <1>1, <1>3, <1>5, <1>6, <1>7, <1>8, <1>9, <1>10, <1>11 DEF Handle

(* The two invariants give the type correctness the runs check.            *)
LEMMA TypesGivePacingTypeOK == TypesInv /\ AttemptsInv => PacingTypeOK
<1> SUFFICES ASSUME TypesInv, AttemptsInv PROVE PacingTypeOK
  OBVIOUS
<1>1. def.retryMax \in Nat
  BY RetryMaxTyped DEF TypesInv
<1>2. ASSUME NEW r \in {row, exec} \ {None}
      PROVE  /\ r.state \in {"pending", "running", "success", "failed", "expired"}
             /\ r.next \in U64 \cup {None} /\ r.attempts \in 0..(def.retryMax + 1)
  <2>1. r \in Row
    BY <1>2, PlacesFacts DEF TypesInv
  <2>2. r.attempts <= def.retryMax + 1 /\ r.attempts \in Nat
    BY <1>1, <1>2, <2>1 DEF AttemptsInv, Row
  <2> QED BY <1>1, <2>1, <2>2 DEF Row, Maybe
<1>3. permits \in 0..MaxConn
  BY HoldingFinite, RequestsAssumption DEF TypesInv, PermitsCounted
<1> QED BY <1>2, <1>3 DEF TypesInv, PlacesTyped, CallsTyped, CallOK, PacingTypeOK, Maybe

(* A behaviour has one setting.                                            *)
LEMMA SettingFixed == PacingStep => UNCHANGED setting
BY DEF PacingStep, Tick, Wake, ScanExpires, ScanRunAt, ScanInterval, ScanCron, ScanRetries,
       ProcessGone, ProcessExpired, ProcessEarly, ProcessLimited, ProcessOverlap,
       ProcessStart, Drain, Finish

LEMMA SettingStays == [Next]_vars => UNCHANGED setting
BY SettingFixed, RequestFrame DEF Next, vars, pacingVars

(* Every variable keeps its type, and no row counts more attempts than its *)
(* retries and one, whatever the clients ask for: as long as none changes  *)
(* the retries themselves.                                                 *)
THEOREM PacingTypeCorrect == Spec /\ RetriesFixed => []PacingTypeOK
<1>1. Init => TypesInv /\ AttemptsInv
  BY InitTypes DEF Init, PacingInit, AttemptsInv
<1>2. TypesInv /\ AttemptsInv /\ RetriesFixed /\ [Next]_vars
        => (TypesInv /\ AttemptsInv /\ RetriesFixed)'
  <2> SUFFICES ASSUME TypesInv, AttemptsInv, RetriesFixed, [Next]_vars PROVE AttemptsInv'
    BY NextTypes, SettingStays DEF RetriesFixed
  <2>1. CASE UNCHANGED vars
    BY <2>1 DEF vars, pacingVars, clockVars, AttemptsInv, def
  <2> QED BY <2>1, StepAttempts, RequestAttempts DEF Next, TypesInv
<1> QED BY <1>1, <1>2, TypesGivePacingTypeOK, PTL DEF Spec

-----------------------------------------------------------------------------
(* Who a row belongs to.                                                   *)

(* A connection takes a step, the others stand.                            *)
Goes(c, pcs) ==
  /\ \A d \in Call : d # c => call'[d] = call[d]
  /\ call'[c].pc \in pcs /\ call'[c].op = call[c].op
  /\ call'[c].after = call[c].after \/ call'[c].after = None

(* Where each step of a request takes it.                                  *)
LEMMA SendMoves ==
  ASSUME TypesInv, NEW c \in Call, Send(c)
  PROVE  /\ call[c].pc = "unsent" /\ call'[c].pc = "sent"
         /\ call'[c].after = IF Acknowledged(author) THEN author ELSE None
         /\ call'[c].told = None /\ call'[c].op \in setting.asks[c]
         /\ \A d \in Call : d # c => call'[d] = call[d]
BY DEF Send, Unsent, TypesInv, CallsTyped

LEMMA AcceptMoves ==
  ASSUME TypesInv, NEW c \in Call, Accept(c)
  PROVE  call[c].pc = "sent" /\ Goes(c, {"read"}) /\ call'[c].told = call[c].told
BY DEF Accept, Goes, TypesInv, CallsTyped, Connection

LEMMA BuiltMoves ==
  ASSUME TypesInv, NEW c \in Call, DispatchReplacing(c) \/ DispatchNew(c)
  PROVE  call[c].pc = "read" /\ Goes(c, {"insert"}) /\ call'[c].told = call[c].told
<1>1. PICK t : call' = [call EXCEPT ![c].pc = "insert", ![c].task = t]
  BY DEF DispatchReplacing, DispatchNew, Built
<1>2. call[c].pc = "read"
  BY DEF DispatchReplacing, DispatchNew, On
<1> QED BY <1>1, <1>2 DEF Goes, TypesInv, CallsTyped, Connection

LEMMA RepliesMoves ==
  ASSUME TypesInv, NEW c \in Call, NEW reply, Replies(c, reply)
  PROVE  Goes(c, {"answer"}) /\ call'[c].told = call[c].told /\ call'[c].reply = reply
BY DEF Replies, Goes, TypesInv, CallsTyped, Connection

LEMMA InsertMoves ==
  ASSUME TypesInv, NEW c \in Call, Insert(c)
  PROVE  /\ call[c].pc = "insert" /\ Goes(c, {"enqueue", "answer"})
         /\ call'[c].pc = IF Deferred(call[c].task) THEN "answer" ELSE "enqueue"
         /\ call'[c].told = call[c].told /\ call'[c].reply = "yes"
BY DEF Insert, On, Goes, TypesInv, CallsTyped, Connection

LEMMA AnswerMoves ==
  ASSUME TypesInv, NEW c \in Call,
         \/ DispatchInvalid(c) \/ DispatchConflict(c) \/ Ask(c) \/ Enqueue(c)
         \/ Modify(c) \/ RescheduleTask(c) \/ RequeueTask(c) \/ SetPaused(c) \/ Remove(c)
  PROVE  /\ call[c].pc \in {"read", "enqueue"} /\ Goes(c, {"answer"})
         /\ Enqueue(c) \/ call[c].pc = "read"
         /\ call'[c].told = call[c].told
<1>1. \E reply : Replies(c, reply)
  BY DEF DispatchInvalid, DispatchConflict, Ask, Enqueue, Modify, RescheduleTask,
         RequeueTask, SetPaused, Remove, Apply
<1>2. call[c].pc = IF Enqueue(c) THEN "enqueue" ELSE "read"
  BY DEF DispatchInvalid, DispatchConflict, Ask, Enqueue, Modify, RescheduleTask,
         RequeueTask, SetPaused, Remove, On
<1> QED BY <1>1, <1>2, RepliesMoves

LEMMA EndMoves ==
  ASSUME TypesInv, NEW c \in Call, Reply(c) \/ Drop(c)
  PROVE  /\ call[c].pc \in Open /\ Goes(c, {"closed"})
         /\ Drop(c) \/ call[c].pc = "answer"
<1>1. PICK reply : Closed(c, reply)
  BY DEF Reply, Drop
<1>2. PICK told :
        call' = [call EXCEPT ![c] = [Unsent EXCEPT !.pc = "closed", !.op = call[c].op,
                                     !.told = told]]
  BY <1>1 DEF Closed
<1>3. call[c].pc \in Open /\ (Drop(c) \/ call[c].pc = "answer")
  BY DEF Reply, Drop, Open
<1> QED BY <1>2, <1>3 DEF Goes, Unsent, TypesInv, CallsTyped

(* A row has an author, a dispatch that has inserted it; a request that    *)
(* came after another's answer finds it closed, and one that has seen no   *)
(* row does not come upon that other's.                                    *)
AuthorInv ==
  /\ row = None <=> author = None
  /\ author # None =>
       call[author].op.kind = "dispatch" /\ call[author].pc \in {"enqueue", "answer", "closed"}
  /\ \A c \in Call : call[c].after # None => call[call[c].after].pc = "closed"
  /\ \A c \in Call : call[c].pc = "insert" /\ ~call[c].op.replace =>
       author = None \/ author # call[c].after

(* Steps that neither bring a row nor take one.                            *)
LEMMA AuthorStays ==
  ASSUME TypesInv, AuthorInv, UNCHANGED <<author, call>>, row' = None <=> row = None
  PROVE  AuthorInv'
BY DEF AuthorInv

(* A step of one request that inserts nothing keeps the author known.      *)
LEMMA AuthorGoes ==
  ASSUME TypesInv, AuthorInv, NEW c \in Call, NEW pcs \in SUBSET Pc, Goes(c, pcs),
         author' = author, row' = None <=> row = None,
         "insert" \notin pcs, call[c].pc # "closed",
         call[c].pc \in {"enqueue", "answer"} => pcs \subseteq {"enqueue", "answer", "closed"}
  PROVE  AuthorInv'
<1>1. /\ \A d \in Call : d # c => call'[d] = call[d]
      /\ call'[c].pc \in pcs /\ call'[c].op = call[c].op
      /\ call'[c].after = call[c].after \/ call'[c].after = None
  BY DEF Goes
<1>2. author \in Maybe(Call) /\ \A d \in Call : call[d].after \in Maybe(Call)
  BY DEF TypesInv, CallsTyped, Connection
<1>3. author # None =>
       /\ call'[author].op.kind = "dispatch"
       /\ call'[author].pc \in {"enqueue", "answer", "closed"}
  BY <1>1, <1>2 DEF AuthorInv, Maybe
<1>4. \A d \in Call : call'[d].after # None => call'[call'[d].after].pc = "closed"
  BY <1>1, <1>2 DEF AuthorInv, Maybe
<1>5. \A d \in Call : call'[d].pc = "insert" /\ ~call'[d].op.replace =>
        author = None \/ author # call'[d].after
  BY <1>1 DEF AuthorInv
<1> QED BY <1>3, <1>4, <1>5 DEF AuthorInv

(* Every step of a request does.                                           *)
LEMMA RequestAuthor ==
  ASSUME TypesInv, AuthorInv, NEW c \in Call, Send(c) \/ Accept(c) \/ Handle(c) \/ Drop(c)
  PROVE  AuthorInv'
<1>1. author \in Maybe(Call) /\ (\A d \in Call : call[d].after \in Maybe(Call))
      /\ None \notin Row
  BY ScheduleAssumption DEF TypesInv, CallsTyped, Connection
<1>2. CASE Send(c)
  <2>1. /\ call[c].pc = "unsent" /\ call'[c].pc = "sent"
        /\ call'[c].after = IF Acknowledged(author) THEN author ELSE None
        /\ \A d \in Call : d # c => call'[d] = call[d]
    BY <1>2, SendMoves
  <2>2. UNCHANGED <<row, author>>
    BY <1>2, RequestStays
  <2>3. Acknowledged(author) => author \in Call /\ call[author].pc = "closed"
    BY <1>1, RequestsAssumption DEF Acknowledged, TypesInv, CallsTyped, CallOK, Maybe, Word
  <2>4. author # None => author # c
    BY <2>1 DEF AuthorInv
  <2>5. author # None =>
       /\ call'[author].op.kind = "dispatch"
       /\ call'[author].pc \in {"enqueue", "answer", "closed"}
    BY <1>1, <2>1, <2>4 DEF AuthorInv, Maybe
  <2>6. \A d \in Call : call'[d].after # None => call'[call'[d].after].pc = "closed"
    BY <1>1, <2>1, <2>3 DEF AuthorInv, Maybe
  <2>7. \A d \in Call : call'[d].pc = "insert" /\ ~call'[d].op.replace =>
          author = None \/ author # call'[d].after
    BY <2>1 DEF AuthorInv
  <2> QED BY <2>2, <2>5, <2>6, <2>7 DEF AuthorInv
<1>3. CASE Accept(c)
  <2>1. call[c].pc = "sent" /\ Goes(c, {"read"}) /\ UNCHANGED <<row, author>>
    BY <1>3, AcceptMoves, RequestStays
  <2> QED BY <2>1, AuthorGoes DEF Pc, Open
<1>4. CASE DispatchReplacing(c) \/ DispatchNew(c)
  <2>1. /\ call[c].pc = "read" /\ Goes(c, {"insert"})
        /\ \/ row' = None /\ author' = None
           \/ row = None /\ UNCHANGED <<row, author>>
    BY <1>4, BuiltMoves DEF DispatchReplacing, DispatchNew
  <2>2. row' = None /\ author' = None
    BY <2>1 DEF AuthorInv
  <2>3. \A d \in Call : call'[d].after # None => call'[call'[d].after].pc = "closed"
    BY <1>1, <2>1 DEF AuthorInv, Goes, Maybe
  <2> QED BY <2>2, <2>3 DEF AuthorInv
<1>5. CASE Insert(c)
  <2>1. /\ call[c].pc = "insert" /\ Goes(c, {"enqueue", "answer"}) /\ author' = c
        /\ row' = call[c].task /\ call[c].op.kind = "dispatch"
    BY <1>5, InsertMoves DEF Insert, On
  <2>2. row' # None
    BY <1>1, <2>1, ConnectionFacts, FreshTyped DEF CallOK, TypesInv
  <2>3. \A d \in Call : call'[d].after # None =>
          call'[d].after # c /\ call'[call'[d].after].pc = "closed"
    BY <1>1, <2>1 DEF AuthorInv, Goes, Maybe
  <2>4. c # None /\ call'[c].pc \in {"enqueue", "answer"} /\ call'[c].op.kind = "dispatch"
    <3>1. None \notin Call
      BY RequestsAssumption DEF Call
    <3> QED BY <2>1, <3>1 DEF Goes
  <2>5. \A d \in Call : author' # call'[d].after
    BY <2>1, <2>3, <2>4
  <2> QED BY <2>1, <2>2, <2>3, <2>4, <2>5 DEF AuthorInv
<1>6. CASE Enqueue(c)
  <2>1. call[c].pc \in {"read", "enqueue"} /\ Goes(c, {"answer"}) /\ UNCHANGED <<row, author>>
    BY <1>6, AnswerMoves DEF Enqueue
  <2> QED BY <2>1, AuthorGoes DEF Pc, Open
<1>7. CASE DispatchInvalid(c) \/ DispatchConflict(c) \/ Ask(c)
  <2>1. call[c].pc \in {"read", "enqueue"} /\ Goes(c, {"answer"}) /\ UNCHANGED <<row, author>>
    BY <1>7, AnswerMoves, RequestStays
  <2> QED BY <2>1, AuthorGoes DEF Pc, Open
<1>8. CASE Modify(c) \/ RescheduleTask(c) \/ RequeueTask(c) \/ SetPaused(c)
  <2>1. call[c].pc \in {"read", "enqueue"} /\ Goes(c, {"answer"}) /\ UNCHANGED author
    BY <1>8, AnswerMoves DEF Modify, RescheduleTask, RequeueTask, SetPaused, Apply
  <2>2. row' = None <=> row = None
    BY <1>1, <1>8, ModifyWrites, RescheduleWrites, RequeueWrites, PauseWrites
       DEF Changed, SameTask
  <2> QED BY <2>1, <2>2, AuthorGoes DEF Pc, Open
<1>9. CASE Remove(c)
  <2>1. /\ call[c].pc \in {"read", "enqueue"} /\ Goes(c, {"answer"})
        /\ row' = None /\ author' = None
    BY <1>9, AnswerMoves DEF Remove
  <2>2. \A d \in Call : call'[d].after # None => call'[call'[d].after].pc = "closed"
    BY <1>1, <2>1 DEF AuthorInv, Goes, Maybe
  <2> QED BY <2>1, <2>2 DEF AuthorInv
<1>10. CASE Reply(c) \/ Drop(c)
  <2>1. call[c].pc \in Open /\ Goes(c, {"closed"}) /\ UNCHANGED <<row, author>>
    BY <1>10, EndMoves, RequestStays
  <2> QED BY <2>1, AuthorGoes DEF Pc, Open
<1> QED BY <1>2, <1>3, <1>4, <1>5, <1>6, <1>7, <1>8, <1>9, <1>10 DEF Handle

(* So does every step of the clock.                                        *)
LEMMA StepAuthor ==
  ASSUME TypesInv, AuthorInv, PacingStep, UNCHANGED requestVars
  PROVE  AuthorInv'
<1>1. RowKept
  BY StepTyped DEF TypesInv
<1>2. row' = None <=> row = None
  BY <1>1, ScheduleAssumption DEF RowKept, SameTask
<1> QED BY <1>2, AuthorStays DEF requestVars

(* The author of the row, in every behaviour.                              *)
LEMMA AuthorInvariant == Spec => [](TypesInv /\ AuthorInv)
<1>1. Init => TypesInv /\ AuthorInv
  BY InitTypes DEF Init, PacingInit, AuthorInv, Unsent
<1>2. TypesInv /\ AuthorInv /\ [Next]_vars => (TypesInv /\ AuthorInv)'
  <2> SUFFICES ASSUME TypesInv, AuthorInv, [Next]_vars PROVE AuthorInv'
    BY NextTypes
  <2>1. CASE UNCHANGED vars
    <3>1. UNCHANGED <<row, author, call>>
      BY <2>1 DEF vars, pacingVars, clockVars, requestVars
    <3> QED BY <3>1, AuthorStays
  <2> QED BY <2>1, StepAuthor, RequestAuthor DEF Next
<1> QED BY <1>1, <1>2, PTL DEF Spec

(* Whatever the interleaving of handlers: a dispatch without               *)
(* replace_existing that was sent after another's answer never overwrites  *)
(* that other's task, though finding the id free and the insert are two    *)
(* steps.                                                                  *)
THEOREM NeverOverwrittenUnseen == Spec => NoSilentOverwrite
<1>1. AuthorInv => (\A c \in Call : Insert(c) /\ author # None /\ ~call[c].op.replace =>
                      author # call[c].after)
  BY DEF AuthorInv, Insert, On
<1> QED BY <1>1, AuthorInvariant, PTL DEF NoSilentOverwrite

-----------------------------------------------------------------------------
(* Expressions the scan can roll on.                                       *)

(* The zone the task is defined with is one: it has occurrences of whatever*)
(* expression has some anywhere.                                           *)
ZonesAlike ==
  \A e \in Expr, z \in Zone : Occurs[e][z] # {} => Occurs[e][def.zone] # {}

(* The task does not hide its expressions from build behind a run_at.      *)
CronChecked ==
  CronExprs(def) # {} => Given(def.runAt) = None /\ Given(def.countdown) = None

(* In the zone the task came with, whichever it is in now.                 *)
ParseInv ==
  store = "sqlite" /\ row # None => \A e \in CronExprs(row) : Occurs[e][def.zone] # {}

(* An expression with a next occurrence parses.                            *)
LEMMA ComputableOccurs ==
  ASSUME NEW exprs, NEW from, NEW z, Computable(exprs, from, z)
  PROVE  \A e \in exprs : Occurs[e][z] # {}
BY DEF Computable, Matches

(* build checked the expressions it takes without a moment.                *)
LEMMA InsertParses ==
  ASSUME CronChecked, TypesInv, NEW t \in Fresh
  PROVE  \A e \in CronExprs(t) : Occurs[e][def.zone] # {}
<1>1. /\ t.created \in Start..now /\ Builds(def, t.created)
      /\ t.next \in FirstFires(def, t.created)
      /\ t = Task(def, t.next, t.created)
  BY FreshTyped DEF TypesInv
<1>2. def \in Params /\ setting \in Settings /\ t.created \in U64
  BY <1>1, PlacesFacts, FreshTyped DEF TypesInv, PlacesTyped, Row
<1>4. CronExprs(t) = CronExprs(def)
  <2>1. t.cron = def.cron /\ t.orCron = def.orCron
    BY FreshTyped DEF TypesInv
  <2> QED BY <2>1 DEF CronExprs
<1>5. CASE CronExprs(def) = {}
  BY <1>4, <1>5
<1>6. CASE CronExprs(def) # {}
  <2>1. Given(def.runAt) = None /\ Given(def.countdown) = None
    BY <1>2, <1>6 DEF CronChecked, def
  <2>2. RunAt(def, t.created) = None
    BY <2>1 DEF RunAt
  <2>3. Computable(CronExprs(def), t.created, def.zone)
    BY <1>1, <2>2 DEF Builds
  <2> QED BY <1>4, <2>3, ComputableOccurs
<1> QED BY <1>5, <1>6

(* modify with SQLite recomputes before it writes.                         *)
LEMMA ModifyParses ==
  ASSUME ZonesAlike, TypesInv, ParseInv, NEW c \in Call, Modify(c), row # None, store = "sqlite"
  PROVE  \A e \in CronExprs(row') : Occurs[e][def.zone] # {}
<1> DEFINE p == call[c].op.patch
           m == Over(p, row)
<1>1. /\ row \in Row /\ call[c].op \in setting.asks[c] /\ call[c].op.kind = "modify"
      /\ Changed(row', row, m)
  BY ModifyWrites
<1>2. row' = ModifySqlite(row, p, now).row
  BY DEF Modify, Apply
<1>3. /\ setting \in Settings /\ DOMAIN p \subseteq PatchKeys /\ m \in Row
      /\ \A k \in Field : m[k] = IF k \in DOMAIN p THEN p[k] ELSE row[k]
  BY <1>1, ConnectionFacts, PatchTyped
<1>4. CASE row' = row
  BY <1>4 DEF ParseInv
<1>5. CASE row' # row
  <2>1. Computable(PatchedExprs(p), now, row.zone)
    BY <1>2, <1>5 DEF ModifySqlite, Answer
  <2>2. \A e \in PatchedExprs(p) : Occurs[e][row.zone] # {}
    BY <2>1, ComputableOccurs
  <2>3. row.zone \in Zone /\ CronExprs(m) \subseteq Expr
    BY <1>1, <1>3, ExprsTyped
  <2>4. /\ m.cron = IF "cron" \in DOMAIN p THEN p["cron"] ELSE row.cron
        /\ m.orCron = IF "orCron" \in DOMAIN p THEN p["orCron"] ELSE row.orCron
    BY <1>3 DEF Field, PatchKeys, TriggerKeys
  <2>5. /\ PatchedExprs(p) = ({Patched(p, "cron", None)} \ {None}) \cup Patched(p, "orCron", {})
        /\ Patched(p, "cron", None) = IF "cron" \in DOMAIN p THEN p["cron"] ELSE None
        /\ Patched(p, "orCron", {}) = IF "orCron" \in DOMAIN p THEN p["orCron"] ELSE {}
    BY DEF PatchedExprs, Patched
  <2> HIDE DEF m, p
  <2>6. CronExprs(m) \subseteq CronExprs(row) \cup PatchedExprs(p)
    BY <2>4, <2>5 DEF CronExprs
  <2>7. CronExprs(row') \subseteq CronExprs(row) \cup CronExprs(m)
    BY <1>1 DEF Changed, PatchKeys, TriggerKeys, CronExprs
  <2>8. ASSUME NEW e \in Expr, e \in PatchedExprs(p) PROVE Occurs[e][def.zone] # {}
    BY <1>3, <2>2, <2>3, <2>8 DEF ZonesAlike, def
  <2>9. CronExprs(row) \subseteq Expr
    BY <1>1, ExprsTyped
  <2> QED BY <2>3, <2>6, <2>7, <2>8, <2>9 DEF ParseInv
<1> QED BY <1>4, <1>5

(* No request leaves an expression that does not parse.                    *)
LEMMA RequestParses ==
  ASSUME ZonesAlike, CronChecked, TypesInv, ParseInv,
         NEW c \in Call, Send(c) \/ Accept(c) \/ Handle(c) \/ Drop(c)
  PROVE  ParseInv'
<1>0. def' = def /\ store' = store /\ setting \in Settings
  BY RequestFrame DEF def, store, TypesInv, PlacesTyped
<1>1. CASE row' = row \/ row' = None
  BY <1>0, <1>1 DEF ParseInv
<1>2. CASE row # None /\ row'.cron = row.cron /\ row'.orCron = row.orCron
  BY <1>0, <1>2 DEF ParseInv, CronExprs
<1>3. CASE Insert(c)
  <2>1. row' = call[c].task /\ call[c].task \in Fresh
    BY <1>3, ConnectionFacts DEF Insert, On, CallOK
  <2> QED BY <1>0, <2>1, InsertParses DEF ParseInv
<1>4. CASE Modify(c) /\ row # None
  BY <1>0, <1>4, ModifyParses DEF ParseInv
<1>5. CASE RescheduleTask(c) /\ row # None
  <2>1. /\ row \in Row /\ KeptBut(row', row, {"cron", "next"})
        /\ row' = row \/ \E e \in Expr : Computable({e}, now, row.zone) /\ row'.cron = e
    BY <1>5, RescheduleWrites
  <2>2. CASE row' # row
    <3>1. PICK e \in Expr : Computable({e}, now, row.zone) /\ row'.cron = e
      BY <2>1, <2>2
    <3>2. row'.orCron = row.orCron
      BY <2>1 DEF KeptBut, Field, PatchKeys, TriggerKeys
    <3>3. Occurs[e][row.zone] # {} /\ row.zone \in Zone
      BY <2>1, <3>1, ComputableOccurs, ExprsTyped
    <3>4. Occurs[e][def.zone] # {}
      BY <1>0, <3>3 DEF ZonesAlike, def
    <3>5. CronExprs(row') \subseteq CronExprs(row) \cup {e}
      BY <3>1, <3>2 DEF CronExprs
    <3> QED BY <1>0, <1>5, <3>4, <3>5 DEF ParseInv
  <2> QED BY <1>1, <2>2
<1>6. CASE RequeueTask(c) /\ row # None
  <2>1. SameTask(row', row)
    BY <1>6, RequeueWrites
  <2> QED BY <1>2, <1>6, <2>1, SameFields
<1>7. CASE SetPaused(c) /\ row # None
  <2>1. KeptBut(row', row, {"paused"})
    BY <1>7, PauseWrites
  <2> QED BY <1>2, <1>7, <2>1 DEF KeptBut, Field, PatchKeys, TriggerKeys
<1>8. CASE (Modify(c) \/ RescheduleTask(c) \/ RequeueTask(c) \/ SetPaused(c)) /\ row = None
  BY <1>1, <1>8, ModifyWrites, RescheduleWrites, RequeueWrites, PauseWrites
<1>9. CASE \/ Send(c) \/ Accept(c) \/ DispatchInvalid(c) \/ DispatchConflict(c) \/ Ask(c)
           \/ Reply(c) \/ Drop(c)
  BY <1>1, <1>9, RequestStays
<1>10. CASE DispatchReplacing(c) \/ DispatchNew(c) \/ Enqueue(c) \/ Remove(c)
  BY <1>1, <1>10 DEF DispatchReplacing, DispatchNew, Enqueue, Remove
<1> QED BY <1>3, <1>4, <1>5, <1>6, <1>7, <1>8, <1>9, <1>10 DEF Handle

(* No step of the clock writes an expression.                              *)
LEMMA StepParses ==
  ASSUME TypesInv, ParseInv, PacingStep
  PROVE  ParseInv'
<1>1. def' = def /\ store' = store
  BY SettingFixed DEF def, store
<1>2. row' = row \/ (row # None /\ SameTask(row', row))
  BY StepTyped DEF RowKept, TypesInv
<1> QED BY <1>1, <1>2, SameFields DEF ParseInv

(* With SQLite no sequence of dispatches, reschedules and modifications    *)
(* leaves a row whose expressions have no occurrence in its zone, because  *)
(* modify computes before it writes.                                       *)
THEOREM ScheduleAlwaysParses == Spec /\ ZonesAlike /\ CronChecked => []ScheduleParses
<1> DEFINE Checked == ZonesAlike /\ CronChecked
<1>1. Init => TypesInv /\ ParseInv
  BY InitTypes DEF Init, PacingInit, ParseInv
<1>2. TypesInv /\ ParseInv /\ Checked /\ [Next]_vars => (TypesInv /\ ParseInv /\ Checked)'
  <2> SUFFICES ASSUME TypesInv, ParseInv, Checked, [Next]_vars PROVE ParseInv'
    BY NextTypes, SettingStays DEF ZonesAlike, CronChecked, def
  <2>1. CASE UNCHANGED vars
    BY <2>1 DEF vars, pacingVars, clockVars, ParseInv, def, store
  <2> QED BY <2>1, StepParses, RequestParses DEF Next
<1>3. ParseInv => ScheduleParses
  BY DEF ParseInv, ScheduleParses
<1> QED BY <1>1, <1>2, <1>3, PTL DEF Spec

-----------------------------------------------------------------------------
(* Occurrences.                                                            *)

(* A jitter that puts no occurrence beyond the width of a time.            *)
Fits(jitter) ==
  \A e \in Expr, z \in Zone : \A t \in Occurs[e][z] : t + jitter <= U64Max

(* Every jitter a client gives fits.                                       *)
JitterFits ==
  /\ Fits(def.jitter)
  /\ \A c \in Call : \A op \in setting.asks[c] :
       op.kind = "modify" /\ "jitter" \in DOMAIN op.patch => Fits(op.patch["jitter"])

(* r waits for an occurrence after due, and is not due before it.          *)
Due(r, due) ==
  \E e \in CronExprs(r) : \E t \in Occurs[e][r.zone] :
    due < t /\ (r.next # None => t <= r.next)

(* The row waits for an occurrence after the one it was last fired for.    *)
DueInv ==
  /\ lastDue # None => lastDue <= now
  /\ row # None => Fits(row.jitter)
  /\ lastDue # None /\ row # None => Due(row, lastDue)

(* A task that stays, with its next_fire, or without one, or with the last *)
(* there is.                                                               *)
LEMMA DueSame ==
  ASSUME NEW r \in Row, NEW q, CronExprs(q) = CronExprs(r), q.zone = r.zone,
         q.next \in {r.next, None, U64Max}, NEW due \in Nat, Due(r, due)
  PROVE  Due(q, due)
<1>1. PICK e \in CronExprs(r) : \E t \in Occurs[e][r.zone] :
        due < t /\ (r.next # None => t <= r.next)
  BY DEF Due
<1>2. PICK t \in Occurs[e][r.zone] : due < t /\ (r.next # None => t <= r.next)
  BY <1>1
<1>3. e \in Expr /\ r.zone \in Zone
  BY ExprsTyped
<1>4. t \in U64
  BY <1>2, <1>3, ScheduleAssumption
<1>5. t <= U64Max
  BY <1>4, WidthTyped DEF U64
<1>6. q.next # None => t <= q.next
  BY <1>2, <1>5
<1> QED BY <1>1, <1>2, <1>6 DEF Due

(* What does not touch the trigger leaves it due.                          *)
LEMMA DueStays ==
  ASSUME PlacesTyped, DueInv, now' \in {now, now + 1}, lastDue' \in {lastDue, None},
         \/ row' = row
         \/ row # None /\ SameTask(row', row)
            /\ (lastDue' = None \/ row'.next \in {row.next, None, U64Max})
  PROVE  DueInv'
<1>1. lastDue' # None => lastDue' \in Nat /\ lastDue' <= now'
  BY PlacesFacts DEF DueInv, PlacesTyped, Maybe
<1>2. CASE row' = row
  BY <1>1, <1>2 DEF DueInv
<1>3. CASE row # None /\ SameTask(row', row)
            /\ (lastDue' = None \/ row'.next \in {row.next, None, U64Max})
  <2>1. row \in Row /\ row'.jitter = row.jitter /\ row'.zone = row.zone
        /\ CronExprs(row') = CronExprs(row)
    BY <1>3, PlacesFacts, SameFields
  <2>2. lastDue' # None => lastDue' = lastDue /\ Due(row', lastDue')
    BY <1>1, <1>3, <2>1, DueSame DEF DueInv
  <2> QED BY <1>1, <1>3, <2>1, <2>2 DEF DueInv
<1> QED BY <1>2, <1>3

(* A row that has rolled on.                                               *)
LEMMA RolledDue ==
  ASSUME PlacesTyped, NEW r \in Row, Fits(r.jitter), NEW j \in Jitters(r.jitter),
         CronExprs(r) # {}, Computable(CronExprs(r), now + 1, r.zone),
         NEW q, CronExprs(q) = CronExprs(r), q.zone = r.zone,
         q.next = WrapAt(MinNextFire(CronExprs(r), now + 1, r.zone) + j),
         NEW due \in Nat, due <= now
  PROVE  Due(q, due)
<1> DEFINE next == MinNextFire(CronExprs(r), now + 1, r.zone)
<1>1. now \in Nat /\ now + 1 \in Nat /\ j \in Nat /\ CronExprs(r) \in SUBSET Expr
      /\ r.zone \in Zone /\ r.jitter \in Nat
  BY PlacesFacts, TimesTyped
<1>2. /\ next \in U64 /\ next > now + 1 /\ \E e \in CronExprs(r) : next \in Occurs[e][r.zone]
  BY <1>1, NextFireTyped
<1> HIDE DEF next
<1>3. next \in Nat
  BY <1>2, PlacesFacts
<1>4. j <= r.jitter
  BY <1>1 DEF Jitters
<1>5. next + r.jitter <= U64Max
  BY <1>1, <1>2 DEF Fits
<1>6. next + j \in Nat /\ next + j <= U64Max
  BY <1>1, <1>3, <1>4, <1>5, PlacesFacts
<1>7. q.next = next + j
  BY <1>6, WrapTyped DEF next
<1>8. due < next /\ next <= q.next
  BY <1>1, <1>2, <1>3, <1>7
<1> QED BY <1>2, <1>8 DEF Due

(* Rolling on to the occurrence after now leaves the row due for it.       *)
LEMMA CronDue ==
  ASSUME PlacesTyped, DueInv, ScanCron
  PROVE  DueInv'
<1>1. /\ row # None /\ row \in Row /\ CronExprs(row) # {} /\ now' = now
      /\ Fits(row.jitter)
  BY CronWrites DEF ScanCron, DueInv
<1>2. CASE ~Computable(CronExprs(row), now + 1, row.zone)
  BY <1>1, <1>2, CronWrites, DueStays
<1>3. CASE Computable(CronExprs(row), now + 1, row.zone)
  <2>1. PICK j \in Jitters(row.jitter) : SameTask(row', row) /\ row'.next = Rolled(j)
    BY <1>3, CronWrites DEF Moved
  <2>2. lastDue' \in Nat /\ lastDue' <= now
    BY <1>3, CronWrites, PlacesFacts DEF DueInv, PlacesTyped, Maybe
  <2>3. CronExprs(row') = CronExprs(row) /\ row'.zone = row.zone /\ row'.jitter = row.jitter
    BY <1>1, <2>1, SameFields
  <2>4. row'.next = WrapAt(MinNextFire(CronExprs(row), now + 1, row.zone) + j)
    BY <2>1 DEF Rolled
  <2>5. Due(row', lastDue')
    BY <1>1, <1>3, <2>2, <2>3, <2>4, RolledDue
  <2> QED BY <1>1, <2>2, <2>3, <2>5 DEF DueInv
<1> QED BY <1>2, <1>3

(* So does every step of the clock,                                        *)
LEMMA StepDue ==
  ASSUME PlacesTyped, DueInv, PacingStep
  PROVE  DueInv'
<1>1. CASE Tick \/ Wake \/ ProcessGone \/ ProcessEarly \/ ProcessOverlap
  <2>1. row' = row /\ lastDue' = lastDue /\ now' \in {now, now + 1}
    BY <1>1 DEF Tick, Wake, ProcessGone, ProcessEarly, ProcessOverlap, Drain
  <2> QED BY <2>1, DueStays
<1>2. CASE ScanExpires \/ ProcessExpired
  BY <1>2, ExpireWrites, DueStays DEF Moved
<1>3. CASE ScanRunAt
  <2>1. lastDue' = lastDue /\ now' = now
    BY <1>3 DEF ScanRunAt
  <2> QED BY <1>3, <2>1, RunAtWrites, DueStays DEF Moved
<1>4. CASE ScanInterval
  <2>1. lastDue' = lastDue /\ now' = now
    BY <1>4 DEF ScanInterval
  <2>2. lastDue = None
    BY <1>4, IntervalWrites DEF DueInv, Due
  <2> QED BY <1>4, <2>1, <2>2, IntervalWrites, DueStays DEF Moved
<1>5. CASE ScanCron
  BY <1>5, CronDue
<1>6. CASE ScanRetries
  <2>1. lastDue' = lastDue /\ now' = now
    BY <1>6 DEF ScanRetries
  <2> QED BY <1>6, <2>1, RetriesWrites, DueStays DEF Moved
<1>7. CASE ProcessLimited
  <2>1. now' = now
    BY <1>7 DEF ProcessLimited, Drain
  <2> QED BY <1>7, <2>1, LimitedWrites, DueStays DEF Moved
<1>8. CASE ProcessStart
  <2>1. lastDue' = lastDue /\ now' = now
    BY <1>8 DEF ProcessStart, Drain
  <2> QED BY <1>8, <2>1, StartWrites, DueStays DEF Moved
<1>9. ASSUME NEW code, Finish(code) PROVE DueInv'
  <2>1. now' = now
    BY <1>9, FinishWrites
  <2>2. row = None => row' = row /\ lastDue' = lastDue
    BY <1>9, FinishWrites
  <2>3. row # None => SameTask(row', row) /\ \/ lastDue' = None
                                             \/ lastDue' = lastDue /\ row'.next = row.next
    BY <1>9, FinishWrites DEF Moved
  <2> QED BY <2>1, <2>2, <2>3, DueStays
<1> QED BY <1>1, <1>2, <1>3, <1>4, <1>5, <1>6, <1>7, <1>8, <1>9 DEF PacingStep

(* A task that has just been inserted.                                     *)
LEMMA InsertDue ==
  ASSUME JitterFits, TypesInv, DueInv, NEW c \in Call, Insert(c)
  PROVE  DueInv'
<1> DEFINE t == call[c].task
<1>1. /\ now' = now /\ row' = t /\ t \in Fresh
      /\ lastDue' = IF CronExprs(t) = {} \/ t.runAt # None THEN None ELSE t.created
  BY ConnectionFacts DEF Insert, On, CallOK
<1> HIDE DEF t
<1>2. /\ t \in Row /\ t.created \in Start..now
      /\ Builds(def, t.created) /\ t.next \in FirstFires(def, t.created)
      /\ t.runAt = RunAt(def, t.created)
      /\ t.cron = def.cron /\ t.orCron = def.orCron /\ t.zone = def.zone
      /\ t.jitter = def.jitter
  BY <1>1, FreshTyped DEF TypesInv
<1>3. def \in Params /\ setting \in Settings /\ now \in Nat /\ Start \in Nat
  BY PlacesFacts DEF TypesInv, PlacesTyped
<1>4. Fits(t.jitter)
  BY <1>2, <1>3 DEF JitterFits, def
<1>5. t.created \in Nat /\ t.created <= now /\ t.created \in U64
  BY <1>2, <1>3 DEF Row
<1>6. ASSUME CronExprs(t) # {}, t.runAt = None PROVE Due(t, t.created)
  <2> DEFINE exprs == CronExprs(t)
             base == MinNextFire(exprs, t.created, t.zone)
  <2>1. exprs = CronExprs(def) /\ exprs \in SUBSET Expr /\ t.zone \in Zone
    BY <1>2, ExprsTyped DEF CronExprs
  <2>2. Computable(exprs, t.created, t.zone) /\ RunAt(def, t.created) = None
    BY <1>2, <1>6, <2>1 DEF Builds
  <2>3. PICK j \in Jitters(def.jitter) : t.next = Saturating(base + j)
    BY <1>2, <1>6, <2>1, <2>2 DEF FirstFires
  <2>4. base \in U64 /\ base > t.created /\ \E e \in exprs : base \in Occurs[e][t.zone]
    BY <1>5, <1>6, <2>1, <2>2, NextFireTyped
  <2>5. j \in Nat /\ base \in Nat /\ base <= U64Max
    BY <1>2, <2>3, <2>4, PlacesFacts, TimesTyped DEF TypesInv
  <2> HIDE DEF base
  <2>6. base <= t.next
    BY <2>3, <2>5 DEF Saturating
  <2> QED BY <2>4, <2>6 DEF Due
<1> QED BY <1>1, <1>4, <1>5, <1>6 DEF DueInv

(* An operation of one write.                                              *)
LEMMA AppliesDue ==
  ASSUME PlacesTyped, DueInv, row # None, row' \in Row, now' = now,
         lastDue' = OnSchedule(row'), Fits(row'.jitter)
  PROVE  DueInv'
<1>1. row \in Row /\ now \in Nat
  BY PlacesFacts
<1>2. CASE \A k \in {"cron", "orCron", "zone", "next"} : row'[k] = row[k]
  <2>1. lastDue' = lastDue
    BY <1>2 DEF OnSchedule
  <2>2. CronExprs(row') = CronExprs(row) /\ row'.zone = row.zone /\ row'.next = row.next
    BY <1>2 DEF CronExprs
  <2>3. lastDue # None => lastDue \in Nat /\ lastDue <= now
    BY PlacesFacts DEF PlacesTyped, DueInv, Maybe
  <2>4. lastDue # None => Due(row', lastDue)
    BY <1>1, <2>2, <2>3, DueSame DEF DueInv
  <2> QED BY <2>1, <2>3, <2>4 DEF DueInv
<1>3. CASE ~(\A k \in {"cron", "orCron", "zone", "next"} : row'[k] = row[k])
  <2> DEFINE exprs == CronExprs(row')
             on == exprs # {} /\ Computable(exprs, now, row'.zone)
                   /\ row'.next = MinNextFire(exprs, now, row'.zone)
  <2>1. lastDue' = IF on THEN now ELSE None
    BY <1>3 DEF OnSchedule
  <2>2. CASE ~on
    BY <2>1, <2>2 DEF DueInv
  <2>3. CASE on
    <3>1. exprs \in SUBSET Expr /\ row'.zone \in Zone
      BY ExprsTyped
    <3>2. /\ row'.next \in U64 /\ row'.next > now
          /\ \E e \in exprs : row'.next \in Occurs[e][row'.zone]
      BY <1>1, <2>3, <3>1, NextFireTyped
    <3>3. row'.next \in Nat
      BY <3>2, PlacesFacts
    <3>4. Due(row', now)
      BY <1>1, <3>2, <3>3 DEF Due
    <3> QED BY <1>1, <2>1, <2>3, <3>4 DEF DueInv
  <2> QED BY <2>2, <2>3
<1> QED BY <1>2, <1>3

(* and every request.                                                      *)
LEMMA RequestDue ==
  ASSUME JitterFits, TypesInv, DueInv,
         NEW c \in Call, Send(c) \/ Accept(c) \/ Handle(c) \/ Drop(c)
  PROVE  DueInv'
<1>0. now' = now /\ PlacesTyped
  BY RequestFrame DEF TypesInv
<1>1. CASE row' \in {row, None} /\ lastDue' = lastDue
  BY <1>0, <1>1 DEF DueInv
<1>2. CASE Insert(c)
  BY <1>2, InsertDue
<1>3. CASE Modify(c) /\ row # None
  <2> DEFINE op == call[c].op
             m == Over(op.patch, row)
  <2>1. /\ row \in Row /\ op \in setting.asks[c] /\ op.kind = "modify"
        /\ Changed(row', row, m) /\ lastDue' = OnSchedule(row') /\ setting \in Settings
    BY <1>3, ModifyWrites, ConnectionFacts DEF Apply
  <2>2. m.jitter = IF "jitter" \in DOMAIN op.patch THEN op.patch["jitter"] ELSE row.jitter
    BY <2>1, PatchTyped DEF Field, PatchKeys, TriggerKeys
  <2>3. Fits(m.jitter)
    BY <1>3, <2>1, <2>2 DEF JitterFits, DueInv
  <2> HIDE DEF m
  <2>4. row' \in Row /\ row'.jitter \in {row.jitter, m.jitter}
    BY <2>1 DEF Changed, PatchKeys, TriggerKeys
  <2>5. Fits(row'.jitter)
    BY <1>3, <2>3, <2>4 DEF DueInv
  <2> QED BY <1>0, <1>3, <2>1, <2>4, <2>5, AppliesDue
<1>4. CASE RescheduleTask(c) /\ row # None
  <2>1. /\ row' \in Row /\ KeptBut(row', row, {"cron", "next"})
        /\ lastDue' = OnSchedule(row')
    BY <1>4, RescheduleWrites DEF Apply
  <2>2. row'.jitter = row.jitter
    BY <2>1 DEF KeptBut, Field, PatchKeys, TriggerKeys
  <2> QED BY <1>0, <1>4, <2>1, <2>2, AppliesDue DEF DueInv
<1>5. CASE RequeueTask(c) /\ row # None
  <2>1. SameTask(row', row) /\ row \in Row /\ lastDue' = OnSchedule(row')
    BY <1>5, RequeueWrites DEF Apply
  <2>2. row' \in Row /\ row'.jitter = row.jitter
    BY <2>1, SameFields DEF SameTask
  <2> QED BY <1>0, <1>5, <2>1, <2>2, AppliesDue DEF DueInv
<1>6. CASE SetPaused(c) /\ row # None
  <2>1. row' \in Row /\ KeptBut(row', row, {"paused"}) /\ lastDue' = OnSchedule(row')
    BY <1>6, PauseWrites DEF Apply
  <2>2. row'.jitter = row.jitter
    BY <2>1 DEF KeptBut, Field, PatchKeys, TriggerKeys
  <2> QED BY <1>0, <1>6, <2>1, <2>2, AppliesDue DEF DueInv
<1>7. CASE (Modify(c) \/ RescheduleTask(c) \/ RequeueTask(c) \/ SetPaused(c)) /\ row = None
  <2>1. row' = None
    BY <1>7, ModifyWrites, RescheduleWrites, RequeueWrites, PauseWrites
  <2>2. lastDue' \in {lastDue, now, None}
    BY <1>0, <1>7, OnScheduleTyped DEF Modify, RescheduleTask, RequeueTask, SetPaused, Apply
  <2> QED BY <1>0, <2>1, <2>2, PlacesFacts DEF DueInv
<1>8. CASE \/ Send(c) \/ Accept(c) \/ DispatchInvalid(c) \/ DispatchConflict(c) \/ Ask(c)
           \/ Reply(c) \/ Drop(c)
  BY <1>1, <1>8, RequestStays
<1>9. CASE DispatchReplacing(c) \/ DispatchNew(c) \/ Enqueue(c) \/ Remove(c)
  BY <1>1, <1>9 DEF DispatchReplacing, DispatchNew, Enqueue, Remove
<1> QED BY <1>2, <1>3, <1>4, <1>5, <1>6, <1>7, <1>8, <1>9 DEF Handle

(* A cron task is never fired twice for one occurrence nor once for none,  *)
(* however late the scan comes and whatever the clients change in between. *)
THEOREM FiredOncePerOccurrence == Spec /\ JitterFits => OccurrenceOnce
<1>1. Init => TypesInv /\ DueInv
  BY InitTypes DEF Init, PacingInit, DueInv
<1>2. TypesInv /\ DueInv /\ JitterFits /\ [Next]_vars => (TypesInv /\ DueInv /\ JitterFits)'
  <2> SUFFICES ASSUME TypesInv, DueInv, JitterFits, [Next]_vars PROVE DueInv'
    BY NextTypes, SettingStays DEF JitterFits, def
  <2>1. CASE UNCHANGED vars
    BY <2>1 DEF vars, pacingVars, clockVars, DueInv
  <2> QED BY <2>1, StepDue, RequestDue DEF Next, TypesInv
<1>3. TypesInv /\ DueInv =>
        (ScanCron /\ lastDue # None /\ waiting' # waiting =>
           \E e \in CronExprs(row) : \E t \in Occurs[e][row.zone] : lastDue < t /\ t <= now)
  <2> SUFFICES ASSUME TypesInv, DueInv, ScanCron, lastDue # None
               PROVE  \E e \in CronExprs(row) : \E t \in Occurs[e][row.zone] :
                        lastDue < t /\ t <= now
    OBVIOUS
  <2>1. row # None /\ row \in Row /\ row.next # None /\ row.next <= now
    BY CronWrites DEF ScanCron, TypesInv
  <2>2. PICK e \in CronExprs(row) : \E t \in Occurs[e][row.zone] : lastDue < t /\ t <= row.next
    BY <2>1 DEF DueInv, Due
  <2>3. \A t \in Occurs[e][row.zone] : t \in Nat
    BY <2>1, <2>2, ExprsTyped, ScheduleAssumption, PlacesFacts DEF TypesInv
  <2>4. row.next \in Nat /\ now \in Nat
    BY <2>1, PlacesFacts, TimesTyped DEF TypesInv
  <2> QED BY <2>1, <2>2, <2>3, <2>4
<1> QED BY <1>1, <1>2, <1>3, PTL DEF Spec, OccurrenceOnce

-----------------------------------------------------------------------------
(* Carried on.                                                             *)

(* Defined with a moment of its own, or to come back.                      *)
Timed(b) == Given(b.runAt) # None \/ Given(b.countdown) # None
Repeated(b) == b.cron # None \/ Given(b.interval) # None
Repeats(r) == r.cron # None \/ r.interval # None

(* What the clients of a setting may patch.                                *)
Patches(x) ==
  UNION {{op.patch : op \in {o \in x.asks[c] : o.kind = "modify"}} : c \in Call}

NeverExpires(x) == x.task.expires = 0 /\ \A p \in Patches(x) : "expires" \notin DOMAIN p

(* A patch of the trigger is one of a task that came back before.          *)
KeepsKind(x) ==
  \A p \in Patches(x) : DOMAIN p \cap {"cron", "interval"} # {} => Repeated(x.task)

(* Clients that change a task's trigger and take none away, or give none   *)
(* to a task that expires; or_cron is no company for an interval; and a    *)
(* task of a moment has no days off and its retries come before the end of *)
(* time.                                                                   *)
Steady(x) ==
  /\ NeverExpires(x) \/ KeepsKind(x)
  /\ x.task.orCron # {} => Given(x.task.interval) = None
  /\ Timed(x.task) => /\ x.task.skip = {} /\ x.task.runAt # U64Max
                      /\ Horizon + x.task.retryDelay * BackoffCap < U64Max
                      /\ x.task.countdown # None => Horizon + x.task.countdown < U64Max
  /\ \A p \in Patches(x) :
       /\ DOMAIN p \cap {"runAt", "orCron"} = {}
       /\ "cron" \in DOMAIN p => p["cron"] # None
       /\ "interval" \in DOMAIN p => p["interval"] # None /\ x.task.orCron = {}
       /\ Timed(x.task) => DOMAIN p \cap {"skip", "retryDelay"} = {}

(* The setting is steady, and no occurrence is the last second there is.   *)
Steadfast ==
  /\ Steady(setting)
  /\ \A e \in Expr, z \in Zone : U64Max \notin Occurs[e][z]

(* What stays true of a row, and of the copy an execution works with.      *)
Steadies(x, r) ==
  /\ r.orCron = x.task.orCron /\ (r.orCron # {} => r.interval = None)
  /\ r.runAt # None <=> Timed(x.task)
  /\ r.runAt # U64Max
  /\ Timed(x.task) => r.skip = {} /\ r.retryDelay = x.task.retryDelay
  /\ KeepsKind(x) => (Repeats(r) <=> Repeated(x.task))
  /\ NeverExpires(x) => r.expires = 0 /\ r.state # "expired"

(* A modification in memory may leave expressions that do not parse.       *)
Rolls == store = "memory" => Computable(CronExprs(row), now, row.zone)

(* The row and the execution's copy are steady; nothing ends a row that is *)
(* under way; and one that rolls on has a next_fire.                       *)
Stands ==
  /\ row # None => Steadies(setting, row)
  /\ exec # None => Steadies(setting, exec)
  /\ row # None /\ exec # None => row.state \notin {"success", "failed"}
  /\ row # None /\ row.runAt = None /\ row.cron # None /\ Rolls => row.next # None

(* A scan will find it due.                                                *)
Awaits(r) ==
  \/ r.next # None /\ (r.runAt # None => r.next # U64Max)
  \/ CronExprs(r) = {} /\ r.interval # None

(* Something carries the row on.                                           *)
Held == waiting > 0 \/ timers # {} \/ Awaits(row)

(* Said, or about to be.                                                   *)
Promised ==
  author # None /\ \/ call[author].told = "yes"
                   \/ call[author].pc = "answer" /\ call[author].reply = "yes"

(* An execution of a task that comes back leaves it to what held it before.*)
Claim ==
  Promised /\ row # None /\ row.state \in {"pending", "running"} /\ Rolls
    /\ (row.runAt = None \/ ~Repeats(row))
  => Held \/ (exec # None /\ ~Repeats(exec))

LEMMA SteadySetting == Steadfast => Steady(setting)
BY DEF Steadfast

(* Expressions that roll on have rolled on before.                         *)
LEMMA RollsBack ==
  ASSUME PlacesTyped, row # None, UNCHANGED setting, now' \in {now, now + 1},
         CronExprs(row') = CronExprs(row), row'.zone = row.zone, Rolls'
  PROVE  Rolls
<1>1. now \in Nat /\ CronExprs(row) \in SUBSET Expr /\ row.zone \in Zone
  BY PlacesFacts, ExprsTyped
<1>2. \A e \in CronExprs(row) : \A t \in Occurs[e][row.zone] : t \in Nat
  BY <1>1, ScheduleAssumption, PlacesFacts
<1>3. \A e \in CronExprs(row) : Matches(e, now', row.zone) \subseteq Matches(e, now, row.zone)
  BY <1>1, <1>2 DEF Matches
<1>4. Computable(CronExprs(row), now', row.zone) => Computable(CronExprs(row), now, row.zone)
  BY <1>3 DEF Computable
<1> QED BY <1>4 DEF Rolls, store

(* The task as it was defined, wherever it stands.                         *)
LEMMA SteadySame ==
  ASSUME NEW r \in Row, NEW q, SameTask(q, r), NEW x, Steadies(x, r),
         q.state = "expired" => r.state = "expired" \/ r.expires # 0
  PROVE  Steadies(x, q)
BY SameFields DEF Steadies, Repeats

(* A step that keeps the task keeps it steady.                             *)
LEMMA StandsKept ==
  ASSUME PlacesTyped, Stands, UNCHANGED setting, now' \in {now, now + 1},
         row # None, SameTask(row', row), exec' \in {exec, row, None},
         row'.state = "expired" => row.state = "expired" \/ row.expires # 0,
         exec' # None => row'.state \notin {"success", "failed"},
         row'.next # None \/ row'.next = row.next \/ row.cron = None
  PROVE  Stands'
<1>1. row \in Row /\ row'.runAt = row.runAt /\ row'.cron = row.cron /\ row'.zone = row.zone
      /\ CronExprs(row') = CronExprs(row)
  BY PlacesFacts, SameFields
<1>2. Steadies(setting', row')
  BY <1>1, SteadySame DEF Stands
<1>3. exec' # None => Steadies(setting', exec')
  BY DEF Stands
<1>4. row'.runAt = None /\ row'.cron # None /\ Rolls' => row'.next # None
  BY <1>1, RollsBack DEF Stands
<1> QED BY <1>2, <1>3, <1>4 DEF Stands

(* A cron or an interval task awaits its trigger.                          *)
LEMMA RepeatsAwaits ==
  ASSUME PlacesTyped, Stands, row # None, Rolls, Repeats(row), row.runAt = None
  PROVE  Awaits(row)
<1>1. CASE row.cron # None
  BY <1>1 DEF Stands, Awaits
<1>2. CASE row.cron = None /\ row.interval # None
  BY <1>2 DEF Stands, Steadies, Repeats, Awaits, CronExprs
<1> QED BY <1>1, <1>2 DEF Repeats

(* Awaiting is a matter of the task and its next_fire.                     *)
LEMMA AwaitsSame ==
  ASSUME NEW r \in Row, NEW q, SameTask(q, r), q.next = r.next, Awaits(r)
  PROVE  Awaits(q)
BY SameFields DEF Awaits

(* Steps that leave the claim to what holds the task before and after.     *)
LEMMA ClaimKept ==
  ASSUME PlacesTyped, Claim, UNCHANGED <<setting, call, author>>, now' \in {now, now + 1},
         row # None, SameTask(row', row),
         row'.state \in {"pending", "running"} =>
           Held' \/ /\ row.state \in {"pending", "running"}
                    /\ Held => Held'
                    /\ exec' = exec
  PROVE  Claim'
<1>1. /\ row \in Row /\ row'.runAt = row.runAt /\ row'.zone = row.zone
      /\ CronExprs(row') = CronExprs(row) /\ Repeats(row') = Repeats(row)
  BY PlacesFacts, SameFields DEF Repeats
<1>2. Promised' => Promised
  BY DEF Promised
<1>3. Rolls' => Rolls
  BY <1>1, RollsBack
<1> QED BY <1>1, <1>2, <1>3 DEF Claim

(* Sums of natural numbers are ordered.                                    *)
LEMMA SumsOrdered ==
  \A a, d, h, p, u \in Nat : a <= h /\ d <= p /\ h + p < u => a + d \in Nat /\ a + d < u
OBVIOUS

(* A failed task whose retry is to come before the end of time.            *)
LEMMA RetryBounded ==
  ASSUME NEW t \in Row, NEW at \in Nat, at <= Horizon,
         Horizon + t.retryDelay * BackoffCap < U64Max
  PROVE  NextRetry(t, at) # U64Max
<1>1. t.retryDelay \in Nat /\ BackoffCap \in Nat \ {0} /\ U64Max \in Nat /\ Horizon \in Nat
  BY ScheduleAssumption, PacingAssumption, WidthTyped DEF Row, U64
<1>2. t.retryDelay * BackoffCap \in Nat /\ t.retryDelay <= t.retryDelay * BackoffCap
  <2>1. \A m, n \in Nat : n # 0 => m * n \in Nat /\ m <= m * n
    OBVIOUS
  <2> QED BY <1>1, <2>1
<1>3. BackoffDelay(t) \in Nat /\ BackoffDelay(t) <= t.retryDelay * BackoffCap
  <2>1. BackoffDelay(t) \in Nat
    BY RetryTyped, WidthTyped DEF U64
  <2>2. CASE ~t.backoff
    BY <1>2, <2>1, <2>2 DEF BackoffDelay
  <2>3. CASE t.backoff
    <3> DEFINE a == Saturating(t.retryDelay * Factor(t.attempts))
               b == Saturating(t.retryDelay * BackoffCap)
    <3>1. Factor(t.attempts) \in Nat /\ t.attempts \in Nat
      BY WidthTyped DEF Factor, Row
    <3>2. t.retryDelay * Factor(t.attempts) \in Nat
      BY <1>1, <3>1
    <3>3. a \in Nat /\ b \in Nat /\ b <= t.retryDelay * BackoffCap
      BY <1>2, <3>2, SaturatingTyped, WidthTyped DEF U64
    <3>4. BackoffDelay(t) = Min({a, b})
      BY <2>3 DEF BackoffDelay
    <3> HIDE DEF a, b
    <3>5. Min({a, b}) <= b
      BY <3>3, MinIsLeast
    <3> QED BY <1>2, <2>1, <3>3, <3>4, <3>5
  <2> QED BY <2>2, <2>3
<1>4. at + BackoffDelay(t) \in Nat /\ at + BackoffDelay(t) < U64Max
  <2> DEFINE p == t.retryDelay * BackoffCap
             d == BackoffDelay(t)
  <2>1. p \in Nat /\ d \in Nat /\ d <= p /\ Horizon + p < U64Max
    BY <1>2, <1>3
  <2> HIDE DEF p, d
  <2>2. at + d \in Nat /\ at + d < U64Max
    BY <1>1, <2>1, SumsOrdered
  <2> QED BY <2>2 DEF d
<1> QED BY <1>1, <1>4, SaturatingTyped DEF NextRetry

(* Enqueueing an id leaves the queue not empty.                            *)
LEMMA EnqueuedHolds == PlacesTyped => Enqueued > 0
BY PlacesFacts DEF Enqueued, Min2, PlacesTyped

(* A task without a row needs nobody.                                      *)
LEMMA NoneStands ==
  ASSUME Stands, UNCHANGED setting, row' = None, exec' \in {exec, None}
  PROVE  Stands'
BY DEF Stands

(* Every step of the clock leaves the row steady.                          *)
LEMMA StepStands ==
  ASSUME PlacesTyped, Stands, PacingStep
  PROVE  Stands'
<1>0. UNCHANGED setting /\ now' \in {now, now + 1}
  BY DEF PacingStep, Tick, Wake, ScanExpires, ScanRunAt, ScanInterval, ScanCron, ScanRetries,
         ProcessGone, ProcessExpired, ProcessEarly, ProcessLimited, ProcessOverlap,
         ProcessStart, Drain, Finish
<1>a. row # None => row \in Row /\ SameTask(row, row)
  BY PlacesFacts, SameRow
<1>b. exec # None /\ row # None => row.state \notin {"success", "failed"}
  BY DEF Stands
<1>1. CASE Tick \/ Wake \/ ProcessGone \/ ProcessEarly \/ ProcessOverlap
  <2>1. row' = row /\ exec' = exec
    BY <1>1 DEF Tick, Wake, ProcessGone, ProcessEarly, ProcessOverlap
  <2>2. CASE row = None
    BY <1>0, <2>1, <2>2, NoneStands
  <2>3. CASE row # None
    BY <1>0, <1>a, <1>b, <2>1, <2>3, StandsKept
  <2> QED BY <2>2, <2>3
<1>2. CASE ScanExpires \/ ProcessExpired
  <2>1. row # None /\ Expired /\ Moved(row', row, "expired", row.attempts, row.next)
        /\ exec' = exec
    BY <1>2, ExpireWrites
  <2>2. row.expires # 0
    BY <1>a, <2>1 DEF Expired, Row, U64
  <2> QED BY <1>0, <2>1, <2>2, StandsKept DEF Moved
<1>3. CASE ScanRunAt
  <2>1. exec' = exec
    BY <1>3 DEF ScanRunAt
  <2>2. None \notin U64 /\ U64Max \in U64
    BY PlacesFacts, ScheduleAssumption
  <2> QED BY <1>0, <1>b, <1>3, <2>1, <2>2, RunAtWrites, StandsKept DEF Moved
<1>4. CASE ScanInterval
  <2>1. exec' = exec /\ None \notin U64
    BY <1>4, ScheduleAssumption DEF ScanInterval
  <2> QED BY <1>0, <1>b, <1>4, <2>1, IntervalWrites, StandsKept DEF Moved
<1>5. CASE ScanCron
  <2>1. exec' = exec /\ None \notin U64
    BY <1>5, ScheduleAssumption DEF ScanCron
  <2> QED BY <1>0, <1>a, <1>b, <1>5, <2>1, CronWrites, StandsKept DEF Moved
<1>6. CASE ScanRetries
  <2>1. exec' = exec
    BY <1>6 DEF ScanRetries
  <2> QED BY <1>0, <1>b, <1>6, <2>1, RetriesWrites, StandsKept DEF Moved
<1>7. CASE ProcessLimited
  <2>1. exec' = exec /\ None \notin U64
    BY <1>7, ScheduleAssumption DEF ProcessLimited
  <2> QED BY <1>0, <1>a, <1>b, <1>7, <2>1, LimitedWrites, StandsKept DEF Moved
<1>8. CASE ProcessStart
  BY <1>0, <1>8, StartWrites, StandsKept DEF Moved
<1>9. ASSUME NEW code, Finish(code) PROVE Stands'
  <2>1. exec' = None
    BY <1>9, FinishWrites
  <2>2. CASE row = None
    BY <1>0, <1>9, <2>1, <2>2, FinishWrites, NoneStands
  <2>3. CASE row # None
    <3>1. SameTask(row', row) /\ row'.state # "expired"
      BY <1>9, <2>3, FinishWrites DEF Moved
    <3>2. row'.next # None \/ row'.next = row.next
      BY <1>9, <2>3, FinishWrites, ScheduleAssumption DEF Moved
    <3> QED BY <1>0, <2>1, <2>3, <3>1, <3>2, StandsKept
  <2> QED BY <2>2, <2>3
<1> QED BY <1>1, <1>2, <1>3, <1>4, <1>5, <1>6, <1>7, <1>8, <1>9 DEF PacingStep

(* The end of an execution leaves its task to the clock, or final.         *)
LEMMA FinishClaim ==
  ASSUME Steady(setting), PlacesTyped, Stands, Claim, NEW code, Finish(code), row # None,
         UNCHANGED <<call, author>>
  PROVE  Claim'
<1>1. /\ exec # None /\ exec \in Row /\ exec' = None /\ row \in Row /\ SameTask(row', row)
      /\ UNCHANGED <<setting, now, waiting, timers>>
  BY FinishWrites DEF Moved
<1>2. /\ row'.runAt = row.runAt /\ row'.zone = row.zone
      /\ CronExprs(row') = CronExprs(row) /\ Repeats(row') = Repeats(row)
  BY <1>1, SameFields DEF Repeats
<1>3. CASE Repeats(exec) /\ row'.state = "pending" /\ row'.next = row.next
  <2>1. Awaits(row) => Awaits(row')
    BY <1>1, <1>3, AwaitsSame
  <2>2. Held => Held'
    BY <1>1, <2>1 DEF Held
  <2>3. row.state \in {"pending", "running", "expired"}
    BY <1>1 DEF Stands, Row
  <2>4. CASE row.state \in {"pending", "running"}
    BY <1>1, <1>2, <1>3, <2>2, <2>4, RollsBack DEF Claim, Promised
  <2>5. CASE row.state = "expired"
    <3>1. KeepsKind(setting)
      BY <1>1, <2>5 DEF Stands, Steadies, Steady
    <3>2. Repeats(row)
      BY <1>1, <1>3, <3>1 DEF Stands, Steadies
    <3>3. row.runAt = None /\ Rolls => Held'
      BY <2>1, <3>2, RepeatsAwaits DEF Held
    <3> QED BY <1>1, <1>2, <3>2, <3>3, RollsBack DEF Claim
  <2> QED BY <2>3, <2>4, <2>5
<1>4. CASE row'.state \in {"success", "failed"}
  BY <1>4 DEF Claim
<1>5. CASE row'.state = "pending" /\ row'.next = NextRetry(exec, now)
  <2>1. NextRetry(exec, now) \in U64 /\ NextRetry(exec, now) # None
    BY <1>1, PlacesFacts, RetryTyped, ScheduleAssumption
  <2>2. row.runAt # None => NextRetry(exec, now) # U64Max
    <3> SUFFICES ASSUME row.runAt # None PROVE NextRetry(exec, now) # U64Max
      OBVIOUS
    <3>1. Timed(setting.task) /\ exec.retryDelay = setting.task.retryDelay
      BY <1>1 DEF Stands, Steadies
    <3>2. Horizon + exec.retryDelay * BackoffCap < U64Max
      BY <3>1 DEF Steady
    <3>3. now \in Nat /\ now <= Horizon
      BY PacingAssumption, WidthTyped DEF PlacesTyped
    <3> QED BY <1>1, <3>2, <3>3, RetryBounded
  <2>3. Awaits(row')
    BY <1>2, <1>5, <2>1, <2>2 DEF Awaits
  <2> QED BY <2>3 DEF Claim, Held
<1>6. \/ Repeats(exec) /\ row'.state = "pending" /\ row'.next = row.next
      \/ row'.state \in {"success", "failed"}
      \/ row'.state = "pending" /\ row'.next = NextRetry(exec, now)
  BY FinishWrites DEF Moved, Repeats
<1> QED BY <1>3, <1>4, <1>5, <1>6

(* Its start takes over what the queue held.                               *)
LEMMA StartClaim ==
  ASSUME PlacesTyped, Stands, Claim, ProcessStart, UNCHANGED <<call, author>>
  PROVE  Claim'
<1>1. /\ row # None /\ row \in Row /\ exec' = row
      /\ SameTask(row', row) /\ row'.next = row.next
      /\ UNCHANGED <<setting, now>>
  BY StartWrites DEF Moved, ProcessStart, Drain
<1>2. /\ row'.runAt = row.runAt /\ row'.zone = row.zone
      /\ CronExprs(row') = CronExprs(row) /\ Repeats(row') = Repeats(row)
  BY <1>1, SameFields DEF Repeats
<1>3. CASE ~Repeats(row)
  BY <1>1, <1>3 DEF Claim
<1>4. CASE Repeats(row)
  <2>1. row.runAt = None /\ Rolls => Awaits(row')
    BY <1>1, <1>4, RepeatsAwaits, AwaitsSame
  <2> QED BY <1>1, <1>2, <1>4, <2>1, RollsBack DEF Claim, Held
<1> QED BY <1>3, <1>4

(* No step of the clock drops a task that was promised.                    *)
LEMMA StepClaim ==
  ASSUME Steady(setting), PlacesTyped, Stands, Claim, PacingStep, UNCHANGED <<call, author>>
  PROVE  Claim'
<1>0. UNCHANGED setting /\ now' \in {now, now + 1} /\ None \notin U64 /\ waiting \in Nat
      /\ Enqueued > 0
  <2>1. UNCHANGED setting /\ now' \in {now, now + 1}
    BY DEF PacingStep, Tick, Wake, ScanExpires, ScanRunAt, ScanInterval, ScanCron, ScanRetries,
           ProcessGone, ProcessExpired, ProcessEarly, ProcessLimited, ProcessOverlap,
           ProcessStart, Drain, Finish
  <2> QED BY <2>1, ScheduleAssumption, PlacesFacts, EnqueuedHolds
<1>a. row # None => row \in Row /\ SameTask(row, row)
  BY PlacesFacts, SameRow
<1>1. CASE row = None
  <2>1. row' = None
    BY <1>1, StepTyped DEF RowKept
  <2> QED BY <2>1 DEF Claim
<1>2. CASE Tick /\ row # None
  <2>1. UNCHANGED <<row, waiting, timers, exec>>
    BY <1>2 DEF Tick
  <2>2. Held => Held'
    BY <2>1 DEF Held, Awaits
  <2> QED BY <1>0, <1>a, <1>2, <2>1, <2>2, ClaimKept
<1>3. CASE Wake /\ row # None
  <2>1. UNCHANGED <<row>> /\ Held'
    BY <1>0, <1>3 DEF Wake, Held
  <2> QED BY <1>0, <1>a, <1>3, <2>1, ClaimKept
<1>4. CASE ScanExpires \/ ProcessExpired
  <2>1. row'.state = "expired"
    BY <1>4, ExpireWrites DEF Moved
  <2> QED BY <2>1 DEF Claim
<1>5. CASE ScanRunAt
  <2>1. row # None /\ row.runAt # None /\ SameTask(row', row) /\ row.skip = {}
    BY <1>5, RunAtWrites DEF Moved, Stands, Steadies
  <2>2. waiting' = Enqueued
    BY <1>5, <2>1 DEF ScanRunAt, Fire, ShouldSkipTrigger
  <2> QED BY <1>0, <2>1, <2>2, ClaimKept DEF Held
<1>6. CASE ScanInterval
  <2>1. row # None /\ row.runAt = None /\ SameTask(row', row) /\ row'.next # None
    BY <1>0, <1>6, IntervalWrites DEF Moved, ScanInterval
  <2>2. row'.runAt = None
    BY <1>a, <2>1, SameFields
  <2> QED BY <1>0, <2>1, <2>2, ClaimKept DEF Held, Awaits
<1>7. CASE ScanCron
  <2>1. row # None /\ row.runAt = None /\ SameTask(row', row) /\ row'.next # None
    BY <1>0, <1>a, <1>7, CronWrites DEF Moved, ScanCron
  <2>2. row'.runAt = None
    BY <1>a, <2>1, SameFields
  <2> QED BY <1>0, <2>1, <2>2, ClaimKept DEF Held, Awaits
<1>8. CASE ScanRetries
  BY <1>0, <1>8, RetriesWrites, ClaimKept DEF Moved, Held
<1>9. CASE ProcessGone /\ row # None
  <2>1. row' = row /\ IsFinal(row)
    BY <1>9 DEF ProcessGone, Gone
  <2> QED BY <2>1 DEF Claim, IsFinal
<1>10. CASE (ProcessEarly \/ ProcessOverlap) /\ row # None
  <2>1. row' = row /\ timers' # {}
    BY <1>10 DEF ProcessEarly, ProcessOverlap, Sleep
  <2> QED BY <1>0, <1>a, <1>10, <2>1, ClaimKept DEF Held
<1>11. CASE ProcessLimited
  BY <1>0, <1>a, <1>11, LimitedWrites, ClaimKept DEF Moved, Held
<1>12. CASE ProcessStart
  BY <1>12, StartClaim
<1>13. ASSUME NEW code, Finish(code), row # None PROVE Claim'
  BY <1>13, FinishClaim
<1> QED BY <1>1, <1>2, <1>3, <1>4, <1>5, <1>6, <1>7, <1>8, <1>9, <1>10, <1>11, <1>12, <1>13
        DEF PacingStep

(* What a dispatch was told, it was answered.                              *)
LEMMA EndTold ==
  ASSUME TypesInv, NEW c \in Call, Reply(c) \/ Drop(c), call[c].op.kind = "dispatch",
         call'[c].told = "yes"
  PROVE  call[c].pc = "answer" /\ call[c].reply = "yes"
<1>1. PICK reply : /\ Closed(c, reply)
                   /\ \/ reply = "error"
                      \/ call[c].pc = "answer" /\ reply = call[c].reply
  BY DEF Reply, Drop
<1>2. PICK heard \in {reply, "error"} :
        call' = [call EXCEPT ![c] = [Unsent EXCEPT !.pc = "closed", !.op = call[c].op,
                                     !.told = Returns(call[c].op.kind, heard)]]
  BY <1>1 DEF Closed
<1>3. call'[c].told = Returns("dispatch", heard)
  BY <1>2 DEF Unsent, TypesInv, CallsTyped
<1>4. heard = "yes"
  BY <1>3 DEF Returns, DispatchReturns
<1> QED BY <1>1, <1>2, <1>4

(* A request promises nothing but by inserting.                            *)
LEMMA PromisedBack ==
  ASSUME TypesInv, AuthorInv, NEW c \in Call, Send(c) \/ Accept(c) \/ Handle(c) \/ Drop(c),
         ~Insert(c), ~Enqueue(c), Promised'
  PROVE  Promised
<1>0. /\ author \in Maybe(Call)
      /\ author # None => call[author].pc \in {"enqueue", "answer", "closed"}
                          /\ call[author].op.kind = "dispatch"
  BY DEF TypesInv, CallsTyped, AuthorInv
<1>1. CASE Send(c)
  <2>1. call[c].pc = "unsent" /\ author' = author /\ \A d \in Call : d # c => call'[d] = call[d]
    BY <1>1, SendMoves, RequestStays
  <2> QED BY <1>0, <2>1 DEF Promised, Maybe
<1>2. CASE Accept(c)
  <2>1. call[c].pc = "sent" /\ author' = author /\ \A d \in Call : d # c => call'[d] = call[d]
    BY <1>2, AcceptMoves, RequestStays DEF Goes
  <2> QED BY <1>0, <2>1 DEF Promised, Maybe
<1>3. CASE DispatchReplacing(c) \/ DispatchNew(c)
  <2>1. author' = None
    BY <1>3 DEF DispatchReplacing, DispatchNew, AuthorInv
  <2> QED BY <2>1 DEF Promised
<1>4. CASE \/ DispatchInvalid(c) \/ DispatchConflict(c) \/ Ask(c)
           \/ Modify(c) \/ RescheduleTask(c) \/ RequeueTask(c) \/ SetPaused(c) \/ Remove(c)
  <2>1. call[c].pc = "read" /\ \A d \in Call : d # c => call'[d] = call[d]
    BY <1>4, AnswerMoves DEF Goes
  <2>2. author' \in {author, None}
    BY <1>4, RequestStays DEF Modify, RescheduleTask, RequeueTask, SetPaused, Remove, Apply
  <2> QED BY <1>0, <2>1, <2>2 DEF Promised, Maybe
<1>5. CASE Reply(c) \/ Drop(c)
  <2>1. /\ \A d \in Call : d # c => call'[d] = call[d]
        /\ call'[c].pc = "closed" /\ author' = author
    BY <1>5, EndMoves, RequestStays DEF Goes
  <2>2. CASE author = c
    BY <1>0, <1>5, <2>1, <2>2, EndTold DEF Promised
  <2>3. CASE author # c
    BY <1>0, <2>1, <2>3 DEF Promised, Maybe
  <2> QED BY <2>2, <2>3
<1> QED BY <1>1, <1>2, <1>3, <1>4, <1>5 DEF Handle

-----------------------------------------------------------------------------
(* What modify leaves of a task's trigger: a new one; the one it had; or,  *)
(* in memory, one that does not roll on.                                   *)

(* Due at a time, or at a moment still to come.                            *)
Triggered(r) ==
  r.next # None /\ (r.runAt = None \/ r.next # U64Max \/ Repeats(r))

(* q fires as r does.                                                      *)
SameTrigger(q, r) ==
  /\ q.next = r.next /\ q.cron = r.cron /\ q.interval = r.interval
  /\ q.orCron = r.orCron /\ q.runAt = r.runAt

(* A steady patch, field by field.                                         *)
LEMMA PatchKnown ==
  ASSUME Steadfast, TypesInv, NEW c \in Call, Modify(c), row # None
  PROVE  LET p == call[c].op.patch
             m == Over(p, row)
         IN  /\ p \in Patches(setting) /\ row \in Row /\ m \in Row
             /\ Changed(row', row, m)
             /\ \A k \in Field : m[k] = IF k \in DOMAIN p THEN p[k] ELSE row[k]
             /\ "next" \notin DOMAIN p /\ "runAt" \notin DOMAIN p /\ "orCron" \notin DOMAIN p
             /\ "cron" \in DOMAIN p => p["cron"] # None
             /\ "interval" \in DOMAIN p => p["interval"] # None
<1> DEFINE op == call[c].op
           p == op.patch
           m == Over(p, row)
<1>1. /\ row \in Row /\ op \in setting.asks[c] /\ op.kind = "modify"
      /\ Changed(row', row, m) /\ setting \in Settings
  BY ModifyWrites, ConnectionFacts
<1>2. /\ m \in Row /\ DOMAIN p \subseteq PatchKeys
      /\ \A k \in Field : m[k] = IF k \in DOMAIN p THEN p[k] ELSE row[k]
  BY <1>1, PatchTyped
<1>3. p \in Patches(setting)
  BY <1>1 DEF Patches
<1>4. "next" \notin DOMAIN p
  BY <1>2 DEF PatchKeys, TriggerKeys
<1>5. DOMAIN p \cap {"runAt", "orCron"} = {} /\ ("cron" \in DOMAIN p => p["cron"] # None)
      /\ ("interval" \in DOMAIN p => p["interval"] # None)
  BY <1>1, <1>3 DEF Steadfast, Steady
<1> QED BY <1>1, <1>2, <1>3, <1>4, <1>5

(* modify leaves the row steady.                                           *)
LEMMA ModifySteady ==
  ASSUME Steadfast, TypesInv, Stands, NEW c \in Call, Modify(c), row # None
  PROVE  Steadies(setting, row')
<1> DEFINE p == call[c].op.patch
           m == Over(p, row)
<1>1. /\ p \in Patches(setting) /\ row \in Row
      /\ Changed(row', row, m)
      /\ \A k \in Field : m[k] = IF k \in DOMAIN p THEN p[k] ELSE row[k]
      /\ "runAt" \notin DOMAIN p /\ "orCron" \notin DOMAIN p
  BY PatchKnown
<1>2. Steady(setting) /\ Steadies(setting, row)
  BY SteadySetting DEF TypesInv, Stands
<1> HIDE DEF p, m
<1>3. /\ row'.runAt = row.runAt /\ row'.orCron = row.orCron /\ row'.state = row.state
      /\ row'.cron = row.cron \/ ("cron" \in DOMAIN p /\ row'.cron = p["cron"])
      /\ row'.interval = row.interval
         \/ ("interval" \in DOMAIN p /\ row'.interval = p["interval"])
      /\ row'.skip = row.skip \/ "skip" \in DOMAIN p
      /\ row'.retryDelay = row.retryDelay \/ "retryDelay" \in DOMAIN p
      /\ row'.expires = row.expires \/ "expires" \in DOMAIN p
  BY <1>1 DEF Changed, Field, PatchKeys, TriggerKeys
<1>4. /\ "cron" \in DOMAIN p => p["cron"] # None
      /\ "interval" \in DOMAIN p => p["interval"] # None /\ setting.task.orCron = {}
      /\ Timed(setting.task) => DOMAIN p \cap {"skip", "retryDelay"} = {}
  BY <1>1, <1>2 DEF Steady
<1>5. NeverExpires(setting) => "expires" \notin DOMAIN p
  BY <1>1 DEF NeverExpires
<1>6. KeepsKind(setting) => (DOMAIN p \cap {"cron", "interval"} # {} => Repeated(setting.task))
  BY <1>1 DEF KeepsKind
<1>7. KeepsKind(setting) => (Repeats(row') <=> Repeated(setting.task))
  BY <1>2, <1>3, <1>4, <1>6 DEF Repeats, Steadies
<1>8. /\ row'.orCron = setting.task.orCron /\ (row'.orCron # {} => row'.interval = None)
      /\ row'.runAt # None <=> Timed(setting.task)
      /\ row'.runAt # U64Max
  BY <1>2, <1>3, <1>4 DEF Steadies
<1>9. /\ Timed(setting.task) => row'.skip = {} /\ row'.retryDelay = setting.task.retryDelay
      /\ NeverExpires(setting) => row'.expires = 0 /\ row'.state # "expired"
  BY <1>2, <1>3, <1>4, <1>5 DEF Steadies
<1> QED BY <1>7, <1>8, <1>9 DEF Steadies

(* modify with SQLite writes a trigger or leaves the one it found.         *)
LEMMA ModifySqliteTrigger ==
  ASSUME Steadfast, TypesInv, NEW c \in Call, Modify(c), row # None, store = "sqlite"
  PROVE  Triggered(row') \/ SameTrigger(row', row)
<1> DEFINE p == call[c].op.patch
           m == Over(p, row)
           next == PatchedNext(row, p, now)
<1>1. /\ row \in Row /\ m \in Row
      /\ \A k \in Field : m[k] = IF k \in DOMAIN p THEN p[k] ELSE row[k]
      /\ "next" \notin DOMAIN p /\ "runAt" \notin DOMAIN p /\ "orCron" \notin DOMAIN p
      /\ "cron" \in DOMAIN p => p["cron"] # None
      /\ "interval" \in DOMAIN p => p["interval"] # None
  BY PatchKnown
<1>2. row' = ModifySqlite(row, p, now).row
  BY DEF Modify, Apply
<1>3. CASE row' = row
  BY <1>3 DEF SameTrigger
<1>4. CASE row' # row
  <2>1. Computable(PatchedExprs(p), now, row.zone) /\ row' = [m EXCEPT !.next = next]
    BY <1>2, <1>4 DEF ModifySqlite, Answer
  <2>2. now \in Nat /\ row.zone \in Zone /\ None \notin U64 /\ \A n \in U64 : n \in Nat
    BY <1>1, PlacesFacts, ExprsTyped, ScheduleAssumption DEF TypesInv
  <2> HIDE DEF m, next
  <2>3. row'.next = next /\ \A k \in Field \ {"next"} : row'[k] = m[k]
    BY <1>1, <2>1, RowFields DEF Field
  <2>4. /\ m.cron = IF "cron" \in DOMAIN p THEN p["cron"] ELSE row.cron
        /\ m.interval = IF "interval" \in DOMAIN p THEN p["interval"] ELSE row.interval
        /\ m.orCron = row.orCron /\ m.runAt = row.runAt
        /\ m.cron \in Maybe(Expr) /\ m.interval \in Maybe(U64)
    BY <1>1 DEF Row, Field, PatchKeys, TriggerKeys
  <2>5. /\ row'.cron = m.cron /\ row'.interval = m.interval /\ row'.orCron = m.orCron
        /\ row'.runAt = m.runAt
    BY <2>3 DEF Field, PatchKeys, TriggerKeys
  <2> DEFINE q == [cron |-> Patched(p, "cron", None), orCron |-> Patched(p, "orCron", {}),
                   interval |-> Patched(p, "interval", None),
                   runAt |-> Patched(p, "runAt", None), zone |-> row.zone, next |-> row.next]
  <2>6. /\ q.cron = (IF "cron" \in DOMAIN p THEN m.cron ELSE None) /\ q.orCron = {}
        /\ q.interval = (IF "interval" \in DOMAIN p THEN m.interval ELSE None)
        /\ q.runAt = None /\ q.zone = row.zone /\ q.next = row.next
    BY <1>1, <2>4 DEF Patched
  <2>7. next = Recomputed(q, now) /\ PatchedExprs(p) = CronExprs(q)
    BY DEF next, PatchedNext, PatchedExprs, CronExprs
  <2> HIDE DEF q
  <2>8. CASE "cron" \in DOMAIN p
    <3>1. CronExprs(q) # {} /\ CronExprs(q) \in SUBSET Expr
      BY <1>1, <2>4, <2>6, <2>8 DEF CronExprs, Maybe
    <3>2. next \in U64
      BY <2>1, <2>2, <2>6, <2>7, <3>1, NextFireTyped DEF Recomputed
    <3>3. row'.cron # None
      BY <1>1, <2>4, <2>5, <2>8
    <3> QED BY <2>2, <2>3, <3>2, <3>3 DEF Triggered, Repeats
  <2>9. CASE "cron" \notin DOMAIN p /\ "interval" \in DOMAIN p
    <3>1. CronExprs(q) = {} /\ q.interval # None /\ q.interval \in U64
      BY <1>1, <2>4, <2>6, <2>9 DEF CronExprs, Maybe
    <3>2. now + q.interval \in Nat
      BY <2>2, <3>1
    <3>3. next \in U64
      BY <2>7, <3>1, <3>2, SaturatingTyped DEF Recomputed
    <3>4. row'.interval # None
      BY <1>1, <2>4, <2>5, <2>9
    <3> QED BY <2>2, <2>3, <3>3, <3>4 DEF Triggered, Repeats
  <2>10. CASE "cron" \notin DOMAIN p /\ "interval" \notin DOMAIN p
    <3>1. CronExprs(q) = {} /\ q.interval = None /\ q.runAt = None
      BY <2>6, <2>10 DEF CronExprs
    <3>2. next = row.next
      BY <2>6, <2>7, <3>1 DEF Recomputed
    <3> QED BY <2>3, <2>4, <2>5, <2>10, <3>2 DEF SameTrigger
  <2> QED BY <2>8, <2>9, <2>10
<1> QED BY <1>3, <1>4

(* modify in memory may also leave expressions that do not roll on.        *)
LEMMA ModifyInMemoryTrigger ==
  ASSUME Steadfast, TypesInv, Stands, NEW c \in Call, Modify(c), row # None, store # "sqlite"
  PROVE  \/ Triggered(row')
         \/ SameTrigger(row', row) /\ (CronExprs(row') = {} \/ row'.zone = row.zone)
         \/ ~Computable(CronExprs(row'), now, row'.zone)
<1> DEFINE p == call[c].op.patch
           m == Over(p, row)
           next == Recomputed(m, now)
<1>1. /\ row \in Row /\ m \in Row
      /\ \A k \in Field : m[k] = IF k \in DOMAIN p THEN p[k] ELSE row[k]
      /\ "next" \notin DOMAIN p /\ "runAt" \notin DOMAIN p /\ "orCron" \notin DOMAIN p
      /\ "cron" \in DOMAIN p => p["cron"] # None
      /\ "interval" \in DOMAIN p => p["interval"] # None
  BY PatchKnown
<1>2. row' = ModifyInMemory(row, p, now).row
  BY DEF Modify, Apply
<1>3. now \in Nat /\ None \notin U64 /\ U64Max \in U64 /\ \A n \in U64 : n \in Nat
  BY PlacesFacts, ScheduleAssumption DEF TypesInv
<1>4. row.runAt # U64Max /\ row.runAt \in Maybe(U64)
  BY <1>1 DEF Stands, Steadies, Row
<1>5. /\ m.cron = IF "cron" \in DOMAIN p THEN p["cron"] ELSE row.cron
      /\ m.interval = IF "interval" \in DOMAIN p THEN p["interval"] ELSE row.interval
      /\ m.zone = IF "zone" \in DOMAIN p THEN p["zone"] ELSE row.zone
      /\ m.orCron = row.orCron /\ m.runAt = row.runAt /\ m.next = row.next
      /\ m.interval \in Maybe(U64) /\ CronExprs(m) \in SUBSET Expr /\ m.zone \in Zone
  BY <1>1, ExprsTyped DEF Row, Field, PatchKeys, TriggerKeys
<1>6. CASE IsFinal(row)
  <2>1. row' = row
    BY <1>2, <1>6 DEF ModifyInMemory, Answer
  <2> QED BY <2>1 DEF SameTrigger
<1>7. CASE ~IsFinal(row) /\ DOMAIN p \cap TriggerKeys = {}
  <2>1. row' = m
    BY <1>2, <1>7 DEF ModifyInMemory, Answer
  <2> HIDE DEF m
  <2> QED BY <1>5, <1>7, <2>1 DEF SameTrigger, TriggerKeys
<1>8. CASE ~IsFinal(row) /\ DOMAIN p \cap TriggerKeys # {}
           /\ ~Computable(CronExprs(m), now, m.zone)
  <2>1. row' = m
    BY <1>2, <1>8 DEF ModifyInMemory, Answer
  <2> QED BY <1>8, <2>1
<1>9. CASE ~IsFinal(row) /\ DOMAIN p \cap TriggerKeys # {}
           /\ Computable(CronExprs(m), now, m.zone)
  <2>1. row' = [m EXCEPT !.next = next]
    BY <1>2, <1>9 DEF ModifyInMemory, Answer
  <2> HIDE DEF m, next
  <2>2. row'.next = next /\ \A k \in Field \ {"next"} : row'[k] = m[k]
    BY <1>1, <2>1, RowFields DEF Field
  <2>3. /\ row'.cron = m.cron /\ row'.interval = m.interval /\ row'.orCron = m.orCron
        /\ row'.runAt = m.runAt /\ row'.zone = m.zone
    BY <2>2 DEF Field, PatchKeys, TriggerKeys
  <2>4. CASE CronExprs(m) # {}
    <3>1. /\ next \in U64
          /\ \E e \in CronExprs(m) : next \in Occurs[e][m.zone]
      BY <1>3, <1>5, <1>9, <2>4, NextFireTyped DEF next, Recomputed
    <3>2. next # U64Max
      BY <1>5, <3>1 DEF Steadfast
    <3> QED BY <1>3, <2>2, <3>1, <3>2 DEF Triggered
  <2>5. CASE CronExprs(m) = {} /\ m.interval # None
    <3>1. now + m.interval \in Nat
      BY <1>3, <1>5, <2>5 DEF Maybe
    <3>2. next \in U64
      BY <2>5, <3>1, SaturatingTyped DEF next, Recomputed
    <3> QED BY <1>3, <2>2, <2>3, <2>5, <3>2 DEF Triggered, Repeats
  <2>6. CASE CronExprs(m) = {} /\ m.interval = None /\ m.runAt # None
    <3>1. next = row.runAt
      BY <1>5, <2>6 DEF next, Recomputed
    <3> QED BY <1>4, <1>5, <2>2, <2>6, <3>1 DEF Triggered
  <2>7. CASE CronExprs(m) = {} /\ m.interval = None /\ m.runAt = None
    <3>1. next = row.next
      BY <1>5, <2>7 DEF next, Recomputed
    <3>2. m.cron = None
      BY <2>7 DEF CronExprs
    <3>3. m.cron = row.cron /\ m.interval = row.interval
      BY <1>1, <1>5, <2>7, <3>2
    <3>4. CronExprs(row') = {}
      BY <2>3, <2>7 DEF CronExprs
    <3> QED BY <1>5, <2>2, <2>3, <3>1, <3>3, <3>4 DEF SameTrigger
  <2> QED BY <2>4, <2>5, <2>6, <2>7
<1> QED BY <1>6, <1>7, <1>8, <1>9

(* What a request wrote stays steady.                                      *)
LEMMA StandsWritten ==
  ASSUME Stands, UNCHANGED <<setting, exec>>, row # None, Steadies(setting, row'),
         row'.state = row.state \/ row'.state = "pending",
         row'.runAt = None /\ row'.cron # None /\ Rolls' => row'.next # None
  PROVE  Stands'
BY DEF Stands

(* So does what it still holds.                                            *)
LEMMA ClaimWritten ==
  ASSUME Claim, UNCHANGED <<waiting, timers, exec>>, Promised' => Promised, row # None,
         (row'.runAt = None \/ ~Repeats(row')) /\ Rolls' =>
           Awaits(row') \/ /\ row'.state = row.state /\ Rolls
                           /\ row.runAt = None \/ ~Repeats(row)
                           /\ Awaits(row) => Awaits(row')
  PROVE  Claim'
BY DEF Claim, Held

(* Rows that fire alike await alike.                                       *)
LEMMA SameTriggerSame ==
  ASSUME NEW q, NEW r, SameTrigger(q, r)
  PROVE  /\ CronExprs(q) = CronExprs(r) /\ Awaits(q) = Awaits(r) /\ Repeats(q) = Repeats(r)
         /\ q.runAt = r.runAt /\ q.cron = r.cron /\ q.next = r.next
BY DEF SameTrigger, CronExprs, Awaits, Repeats

(* Each request keeps the promise: modify,                                 *)
LEMMA ModifyCarries ==
  ASSUME Steadfast, TypesInv, AuthorInv, Stands, Claim, NEW c \in Call, Modify(c), row # None
  PROVE  Stands' /\ Claim'
<1>1. /\ UNCHANGED <<setting, exec, timers, now>> /\ waiting' = waiting
      /\ Steadies(setting, row')
  BY RequestFrame, ModifySteady DEF Handle, Modify, Apply
<1>2. row'.state = row.state
  BY PatchKnown DEF Changed, Field, PatchKeys, TriggerKeys
<1>3. Promised' => Promised
  <2>1. ~Insert(c) /\ ~Enqueue(c)
    BY DEF Modify, Insert, Enqueue, On
  <2> QED BY <2>1, PromisedBack DEF Handle
<1>4. \/ Triggered(row')
      \/ SameTrigger(row', row) /\ (Rolls' => Rolls)
      \/ ~Rolls'
  <2>1. CASE store = "sqlite"
    BY <1>1, <2>1, ModifySqliteTrigger DEF Rolls, store
  <2>2. CASE store # "sqlite"
    <3>1. store = "memory"
      BY <2>2, PacingAssumption DEF TypesInv, PlacesTyped, store
    <3>2. SameTrigger(row', row) => CronExprs(row') = CronExprs(row)
      BY SameTriggerSame
    <3>3. CronExprs(row') = {} => (SameTrigger(row', row) => Rolls)
      BY <3>2 DEF Rolls, Computable
    <3>4. row'.zone = row.zone /\ SameTrigger(row', row) => (Rolls' => Rolls)
      BY <1>1, <3>2 DEF Rolls, store
    <3>5. ~Computable(CronExprs(row'), now, row'.zone) => ~Rolls'
      BY <1>1, <3>1 DEF Rolls, store
    <3> QED BY <2>2, <3>3, <3>4, <3>5, ModifyInMemoryTrigger
  <2> QED BY <2>1, <2>2
<1>5. Stands'
  <2>1. row'.runAt = None /\ row'.cron # None /\ Rolls' => row'.next # None
    BY <1>4, SameTriggerSame DEF Triggered, Stands
  <2> QED BY <1>1, <1>2, <2>1, StandsWritten
<1>6. Claim'
  <2>1. Triggered(row') /\ (row'.runAt = None \/ ~Repeats(row')) => Awaits(row')
    BY DEF Triggered, Awaits
  <2> QED BY <1>1, <1>2, <1>3, <1>4, <2>1, SameTriggerSame, ClaimWritten
<1> QED BY <1>5, <1>6

(* reschedule,                                                             *)
LEMMA RescheduleCarries ==
  ASSUME Steadfast, TypesInv, AuthorInv, Stands, Claim,
         NEW c \in Call, RescheduleTask(c), row # None
  PROVE  Stands' /\ Claim'
<1>1. UNCHANGED <<setting, exec, timers, now>> /\ waiting' = waiting
  BY RequestFrame DEF Handle, RescheduleTask, Apply
<1>2. Promised' => Promised
  <2>1. ~Insert(c) /\ ~Enqueue(c)
    BY DEF RescheduleTask, Insert, Enqueue, On
  <2> QED BY <2>1, PromisedBack DEF Handle
<1>3. /\ row \in Row /\ KeptBut(row', row, {"cron", "next"})
      /\ row' = row \/ \E e \in Expr : /\ row.cron # None /\ Computable({e}, now, row.zone)
                                       /\ row'.cron = e
                                       /\ row'.next = MinNextFire({e}, now, row.zone)
  BY RescheduleWrites
<1>4. CASE row' = row
  <2>1. Rolls' <=> Rolls
    BY <1>1, <1>4 DEF Rolls, store
  <2> QED BY <1>1, <1>2, <1>4, <2>1, StandsWritten, ClaimWritten DEF Stands
<1>5. CASE row' # row
  <2>1. PICK e \in Expr : /\ row.cron # None /\ Computable({e}, now, row.zone)
                          /\ row'.cron = e /\ row'.next = MinNextFire({e}, now, row.zone)
    BY <1>3, <1>5
  <2>2. /\ row'.orCron = row.orCron /\ row'.interval = row.interval /\ row'.runAt = row.runAt
        /\ row'.skip = row.skip /\ row'.retryDelay = row.retryDelay
        /\ row'.expires = row.expires /\ row'.state = row.state
    BY <1>3 DEF KeptBut, Field, PatchKeys, TriggerKeys
  <2>3. e # None /\ row'.next \in U64 /\ None \notin U64
    <3>1. e # None /\ None \notin U64 /\ {e} \in SUBSET Expr /\ {e} # {}
      BY ScheduleAssumption
    <3>2. row.zone \in Zone /\ now \in Nat
      BY <1>3, ExprsTyped, PlacesFacts DEF TypesInv
    <3>3. MinNextFire({e}, now, row.zone) \in U64
      BY <2>1, <3>1, <3>2, NextFireTyped
    <3> QED BY <2>1, <3>1, <3>3
  <2>4. Repeats(row) /\ Repeats(row')
    BY <2>1, <2>3 DEF Repeats
  <2>5. Steadies(setting, row')
    BY <2>2, <2>4 DEF Stands, Steadies
  <2>6. row'.runAt = None => Awaits(row')
    BY <2>3 DEF Awaits
  <2>7. (row'.runAt = None \/ ~Repeats(row')) => Awaits(row')
    BY <2>4, <2>6
  <2>8. row'.runAt = None /\ row'.cron # None /\ Rolls' => row'.next # None
    BY <2>3
  <2>9. Stands'
    BY <1>1, <1>2, <2>2, <2>5, <2>8, StandsWritten
  <2>10. Claim'
    BY <1>1, <1>2, <2>5, <2>7, ClaimWritten
  <2> QED BY <2>9, <2>10
<1> QED BY <1>4, <1>5

(* requeue,                                                                *)
LEMMA RequeueCarries ==
  ASSUME Steadfast, TypesInv, AuthorInv, Stands, Claim,
         NEW c \in Call, RequeueTask(c), row # None
  PROVE  Stands' /\ Claim'
<1>1. UNCHANGED <<setting, exec, timers, now>> /\ waiting' = waiting
  BY RequestFrame DEF Handle, RequeueTask, Apply
<1>2. Promised' => Promised
  <2>1. ~Insert(c) /\ ~Enqueue(c)
    BY DEF RequeueTask, Insert, Enqueue, On
  <2> QED BY <2>1, PromisedBack DEF Handle
<1>3. /\ row \in Row /\ SameTask(row', row)
      /\ row' = row \/ (row'.state = "pending" /\ row'.next = now)
  BY RequeueWrites
<1>4. CASE row' = row
  <2>1. Rolls' <=> Rolls
    BY <1>1, <1>4 DEF Rolls, store
  <2> QED BY <1>1, <1>2, <1>4, <2>1, StandsWritten, ClaimWritten DEF Stands
<1>5. CASE row'.state = "pending" /\ row'.next = now
  <2>1. now # None /\ now # U64Max
    BY PlacesFacts, ScheduleAssumption DEF TypesInv
  <2>2. Steadies(setting, row')
    BY <1>3, <1>5, SteadySame DEF Stands
  <2>3. Awaits(row') /\ row'.next # None
    BY <1>5, <2>1 DEF Awaits
  <2> QED BY <1>1, <1>2, <1>5, <2>2, <2>3, StandsWritten, ClaimWritten
<1> QED BY <1>3, <1>4, <1>5

(* pause and resume,                                                       *)
LEMMA PauseCarries ==
  ASSUME Steadfast, TypesInv, AuthorInv, Stands, Claim,
         NEW c \in Call, SetPaused(c), row # None
  PROVE  Stands' /\ Claim'
<1>1. UNCHANGED <<setting, exec, timers, now>> /\ waiting' = waiting
  BY RequestFrame DEF Handle, SetPaused, Apply
<1>2. Promised' => Promised
  <2>1. ~Insert(c) /\ ~Enqueue(c)
    BY DEF SetPaused, Insert, Enqueue, On
  <2> QED BY <2>1, PromisedBack DEF Handle
<1>3. row \in Row /\ KeptBut(row', row, {"paused"})
  BY PauseWrites
<1>4. /\ SameTrigger(row', row) /\ row'.zone = row.zone /\ row'.state = row.state
      /\ row'.skip = row.skip /\ row'.retryDelay = row.retryDelay
      /\ row'.expires = row.expires
  BY <1>3 DEF KeptBut, SameTrigger, Field, PatchKeys, TriggerKeys
<1>5. Rolls' <=> Rolls
  BY <1>1, <1>4, SameTriggerSame DEF Rolls, store
<1>6. Steadies(setting, row')
  BY <1>4, SameTriggerSame DEF Stands, Steadies, SameTrigger
<1>7. row'.runAt = None /\ row'.cron # None /\ Rolls' => row'.next # None
  BY <1>4, <1>5 DEF SameTrigger, Stands
<1> QED BY <1>1, <1>2, <1>4, <1>5, <1>6, <1>7, SameTriggerSame, StandsWritten, ClaimWritten

(* A task that has just been inserted.                                     *)
LEMMA InsertCarries ==
  ASSUME Steadfast, TypesInv, Stands, NEW c \in Call, Insert(c)
  PROVE  Stands' /\ Claim'
<1> DEFINE t == call[c].task
<1>1. /\ row' = t /\ t \in Fresh /\ author' = c /\ c # None
      /\ UNCHANGED <<setting, exec>>
  BY ConnectionFacts, RequestsAssumption DEF Insert, On, CallOK, Call
<1>2. /\ call'[c].pc = IF Deferred(t) THEN "answer" ELSE "enqueue"
      /\ call'[c].told = None
  BY InsertMoves, ConnectionFacts DEF CallOK
<1> HIDE DEF t
<1>3. /\ t \in Row /\ t.created \in Start..now /\ t.state = "pending"
      /\ Builds(def, t.created) /\ t.next \in FirstFires(def, t.created)
      /\ t.runAt = RunAt(def, t.created)
      /\ t.cron = def.cron /\ t.orCron = def.orCron /\ t.interval = Given(def.interval)
      /\ t.skip = def.skip /\ t.retryDelay = def.retryDelay /\ t.expires = def.expires
  BY <1>1, FreshTyped DEF TypesInv
<1>4. /\ Steady(setting) /\ def \in Params /\ def = setting.task /\ None \notin U64
      /\ t.created \in U64 /\ U64Max \in U64
  BY <1>3, SteadySetting, PlacesFacts, ScheduleAssumption DEF TypesInv, def, Row
<1>5. t.runAt # None <=> Timed(def)
  <2>1. \A n \in Nat : Saturating(n) # None
    BY <1>4, SaturatingTyped
  <2>2. CASE Given(def.runAt) # None \/ Given(def.countdown) = None
    BY <1>3, <2>2 DEF RunAt, Timed
  <2>3. CASE Given(def.runAt) = None /\ Given(def.countdown) # None
    <3>1. t.created + def.countdown \in Nat
      <4>1. def.countdown # None /\ def.countdown \in Maybe(U64)
        BY <1>4, <2>3, ScheduleAssumption DEF Given, Params
      <4> QED BY <1>4, <4>1, PlacesFacts DEF Maybe, TypesInv
    <3> QED BY <1>3, <2>1, <2>3, <3>1 DEF RunAt, Timed
  <2> QED BY <2>2, <2>3
<1>6. t.runAt # U64Max
  <2>1. CASE ~Timed(def)
    BY <1>4, <1>5, <2>1
  <2>2. CASE Timed(def) /\ t.runAt = Given(def.runAt)
    BY <1>4, <2>2 DEF Steady, Given
  <2>3. CASE Timed(def) /\ t.runAt # Given(def.runAt)
    <3>1. t.runAt = Saturating(t.created + def.countdown) /\ Given(def.countdown) # None
      BY <1>3, <2>3 DEF RunAt
    <3>2. def.countdown # None /\ def.countdown \in Maybe(U64)
      BY <1>4, <3>1, ScheduleAssumption DEF Given, Params
    <3>3. def.countdown \in Nat /\ Horizon + def.countdown < U64Max
      BY <1>4, <2>3, <3>2, PlacesFacts DEF Steady, Maybe, TypesInv
    <3>4. t.created \in Nat /\ t.created <= Horizon /\ Horizon \in Nat /\ U64Max \in Nat
      BY <1>3, PacingAssumption, WidthTyped DEF TypesInv, PlacesTyped
    <3>5. t.created + def.countdown \in Nat /\ t.created + def.countdown < U64Max
      BY <3>3, <3>4
    <3> QED BY <3>1, <3>4, <3>5, SaturatingTyped
  <2> QED BY <2>1, <2>2, <2>3
<1>7. Repeats(t) <=> Repeated(def)
  BY <1>3 DEF Repeats, Repeated
<1>8. Steadies(setting, t)
  BY <1>3, <1>4, <1>5, <1>6, <1>7 DEF Steadies, Steady, NeverExpires
<1>9. ASSUME t.runAt = None, t.cron # None PROVE t.next # None
  <2> DEFINE exprs == CronExprs(t)
             base == MinNextFire(exprs, t.created, def.zone)
  <2>1. exprs = CronExprs(def) /\ exprs # {} /\ exprs \in SUBSET Expr /\ def.zone \in Zone
    BY <1>3, <1>4, <1>9, ExprsTyped DEF CronExprs, Params
  <2>2. Computable(exprs, t.created, def.zone) /\ RunAt(def, t.created) = None
    BY <1>3, <1>9, <2>1 DEF Builds
  <2>3. PICK j \in Jitters(def.jitter) : t.next = Saturating(base + j)
    BY <1>3, <2>1, <2>2 DEF FirstFires
  <2>4. base \in Nat
    BY <1>4, <2>1, <2>2, NextFireTyped, PlacesFacts DEF TypesInv
  <2>5. j \in Nat
    BY <1>4, <2>3, JitterTyped, PlacesFacts DEF TypesInv, Params
  <2>6. Saturating(base + j) \in U64
    BY <2>4, <2>5, SaturatingTyped
  <2> QED BY <1>4, <2>3, <2>6
<1>10. Stands'
  BY <1>1, <1>3, <1>8, <1>9 DEF Stands
<1>11. Deferred(t) => Awaits(t)
  BY <1>3, <1>6 DEF Deferred, FirstFires, Awaits
<1>12. Promised' => Deferred(t)
  BY <1>1, <1>2, RequestsAssumption DEF Promised, Word
<1>13. Claim'
  BY <1>1, <1>11, <1>12 DEF Claim, Held
<1> QED BY <1>10, <1>13

(* So does every step of a request.                                        *)
LEMMA RequestCarries ==
  ASSUME Steadfast, TypesInv, AuthorInv, Stands, Claim,
         NEW c \in Call, Send(c) \/ Accept(c) \/ Handle(c) \/ Drop(c)
  PROVE  Stands' /\ Claim'
<1>0. UNCHANGED <<setting, exec, timers, now>> /\ store' = store
  BY RequestFrame DEF store
<1>1. CASE row' = None
  BY <1>0, <1>1 DEF Stands, Claim
<1>2. CASE row' = row /\ waiting' = waiting /\ ~Insert(c) /\ ~Enqueue(c)
  <2>1. Promised' => Promised
    BY <1>2, PromisedBack
  <2>2. (Rolls' <=> Rolls) /\ (Held' <=> Held)
    BY <1>0, <1>2 DEF Rolls, Held
  <2> QED BY <1>0, <1>2, <2>1, <2>2 DEF Stands, Claim
<1>3. CASE Enqueue(c)
  <2>1. row' = row /\ waiting' > 0
    BY <1>3, EnqueuedHolds DEF Enqueue, TypesInv
  <2>2. Rolls' <=> Rolls
    BY <1>0, <2>1 DEF Rolls
  <2>3. Held'
    BY <2>1 DEF Held
  <2> QED BY <1>0, <2>1, <2>2, <2>3 DEF Stands, Claim
<1>4. CASE Insert(c)
  BY <1>4, InsertCarries
<1>5. CASE (Modify(c) \/ RescheduleTask(c) \/ RequeueTask(c) \/ SetPaused(c)) /\ row # None
  BY <1>5, ModifyCarries, RescheduleCarries, RequeueCarries, PauseCarries
<1>6. CASE (Modify(c) \/ RescheduleTask(c) \/ RequeueTask(c) \/ SetPaused(c)) /\ row = None
  BY <1>1, <1>6, ModifyWrites, RescheduleWrites, RequeueWrites, PauseWrites
<1>7. CASE \/ Send(c) \/ Accept(c) \/ DispatchInvalid(c) \/ DispatchConflict(c) \/ Ask(c)
           \/ Reply(c) \/ Drop(c)
  <2>1. row' = row /\ waiting' = waiting
    BY <1>7, RequestStays
  <2> QED BY <1>2, <1>3, <1>4, <2>1
<1>8. CASE DispatchReplacing(c) \/ Remove(c)
  BY <1>1, <1>8 DEF DispatchReplacing, Remove
<1>9. CASE DispatchNew(c)
  BY <1>1, <1>9 DEF DispatchNew
<1> QED BY <1>3, <1>4, <1>5, <1>6, <1>7, <1>8, <1>9 DEF Handle

(* Whatever the order of the scans, the executions and the requests, a     *)
(* task whose dispatch was acknowledged is never left pending or running   *)
(* with nobody to carry it on.                                             *)
THEOREM AcknowledgedNeverStranded == Spec /\ Steadfast => []AcknowledgedCarried
<1>1. Init => TypesInv /\ AuthorInv /\ Stands /\ Claim
  BY InitTypes DEF Init, PacingInit, AuthorInv, Unsent, Stands, Claim
<1>2. TypesInv /\ AuthorInv /\ Stands /\ Claim /\ Steadfast /\ [Next]_vars
        => (TypesInv /\ AuthorInv /\ Stands /\ Claim /\ Steadfast)'
  <2> SUFFICES ASSUME TypesInv, AuthorInv, Stands, Claim, Steadfast, [Next]_vars
               PROVE  AuthorInv' /\ Stands' /\ Claim'
    BY NextTypes, SettingStays DEF Steadfast
  <2>1. CASE UNCHANGED vars
    <3>1. UNCHANGED <<setting, now, row, waiting, timers, exec, author, call>>
      BY <2>1 DEF vars, pacingVars, clockVars, requestVars
    <3>2. (Rolls' <=> Rolls) /\ (Held' <=> Held) /\ (Promised' <=> Promised)
      BY <3>1 DEF Rolls, Held, Promised, store
    <3> QED BY <3>1, <3>2, AuthorStays DEF Stands, Claim
  <2>2. CASE PacingStep /\ UNCHANGED requestVars
    <3>1. UNCHANGED <<call, author>> /\ PlacesTyped /\ Steady(setting)
      BY <2>2, SteadySetting DEF requestVars, TypesInv
    <3> QED BY <2>2, <3>1, StepAuthor, StepStands, StepClaim
  <2>3. ASSUME NEW c \in Call, Send(c) \/ Accept(c) \/ Handle(c) \/ Drop(c)
        PROVE  AuthorInv' /\ Stands' /\ Claim'
    BY <2>3, RequestAuthor, RequestCarries
  <2> QED BY <2>1, <2>2, <2>3 DEF Next
<1>3. Claim => AcknowledgedCarried
  BY DEF Claim, AcknowledgedCarried, Acknowledged, Promised, Held, Awaits, Rolls, Carried,
         Repeats
<1> QED BY <1>1, <1>2, <1>3, PTL DEF Spec

-----------------------------------------------------------------------------
(* One task, dispatched once, never modified, without a trigger: in one    *)
(* place at a time.                                                        *)

(* Who may write a trigger, and whether there is one such.                 *)
IsMaker(c) == call[c].op # None /\ call[c].op.kind \in {"dispatch", "modify"}
Sole == \A c, d \in Call : IsMaker(c) /\ IsMaker(d) => c = d

(* None of them has written yet, nor come to its end.                      *)
Early == \A c \in Call : IsMaker(c) => call[c].pc \in {"sent", "read", "insert"}

Empty == row = None /\ waiting = 0 /\ timers = {} /\ exec = None

(* Nothing will fire it but its dispatch, a retry or a requeue.            *)
Oneshot(r) == CronExprs(r) = {} /\ r.interval = None /\ r.runAt = None

(* It has outlived its expiry, and no gate lets it through any more.       *)
Overdue == row.expires > 0 /\ now > Saturating(row.created + row.expires)
Dead == Overdue /\ row.state \in {"pending", "expired"}

(* Where its id is, or the promise of it.                                  *)
AtEnqueue == \E c \in Call : call[c].pc = "enqueue"
Places == {"queue", "timer", "exec", "next", "enqueue", "none"}
OnlyAt(p) ==
  /\ waiting > 0 => p = "queue" /\ waiting = 1
  /\ timers # {} => p = "timer" /\ \A s, t \in timers : s = t
  /\ exec # None => p = "exec"
  /\ row.next # None => p = "next"
  /\ AtEnqueue => p = "enqueue"

(* A retry to come is told by the row's next_fire.                         *)
Timely == notBefore > now => row.next # None /\ (row.next >= notBefore \/ row.next = U64Max)

(* Where it is decides its state.                                          *)
Placed ==
  /\ \E p \in Places : OnlyAt(p)
  /\ row.state = "running" => exec # None
  /\ IsFinal(row) => OnlyAt("none")
  /\ Timely

Running ==
  exec # None => row.state = "running" /\ exec.cron = None /\ exec.interval = None

(* The inductive invariant, as long as there is one such request.          *)
Alone ==
  row # None /\ Oneshot(row) =>
    Running /\ (row.state = "expired" => Overdue) /\ (~Dead => Placed)

SoleInv == Early => Empty

(* The delay is at least the one on paper, or the retry is beyond the end  *)
(* of time.                                                                *)
LEMMA DelayIdeal ==
  ASSUME NEW t \in Row, t.backoff
  PROVE  \/ BackoffDelay(t) = U64Max
         \/ t.retryDelay * Min2(2^t.attempts, BackoffCap) <= BackoffDelay(t)
<1> DEFINE d == t.retryDelay
           f == Factor(t.attempts)
           e == 2^t.attempts
           a == d * f
           b == d * BackoffCap
           i == d * Min2(e, BackoffCap)
<1>1. d \in Nat /\ t.attempts \in Nat /\ e \in Nat \ {0} /\ U64Max \in Nat /\ BackoffCap \in Nat
  BY ScheduleAssumption, WidthTyped DEF Row, U64
<1>2. f \in Nat /\ (f = e \/ f = U64Max)
  BY <1>1 DEF Factor
<1>3. Min2(e, BackoffCap) \in Nat /\ Min2(e, BackoffCap) <= e /\ Min2(e, BackoffCap) <= BackoffCap
  BY <1>1 DEF Min2
<1>4. a \in Nat /\ b \in Nat /\ i \in Nat
  BY <1>1, <1>2, <1>3
<1>5. \A m, n, k \in Nat : m <= n => k * m <= k * n
  OBVIOUS
<1>6. i <= b
  BY <1>1, <1>3, <1>5
<1>7. f = e => i <= a
  BY <1>1, <1>3, <1>5
<1>8. f = U64Max => d = 0 \/ U64Max <= a
  <2>1. \A m, n \in Nat : m # 0 => n <= m * n
    OBVIOUS
  <2> QED BY <1>1, <2>1
<1>9. d = 0 => i = 0
  BY <1>3
<1>10. BackoffDelay(t) = Min({Saturating(a), Saturating(b)})
  BY DEF BackoffDelay
<1> HIDE DEF a, b, i, e, f
<1>11. Saturating(a) \in Nat /\ Saturating(b) \in Nat
  BY <1>4, SaturatingTyped DEF U64
<1>12. Min({Saturating(a), Saturating(b)}) \in {Saturating(a), Saturating(b)}
  BY <1>11, MinIsLeast
<1>13. Saturating(b) = U64Max \/ i <= Saturating(b)
  BY <1>1, <1>4, <1>6 DEF Saturating
<1>14. Saturating(a) = U64Max \/ i <= Saturating(a)
  BY <1>1, <1>2, <1>4, <1>7, <1>8, <1>9 DEF Saturating
<1>15. BackoffDelay(t) = U64Max \/ i <= BackoffDelay(t)
  BY <1>10, <1>12, <1>13, <1>14
<1> QED BY <1>15 DEF i, e

(* So a retry is not due before its time.                                  *)
LEMMA RetryIdeal ==
  ASSUME PlacesTyped, exec # None
  PROVE  NextRetry(exec, now) = U64Max \/ now + IdealDelay <= NextRetry(exec, now)
<1>1. exec \in Row /\ now \in Nat /\ IdealDelay \in Nat /\ U64Max \in Nat
  BY PlacesFacts, IdealTyped, WidthTyped
<1>2. BackoffDelay(exec) \in Nat
  BY <1>1, RetryTyped DEF U64
<1>3. BackoffDelay(exec) = U64Max \/ IdealDelay <= BackoffDelay(exec)
  <2>1. CASE exec.backoff
    BY <1>1, <2>1, DelayIdeal DEF IdealDelay
  <2>2. CASE ~exec.backoff
    <3>1. exec.retryDelay \in Nat
      BY <1>1 DEF Row, U64
    <3>2. IdealDelay = exec.retryDelay * 1 /\ BackoffDelay(exec) = exec.retryDelay
      BY <2>2 DEF IdealDelay, BackoffDelay
    <3> QED BY <3>1, <3>2
  <2> QED BY <2>1, <2>2
<1> HIDE DEF IdealDelay
<1> QED BY <1>1, <1>2, <1>3 DEF NextRetry, Saturating

(* What outlived its expiry stays so, and the rest stays in one place.     *)
LEMMA AloneKept ==
  ASSUME PlacesTyped, Alone, row # None, SameTask(row', row), now' \in {now, now + 1},
         Oneshot(row) /\ Running => Running',
         row.state \in {"pending", "expired"} => row'.state \in {"pending", "expired"},
         row'.state = "expired" => row.state = "expired" \/ Overdue,
         Oneshot(row) /\ ~Dead /\ Placed /\ Running => Placed'
  PROVE  Alone'
<1>1. row \in Row
  BY PlacesFacts
<1>2. Oneshot(row') <=> Oneshot(row)
  BY SameFields DEF Oneshot
<1>3. Overdue => Overdue'
  <2>1. row'.expires = row.expires /\ row'.created = row.created
    BY SameFields
  <2>2. row.created + row.expires \in Nat /\ now \in Nat
    BY <1>1, PlacesFacts, TimesTyped
  <2>3. Saturating(row.created + row.expires) \in Nat
    BY <2>2, SaturatingTyped DEF U64
  <2> QED BY <2>1, <2>2, <2>3 DEF Overdue
<1>4. Dead => Dead'
  BY <1>3 DEF Dead
<1> QED BY <1>2, <1>3, <1>4 DEF Alone

(* In one place there is nothing in another.                               *)
LEMMA PlaceOf ==
  ASSUME NEW p, OnlyAt(p)
  PROVE  /\ waiting > 0 => /\ waiting = 1 /\ timers = {} /\ exec = None /\ row.next = None
                           /\ ~AtEnqueue
         /\ timers # {} => /\ \A s, t \in timers : s = t
                           /\ ~(waiting > 0) /\ exec = None /\ row.next = None /\ ~AtEnqueue
         /\ exec # None => ~(waiting > 0) /\ timers = {} /\ row.next = None /\ ~AtEnqueue
         /\ row.next # None => ~(waiting > 0) /\ timers = {} /\ exec = None /\ ~AtEnqueue
         /\ AtEnqueue => ~(waiting > 0) /\ timers = {} /\ exec = None /\ row.next = None
BY DEF OnlyAt

(* The steps of the clock that enqueue or sleep.                           *)
LEMMA WakePlaced ==
  ASSUME PlacesTyped, row # None, Placed, Wake, UNCHANGED requestVars
  PROVE  Placed'
<1>1. PICK p \in Places : OnlyAt(p)
  BY DEF Placed
<1>2. PICK s \in timers : timers' = timers \ {s}
  BY DEF Wake
<1>3. /\ ~(waiting > 0) /\ exec = None /\ row.next = None /\ ~AtEnqueue
      /\ \A t, u \in timers : t = u
  BY <1>1, <1>2, PlaceOf
<1>4. timers' = {}
  BY <1>2, <1>3
<1>5. waiting' = 1
  BY <1>3, PlacesFacts DEF Wake, Enqueued, Min2
<1>6. UNCHANGED <<row, exec, now, notBefore>> /\ AtEnqueue' = AtEnqueue
  BY DEF Wake, AtEnqueue, requestVars
<1>7. OnlyAt("queue")'
  BY <1>3, <1>4, <1>5, <1>6 DEF OnlyAt
<1>8. ~IsFinal(row)
  BY <1>2 DEF Placed, OnlyAt
<1>9. Timely' /\ ~IsFinal(row') /\ row'.state # "running"
  BY <1>3, <1>6, <1>8 DEF Placed, Timely
<1> QED BY <1>7, <1>9 DEF Placed, Places

(* A sleep takes the place of the id it put off.                           *)
LEMMA SleepPlaced ==
  ASSUME PlacesTyped, row # None, Placed, Drain, NEW until, Sleep(until),
         UNCHANGED <<row, exec, notBefore, requestVars>>
  PROVE  Placed'
<1>1. PICK p \in Places : OnlyAt(p)
  BY DEF Placed
<1>2. waiting > 0 /\ waiting' = waiting - 1 /\ now' = now
  BY DEF Drain
<1>3. waiting = 1 /\ timers = {} /\ exec = None /\ row.next = None /\ ~AtEnqueue
  BY <1>1, <1>2, PlaceOf
<1>4. PICK k : timers' = timers \cup {[at |-> until, k |-> k]}
  BY DEF Sleep
<1>5. \A t, u \in timers' : t = u
  BY <1>3, <1>4
<1>6. AtEnqueue' = AtEnqueue
  BY DEF AtEnqueue, requestVars
<1>7. OnlyAt("timer")'
  BY <1>2, <1>3, <1>5, <1>6 DEF OnlyAt
<1>8. ~IsFinal(row)
  BY <1>2 DEF Placed, OnlyAt
<1>9. Timely' /\ ~IsFinal(row') /\ row'.state # "running"
  BY <1>2, <1>3, <1>8 DEF Placed, Timely
<1> QED BY <1>7, <1>9 DEF Placed, Places

(* A retry that is due enqueues its id.                                    *)
LEMMA RetriesPlaced ==
  ASSUME PlacesTyped, Placed, ScanRetries, UNCHANGED requestVars
  PROVE  Placed'
<1>1. PICK p \in Places : OnlyAt(p)
  BY DEF Placed
<1>2. /\ row # None /\ row \in Row /\ row.state = "pending" /\ row.next # None
      /\ row.next <= now /\ waiting' = waiting + 1
      /\ row'.next = None /\ row'.state = "pending"
  BY RetriesWrites DEF Moved
<1>3. ~(waiting > 0) /\ timers = {} /\ exec = None /\ ~AtEnqueue
  BY <1>1, <1>2, PlaceOf
<1>4. UNCHANGED <<timers, exec, now, notBefore>> /\ AtEnqueue' = AtEnqueue
  BY DEF ScanRetries, AtEnqueue, requestVars
<1>5. waiting' = 1
  BY <1>2, <1>3, PlacesFacts
<1>6. OnlyAt("queue")'
  BY <1>2, <1>3, <1>4, <1>5 DEF OnlyAt
<1>7. ~(notBefore > now)
  <2>1. row.next \in Nat /\ now < U64Max /\ now \in Nat /\ notBefore \in Nat /\ U64Max \in Nat
    BY <1>2, PlacesFacts, TimesTyped, WidthTyped DEF PlacesTyped
  <2> QED BY <1>2, <2>1 DEF Placed, Timely
<1>8. Timely' /\ ~IsFinal(row') /\ row'.state # "running"
  BY <1>2, <1>4, <1>7 DEF Timely, IsFinal
<1> QED BY <1>6, <1>8 DEF Placed, Places

(* An execution takes it from the queue,                                   *)
LEMMA StartPlaced ==
  ASSUME PlacesTyped, Placed, Oneshot(row), ProcessStart, UNCHANGED requestVars
  PROVE  Placed' /\ Running'
<1>1. PICK p \in Places : OnlyAt(p)
  BY DEF Placed
<1>2. /\ row # None /\ row \in Row /\ exec' = row /\ notBefore' = 0
      /\ row'.next = row.next /\ row'.state = "running"
  BY StartWrites DEF Moved
<1>3. waiting > 0 /\ waiting' = waiting - 1 /\ UNCHANGED <<timers, now>>
  BY DEF ProcessStart, Drain
<1>4. waiting = 1 /\ timers = {} /\ row.next = None /\ ~AtEnqueue
  BY <1>1, <1>3, PlaceOf
<1>5. AtEnqueue' = AtEnqueue
  BY DEF AtEnqueue, requestVars
<1>6. OnlyAt("exec")'
  BY <1>2, <1>3, <1>4, <1>5 DEF OnlyAt
<1>7. Timely' /\ ~IsFinal(row') /\ exec' # None
  BY <1>2, <1>3, PlacesFacts DEF Timely, IsFinal
<1>8. row.cron = None /\ row.interval = None
  BY DEF Oneshot, CronExprs
<1> QED BY <1>2, <1>6, <1>7, <1>8 DEF Placed, Places, Running

(* and its end gives it to next_fire, or to nobody.                        *)
LEMMA FinishPlaced ==
  ASSUME PlacesTyped, row # None, Placed, Running, NEW code, Finish(code), UNCHANGED requestVars
  PROVE  Placed' /\ SameTask(row', row) /\ row'.state \in {"pending", "success", "failed"}
<1>1. PICK p \in Places : OnlyAt(p)
  BY DEF Placed
<1>2. exec # None /\ exec' = None /\ UNCHANGED <<now, waiting, timers>>
  BY FinishWrites
<1>3. ~(waiting > 0) /\ timers = {} /\ row.next = None /\ ~AtEnqueue
  BY <1>1, <1>2, PlaceOf
<1>4. AtEnqueue' = AtEnqueue
  BY DEF AtEnqueue, requestVars
<1>5. exec.cron = None /\ exec.interval = None /\ row \in Row
  BY <1>2, PlacesFacts DEF Running
<1>6. CASE /\ row'.state \in {"success", "failed"} /\ SameTask(row', row)
           /\ row'.next = row.next /\ UNCHANGED notBefore
  <2>1. OnlyAt("none")'
    BY <1>2, <1>3, <1>4, <1>6 DEF OnlyAt
  <2>2. Timely'
    BY <1>2, <1>3, <1>6 DEF Placed, Timely
  <2> QED BY <1>6, <2>1, <2>2 DEF Placed, Places
<1>7. CASE Moved(row', row, "pending", exec.attempts + 1, NextRetry(exec, now))
           /\ notBefore' = now + IdealDelay
  <2>1. row'.next = NextRetry(exec, now) /\ row'.state = "pending" /\ SameTask(row', row)
    BY <1>7 DEF Moved
  <2>2. NextRetry(exec, now) # None
    BY <1>2, PlacesFacts, RetryTyped, ScheduleAssumption
  <2>3. OnlyAt("next")'
    BY <1>2, <1>3, <1>4 DEF OnlyAt
  <2>4. row'.next = U64Max \/ row'.next >= notBefore'
    <3>1. NextRetry(exec, now) = U64Max \/ now + IdealDelay <= NextRetry(exec, now)
      BY <1>2, RetryIdeal
    <3>2. now + IdealDelay \in Nat /\ NextRetry(exec, now) \in Nat
      BY <1>2, IdealTyped, PlacesFacts, RetryTyped
    <3> QED BY <1>7, <2>1, <3>1, <3>2
  <2>5. Timely' /\ ~IsFinal(row')
    BY <2>1, <2>2, <2>4 DEF Timely, IsFinal
  <2> QED BY <2>1, <2>3, <2>5 DEF Placed, Places
<1> QED BY <1>2, <1>5, <1>6, <1>7, FinishWrites DEF Moved

(* No step of the clock puts the task in a second place.                   *)
LEMMA StepAlone ==
  ASSUME PlacesTyped, Alone, PacingStep, UNCHANGED requestVars
  PROVE  Alone'
<1>0. RowKept
  BY StepTyped
<1>1. CASE row = None
  BY <1>0, <1>1 DEF RowKept, Alone
<1>2. CASE row # None
  <2>0. row \in Row /\ SameTask(row, row)
    BY <1>2, PlacesFacts, SameRow
  <2>a. AtEnqueue' = AtEnqueue
    BY DEF AtEnqueue, requestVars
  <2>b. Expired => Dead
    BY DEF Expired, Dead, Overdue
  <2>1. CASE Tick
    <3>1. /\ UNCHANGED <<row, waiting, timers, exec, notBefore>>
          /\ now' = now + 1 /\ now \in Nat /\ notBefore \in Nat
      BY <2>1, PlacesFacts DEF Tick, PlacesTyped
    <3>2. \A p \in Places : OnlyAt(p) => OnlyAt(p)'
      BY <3>1, <2>a DEF OnlyAt
    <3>3. Timely => Timely'
      BY <3>1 DEF Timely
    <3>4. Placed => Placed'
      BY <3>1, <3>2, <3>3 DEF Placed, Places
    <3>5. Running => Running'
      BY <3>1 DEF Running
    <3> QED BY <1>2, <2>0, <3>1, <3>4, <3>5, AloneKept
  <2>2. CASE Wake
    <3>1. UNCHANGED <<row, exec, now>>
      BY <2>2 DEF Wake
    <3>2. Running => Running'
      BY <3>1 DEF Running
    <3>3. Placed => Placed'
      BY <1>2, <2>2, WakePlaced
    <3> QED BY <1>2, <2>0, <3>1, <3>2, <3>3, AloneKept
  <2>3. CASE ScanExpires \/ ProcessExpired
    <3>1. /\ Expired /\ SameTask(row', row) /\ row'.state = "expired" /\ UNCHANGED <<exec, now>>
          /\ row.state = "pending"
      BY <2>3, ExpireWrites DEF Moved, Expired
    <3>2. Running => Running'
      BY <3>1 DEF Running
    <3>3. Overdue
      BY <3>1 DEF Expired, Overdue
    <3> QED BY <1>2, <2>b, <3>1, <3>2, <3>3, AloneKept
  <2>4. CASE ScanRunAt \/ ScanInterval \/ ScanCron
    <3>1. ~Oneshot(row)
      BY <2>4 DEF ScanRunAt, ScanInterval, ScanCron, Oneshot
    <3>2. SameTask(row', row)
      BY <2>4, <2>0, RunAtWrites, IntervalWrites, CronWrites DEF Moved
    <3>3. ~Oneshot(row')
      BY <3>1, <3>2, SameFields DEF Oneshot
    <3> QED BY <3>3 DEF Alone
  <2>5. CASE ScanRetries
    <3>1. SameTask(row', row) /\ row'.state = row.state /\ UNCHANGED <<exec, now>>
      BY <2>5, RetriesWrites DEF Moved, ScanRetries
    <3>2. Running => Running'
      BY <3>1 DEF Running
    <3>3. Placed => Placed'
      BY <2>5, RetriesPlaced
    <3> QED BY <1>2, <3>1, <3>2, <3>3, AloneKept
  <2>6. CASE ProcessGone
    <3>1. UNCHANGED <<row, exec, now>> /\ IsFinal(row) /\ waiting > 0
      BY <1>2, <2>6 DEF ProcessGone, Gone, Drain
    <3>2. ~Placed
      BY <3>1 DEF Placed, OnlyAt
    <3>3. Running => Running'
      BY <3>1 DEF Running
    <3> QED BY <1>2, <2>0, <3>1, <3>2, <3>3, AloneKept
  <2>7. CASE ProcessEarly
    <3>1. UNCHANGED <<row, exec, now, notBefore>> /\ Drain /\ Sleep(row.start)
      BY <2>7 DEF ProcessEarly, Drain
    <3>2. Placed => Placed'
      BY <1>2, <3>1, SleepPlaced
    <3>3. Running => Running'
      BY <3>1 DEF Running
    <3> QED BY <1>2, <2>0, <3>1, <3>2, <3>3, AloneKept
  <2>8. CASE ProcessLimited
    <3>1. UNCHANGED <<exec, now, notBefore>> /\ Drain /\ Sleep(now + def.window)
      BY <2>8 DEF ProcessLimited, Drain
    <3>2. SameTask(row', row) /\ row'.state = row.state
      BY <2>0, <2>8, LimitedWrites DEF Moved
    <3>3. Oneshot(row) => row' = row
      BY <2>8 DEF ProcessLimited, Oneshot, CronExprs
    <3>4. Oneshot(row) /\ Placed => Placed'
      BY <1>2, <3>1, <3>3, SleepPlaced
    <3>5. Running => Running'
      BY <3>1, <3>2 DEF Running
    <3> QED BY <1>2, <3>1, <3>2, <3>4, <3>5, AloneKept
  <2>9. CASE ProcessOverlap
    <3>1. /\ UNCHANGED <<row, exec, now>> /\ waiting > 0
          /\ exec # None \/ row.state = "running"
      BY <2>9 DEF ProcessOverlap, Drain
    <3>2. ~Placed
      BY <3>1 DEF Placed, OnlyAt
    <3>3. Running => Running'
      BY <3>1 DEF Running
    <3> QED BY <1>2, <2>0, <3>1, <3>2, <3>3, AloneKept
  <2>10. CASE ProcessStart
    <3>1. /\ SameTask(row', row) /\ row'.state = "running" /\ now' = now /\ ~Expired
          /\ ~IsFinal(row) /\ exec' = row
      BY <2>10, StartWrites DEF Moved, ProcessStart, Drain
    <3>2. Oneshot(row) => Running'
      BY <3>1 DEF Running, Oneshot, CronExprs
    <3>3. Oneshot(row) /\ Placed => Placed'
      BY <2>10, StartPlaced
    <3>4. ~Dead
      BY <3>1 DEF Dead, Expired, Overdue, IsFinal
    <3>5. Oneshot(row') <=> Oneshot(row)
      BY <3>1, SameFields DEF Oneshot
    <3> QED BY <1>2, <3>1, <3>2, <3>3, <3>4, <3>5 DEF Alone
  <2>11. ASSUME NEW code, Finish(code) PROVE Alone'
    <3>1. CASE Oneshot(row) /\ ~Dead
      <4>1. Running /\ Placed
        BY <1>2, <3>1 DEF Alone
      <4>2. Placed' /\ SameTask(row', row) /\ row'.state \in {"pending", "success", "failed"}
        BY <1>2, <2>11, <4>1, FinishPlaced
      <4>3. Running'
        BY <2>11 DEF Finish, Running
      <4> QED BY <4>2, <4>3 DEF Alone
    <3>2. CASE Oneshot(row) /\ Dead
      <4>1. Running /\ exec # None
        BY <1>2, <2>11, <3>2 DEF Alone, Finish
      <4> QED BY <3>2, <4>1 DEF Running, Dead
    <3>3. CASE ~Oneshot(row)
      <4>1. row' = None \/ ~Oneshot(row')
        BY <1>0, <3>3, SameFields DEF RowKept, Oneshot
      <4> QED BY <4>1 DEF Alone
    <3> QED BY <3>1, <3>2, <3>3
  <2> QED BY <2>1, <2>2, <2>3, <2>4, <2>5, <2>6, <2>7, <2>8, <2>9, <2>10, <2>11 DEF PacingStep
<1> QED BY <1>1, <1>2

(* Before a request has written, only time passes.                         *)
LEMMA StepSole ==
  ASSUME SoleInv, PacingStep, UNCHANGED requestVars
  PROVE  SoleInv'
<1>1. Early' = Early
  BY DEF Early, IsMaker, requestVars
<1>2. ASSUME Empty PROVE Empty'
  <2>1. CASE Tick
    BY <1>2, <2>1 DEF Tick, Empty
  <2>2. ~Wake /\ ~ScanExpires /\ ~ScanRunAt /\ ~ScanInterval /\ ~ScanCron /\ ~ScanRetries
    BY <1>2 DEF Empty, Wake, ScanExpires, ScanRunAt, ScanInterval, ScanCron, ScanRetries, Scanned
  <2>3. ~Drain /\ \A code : ~Finish(code)
    BY <1>2 DEF Empty, Drain, Finish
  <2> QED BY <2>1, <2>2, <2>3 DEF PacingStep, ProcessGone, ProcessExpired, ProcessEarly,
             ProcessLimited, ProcessOverlap, ProcessStart
<1> QED BY <1>1, <1>2 DEF SoleInv

(* A request that goes on without enqueueing makes nothing early again.    *)
LEMMA GoesSole ==
  ASSUME NEW c \in Call, NEW pcs, Goes(c, pcs), "enqueue" \notin pcs,
         pcs \subseteq {"answer", "closed"} \/ call[c].pc \in {"sent", "read", "insert"}
  PROVE  (Sole' => Sole) /\ (Early' => Early) /\ (AtEnqueue' => AtEnqueue)
<1>1. \A d \in Call : IsMaker(d)' <=> IsMaker(d)
  BY DEF IsMaker, Goes
<1>2. \A d \in Call : d # c => call'[d] = call[d]
  BY DEF Goes
<1>3. call'[c].pc \in pcs
  BY DEF Goes
<1>4. Sole' => Sole
  BY <1>1 DEF Sole
<1>5. Early' => Early
  BY <1>1, <1>2, <1>3 DEF Early
<1>6. AtEnqueue' => AtEnqueue
  BY <1>2, <1>3 DEF AtEnqueue
<1> QED BY <1>4, <1>5, <1>6

(* A step that leaves the task where it is.                                *)
LEMMA AloneSame ==
  ASSUME Alone, UNCHANGED <<row, waiting, timers, exec, now, notBefore>>,
         AtEnqueue' => AtEnqueue
  PROVE  Alone'
<1>1. \A p \in Places : OnlyAt(p) => OnlyAt(p)'
  BY DEF OnlyAt
<1>2. Placed => Placed'
  BY <1>1 DEF Placed, Places, Timely
<1>3. (Running' <=> Running) /\ (Overdue' <=> Overdue) /\ (Dead' <=> Dead)
  BY DEF Running, Overdue, Dead
<1> QED BY <1>2, <1>3 DEF Alone

(* The one dispatch writes its task when there is nothing of it yet,       *)
LEMMA InsertAlone ==
  ASSUME TypesInv, Sole, SoleInv, NEW c \in Call, Insert(c)
  PROVE  SoleInv' /\ Alone'
<1> DEFINE t == call[c].task
<1>1. /\ call[c].pc = "insert" /\ call[c].op.kind = "dispatch" /\ t \in Fresh
      /\ call[c].op # None
  BY ConnectionFacts DEF Insert, On, CallOK
<1>2. IsMaker(c)
  BY <1>1 DEF IsMaker
<1>3. Early /\ Empty
  BY <1>1, <1>2 DEF Sole, Early, SoleInv
<1>4. call'[c].pc \in {"enqueue", "answer"} /\ call'[c].op = call[c].op
  BY InsertMoves DEF Goes
<1>5. ~Early'
  BY <1>1, <1>4 DEF Early, IsMaker
<1>6. row' = t /\ notBefore' = 0 /\ UNCHANGED <<now, waiting, timers, exec>>
  BY DEF Insert
<1> HIDE DEF t
<1>7. /\ t \in Row /\ t.state = "pending" /\ t.next \in FirstFires(def, t.created)
      /\ t.runAt = RunAt(def, t.created) /\ t.cron = def.cron /\ t.orCron = def.orCron
      /\ t.interval = Given(def.interval)
  BY <1>1, FreshTyped DEF TypesInv
<1>8. Oneshot(t) => t.next = None
  BY <1>7 DEF Oneshot, FirstFires, CronExprs
<1>9. now \in Nat
  BY PlacesFacts DEF TypesInv
<1>10. Oneshot(row') => Placed'
  <2>1. row'.state # "running" /\ ~IsFinal(row')
    BY <1>6, <1>7 DEF IsFinal
  <2>2. Oneshot(row') => OnlyAt("enqueue")'
    BY <1>3, <1>6, <1>8 DEF Empty, OnlyAt
  <2>3. Timely'
    BY <1>6, <1>9 DEF Timely
  <2> QED BY <2>1, <2>2, <2>3 DEF Placed, Places
<1>11. Alone'
  BY <1>3, <1>6, <1>7, <1>10 DEF Alone, Running, Empty
<1> QED BY <1>5, <1>11 DEF SoleInv

(* and enqueues it when it is nowhere else.                                *)
LEMMA EnqueueAlone ==
  ASSUME TypesInv, Sole, SoleInv, Alone, NEW c \in Call, Enqueue(c)
  PROVE  SoleInv' /\ Alone'
<1>1. /\ call[c].pc = "enqueue" /\ call[c].op.kind = "dispatch" /\ call[c].op # None
  BY ConnectionFacts DEF Enqueue, On, CallOK
<1>2. Goes(c, {"answer"})
  BY AnswerMoves
<1>3. ~Early'
  BY <1>1, <1>2 DEF Early, IsMaker, Goes
<1>4. ~AtEnqueue'
  <2>1. ASSUME NEW d \in Call, call[d].pc = "enqueue" PROVE d = c
    <3>1. call[d].op.kind = "dispatch" /\ call[d].op # None
      BY <2>1, ConnectionFacts DEF CallOK
    <3> QED BY <1>1, <3>1 DEF Sole, IsMaker
  <2> QED BY <1>2, <2>1 DEF AtEnqueue, Goes
<1>5. UNCHANGED <<row, timers, exec, now, notBefore>> /\ waiting' = Enqueued
  BY DEF Enqueue
<1>6. AtEnqueue
  BY <1>1 DEF AtEnqueue
<1>7. Placed => Placed'
  <2> SUFFICES ASSUME Placed PROVE Placed'
    OBVIOUS
  <2>1. ~(waiting > 0) /\ timers = {} /\ exec = None /\ row.next = None
    BY <1>6, PlaceOf DEF Placed
  <2>2. waiting' = 1
    BY <1>5, <2>1, PlacesFacts DEF Enqueued, Min2, TypesInv
  <2>3. OnlyAt("queue")'
    BY <1>4, <1>5, <2>1, <2>2 DEF OnlyAt
  <2>4. ~IsFinal(row)
    BY <1>6 DEF Placed, OnlyAt
  <2> QED BY <1>5, <2>1, <2>3, <2>4 DEF Placed, Places, Timely
<1>8. (Running' <=> Running) /\ (Overdue' <=> Overdue) /\ (Dead' <=> Dead)
  BY <1>5 DEF Running, Overdue, Dead
<1>9. Alone'
  BY <1>5, <1>7, <1>8 DEF Alone
<1> QED BY <1>3, <1>9 DEF SoleInv

(* A final task that is requeued is nowhere but in next_fire.              *)
LEMMA RequeueAlone ==
  ASSUME TypesInv, Alone, NEW c \in Call, RequeueTask(c), AtEnqueue' => AtEnqueue
  PROVE  Alone'
<1>1. /\ notBefore' = 0 /\ UNCHANGED <<waiting, timers, exec, now>> /\ now \in Nat
  BY RequeueWrites, PlacesFacts DEF RequeueTask, Apply, TypesInv
<1>2. CASE row = None
  BY <1>2, RequeueWrites DEF Alone
<1>3. CASE row # None /\ row' = row
  <2>1. \A p \in Places : OnlyAt(p) => OnlyAt(p)'
    BY <1>1, <1>3 DEF OnlyAt
  <2>2. Timely'
    BY <1>1 DEF Timely
  <2>3. Placed => Placed'
    BY <1>1, <1>3, <2>1, <2>2 DEF Placed, Places
  <2>4. (Running' <=> Running) /\ (Overdue' <=> Overdue) /\ (Dead' <=> Dead)
    BY <1>1, <1>3 DEF Running, Overdue, Dead
  <2> QED BY <1>3, <2>3, <2>4 DEF Alone
<1>4. CASE row # None /\ row' # row
  <2>1. /\ SameTask(row', row) /\ IsFinal(row) /\ row'.state = "pending" /\ row'.next = now
    BY <1>4, RequeueWrites
  <2>2. Oneshot(row') <=> Oneshot(row)
    BY <2>1, SameFields DEF Oneshot
  <2>3. Overdue' <=> Overdue
    BY <1>1, <2>1, SameFields DEF Overdue
  <2>4. Dead => Dead'
    BY <2>1, <2>3 DEF Dead
  <2>5. Running => exec = None
    BY <2>1 DEF Running, IsFinal
  <2>6. Placed => Placed'
    <3>1. OnlyAt("none") => OnlyAt("next")'
      BY <1>1 DEF OnlyAt
    <3>2. Timely' /\ ~IsFinal(row') /\ row'.state # "running"
      BY <1>1, <2>1 DEF Timely, IsFinal
    <3> QED BY <2>1, <3>1, <3>2 DEF Placed, Places
  <2>7. Running => Running'
    BY <1>1, <2>5 DEF Running
  <2>8. row'.state # "expired"
    BY <2>1
  <2> QED BY <1>4, <2>2, <2>4, <2>6, <2>7, <2>8 DEF Alone
<1> QED BY <1>2, <1>3, <1>4

(* A pause or a resumption moves nothing.                                  *)
LEMMA PauseAlone ==
  ASSUME TypesInv, Alone, NEW c \in Call, SetPaused(c), AtEnqueue' => AtEnqueue
  PROVE  Alone'
<1>1. UNCHANGED <<waiting, timers, exec, now, notBefore>>
  BY PauseWrites DEF SetPaused, Apply
<1>2. CASE row = None
  BY <1>2, PauseWrites DEF Alone
<1>3. CASE row # None
  <2>1. KeptBut(row', row, {"paused"})
    BY <1>3, PauseWrites
  <2>2. /\ row'.cron = row.cron /\ row'.orCron = row.orCron /\ row'.interval = row.interval
        /\ row'.runAt = row.runAt /\ row'.next = row.next /\ row'.state = row.state
        /\ row'.expires = row.expires /\ row'.created = row.created
    BY <2>1 DEF KeptBut, Field, PatchKeys, TriggerKeys
  <2>3. Oneshot(row') <=> Oneshot(row)
    BY <2>2 DEF Oneshot, CronExprs
  <2>4. (Running' <=> Running) /\ (Overdue' <=> Overdue) /\ (Dead' <=> Dead)
    BY <1>1, <2>2 DEF Running, Overdue, Dead
  <2>5. \A p \in Places : OnlyAt(p) => OnlyAt(p)'
    BY <1>1, <2>2 DEF OnlyAt
  <2>6. (Timely => Timely') /\ (IsFinal(row') <=> IsFinal(row))
    BY <1>1, <2>2 DEF Timely, IsFinal
  <2>7. Placed => Placed'
    BY <1>1, <2>2, <2>5, <2>6 DEF Placed, Places
  <2> QED BY <1>3, <2>2, <2>3, <2>4, <2>7 DEF Alone
<1> QED BY <1>2, <1>3

(* A request is sent: the one that may write finds nothing yet.            *)
LEMMA SendSole ==
  ASSUME TypesInv, NEW c \in Call, Send(c)
  PROVE  (Sole' => Sole) /\ (Early' => Early) /\ (AtEnqueue' => AtEnqueue)
<1>1. call[c].op = None
  BY ConnectionFacts DEF Send, CallOK, Unsent
<1>2. call'[c].pc = "sent" /\ \A d \in Call : d # c => call'[d] = call[d]
  BY SendMoves
<1>3. \A d \in Call : IsMaker(d) => IsMaker(d)' /\ d # c
  BY <1>1, <1>2 DEF IsMaker
<1>4. Sole' => Sole
  BY <1>3 DEF Sole
<1>5. Early' => Early
  BY <1>2, <1>3 DEF Early
<1>6. AtEnqueue' => AtEnqueue
  BY <1>2 DEF AtEnqueue
<1> QED BY <1>4, <1>5, <1>6

(* So is every other step that writes no task and enqueues none.           *)
LEMMA OtherSole ==
  ASSUME TypesInv, NEW c \in Call, Accept(c) \/ Handle(c) \/ Drop(c), ~Insert(c)
  PROVE  (Sole' => Sole) /\ (Early' => Early) /\ (AtEnqueue' => AtEnqueue)
<1>1. CASE Accept(c)
  BY <1>1, AcceptMoves, GoesSole
<1>2. CASE DispatchReplacing(c) \/ DispatchNew(c)
  BY <1>2, BuiltMoves, GoesSole
<1>3. CASE \/ DispatchInvalid(c) \/ DispatchConflict(c) \/ Ask(c) \/ Enqueue(c)
           \/ Modify(c) \/ RescheduleTask(c) \/ RequeueTask(c) \/ SetPaused(c) \/ Remove(c)
  BY <1>3, AnswerMoves, GoesSole
<1>4. CASE Reply(c) \/ Drop(c)
  BY <1>4, EndMoves, GoesSole
<1> QED BY <1>1, <1>2, <1>3, <1>4 DEF Handle

(* An insert is a step of one that was there.                              *)
LEMMA InsertSole ==
  ASSUME TypesInv, NEW c \in Call, Insert(c), Sole'
  PROVE  Sole
<1>1. Goes(c, {"enqueue", "answer"})
  BY InsertMoves
<1>2. \A d \in Call : IsMaker(d)' <=> IsMaker(d)
  BY <1>1 DEF IsMaker, Goes
<1> QED BY <1>2 DEF Sole

(* Requests of one maker leave the task in one place.                      *)
LEMMA RequestAlone ==
  ASSUME TypesInv, SoleInv, Alone, Sole',
         NEW c \in Call, Send(c) \/ Accept(c) \/ Handle(c) \/ Drop(c)
  PROVE  SoleInv' /\ Alone'
<1>0. UNCHANGED <<now, exec, timers>>
  BY RequestFrame
<1>1. CASE Insert(c)
  BY <1>1, InsertSole, InsertAlone
<1>2. CASE Enqueue(c)
  <2>1. ~Insert(c)
    BY <1>2 DEF Enqueue, Insert, On
  <2> QED BY <1>2, <2>1, OtherSole, EnqueueAlone DEF Handle
<1>3. CASE ~Insert(c) /\ ~Enqueue(c)
  <2>1. Sole /\ (Early' => Early) /\ (AtEnqueue' => AtEnqueue)
    BY <1>3, SendSole, OtherSole
  <2>2. CASE \/ Send(c) \/ Accept(c) \/ DispatchInvalid(c) \/ DispatchConflict(c) \/ Ask(c)
             \/ Reply(c) \/ Drop(c) \/ DispatchNew(c)
    <3>1. UNCHANGED <<row, waiting, notBefore>>
      BY <2>2, RequestStays DEF DispatchNew, Built
    <3>2. Empty' <=> Empty
      BY <1>0, <3>1 DEF Empty
    <3>3. Alone'
      BY <1>0, <2>1, <3>1, AloneSame
    <3> QED BY <2>1, <3>2, <3>3 DEF SoleInv
  <2>3. CASE DispatchReplacing(c) \/ Remove(c)
    <3>1. row' = None /\ waiting' = waiting
      BY <2>3 DEF DispatchReplacing, Built, Remove
    <3>2. Empty => Empty'
      BY <1>0, <3>1 DEF Empty
    <3> QED BY <2>1, <3>1, <3>2 DEF SoleInv, Alone
  <2>4. CASE Modify(c)
    <3>1. IsMaker(c) /\ call[c].pc = "read"
      BY <2>4, ConnectionFacts DEF Modify, On, IsMaker, CallOK
    <3>2. Empty
      BY <2>1, <3>1 DEF Sole, Early, SoleInv
    <3>3. row' = None
      BY <2>4, <3>2, ModifyWrites DEF Empty
    <3>4. waiting' = waiting
      BY <2>4 DEF Modify, Apply
    <3> QED BY <1>0, <3>2, <3>3, <3>4 DEF SoleInv, Alone, Empty
  <2>5. CASE RescheduleTask(c) \/ RequeueTask(c) \/ SetPaused(c)
    <3>1. waiting' = waiting
      BY <2>5 DEF RescheduleTask, RequeueTask, SetPaused, Apply
    <3>2. row = None => row' = None
      BY <2>5, RescheduleWrites, RequeueWrites, PauseWrites
    <3>3. SoleInv'
      BY <1>0, <2>1, <3>1, <3>2 DEF SoleInv, Empty
    <3>4. CASE RescheduleTask(c)
      <4>1. CASE row' = row
        BY <1>0, <2>1, <3>1, <3>3, <3>4, <4>1, AloneSame, RescheduleWrites
      <4>2. CASE row' = None
        BY <3>3, <4>2 DEF Alone
      <4>3. CASE row' # row /\ row' # None
        <5>1. PICK e \in Expr : row'.cron = e
          BY <3>2, <3>4, <4>3, RescheduleWrites
        <5>2. ~Oneshot(row')
          BY <5>1, ScheduleAssumption DEF Oneshot, CronExprs
        <5> QED BY <3>3, <5>2 DEF Alone
      <4> QED BY <4>1, <4>2, <4>3
    <3>5. CASE RequeueTask(c)
      BY <2>1, <3>3, <3>5, RequeueAlone
    <3>6. CASE SetPaused(c)
      BY <2>1, <3>3, <3>6, PauseAlone
    <3> QED BY <2>5, <3>3, <3>4, <3>5, <3>6
  <2> QED BY <1>3, <2>2, <2>3, <2>4, <2>5 DEF Handle
<1> QED BY <1>1, <1>2, <1>3

(* A task dispatched once and never modified is not retried before its     *)
(* backoff has passed, whatever the delay, the number of attempts and the  *)
(* width of a time.                                                        *)
THEOREM RetriesKeepTheirDistance == Spec => RetrySpaced
<1>1. Init => TypesInv /\ (Sole => SoleInv /\ Alone)
  BY InitTypes DEF Init, PacingInit, SoleInv, Alone, Empty
<1>2. TypesInv /\ (Sole => SoleInv /\ Alone) /\ [Next]_vars
        => (TypesInv /\ (Sole => SoleInv /\ Alone))'
  <2> SUFFICES ASSUME TypesInv, Sole => SoleInv /\ Alone, [Next]_vars, Sole'
               PROVE  SoleInv' /\ Alone'
    BY NextTypes
  <2>1. CASE UNCHANGED vars
    <3>1. UNCHANGED <<now, row, waiting, timers, exec, notBefore, call>>
      BY <2>1 DEF vars, pacingVars, clockVars, requestVars
    <3>2. (Sole' <=> Sole) /\ (Early' <=> Early) /\ (AtEnqueue' <=> AtEnqueue)
      BY <3>1 DEF Sole, Early, AtEnqueue, IsMaker
    <3>3. Empty' <=> Empty
      BY <3>1 DEF Empty
    <3> QED BY <3>1, <3>2, <3>3, AloneSame DEF SoleInv
  <2>2. CASE PacingStep /\ UNCHANGED requestVars
    <3>1. Sole' <=> Sole
      BY <2>2 DEF Sole, IsMaker, requestVars
    <3> QED BY <2>2, <3>1, StepAlone, StepSole DEF TypesInv
  <2>3. ASSUME NEW c \in Call, Send(c) \/ Accept(c) \/ Handle(c) \/ Drop(c)
        PROVE  SoleInv' /\ Alone'
    <3>1. Sole
      BY <2>3, SendSole, OtherSole, InsertSole
    <3> QED BY <2>3, <3>1, RequestAlone
  <2> QED BY <2>1, <2>2, <2>3 DEF Next
<1>3. TypesInv /\ (Sole => SoleInv /\ Alone) /\ [Next]_vars =>
        [exec = None /\ exec' # None /\ Cardinality({c \in Call :
             call[c].op # None /\ call[c].op.kind \in {"dispatch", "modify"}}) = 1
           /\ CronExprs(row) = {} /\ row.interval = None /\ row.runAt = None
         => now >= notBefore]_vars
  <2> DEFINE makers == {c \in Call : call[c].op # None
                                       /\ call[c].op.kind \in {"dispatch", "modify"}}
  <2> SUFFICES ASSUME TypesInv, Sole => SoleInv /\ Alone, Next,
                      exec = None, exec' # None, Cardinality(makers) = 1, Oneshot(row)
               PROVE  now >= notBefore
    BY DEF Oneshot
  <2>1. ProcessStart
    <3>1. ASSUME NEW c \in Call, Send(c) \/ Accept(c) \/ Handle(c) \/ Drop(c) PROVE FALSE
      BY <3>1, RequestFrame
    <3>2. PacingStep
      BY <3>1 DEF Next
    <3>3. /\ ~Tick /\ ~Wake /\ ~ScanExpires /\ ~ScanRunAt /\ ~ScanInterval /\ ~ScanCron
          /\ ~ScanRetries
      BY DEF Tick, Wake, ScanExpires, ScanRunAt, ScanInterval, ScanCron, ScanRetries
    <3>4. /\ ~ProcessGone /\ ~ProcessExpired /\ ~ProcessEarly /\ ~ProcessLimited
          /\ ~ProcessOverlap /\ \A code : ~Finish(code)
      BY DEF ProcessGone, ProcessExpired, ProcessEarly, ProcessLimited, ProcessOverlap, Finish
    <3> QED BY <3>2, <3>3, <3>4 DEF PacingStep
  <2>2. Sole
    <3>1. IsFiniteSet(makers)
      <4>1. IsFiniteSet(Call)
        BY FS_Interval, RequestsAssumption DEF Call
      <4>2. makers \subseteq Call
        OBVIOUS
      <4> QED BY <4>1, <4>2, FS_Subset
    <3>2. \E c : makers = {c}
      BY <3>1, FS_Singleton
    <3> QED BY <3>2 DEF Sole, IsMaker
  <2>3. row # None /\ ~IsFinal(row) /\ ~Expired
    BY <2>1, StartWrites DEF TypesInv
  <2>4. ~Dead
    BY <2>3 DEF Dead, Expired, Overdue, IsFinal
  <2>5. Placed /\ waiting > 0
    BY <2>1, <2>2, <2>3, <2>4 DEF Alone, ProcessStart, Drain
  <2>6. row.next = None
    BY <2>5, PlaceOf DEF Placed
  <2>7. now \in Nat /\ notBefore \in Nat
    BY PlacesFacts DEF TypesInv, PlacesTyped
  <2> QED BY <2>5, <2>6, <2>7 DEF Placed, Timely
<1> QED BY <1>1, <1>2, <1>3, PTL DEF Spec, RetrySpaced
=============================================================================
