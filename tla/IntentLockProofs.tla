-------------------------- MODULE IntentLockProofs --------------------------
(***************************************************************************)
(* What is proved of the lock for any tasks, hosts, placement and bounds:  *)
(* its type, mutual exclusion when neither the TTL ends under a holder nor *)
(* a Redis call raises, and the bound on simultaneous resolutions when     *)
(* both may happen.                                                        *)
(***************************************************************************)
EXTENDS IntentLock, FiniteSetTheorems, TLAPS

LEMMA TypeInitial == LockInit => LockTypeOK
BY LockAssumption DEF LockInit, LockTypeOK

LEMMA TypeStep == LockTypeOK /\ [LockNext]_lockVars => LockTypeOK'
<1> SUFFICES ASSUME LockTypeOK, [LockNext]_lockVars PROVE LockTypeOK'
  OBVIOUS
<1> USE LockAssumption DEF LockTypeOK
<1>1. ASSUME NEW t \in Tasks, Acquire(t) PROVE LockTypeOK'
  <2>1. HostOf[t] \in Hosts
    OBVIOUS
  <2> QED BY <1>1, <2>1 DEF Acquire, AcquireRedis, AcquireFallback
<1>2. ASSUME NEW t \in Tasks, Release(t) PROVE LockTypeOK'
  BY <1>2 DEF Release, ReleaseRedis, ReleaseFallback, LoseKey
<1>3. ASSUME NEW t \in Tasks, Abandon(t) PROVE LockTypeOK'
  BY <1>3 DEF Abandon
<1>4. CASE Expire
  BY <1>4 DEF Expire, LoseKey
<1>5. ASSUME NEW h \in Hosts, CrashHost(h) PROVE LockTypeOK'
  BY <1>5 DEF CrashHost
<1>6. CASE UNCHANGED lockVars
  BY <1>6 DEF lockVars
<1> QED BY <1>1, <1>2, <1>3, <1>4, <1>5, <1>6 DEF LockNext

\* Every state of the lock has the type the module declares for it
\* (core/idempotency.py:46-74).
THEOREM LockTypeCorrect == LockSpec => []LockTypeOK
BY TypeInitial, TypeStep, PTL DEF LockSpec
-----------------------------------------------------------------------------
(* Mutual exclusion.  MutualExclusion is not inductive: from a state in    *)
(* which a task is inside without a key another one enters.  HolderOwnsKey *)
(* adds that the key is there as long as somebody is inside and names him. *)

LEMMA HolderStep ==
  ASSUME ~LiveExpiry, ~RedisFails, LockTypeOK, HolderOwnsKey, [LockNext]_lockVars
  PROVE  HolderOwnsKey'
<1> USE LockAssumption DEF LockTypeOK, HolderOwnsKey
<1>1. ASSUME NEW t \in Tasks, Acquire(t) PROVE HolderOwnsKey'
  <2>1. key = NoTask /\ key' = t /\ mem' = mem
    BY <1>1 DEF Acquire, AcquireRedis, AcquireFallback
  <2>2. inside = {}
    BY <2>1
  <2> QED BY <1>1, <2>1, <2>2 DEF Acquire
<1>2. ASSUME NEW t \in Tasks, Release(t) PROVE HolderOwnsKey'
  <2>1. mem' = mem /\ inside' = inside \ {t} /\ t \in inside
    BY <1>2 DEF Release, ReleaseRedis, ReleaseFallback
  <2>2. inside' = {}
    BY <2>1
  <2> QED BY <2>1, <2>2
<1>3. ASSUME NEW t \in Tasks, Abandon(t) PROVE HolderOwnsKey'
  BY <1>3 DEF Abandon
<1>4. CASE Expire
  BY <1>4 DEF Expire, LoseKey
<1>5. ASSUME NEW h \in Hosts, CrashHost(h) PROVE HolderOwnsKey'
  BY <1>5 DEF CrashHost
<1>6. CASE UNCHANGED lockVars
  BY <1>6 DEF lockVars
<1> QED BY <1>1, <1>2, <1>3, <1>4, <1>5, <1>6 DEF LockNext

\* As long as no resolution outlasts the TTL and every Redis call is answered,
\* two resolutions of one intent never run at once, whatever processes die
\* and whatever keys are orphaned (core/resolver.py:50-53, 273-274).
THEOREM LockIsExclusive ==
  ASSUME ~LiveExpiry, ~RedisFails
  PROVE  LockSpec => []MutualExclusion
<1>1. LockInit => HolderOwnsKey
  BY DEF LockInit, HolderOwnsKey
<1>2. LockTypeOK /\ HolderOwnsKey /\ [LockNext]_lockVars => HolderOwnsKey'
  BY HolderStep
<1>3. HolderOwnsKey => MutualExclusion
  BY DEF HolderOwnsKey, MutualExclusion
<1> QED BY <1>1, <1>2, <1>3, LockTypeCorrect, PTL DEF LockSpec
-----------------------------------------------------------------------------
(* The bound that is left when the TTL may end and Redis may fail.         *)

KeyCount == IF key = NoTask THEN 0 ELSE 1

LEMMA InsideAndMemFinite ==
  ASSUME LockTypeOK
  PROVE  /\ IsFiniteSet(inside) /\ Cardinality(inside) \in Nat
         /\ IsFiniteSet(mem) /\ Cardinality(mem) \in Nat
BY LockAssumption, FS_Subset, FS_CardinalityType DEF LockTypeOK

LEMMA ForgetHost ==
  ASSUME NEW S, IsFiniteSet(S), NEW h
  PROVE  /\ Cardinality(S \ {h}) \in Nat
         /\ Cardinality(S) <= Cardinality(S \ {h}) + 1
<1>1. Cardinality(S) \in Nat /\ Cardinality(S \ {h}) \in Nat
  BY FS_RemoveElement, FS_CardinalityType
<1>2. Cardinality(S \ {h}) = IF h \in S THEN Cardinality(S) - 1 ELSE Cardinality(S)
  BY FS_RemoveElement
<1> QED BY <1>1, <1>2

LEMMA OverlapStep ==
  ASSUME LockTypeOK, OverlapBound, [LockNext]_lockVars
  PROVE  OverlapBound'
<1>f. /\ IsFiniteSet(inside) /\ Cardinality(inside) \in Nat
      /\ IsFiniteSet(mem) /\ Cardinality(mem) \in Nat
  BY InsideAndMemFinite
<1>n. keyLosses \in Nat /\ restarts \in Nat
  BY DEF LockTypeOK
<1>b. Cardinality(inside) <= keyLosses + restarts + Cardinality(mem) + KeyCount
  BY DEF OverlapBound, KeyCount
<1> SUFFICES Cardinality(inside')
               <= keyLosses' + restarts' + Cardinality(mem') + KeyCount'
  BY DEF OverlapBound, KeyCount
<1>k. KeyCount \in Nat /\ KeyCount <= 1 /\ KeyCount' \in Nat /\ KeyCount' <= 1
  BY DEF KeyCount
<1>1. ASSUME NEW t \in Tasks, Acquire(t)
      PROVE  Cardinality(inside')
               <= keyLosses' + restarts' + Cardinality(mem') + KeyCount'
  <2>1. Cardinality(inside') = Cardinality(inside) + 1
    BY <1>1, <1>f, FS_AddElement DEF Acquire
  <2>2. keyLosses' = keyLosses /\ restarts' = restarts
    BY <1>1 DEF Acquire
  <2>3. CASE AcquireRedis(t)
    <3>1. mem' = mem /\ KeyCount = 0 /\ KeyCount' = 1
      BY <2>3, LockAssumption DEF AcquireRedis, KeyCount
    <3> QED BY <2>1, <2>2, <3>1, <1>b, <1>f, <1>n
  <2>4. CASE AcquireFallback(t)
    <3>1. Cardinality(mem') = Cardinality(mem) + 1
      BY <2>4, <1>f, FS_AddElement DEF AcquireFallback
    <3>2. KeyCount <= KeyCount'
      BY <2>4, LockAssumption DEF AcquireFallback, KeyCount
    <3> QED BY <2>1, <2>2, <3>1, <3>2, <1>b, <1>f, <1>n, <1>k
  <2> QED BY <1>1, <2>3, <2>4 DEF Acquire
<1>2. ASSUME NEW t \in Tasks, Release(t)
      PROVE  Cardinality(inside')
               <= keyLosses' + restarts' + Cardinality(mem') + KeyCount'
  <2>1. Cardinality(inside') = Cardinality(inside) - 1
    BY <1>2, <1>f, FS_RemoveElement DEF Release
  <2>2. restarts' = restarts
    BY <1>2 DEF Release
  <2>3. CASE ReleaseRedis(t)
    <3>1. mem' = mem /\ keyLosses' = keyLosses /\ KeyCount' = 0
      BY <2>3 DEF ReleaseRedis, KeyCount
    <3>2. Cardinality(inside) - 1 <= keyLosses + restarts + Cardinality(mem)
      BY <1>b, <1>f, <1>n, <1>k
    <3> QED BY <2>1, <2>2, <3>1, <3>2, <1>f, <1>n
  <2>4. CASE ReleaseFallback(t)
    <3>1. /\ Cardinality(mem') \in Nat
          /\ Cardinality(mem) <= Cardinality(mem') + 1
      <4>1. mem' = mem \ {HostOf[t]}
        BY <2>4 DEF ReleaseFallback
      <4> QED BY <4>1, <1>f, ForgetHost
    <3>2. \/ KeyCount' = KeyCount /\ keyLosses' = keyLosses
          \/ KeyCount = 1 /\ KeyCount' = 0 /\ keyLosses' = keyLosses + 1
      BY <2>4 DEF ReleaseFallback, LoseKey, KeyCount
    <3> QED BY <2>1, <2>2, <3>1, <3>2, <1>b, <1>f, <1>n, <1>k
  <2> QED BY <1>2, <2>3, <2>4 DEF Release
<1>3. ASSUME NEW t \in Tasks, Abandon(t)
      PROVE  Cardinality(inside')
               <= keyLosses' + restarts' + Cardinality(mem') + KeyCount'
  <2>1. Cardinality(inside') = Cardinality(inside) - 1
    BY <1>3, <1>f, FS_RemoveElement DEF Abandon
  <2>2. /\ mem' = mem /\ KeyCount' = KeyCount
        /\ keyLosses' = keyLosses /\ restarts' = restarts
    BY <1>3 DEF Abandon, KeyCount
  <2> QED BY <2>1, <2>2, <1>b, <1>f, <1>n, <1>k
<1>4. CASE Expire
  <2>1. inside' = inside /\ mem' = mem /\ restarts' = restarts
    BY <1>4 DEF Expire
  <2>2. \/ KeyCount' = KeyCount /\ keyLosses' = keyLosses
        \/ KeyCount = 1 /\ KeyCount' = 0 /\ keyLosses' = keyLosses + 1
    BY <1>4 DEF Expire, LoseKey, KeyCount
  <2> QED BY <2>1, <2>2, <1>b, <1>f, <1>n, <1>k
<1>5. ASSUME NEW h \in Hosts, CrashHost(h)
      PROVE  Cardinality(inside')
               <= keyLosses' + restarts' + Cardinality(mem') + KeyCount'
  <2>1. Cardinality(inside') <= Cardinality(inside) /\ Cardinality(inside') \in Nat
    <3>1. inside' \in SUBSET inside
      BY <1>5 DEF CrashHost
    <3> QED BY <3>1, <1>f, FS_Subset, FS_CardinalityType
  <2>2. /\ Cardinality(mem') \in Nat
        /\ Cardinality(mem) <= Cardinality(mem') + 1
    BY <1>5, <1>f, ForgetHost DEF CrashHost
  <2>3. /\ KeyCount' = KeyCount /\ keyLosses' = keyLosses
        /\ restarts' = restarts + 1
    BY <1>5 DEF CrashHost, KeyCount
  <2> QED BY <2>1, <2>2, <2>3, <1>b, <1>f, <1>n, <1>k
<1>6. CASE UNCHANGED lockVars
  BY <1>6, <1>b DEF lockVars, KeyCount
<1> QED BY <1>1, <1>2, <1>3, <1>4, <1>5, <1>6 DEF LockNext

\* Whatever Redis, the TTL and the processes do, the number of resolutions of
\* one intent under way at once never exceeds what the surviving lock entries
\* and the losses counted so far explain: an unfenced DEL that frees another
\* task's key costs no more than the task that issues it
\* (core/idempotency.py:46-74).
THEOREM OverlapIsBounded == LockSpec => []OverlapBound
<1>1. LockInit => OverlapBound
  BY FS_EmptySet DEF LockInit, OverlapBound
<1>2. LockTypeOK /\ OverlapBound /\ [LockNext]_lockVars => OverlapBound'
  BY OverlapStep
<1> QED BY <1>1, <1>2, LockTypeCorrect, PTL DEF LockSpec
=============================================================================
