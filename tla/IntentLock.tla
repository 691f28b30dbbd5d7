----------------------------- MODULE IntentLock -----------------------------
(***************************************************************************)
(* core/idempotency.py: the lock a resolution takes on one payment intent. *)
(* It is a Redis key written with SET NX EX 30 and removed by a plain DEL; *)
(* a call that Redis does not answer falls back to a set in the memory of  *)
(* the calling process.  A task is one call of resolve() and lives in one  *)
(* operating-system process (a host): the outbox worker or the API server. *)
(*                                                                         *)
(* The key holds "1" whoever writes it.  That the variable key names the   *)
(* task that wrote it is a ghost: no action of a task reads the name.      *)
(* MaxKeyLosses and MaxRestarts bound the two counters.                    *)
(***************************************************************************)
EXTENDS Naturals, FiniteSets

CONSTANTS Tasks, Hosts, HostOf, NoTask,
          LiveExpiry,    \* may a resolution outlast the 30 second TTL?
          RedisFails,    \* may a Redis call raise?
          MaxKeyLosses, MaxRestarts

ASSUME LockAssumption ==
  /\ IsFiniteSet(Tasks) /\ IsFiniteSet(Hosts)
  /\ HostOf \in [Tasks -> Hosts]
  /\ NoTask \notin Tasks
  /\ LiveExpiry \in BOOLEAN /\ RedisFails \in BOOLEAN
  /\ MaxKeyLosses \in Nat /\ MaxRestarts \in Nat

VARIABLES key,       \* the Redis key: NoTask, or (ghost) who wrote it
          mem,       \* the hosts whose _in_memory_locks holds the intent
          inside,    \* the tasks between a successful acquire and the release
          keyLosses, restarts

lockVars == <<key, mem, inside, keyLosses, restarts>>

LockTypeOK ==
  /\ key \in Tasks \cup {NoTask}
  /\ mem \subseteq Hosts
  /\ inside \subseteq Tasks
  /\ keyLosses \in Nat /\ restarts \in Nat

LockInit ==
  /\ key = NoTask /\ mem = {} /\ inside = {}
  /\ keyLosses = 0 /\ restarts = 0

\* Fault variant: SET without NX.
AcquireRedisWithoutNX(t) == key' = t /\ mem' = mem

\* SET NX went through and found no key.
AcquireRedis(t) ==
  /\ key = NoTask
  /\ key' = t /\ mem' = mem

\* Fault variant: the fallback does not look whether the set holds the intent.
AcquireFallbackUnchecked(t) ==
  /\ RedisFails
  /\ key' = key
  /\ mem' = mem \cup {HostOf[t]}

\* The call raised, before or after Redis applied it: the host's own set decides.
AcquireFallback(t) ==
  /\ RedisFails /\ HostOf[t] \notin mem
  /\ key' = key \/ (key = NoTask /\ key' = t)
  /\ mem' = mem \cup {HostOf[t]}

Acquire(t) ==
  /\ t \notin inside
  /\ AcquireRedis(t) \/ AcquireFallback(t)
  /\ inside' = inside \cup {t}
  /\ UNCHANGED <<keyLosses, restarts>>

\* DEL removes the key, whoever wrote it since, and leaves the host's set alone.
ReleaseRedis(t) == key' = NoTask /\ UNCHANGED <<mem, keyLosses>>

\* The key goes although the call raised, by its TTL, or with Redis' memory.
LoseKey ==
  /\ key # NoTask /\ keyLosses < MaxKeyLosses
  /\ key' = NoTask /\ keyLosses' = keyLosses + 1

ReleaseFallback(t) ==
  /\ RedisFails
  /\ UNCHANGED <<key, keyLosses>> \/ LoseKey
  /\ mem' = mem \ {HostOf[t]}

Release(t) ==
  /\ t \in inside
  /\ ReleaseRedis(t) \/ ReleaseFallback(t)
  /\ inside' = inside \ {t}
  /\ UNCHANGED restarts

\* get_pool() raises between the acquire and the try: nobody releases.
Abandon(t) ==
  /\ t \in inside
  /\ inside' = inside \ {t}
  /\ UNCHANGED <<key, mem, keyLosses, restarts>>

\* Fault variant: a TTL shorter than the resolution it covers.
ExpireTooEarly ==
  /\ LoseKey
  /\ UNCHANGED <<mem, inside, restarts>>

\* The TTL ends, or Redis loses its data.
Expire ==
  /\ LiveExpiry \/ key \notin inside
  /\ LoseKey
  /\ UNCHANGED <<mem, inside, restarts>>

\* The process of host h dies and is started again: its memory is empty, the
\* Redis key is still there.
CrashHost(h) ==
  /\ restarts < MaxRestarts
  /\ restarts' = restarts + 1
  /\ mem' = mem \ {h}
  /\ inside' = {t \in inside : HostOf[t] # h}
  /\ UNCHANGED <<key, keyLosses>>

LockNext ==
  \/ \E t \in Tasks : Acquire(t) \/ Release(t) \/ Abandon(t)
  \/ Expire
  \/ \E h \in Hosts : CrashHost(h)

LockSpec == LockInit /\ [][LockNext]_lockVars
-----------------------------------------------------------------------------
\* At most one resolution of an intent is under way: what resolver.py's first
\* step takes the lock for.
MutualExclusion == \A t, u \in inside : t = u

\* Who is inside wrote the key that is there now: nothing freed it since.
HolderOwnsKey == mem = {} /\ \A t \in inside : key = t

\* However Redis fails, the resolutions that run at once are no more than one
\* for the key, one per host in fallback, and one for each time the key was
\* lost or a process forgot its set.
OverlapBound ==
  Cardinality(inside) <= keyLosses + restarts + Cardinality(mem)
                         + (IF key = NoTask THEN 0 ELSE 1)
=============================================================================
