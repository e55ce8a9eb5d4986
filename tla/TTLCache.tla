-------------------------------- MODULE TTLCache --------------------------------
(***************************************************************************)
(* technical/ttl_cache: a cache with lazy expiry and LRU eviction, shared  *)
(* by threads under one lock.  Every public method holds the lock from     *)
(* start to end, so it is one action -- except get_or_set() on a miss,     *)
(* which calls the caller's factory with the lock in hand: that takes any  *)
(* time and may raise, so it begins and ends in actions of its own.        *)
(*                                                                         *)
(* Data abstraction.  The dict is the order of its keys (a dict keeps the  *)
(* order of insertion) and what is left of each lifetime; values are left  *)
(* out, and so are the counters of hits and misses, which nothing reads.   *)
(***************************************************************************)
EXTENDS Integers, Sequences, SequencesExt

CONSTANTS
    Keys,
    Threads,
    NoThread,
    Capacity,
    Ttls            \* the lifetimes callers pass, in ticks of the clock

ASSUME CacheAssumption == /\ NoThread \notin Threads
                          /\ Capacity \in Nat \ {0}
                          /\ Ttls \subseteq Nat \ {0}

VARIABLES
    cache,          \* the keys of the dict in order, least recently used first
    left,           \* per key: expiry - monotonic(), Expired once negative
    lock,           \* the thread in get_or_set() that waits for its factory
    loading,        \* per thread: the keys its factory is called for
    recency,        \* history: every key, in the order of its last use
    age             \* history: the time since each key was stored (0 once expired)

vars == <<cache, left, lock, loading, recency, age>>

Expired == -1

Init == /\ cache = << >>
        /\ left = [k \in Keys |-> Expired]
        /\ lock = NoThread
        /\ loading = [t \in Threads |-> {}]
        /\ recency = << >>
        /\ age = [k \in Keys |-> 0]

Cached == ToSet(cache)

\* k is moved to the end of the sequence s, or added to it.
ToEnd(s, k) == Append(RemoveFirst(s, k), k)

Used(k) == recency' = ToEnd(recency, k)

-----------------------------------------------------------------------------
(* The unlocked helpers *)

\* Mutant: the capacity is looked at before the old entry is popped.
StoreThenPop(k, ttl) ==
    LET room == IF Len(cache) >= Capacity THEN Tail(cache) ELSE cache
    IN  /\ cache' = ToEnd(room, k)
        /\ left' = [left EXCEPT ![k] = ttl]
        /\ age' = [age EXCEPT ![k] = 0]
        /\ Used(k)

\* _set(): the entry becomes the last of the dict; the first makes room for it.
Store(k, ttl) ==
    LET others == RemoveFirst(cache, k)
        room   == IF Len(others) >= Capacity THEN Tail(others) ELSE others
    IN  /\ cache' = Append(room, k)
        /\ left' = [left EXCEPT ![k] = ttl]
        /\ age' = [age EXCEPT ![k] = 0]
        /\ Used(k)

\* The condition of _get(): monotonic() > expiry is an expired entry.
Fresh(k) == k \in Cached /\ left[k] # Expired

\* Mutant: a hit leaves the entry where it is (a FIFO cache).
HitInPlace(k) == /\ Fresh(k)
                 /\ UNCHANGED <<cache, left, age>>
                 /\ Used(k)

\* _get() of a fresh entry moves it to the end of the dict.
Hit(k) == /\ Fresh(k)
          /\ cache' = ToEnd(cache, k)
          /\ Used(k)
          /\ UNCHANGED <<left, age>>

\* _get() of a key that is absent, or whose entry has expired and is popped.
Miss(k) == /\ ~Fresh(k)
           /\ cache' = RemoveFirst(cache, k)
           /\ UNCHANGED <<left, recency, age>>

-----------------------------------------------------------------------------
(* The public methods *)

Unlocked == lock = NoThread

\* set()
Set(k, ttl) == Unlocked /\ Store(k, ttl) /\ UNCHANGED <<lock, loading>>

\* get(); also get_or_set() of a fresh entry.
Get(k) == Unlocked /\ (Hit(k) \/ Miss(k)) /\ UNCHANGED <<lock, loading>>

\* delete()
Delete(k) == /\ Unlocked
             /\ cache' = RemoveFirst(cache, k)
             /\ UNCHANGED <<left, lock, loading, recency, age>>

\* Mutant: the factory is called after the lock is released.
LoadUnlocked(t, k) ==
    /\ Unlocked
    /\ loading[t] = {}
    /\ Miss(k)
    /\ loading' = [loading EXCEPT ![t] = {k}]
    /\ UNCHANGED lock

\* get_or_set() on a miss calls the factory.
Load(t, k) ==
    /\ Unlocked
    /\ loading[t] = {}
    /\ Miss(k)
    /\ lock' = t
    /\ loading' = [loading EXCEPT ![t] = {k}]

\* The factory returned.
LoadReturns(t, ttl) ==
    /\ \E k \in loading[t] : Store(k, ttl)
    /\ loading' = [loading EXCEPT ![t] = {}]
    /\ lock' = NoThread

\* The factory raised: the lock is released and nothing is stored.
LoadRaises(t) ==
    /\ loading[t] # {}
    /\ loading' = [loading EXCEPT ![t] = {}]
    /\ lock' = NoThread
    /\ UNCHANGED <<cache, left, recency, age>>

\* The monotonic clock advances, also while a factory runs.
Tick == /\ \E k \in Keys : left[k] # Expired
        /\ left' = [k \in Keys |-> IF left[k] = Expired THEN Expired ELSE left[k] - 1]
        /\ age' = [k \in Keys |-> IF left[k] \in {Expired, 0} THEN 0 ELSE age[k] + 1]
        /\ UNCHANGED <<cache, lock, loading, recency>>

Next == \/ \E k \in Keys : \/ \E ttl \in Ttls : Set(k, ttl)
                           \/ Get(k)
                           \/ Delete(k)
        \/ \E t \in Threads : \/ \E k \in Keys : Load(t, k)
                              \/ \E ttl \in Ttls : LoadReturns(t, ttl)
                              \/ LoadRaises(t)
        \/ Tick

Spec == Init /\ [][Next]_vars

-----------------------------------------------------------------------------
(* Properties *)

Once(s) == \A i, j \in 1..Len(s) : s[i] = s[j] => i = j

\* The types of the dict, the lifetimes, the lock and the local variables; no key
\* is in the dict twice and there are never more than the capacity.
TypeOK == /\ cache \in Seq(Keys) /\ Len(cache) <= Capacity /\ Once(cache)
          /\ left \in [Keys -> Nat \cup {Expired}]
          /\ lock \in Threads \cup {NoThread}
          /\ loading \in [Threads -> SUBSET Keys]
          /\ recency \in Seq(Keys) /\ Once(recency)
          /\ age \in [Keys -> Nat]

Before(s, x, y) == \E i, j \in 1..Len(s) : i < j /\ s[i] = x /\ s[j] = y

\* The order of insertion of the dict is the order of last use, after any
\* sequence of hits, overwrites, expiries and deletions: the first key is the
\* least recently used of those cached.
OrderIsRecency == /\ TypeOK
                  /\ Cached \subseteq ToSet(recency)
                  /\ \A x, y \in Cached : Before(cache, x, y) => Before(recency, x, y)

\* An entry is only ever lost to its expiry, to delete(), or -- being the least
\* recently used one -- to the insertion of a new key into a full cache.  (An
\* overwrite, or a failed load, costs nobody an entry.)
OnlyLeastRecentEvicted ==
    [][ \A k \in Cached : k \notin ToSet(cache') =>
            \/ left[k] = Expired
            \/ Delete(k)
            \/ /\ Len(cache) = Capacity
               /\ \E n \in ToSet(cache') : n \notin Cached
               /\ \A x \in Cached \ {k} : Before(recency, k, x) ]_vars

\* "A successful get refreshes the key's recency but does not extend its TTL":
\* whatever was read, overwritten, evicted and loaded again meanwhile, an entry that
\* is served is no older than a lifetime it was stored with, and lives just as long.
ServedWithinTtl == \A k \in Keys : Fresh(k) => left[k] + age[k] \in Ttls

\* Order and lifetimes survive every mix of reads, overwrites, loads, expiries,
\* evictions and deletions.
EntriesExact == OrderIsRecency /\ ServedWithinTtl

\* Check and load are one: from the look-up that missed to the end of the
\* factory nobody else stores the key or loads it, so a loaded value never
\* overwrites a newer one and concurrent callers load a key once; and the lock
\* is held exactly while a factory runs, whatever becomes of it.
LoadIsAtomic ==
    /\ \A t \in Threads : \A k \in loading[t] :
          /\ k \notin Cached
          /\ \A u \in Threads \ {t} : k \notin loading[u]
    /\ \A t \in Threads : lock = t <=> loading[t] # {}

\* The cache is in order and its loads are undivided.
CacheExact == EntriesExact /\ LoadIsAtomic

\* How long the entry of a key will be served.
Life == [k \in Keys |-> IF Fresh(k) THEN left[k] ELSE Expired]

Map == INSTANCE LruMap WITH life <- Life, owner <- lock

\* Lazy expiry does not show: with entries that linger after their time, in the order of
\* the dict and in its capacity, the cache is to its callers a map that has none.
ImplementsLruMap == Map!MapSpec

===============================================================================
