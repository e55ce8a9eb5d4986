-------------------------------- MODULE LruMap --------------------------------
(***************************************************************************)
(* What the TTL cache promises its callers, without dict, lazy expiry or   *)
(* stale entries: a map of bounded size whose entries live for a time,     *)
(* which may give up its least recently used entry for a new one, and      *)
(* which belongs to one thread while that thread loads an entry.           *)
(***************************************************************************)
EXTENDS Integers, Sequences, FiniteSets, SequencesExt

CONSTANTS Keys, Threads, NoThread, Capacity, Ttls

VARIABLES
    life,           \* per key: how long its entry will live, Gone if it has none
    recency,        \* every key, in the order of its last use
    owner,          \* the thread that loads
    loading         \* per thread: the keys it loads

mapVars == <<life, recency, owner, loading>>

Gone == -1

Live == {k \in Keys : life[k] # Gone}

MapInit == /\ life = [k \in Keys |-> Gone]
           /\ recency = << >>
           /\ owner = NoThread
           /\ loading = [t \in Threads |-> {}]

Touch(k) == recency' = Append(RemoveFirst(recency, k), k)

EarlierUsed(x, y) ==
    \E i, j \in 1..Len(recency) : i < j /\ recency[i] = x /\ recency[j] = y

\* An entry is stored; a new one may take the place of the least recently used one.
Fill(k, ttl) ==
    /\ \/ life' = [life EXCEPT ![k] = ttl]
       \/ /\ k \notin Live
          /\ \E x \in Live : /\ \A y \in Live \ {x} : EarlierUsed(x, y)
                             /\ life' = [life EXCEPT ![k] = ttl, ![x] = Gone]
    /\ Cardinality(Live') <= Capacity
    /\ Touch(k)

Free == owner = NoThread

Put(k, ttl) == Free /\ Fill(k, ttl) /\ UNCHANGED <<owner, loading>>

Read(k) == Free /\ k \in Live /\ Touch(k) /\ UNCHANGED <<life, owner, loading>>

Drop(k) == /\ Free
           /\ life' = [life EXCEPT ![k] = Gone]
           /\ UNCHANGED <<recency, owner, loading>>

\* A thread that misses a key takes the map,
BeginLoad(t, k) == /\ Free
                   /\ k \notin Live
                   /\ owner' = t
                   /\ loading' = [loading EXCEPT ![t] = {k}]
                   /\ UNCHANGED <<life, recency>>

\* and gives it back with an entry that is still missing, or without.
EndLoad(t) == /\ owner = t
              /\ \/ UNCHANGED <<life, recency>>
                 \/ \E k \in loading[t] \ Live, ttl \in Ttls : Fill(k, ttl)
              /\ owner' = NoThread
              /\ loading' = [loading EXCEPT ![t] = {}]

\* Time passes for all entries alike, also during a load.
Elapse == /\ life' = [k \in Keys |-> IF k \in Live THEN life[k] - 1 ELSE Gone]
          /\ UNCHANGED <<recency, owner, loading>>

MapNext == \/ \E k \in Keys : (\E ttl \in Ttls : Put(k, ttl)) \/ Read(k) \/ Drop(k)
           \/ \E t \in Threads : (\E k \in Keys : BeginLoad(t, k)) \/ EndLoad(t)
           \/ Elapse

MapSpec == MapInit /\ [][MapNext]_mapVars

===============================================================================
