--------------------------- MODULE EventIdDedupe ----------------------------
(***************************************************************************)
(* The event-ID cache of meshquill-mqtt (command.rs), which keeps MQTT     *)
(* redelivery from causing a second radio send: a map from ID to the       *)
(* instant it was accepted and a queue of (ID, instant) pairs, bounded by  *)
(* a capacity and a time to live.  A pair is a record here and the map the *)
(* set of its pairs.                                                       *)
(***************************************************************************)
EXTENDS Queues, FiniteSets

CONSTANTS CheckedIds,   \* event IDs of the publications that pass every other check
          Capacity,     \* dedupe.capacity
          Ttl,          \* dedupe.ttl_secs, in ticks
          MaxNow        \* bound: ticks in a behaviour

ASSUME DedupeAssumption == /\ Capacity \in Nat \ {0} /\ Ttl \in Nat \ {0}
                           /\ MaxNow \in Nat

VARIABLES
    entries,    \* HashMap<Uuid, Instant>
    order,      \* VecDeque<(Uuid, Instant)>
    now,        \* Instant::now()
    accepted,   \* history: [CheckedIds -> last instant found fresh; -1: never]
    newer,      \* history: [CheckedIds -> IDs found fresh since]
    verdict     \* history: the last ID checked and the decision on it

cacheVars == <<entries, order, now, accepted, newer, verdict>>

Entry(id, at) == [id |-> id, at |-> at]

Expired(e) == now - e.at >= Ttl

\* What pop_front has yielded after k calls.
Front(q, k) == {q[i] : i \in 1 .. k}

\* evict_expired stops at the first pair that has not expired.
ExpiredPrefix ==
    CHOOSE k \in 0 .. Len(order) :
        /\ \A i \in 1 .. k : Expired(order[i])
        /\ k < Len(order) => ~Expired(order[k + 1])

\* Mutant: one ID fewer is kept than configured.
SurplusEager(map, q) ==
    CHOOSE k \in 0 .. Len(q) :
        /\ Cardinality(map \ Front(q, k)) < Capacity
        /\ \A j \in 0 .. k - 1 : Cardinality(map \ Front(q, j)) >= Capacity

\* enforce_capacity pops until the map is within its capacity.
Surplus(map, q) ==
    CHOOSE k \in 0 .. Len(q) :
        /\ Cardinality(map \ Front(q, k)) <= Capacity
        /\ \A j \in 0 .. k - 1 : Cardinality(map \ Front(q, j)) > Capacity

CacheInit ==
    /\ entries = {} /\ order = <<>> /\ now = 0
    /\ accepted = [id \in CheckedIds |-> -1]
    /\ newer = [id \in CheckedIds |-> {}]
    /\ verdict = [id |-> "none", fresh |-> FALSE]

\* Mutant: a duplicate renews its place in the queue but not in the map.
CheckAndInsertRequeues(id) ==
    LET kept == entries \ Front(order, ExpiredPrefix)
        left == SubSeq(order, ExpiredPrefix + 1, Len(order))
        duplicate == \E e \in kept : e.id = id /\ ~Expired(e)
        map == {e \in kept : e.id # id \/ duplicate} \cup {e \in {Entry(id, now)} : ~duplicate}
        q == Append(left, Entry(id, now))
        k == Surplus(map, q)
    IN  /\ entries' = map \ Front(q, k)
        /\ order' = SubSeq(q, k + 1, Len(q))
        /\ verdict' = [id |-> id, fresh |-> ~duplicate]
        /\ accepted' = IF duplicate THEN accepted ELSE [accepted EXCEPT ![id] = now]
        /\ newer' = IF duplicate THEN newer
                    ELSE [d \in CheckedIds |-> IF d = id THEN {} ELSE newer[d] \cup {id}]
        /\ UNCHANGED now

\* check_and_insert
CheckAndInsert(id) ==
    LET kept == entries \ Front(order, ExpiredPrefix)
        left == SubSeq(order, ExpiredPrefix + 1, Len(order))
    IN  /\ \/ /\ \E e \in kept : e.id = id /\ ~Expired(e)
              /\ entries' = kept /\ order' = left
              /\ verdict' = [id |-> id, fresh |-> FALSE]
              /\ UNCHANGED <<accepted, newer>>
           \/ /\ ~ \E e \in kept : e.id = id /\ ~Expired(e)
              /\ LET map == {e \in kept : e.id # id} \cup {Entry(id, now)}
                     q == Append(left, Entry(id, now))
                     k == Surplus(map, q)
                 IN  entries' = map \ Front(q, k) /\ order' = SubSeq(q, k + 1, Len(q))
              /\ verdict' = [id |-> id, fresh |-> TRUE]
              /\ accepted' = [accepted EXCEPT ![id] = now]
              /\ newer' = [d \in CheckedIds |-> IF d = id THEN {} ELSE newer[d] \cup {id}]
        /\ UNCHANGED now

Tick == /\ now < MaxNow /\ now' = now + 1
        /\ UNCHANGED <<entries, order, accepted, newer, verdict>>

CacheNext == Tick \/ \E id \in CheckedIds : CheckAndInsert(id)

CacheSpec == CacheInit /\ [][CacheNext]_cacheVars

-----------------------------------------------------------------------------
\* Every variable has its type, and the cache its capacity.
CacheTypeOK ==
    /\ \A e \in entries : e.id \in CheckedIds /\ e.at \in 0 .. now
    /\ Cardinality(entries) <= Capacity
    /\ Len(order) <= Capacity
    /\ accepted \in [CheckedIds -> -1 .. MaxNow]
    /\ newer \in [CheckedIds -> SUBSET CheckedIds]
    /\ now \in 0 .. MaxNow /\ verdict.fresh \in BOOLEAN

\* The queue lists exactly the pairs of the map, each ID once, oldest first:
\* evicting from its front is evicting the oldest.
QueueListsEntries ==
    /\ Holds(order) = entries /\ NoDuplicates(order)
    /\ \A i, j \in DOMAIN order : i < j => order[i].at <= order[j].at
    /\ \A e, f \in entries : e.id = f.id => e = f

\* The configured promise: within its lifetime, and until Capacity other IDs
\* have been accepted.
Protected(id) == /\ accepted[id] # -1 /\ now - accepted[id] < Ttl
                 /\ Cardinality(newer[id]) < Capacity

\* No ID is accepted a second time while it is protected: a redelivered
\* command reaches the radio once.
NoReplay ==
    [][\A id \in CheckedIds : CheckAndInsert(id) /\ verdict'.fresh => ~Protected(id)]_cacheVars

\* A publication is called a duplicate only of one accepted within the
\* lifetime: the same ID sent again after it is let through.
DuplicateOnlyWithinTtl ==
    [][\A id \in CheckedIds :
           CheckAndInsert(id) /\ ~verdict'.fresh
           => accepted[id] # -1 /\ now - accepted[id] < Ttl]_cacheVars

\* Map and queue of the cache stay within their bound and in step.
CacheIsConsistent == CacheTypeOK /\ QueueListsEntries

\* The cache refuses all replays it protects against and refuses nothing else.
RefusesExactlyReplays == NoReplay /\ DuplicateOnlyWithinTtl
=============================================================================
