----------------------- MODULE CompanionClient_proofs -----------------------
(***************************************************************************)
(* Client (client.rs).  First its ACK bookkeeping by itself (AckTracking): *)
(* fresh, within its capacities, and what is owed to a caller is evicted   *)
(* last.  Then the client over its link: it applies one whole method of    *)
(* that bookkeeping per step or none, keeps its sessions apart, and gives  *)
(* every answer to the request it belongs to, although no answer carries a *)
(* tag: for any capacities, any bounds and any number of requests.  Last   *)
(* the actor that owns the client (managed.rs): it is a serial executor.   *)
(***************************************************************************)
EXTENDS CompanionClient, AckTracking, ManagedActor, Queues_proofs, FiniteSetTheorems

-----------------------------------------------------------------------------
(* Recency: what the position in a queue says about later entries.         *)

\* Removing a code leaves the others in their order.
LEMMA RetainRecency ==
    ASSUME NEW order \in Seq(Codes), NoDuplicates(order), NEW c,
           NEW newer, ByRecency(order, newer)
    PROVE  ByRecency(Retain(order, c), newer)
<1>1. CASE c \notin Holds(order)
  BY <1>1 DEF Retain
<1>2. CASE c \in Holds(order)
  <2> DEFINE k == CHOOSE i \in DOMAIN order : order[i] = c
             r == [j \in 1 .. Len(order) - 1 |-> IF j < k THEN order[j] ELSE order[j + 1]]
             up(i) == IF i < k THEN i ELSE i + 1
  <2>1. k \in 1 .. Len(order) /\ Len(order) \in Nat
    BY <1>2 DEF Holds
  <2>2. Retain(order, c) = r
    BY <1>2 DEF Retain
  <2> HIDE DEF k
  <2>3. ASSUME NEW i \in 1 .. Len(order) - 1, NEW j \in 1 .. Len(order) - 1, i < j
        PROVE  r[j] \in newer[r[i]]
    <3>1. up(i) \in DOMAIN order /\ up(j) \in DOMAIN order /\ up(i) < up(j)
      BY <2>1, <2>3
    <3>2. r[i] = order[up(i)] /\ r[j] = order[up(j)]
      BY <2>1
    <3> QED BY <3>1, <3>2 DEF ByRecency
  <2>4. DOMAIN r = 1 .. Len(order) - 1
    OBVIOUS
  <2> HIDE DEF r
  <2> QED BY <2>2, <2>3, <2>4 DEF ByRecency
<1> QED BY <1>1, <1>2

\* Entering c makes it newer than everything in the queue.
LEMMA RememberRecency ==
    ASSUME NEW kept \in Seq(Codes), NEW capacity \in Nat \ {0}, Len(kept) <= capacity,
           NEW c \in Codes, c \notin Holds(kept),
           NEW newer \in [Codes -> SUBSET Codes], ByRecency(kept, newer)
    PROVE  ByRecency(Append(Trimmed(kept, capacity), c), MakeNewest(newer, c))
<1> DEFINE t == Trimmed(kept, capacity)
           n == Len(t)
           q == Append(t, c)
           off == IF Len(kept) >= capacity THEN 1 ELSE 0
<1>1. Len(kept) \in Nat /\ DOMAIN kept = 1 .. Len(kept) /\ capacity \in Nat
  OBVIOUS
<1>2. /\ t \in Seq(Codes) /\ n = Len(kept) - off
      /\ \A i \in 1 .. n : i + off \in DOMAIN kept /\ t[i] = kept[i + off]
  <2>1. CASE Len(kept) < capacity
    BY <1>1, <2>1 DEF Trimmed
  <2>2. CASE Len(kept) = capacity
    <3>1. t = [j \in 1 .. capacity - 1 |-> kept[j + 1]]
      BY <1>1, <2>2 DEF Trimmed
    <3>2. t \in Seq(Codes) /\ n = capacity - 1 /\ off = 1
      BY <1>1, <2>2, <3>1
    <3>3. \A i \in 1 .. n : i + off \in DOMAIN kept /\ t[i] = kept[i + off]
      BY <1>1, <2>2, <3>1, <3>2
    <3> QED BY <2>2, <3>2, <3>3
  <2>3. Len(kept) < capacity \/ Len(kept) = capacity
    BY <1>1, LeqCases
  <2> QED BY <2>1, <2>2, <2>3
<1> HIDE DEF t
<1>3. /\ n \in Nat /\ DOMAIN q = 1 .. n + 1 /\ q[n + 1] = c
      /\ \A i \in 1 .. n : q[i] = t[i]
  BY <1>2
<1>4. ASSUME NEW i \in 1 .. n + 1, NEW j \in 1 .. n + 1, i < j
      PROVE  q[j] \in MakeNewest(newer, c)[q[i]]
  <2>1. i \in 1 .. n
    BY <1>3, <1>4
  <2>2. q[i] = kept[i + off] /\ i + off \in DOMAIN kept
    BY <1>2, <1>3, <2>1
  <2>3. q[i] \in Codes /\ q[i] # c
    BY <2>2 DEF Holds
  <2>4. MakeNewest(newer, c)[q[i]] = newer[q[i]] \cup {c}
    BY <2>3 DEF MakeNewest
  <2>5. CASE j = n + 1
    BY <1>3, <2>4, <2>5
  <2>6. CASE j \in 1 .. n
    <3>1. q[j] = kept[j + off] /\ j + off \in DOMAIN kept
      BY <1>2, <1>3, <2>6
    <3>2. i + off < j + off
      BY <1>3, <1>4
    <3> QED BY <2>2, <2>4, <3>1, <3>2 DEF ByRecency
  <2> QED BY <1>3, <2>5, <2>6
<1> HIDE DEF q
<1>5. ByRecency(q, MakeNewest(newer, c))
  BY <1>3, <1>4 DEF ByRecency
<1> QED BY <1>5 DEF q, t

\* A code that makes room for c has at least capacity codes newer than it.
LEMMA PoppedIsOld ==
    ASSUME NEW kept \in Seq(Codes), NoDuplicates(kept),
           NEW capacity \in Nat \ {0}, Len(kept) <= capacity,
           NEW c \in Codes, c \notin Holds(kept),
           NEW newer \in [Codes -> SUBSET Codes], ByRecency(kept, newer),
           NEW d \in Popped(kept, capacity), IsFiniteSet(newer[d])
    PROVE  Cardinality(MakeNewest(newer, c)[d]) >= capacity
<1>1. Len(kept) \in Nat /\ DOMAIN kept = 1 .. Len(kept) /\ capacity \in Nat
  OBVIOUS
<1>2. Len(kept) = capacity /\ d = kept[1]
  <2>1. PICK i \in 1 .. Len(kept) - capacity + 1 : d = kept[i]
    BY DEF Popped
  <2>2. \A m, n \in Nat : \A l \in 1 .. m - n + 1 : m <= n => m = n /\ l = 1
    OBVIOUS
  <2>3. Len(kept) = capacity /\ i = 1
    BY <1>1, <2>1, <2>2
  <2> QED BY <2>1, <2>3
<1>3. d \in Codes /\ d # c
  BY <1>1, <1>2 DEF Holds
<1> DEFINE later == newer[d] \cup {c}
           f == [i \in 1 .. capacity |-> IF i = capacity THEN c ELSE kept[i + 1]]
<1>4. MakeNewest(newer, c)[d] = later
  BY <1>3 DEF MakeNewest
<1>5. IsFiniteSet(later)
  BY FS_AddElement
<1>6. f \in [1 .. capacity -> later]
  <2>1. ASSUME NEW i \in 1 .. capacity, i # capacity PROVE kept[i + 1] \in newer[d]
    BY <1>1, <1>2, <2>1 DEF ByRecency
  <2> QED BY <2>1
<1>7. ASSUME NEW i \in 1 .. capacity, NEW j \in 1 .. capacity, f[i] = f[j]
      PROVE  i = j
  <2>1. \A m \in 1 .. capacity : m # capacity => m + 1 \in DOMAIN kept /\ kept[m + 1] # c
    BY <1>1, <1>2 DEF Holds
  <2>2. \A l, m \in DOMAIN kept : kept[l] = kept[m] => l = m
    BY DEF NoDuplicates
  <2>3. CASE i = capacity \/ j = capacity
    BY <1>7, <2>1, <2>3
  <2>4. CASE i # capacity /\ j # capacity
    <3>1. kept[i + 1] = kept[j + 1]
      BY <1>7, <2>4
    <3>2. i + 1 = j + 1
      BY <2>1, <2>2, <2>4, <3>1
    <3> QED BY <3>2
  <2> QED BY <2>3, <2>4
<1>8. f \in Injection(1 .. capacity, later)
  BY <1>6, <1>7 DEF Injection, IsInjective
<1>9. Cardinality(1 .. capacity) = capacity
  BY <1>1, FS_Interval
<1>10. Cardinality(1 .. capacity) <= Cardinality(later)
  BY <1>5, <1>8, FS_Injection
<1> QED BY <1>4, <1>9, <1>10

-----------------------------------------------------------------------------
(* The invariant of one map/queue pair: keys and order are the pair, newer *)
(* is its history of later entries and owed the codes its caller may still *)
(* ask for.                                                                *)

PairOK(keys, order, capacity, newer, owed) ==
    /\ order \in Seq(Codes) /\ NoDuplicates(order) /\ Len(order) <= capacity
    /\ Holds(order) = keys
    /\ newer \in [Codes -> SUBSET Codes]
    /\ \A c \in Codes : IsFiniteSet(newer[c])
    /\ ByRecency(order, newer)
    /\ keys \subseteq owed /\ owed \subseteq Codes
    /\ \A c \in owed : Cardinality(newer[c]) < capacity => c \in keys

\* The empty pair of a new session.
LEMMA PairEmpty ==
    ASSUME NEW capacity \in Nat \ {0}
    PROVE  PairOK({}, <<>>, capacity, [c \in Codes |-> {}], {})
BY FS_EmptySet DEF PairOK, NoDuplicates, Holds, ByRecency

\* Removing a code nobody is owed any more.
LEMMA PairDiscard ==
    ASSUME NEW keys, NEW order, NEW capacity \in Nat \ {0}, NEW newer, NEW owed,
           PairOK(keys, order, capacity, newer, owed), NEW c
    PROVE  PairOK(keys \ {c}, Retain(order, c), capacity, newer, owed \ {c})
<1>1. order \in Seq(Codes) /\ NoDuplicates(order) /\ ByRecency(order, newer)
  BY DEF PairOK
<1>2. /\ Retain(order, c) \in Seq(Codes) /\ NoDuplicates(Retain(order, c))
      /\ Holds(Retain(order, c)) = Holds(order) \ {c}
      /\ Len(Retain(order, c)) <= Len(order)
  BY <1>1, RetainProperties
<1>3. ByRecency(Retain(order, c), newer)
  BY <1>1, RetainRecency
<1>4. Len(Retain(order, c)) <= capacity
  <2>1. \A l, m, n \in Nat : l <= m /\ m <= n => l <= n
    OBVIOUS
  <2>2. Len(order) <= capacity /\ Len(order) \in Nat /\ Len(Retain(order, c)) \in Nat
    BY <1>1, <1>2 DEF PairOK
  <2> QED BY <1>2, <2>1, <2>2
<1> QED BY <1>2, <1>3, <1>4 DEF PairOK

\* Ceasing to owe a code that is not stored.
LEMMA PairForget ==
    ASSUME NEW keys, NEW order, NEW capacity, NEW newer, NEW owed,
           PairOK(keys, order, capacity, newer, owed), NEW c, c \notin keys
    PROVE  PairOK(keys, order, capacity, newer, owed \ {c})
BY DEF PairOK

\* Entering a code, at the price of the oldest one when the queue is full.
LEMMA PairRemember ==
    ASSUME NEW keys, NEW order, NEW capacity \in Nat \ {0}, NEW newer, NEW owed,
           PairOK(keys, order, capacity, newer, owed), NEW c \in Codes,
           NEW kept, kept = Retain(order, c)
    PROVE  PairOK((keys \ Popped(kept, capacity)) \cup {c},
                  Append(Trimmed(kept, capacity), c),
                  capacity, MakeNewest(newer, c), owed \cup {c})
<1> DEFINE q == Append(Trimmed(kept, capacity), c)
           newer2 == MakeNewest(newer, c)
           keys2 == (keys \ Popped(kept, capacity)) \cup {c}
<1>1. /\ order \in Seq(Codes) /\ NoDuplicates(order) /\ ByRecency(order, newer)
      /\ Len(order) <= capacity /\ Holds(order) = keys
      /\ newer \in [Codes -> SUBSET Codes]
      /\ \A d \in Codes : IsFiniteSet(newer[d])
  BY DEF PairOK
<1>2. /\ kept \in Seq(Codes) /\ NoDuplicates(kept)
      /\ Holds(kept) = Holds(order) \ {c} /\ Len(kept) <= Len(order)
  BY <1>1, RetainProperties
<1>3. ByRecency(kept, newer)
  BY <1>1, RetainRecency
<1>4. Len(kept) <= capacity
  <2>1. \A l, m, n \in Nat : l <= m /\ m <= n => l <= n
    OBVIOUS
  <2>2. Len(order) \in Nat /\ Len(kept) \in Nat
    BY <1>1, <1>2
  <2> QED BY <1>1, <1>2, <2>1, <2>2
<1>5. /\ q \in Seq(Codes) /\ NoDuplicates(q) /\ Len(q) <= capacity
      /\ Holds(q) = keys2
  BY <1>1, RememberProperties
<1>6. ByRecency(q, newer2)
  BY <1>1, <1>2, <1>3, <1>4, RememberRecency
<1>7. newer2 \in [Codes -> SUBSET Codes]
  BY <1>1 DEF MakeNewest
<1>8. ASSUME NEW d \in Codes PROVE IsFiniteSet(newer2[d])
  <2>1. IsFiniteSet(newer[d] \cup {c}) /\ IsFiniteSet({})
    BY <1>1, FS_AddElement, FS_EmptySet
  <2> QED BY <2>1 DEF MakeNewest
<1>9. keys2 \subseteq owed \cup {c} /\ owed \cup {c} \subseteq Codes
  BY DEF PairOK
<1>10. ASSUME NEW d \in owed \cup {c}, Cardinality(newer2[d]) < capacity
       PROVE  d \in keys2
  <2>1. CASE d = c
    BY <2>1
  <2>2. CASE d # c /\ d \in keys
    <3>1. d \in Codes /\ IsFiniteSet(newer[d])
      BY <1>1, <1>9
    <3>2. Cardinality(newer2[d]) \in Nat
      BY <1>8, <3>1, FS_CardinalityType
    <3>3. d \notin Popped(kept, capacity)
      <4>1. d \in Popped(kept, capacity) => Cardinality(newer2[d]) >= capacity
        BY <1>1, <1>2, <1>3, <1>4, <3>1, PoppedIsOld
      <4> QED BY <1>10, <3>2, <4>1
    <3> QED BY <2>2, <3>3
  <2>3. CASE d # c /\ d \notin keys
    <3>1. d \in owed /\ d \in Codes /\ IsFiniteSet(newer[d])
      BY <1>1, <1>9, <2>3
    <3>2. newer2[d] = newer[d] \cup {c}
      BY <2>3, <3>1 DEF MakeNewest
    <3>3. /\ IsFiniteSet(newer2[d]) /\ newer[d] \in SUBSET newer2[d]
          /\ Cardinality(newer[d]) \in Nat /\ Cardinality(newer2[d]) \in Nat
      BY <1>8, <3>1, <3>2, FS_CardinalityType
    <3>4. Cardinality(newer[d]) <= Cardinality(newer2[d])
      BY <3>3, FS_Subset
    <3>5. Cardinality(newer[d]) < capacity
      BY <1>10, <3>3, <3>4
    <3> QED BY <2>3, <3>1, <3>5 DEF PairOK
  <2> QED BY <2>1, <2>2, <2>3
<1> HIDE DEF q, newer2, keys2
<1>11. PairOK(keys2, q, capacity, newer2, owed \cup {c})
  BY <1>5, <1>6, <1>7, <1>8, <1>9, <1>10 DEF PairOK
<1> QED BY <1>11 DEF q, newer2, keys2

-----------------------------------------------------------------------------
(* The inductive invariant of AckTracking.                                 *)

PendingOK == PairOK(pendingAcks, pendingAckOrder, PendingCapacity, newerSends, unresolved)
CompletedOK == PairOK(completedAcks, completedAckOrder, CompletedCapacity, newerAcks, arrived)
Disjoint == pendingAcks \cap completedAcks = {}

Tracked == PendingOK /\ CompletedOK /\ Disjoint /\ StoredAckIsFresh /\ ackedSince \subseteq Codes

\* The initial state satisfies the inductive invariant.
LEMMA InitTracked == Init => Tracked
BY PairEmpty, CapacityAssumption
   DEF Init, TrackerInit, Tracked, PendingOK, CompletedOK, Disjoint, StoredAckIsFresh

\* Every step of the client preserves the inductive invariant.
LEMMA NextTracked == Tracked /\ [Next]_vars => Tracked'
<1> SUFFICES ASSUME Tracked, [Next]_vars PROVE Tracked'
  OBVIOUS
<1> USE CapacityAssumption
<1>p. PairOK(pendingAcks, pendingAckOrder, PendingCapacity, newerSends, unresolved)
  BY DEF Tracked, PendingOK
<1>q. PairOK(completedAcks, completedAckOrder, CompletedCapacity, newerAcks, arrived)
  BY DEF Tracked, CompletedOK
<1>r. /\ pendingAcks \cap completedAcks = {}
      /\ completedAcks \subseteq ackedSince /\ ackedSince \subseteq Codes
  BY DEF Tracked, Disjoint, StoredAckIsFresh
<1>1. ASSUME NEW c \in Codes, Sent(c) PROVE Tracked'
  <2>1. PendingOK'
    BY <1>1, <1>p, PairRemember DEF Sent, TrackSent, RememberPendingAck, PendingOK
  <2>2. CompletedOK'
    BY <1>1, <1>q, PairDiscard DEF Sent, TrackSent, DiscardCompletedAck, CompletedOK
  <2>3. Disjoint' /\ StoredAckIsFresh' /\ ackedSince' \subseteq Codes
    BY <1>1, <1>r DEF Sent, TrackSent, RememberPendingAck, DiscardCompletedAck,
                      Disjoint, StoredAckIsFresh
  <2> QED BY <2>1, <2>2, <2>3 DEF Tracked
<1>2. ASSUME NEW c \in Codes, AckRead(c) PROVE Tracked'
  <2>1. CASE c \in pendingAcks
    <3>1. PendingOK'
      BY <1>2, <2>1, <1>p, PairDiscard DEF AckRead, TrackAck, DiscardPendingAck, PendingOK
    <3>2. CompletedOK'
      <4>1. /\ RememberCompletedAck(c)
            /\ arrived' = arrived \cup {c} /\ newerAcks' = MakeNewest(newerAcks, c)
        BY <1>2, <2>1 DEF AckRead, TrackAck
      <4> QED BY <4>1, <1>q, PairRemember DEF RememberCompletedAck, CompletedOK
    <3>3. Disjoint' /\ StoredAckIsFresh' /\ ackedSince' \subseteq Codes
      BY <1>2, <2>1, <1>r DEF AckRead, TrackAck, DiscardPendingAck, RememberCompletedAck,
                              Disjoint, StoredAckIsFresh
    <3> QED BY <3>1, <3>2, <3>3 DEF Tracked
  <2>2. CASE c \notin pendingAcks
    <3>1. PendingOK'
      BY <1>2, <2>2, <1>p, PairForget DEF AckRead, TrackAck, trackerVars, PendingOK
    <3>2. CompletedOK'
      BY <1>2, <2>2, <1>q DEF AckRead, TrackAck, trackerVars, CompletedOK
    <3>3. Disjoint' /\ StoredAckIsFresh' /\ ackedSince' \subseteq Codes
      BY <1>2, <2>2, <1>r DEF AckRead, TrackAck, trackerVars, Disjoint, StoredAckIsFresh
    <3> QED BY <3>1, <3>2, <3>3 DEF Tracked
  <2> QED BY <2>1, <2>2
<1>3. ASSUME NEW c \in Codes, Collect(c) PROVE Tracked'
  <2>1. PendingOK'
    BY <1>3, <1>p DEF Collect, TakeCompletedAck, pendingVars, PendingOK
  <2>2. CompletedOK'
    BY <1>3, <1>q, PairDiscard DEF Collect, TakeCompletedAck, DiscardCompletedAck, CompletedOK
  <2>3. Disjoint' /\ StoredAckIsFresh' /\ ackedSince' \subseteq Codes
    BY <1>3, <1>r DEF Collect, TakeCompletedAck, DiscardCompletedAck, pendingVars,
                      Disjoint, StoredAckIsFresh
  <2> QED BY <2>1, <2>2, <2>3 DEF Tracked
<1>4. ASSUME NEW c \in Codes, WaitMatched(c) PROVE Tracked'
  <2>1. PendingOK'
    BY <1>4, <1>p, PairDiscard DEF WaitMatched, MatchWaitedAck, DiscardPendingAck, PendingOK
  <2>2. CompletedOK'
    BY <1>4, <1>q DEF WaitMatched, MatchWaitedAck, completedVars, CompletedOK
  <2>3. Disjoint' /\ StoredAckIsFresh' /\ ackedSince' \subseteq Codes
    BY <1>4, <1>r DEF WaitMatched, MatchWaitedAck, DiscardPendingAck, completedVars,
                      Disjoint, StoredAckIsFresh
  <2> QED BY <2>1, <2>2, <2>3 DEF Tracked
<1>5. ASSUME NEW c \in Codes, WaitFailed(c) PROVE Tracked'
  <2>1. PendingOK'
    BY <1>5, <1>p, PairDiscard DEF WaitFailed, AbandonAck, DiscardPendingAck, PendingOK
  <2>2. CompletedOK'
    BY <1>5, <1>q, PairDiscard DEF WaitFailed, AbandonAck, DiscardCompletedAck, CompletedOK
  <2>3. Disjoint' /\ StoredAckIsFresh' /\ ackedSince' \subseteq Codes
    BY <1>5, <1>r DEF WaitFailed, AbandonAck, DiscardPendingAck, DiscardCompletedAck,
                      Disjoint, StoredAckIsFresh
  <2> QED BY <2>1, <2>2, <2>3 DEF Tracked
<1>6. CASE SessionReset
  BY <1>6, PairEmpty DEF SessionReset, ClearTracking, Tracked, PendingOK, CompletedOK,
                         Disjoint, StoredAckIsFresh
<1>7. CASE UNCHANGED vars
  BY <1>7, <1>p, <1>q, <1>r DEF vars, trackerVars, historyVars, Tracked, PendingOK,
                                CompletedOK, Disjoint, StoredAckIsFresh
<1> QED BY <1>1, <1>2, <1>3, <1>4, <1>5, <1>6, <1>7 DEF Next

\* The inductive invariant gives each property the model checker checks.
LEMMA TrackedImplies ==
    Tracked => /\ TypeOK /\ TrackersConsistent /\ NothingLeftBehind
            /\ KeptUntilCapacity
BY DEF Tracked, PendingOK, CompletedOK, Disjoint, PairOK, TypeOK, TrackersConsistent,
       NothingLeftBehind, KeptUntilCapacity, TrackedUntilCapacity, StoredUntilCapacity,
       QueuesAreByRecency

\* The inductive invariant holds throughout every behaviour.
LEMMA AlwaysTracked == Spec => []Tracked
BY InitTracked, NextTracked, PTL DEF Spec

\* Type correctness of the ACK tracker of client.rs.
THEOREM TypeCorrect == Spec => []TypeOK
BY AlwaysTracked, TrackedImplies, PTL

\* The maps and queues of client.rs stay in step, duplicate-free, within
\* their capacities and disjoint.
THEOREM Consistency == Spec => []TrackersConsistent
BY AlwaysTracked, TrackedImplies, PTL

\* wait_for_ack never returns the ACK of an earlier send or session.
THEOREM Freshness == Spec => []StoredAckIsFresh
<1>1. Tracked => StoredAckIsFresh
  BY DEF Tracked
<1> QED BY <1>1, AlwaysTracked, PTL

\* A send is tracked until PendingCapacity later codes have been tracked, and
\* an ACK is stored until CompletedCapacity later ones have been stored; the
\* queues list their codes in the order of their last entry, so that pop_front
\* evicts the oldest.
THEOREM EvictionOnlyAtCapacity == Spec => []KeptUntilCapacity
BY AlwaysTracked, TrackedImplies, PTL

\* Nothing stays tracked or stored once it was resolved, abandoned or cleared.
THEOREM NoLeftovers == Spec => []NothingLeftBehind
BY AlwaysTracked, TrackedImplies, PTL

-----------------------------------------------------------------------------
(* The client and its link.                                                *)

PacketTypes == {"SelfInfo", "Ok", "Value", "ContactEnd", "MsgSent", "ContactMsg", "NoMoreMsgs",
                "Error", "Disabled", "Push", "Ack", "BinaryResponse", "Malformed"}
Pushes == {"Push", "Ack", "BinaryResponse", "Malformed"}
Outgoing == [kind : OrdinaryKinds \cup {"init", "sync"}, id : 0 .. MaxRequests]

\* What may be in the link: an unsolicited packet, or an answer that the read loop of the command it
\* answers takes for its own.
Packets == {p \in [type : PacketTypes, code : Codes \cup {NoCode}, re : Requests] :
               /\ p.re = NoRequest => p.type \in Pushes
               /\ p.re # NoRequest => /\ p.re.kind \in DOMAIN Accepts
                                      /\ p.type \in Accepts[p.re.kind] \cup Rejects[p.re.kind]
               /\ p.type \in {"MsgSent", "Ack"} => p.code \in Codes}

Operations == [kind : {"none", "drain", "ack", "response"} \cup DOMAIN Accepts, id : 0 .. MaxRequests,
               code : Codes \cup {NoCode}, n : 0 .. DrainCapacity]

TypeInv ==
    /\ connected \in BOOLEAN /\ syncState \in {"Idle", "AwaitingResponse"}
    /\ deferredSync \in Packets \cup {NoPacket}
    /\ op \in Operations
    /\ outbound \in Seq(Outgoing) /\ inbound \in Seq(Packets)
    /\ nextId \in 1 .. MaxRequests + 1
    /\ op.kind = "drain" /\ syncState = "Idle" => nextId <= MaxRequests
    /\ lifecycle \in {"none", "Connected", "Disconnected"}

\* wait_for_ack reads on only while the ACK it waits for is not stored.
AckIsAwaited == op.kind = "ack" => op.code \in Codes /\ op.code \notin completedAcks

\* Requests whose answer may be in the link: the one the client waits for, or a sync it knows of.
OneAnswer == DOMAIN Accepts \ {"sync"}
SyncRequests == {q \in Requests : q.kind = "sync"}
Expected ==
    IF op.kind \in OneAnswer THEN {[kind |-> op.kind, id |-> op.id]}
    ELSE IF syncState = "AwaitingResponse" THEN SyncRequests ELSE {}

\* At most one command is unanswered or its answer unread, and it is one of Q; what comes parses.
OnlyOwes(out, in, Q) ==
    /\ Len(out) <= 1 /\ \A i \in 1 .. Len(out) : out[i] \in Q
    /\ \A i \in 1 .. Len(in) : in[i].re \in Q \cup {NoRequest} /\ in[i].type # "Malformed"
    /\ out # <<>> => \A i \in 1 .. Len(in) : in[i].re = NoRequest
    /\ \A i, j \in 1 .. Len(in) : in[i].re # NoRequest /\ in[j].re # NoRequest => i = j

\* A sync answer is kept only while none is outstanding, and is one.
DeferredOK ==
    /\ syncState = "AwaitingResponse" \/ op.kind \in {"drain", "sync"} => deferredSync = NoPacket
    /\ Prompt /\ deferredSync # NoPacket => deferredSync.re.kind = "sync"

\* The inductive invariant.
IInv == /\ TypeInv /\ AckIsAwaited /\ DisconnectedIsClean /\ LifecycleIsCurrent
        /\ DeferredOK /\ AnswerMatchesRequest
        /\ Prompt => OnlyOwes(outbound, inbound, Expected)

-----------------------------------------------------------------------------
(* The link.                                                               *)

LEMMA SeqTail ==
    ASSUME NEW S, NEW s \in Seq(S), s # <<>>
    PROVE  /\ Head(s) \in S /\ Head(s) = s[1] /\ Tail(s) \in Seq(S) /\ Len(s) \in Nat /\ Len(s) >= 1
           /\ Len(Tail(s)) = Len(s) - 1
           /\ \A i \in 1 .. Len(Tail(s)) : Tail(s)[i] = s[i + 1] /\ i + 1 \in 2 .. Len(s)
OBVIOUS

LEMMA SeqAppend ==
    ASSUME NEW S, NEW s \in Seq(S), NEW e \in S
    PROVE  /\ Append(s, e) \in Seq(S) /\ Len(s) \in Nat /\ Len(Append(s, e)) = Len(s) + 1
           /\ \A i \in 1 .. Len(s) : Append(s, e)[i] = s[i]
           /\ Append(s, e)[Len(s) + 1] = e
           /\ \A i \in 1 .. Len(s) + 1 : i \in 1 .. Len(s) \/ i = Len(s) + 1
OBVIOUS

LEMMA EmptyQueue == ASSUME NEW S PROVE <<>> \in Seq(S)
OBVIOUS

LEMMA EmptyLink == ASSUME NEW Q PROVE OnlyOwes(<<>>, <<>>, Q)
BY DEF OnlyOwes

LEMMA OwesLess ==
    ASSUME NEW out, NEW in, NEW P, NEW Q, OnlyOwes(out, in, P), P \subseteq Q
    PROVE  OnlyOwes(out, in, Q)
BY DEF OnlyOwes

\* Reading a packet leaves at most what was owed before ...
LEMMA ReadOne ==
    ASSUME NEW out, NEW in \in Seq(Packets), in # <<>>, NEW Q, OnlyOwes(out, in, Q)
    PROVE  OnlyOwes(out, Tail(in), Q)
<1> DEFINE t == Tail(in)
<1>1. \A i \in 1 .. Len(t) : t[i] = in[i + 1] /\ i + 1 \in 1 .. Len(in)
  BY SeqTail
<1>2. \A i \in 1 .. Len(t) : t[i].re \in Q \cup {NoRequest} /\ t[i].type # "Malformed"
  BY <1>1 DEF OnlyOwes
<1>3. out # <<>> => \A i \in 1 .. Len(t) : t[i].re = NoRequest
  BY <1>1 DEF OnlyOwes
<1>4. ASSUME NEW i \in 1 .. Len(t), NEW j \in 1 .. Len(t), t[i].re # NoRequest, t[j].re # NoRequest
      PROVE  i = j
  <2>1. i + 1 = j + 1
    BY <1>1, <1>4 DEF OnlyOwes
  <2> QED BY <2>1
<1> HIDE DEF t
<1>5. OnlyOwes(out, t, Q)
  BY <1>2, <1>3, <1>4 DEF OnlyOwes
<1> QED BY <1>5 DEF t

\* ... and nothing when it was the answer.
LEMMA ReadAnswer ==
    ASSUME NEW out \in Seq(Outgoing), NEW in \in Seq(Packets), in # <<>>, NEW Q, OnlyOwes(out, in, Q),
           Head(in).re # NoRequest
    PROVE  Head(in).re \in Q /\ OnlyOwes(out, Tail(in), {}) /\ out = <<>>
<1> DEFINE t == Tail(in)
<1>1. /\ Head(in) = in[1] /\ 1 \in 1 .. Len(in)
      /\ \A i \in 1 .. Len(t) : t[i] = in[i + 1] /\ i + 1 \in 1 .. Len(in) /\ i + 1 # 1
  BY SeqTail
<1>2. out = <<>> /\ Head(in).re \in Q
  BY <1>1 DEF OnlyOwes
<1>3. \A i \in 1 .. Len(t) : t[i].re = NoRequest /\ t[i].type # "Malformed"
  BY <1>1 DEF OnlyOwes
<1> HIDE DEF t
<1>4. OnlyOwes(<<>>, t, {})
  BY <1>3 DEF OnlyOwes
<1> QED BY <1>2, <1>4 DEF t

\* The first command after nothing was owed.
LEMMA WriteOne ==
    ASSUME NEW out \in Seq(Outgoing), NEW in, OnlyOwes(out, in, {}), NEW q \in Outgoing
    PROVE  OnlyOwes(Append(out, q), in, {q})
<1>1. Len(out) \in Nat /\ Len(out) <= 1 /\ \A i \in 1 .. Len(out) : FALSE
  BY DEF OnlyOwes
<1>2. Len(out) = 0
  <2>1. Len(out) # 0 => 1 \in 1 .. Len(out)
    BY <1>1
  <2> QED BY <1>1, <2>1
<1>3. out = <<>>
  BY <1>2
<1>4. Len(Append(out, q)) = 1 /\ Append(out, q)[1] = q
  BY <1>3
<1>5. \A i \in 1 .. Len(in) : in[i].re = NoRequest /\ in[i].type # "Malformed"
  BY DEF OnlyOwes
<1> DEFINE o == Append(out, q)
<1> HIDE DEF o
<1>6. Len(o) <= 1 /\ \A i \in 1 .. Len(o) : o[i] \in {q}
  BY <1>4 DEF o
<1>7. OnlyOwes(o, in, {q})
  BY <1>5, <1>6 DEF OnlyOwes
<1> QED BY <1>7 DEF o

LEMMA OnlyCommand ==
    ASSUME NEW out \in Seq(Outgoing), out # <<>>, Len(out) <= 1
    PROVE  Tail(out) = <<>> /\ Head(out) = out[1] /\ 1 \in 1 .. Len(out)
<1>1. /\ Head(out) = out[1] /\ Len(out) \in Nat /\ Len(out) >= 1 /\ Len(Tail(out)) = Len(out) - 1
      /\ Tail(out) \in Seq(Outgoing)
  BY SeqTail
<1>2. Len(Tail(out)) = 0
  BY <1>1
<1>3. \A t \in Seq(Outgoing) : Len(t) = 0 => t = <<>>
  OBVIOUS
<1> QED BY <1>1, <1>2, <1>3

\* The companion answers ...
LEMMA AnswerOne ==
    ASSUME NEW out \in Seq(Outgoing), out # <<>>, NEW in \in Seq(Packets), NEW Q, OnlyOwes(out, in, Q),
           NEW p \in Packets, p.re = Head(out), p.type # "Malformed"
    PROVE  OnlyOwes(Tail(out), Append(in, p), Q)
<1>1. Head(out) \in Q
  BY OnlyCommand DEF OnlyOwes
<1>2. Tail(out) = <<>>
  BY OnlyCommand DEF OnlyOwes
<1>3. \A i \in 1 .. Len(in) : in[i].re = NoRequest /\ in[i].type # "Malformed"
  BY DEF OnlyOwes
<1> DEFINE a == Append(in, p)
<1>4. /\ Len(a) = Len(in) + 1 /\ Len(in) \in Nat /\ \A i \in 1 .. Len(in) : a[i] = in[i]
      /\ a[Len(in) + 1] = p /\ \A i \in 1 .. Len(a) : i \in 1 .. Len(in) \/ i = Len(in) + 1
  BY SeqAppend
<1> HIDE DEF a
<1>5. \A i \in 1 .. Len(a) : a[i].re \in Q \cup {NoRequest} /\ a[i].type # "Malformed"
  BY <1>1, <1>3, <1>4
<1>6. \A i \in 1 .. Len(a) : a[i].re # NoRequest => i = Len(in) + 1
  BY <1>3, <1>4
<1>7. OnlyOwes(<<>>, a, Q)
  BY <1>5, <1>6 DEF OnlyOwes
<1> QED BY <1>2, <1>7 DEF a

\* ... or loses the command, or says something on its own.
LEMMA LoseOne ==
    ASSUME NEW out \in Seq(Outgoing), out # <<>>, NEW in, NEW Q, OnlyOwes(out, in, Q)
    PROVE  OnlyOwes(Tail(out), in, Q)
<1>1. Tail(out) = <<>>
  BY OnlyCommand DEF OnlyOwes
<1>2. OnlyOwes(<<>>, in, Q)
  BY DEF OnlyOwes
<1> QED BY <1>1, <1>2

LEMMA PushOne ==
    ASSUME NEW out, NEW in \in Seq(Packets), NEW Q, OnlyOwes(out, in, Q), NEW p \in Packets,
           p.re = NoRequest, p.type # "Malformed"
    PROVE  OnlyOwes(out, Append(in, p), Q)
<1> DEFINE a == Append(in, p)
<1>1. /\ Len(a) = Len(in) + 1 /\ Len(in) \in Nat /\ \A i \in 1 .. Len(in) : a[i] = in[i]
      /\ a[Len(in) + 1] = p /\ \A i \in 1 .. Len(a) : i \in 1 .. Len(in) \/ i = Len(in) + 1
  BY SeqAppend
<1> HIDE DEF a
<1>2. \A i \in 1 .. Len(a) : a[i].re \in Q \cup {NoRequest} /\ a[i].type # "Malformed"
  BY <1>1 DEF OnlyOwes
<1>3. out # <<>> => \A i \in 1 .. Len(a) : a[i].re = NoRequest
  BY <1>1 DEF OnlyOwes
<1>4. \A i, j \in 1 .. Len(a) : a[i].re # NoRequest /\ a[j].re # NoRequest => i = j
  BY <1>1 DEF OnlyOwes
<1>5. OnlyOwes(out, a, Q)
  BY <1>2, <1>3, <1>4 DEF OnlyOwes
<1> QED BY <1>5 DEF a

-----------------------------------------------------------------------------
(* Which packet belongs to which operation.                                *)

LEMMA AcceptsDomain ==
    DOMAIN Accepts = {"init", "ok", "query", "contacts", "send", "remote", "sync"}
    /\ DOMAIN Rejects = DOMAIN Accepts
BY DEF Accepts, Rejects

\* No read loop takes an unsolicited packet for its answer.
LEMMA PushesAreForeign ==
    ASSUME NEW what \in DOMAIN Accepts
    PROVE  /\ (Accepts[what] \cup Rejects[what]) \cap Pushes = {}
           /\ Accepts[what] \cup Rejects[what] \subseteq PacketTypes
BY AcceptsDomain DEF Accepts, Rejects, Pushes, PacketTypes

LEMMA SyncLoop == Accepts["sync"] \cup Rejects["sync"] = SyncTypes
BY DEF Accepts, Rejects, SyncTypes

\* Everything the companion answers to a command is an answer its read loop knows.
LEMMA AnswersAreKnown ==
    ASSUME NEW what, NEW type \in Answers(what)
    PROVE  what \in DOMAIN Accepts /\ type \in Accepts[what] \cup Rejects[what]
BY AcceptsDomain DEF Answers, Accepts, Rejects, SyncTypes

LEMMA PacketFields ==
    ASSUME NEW p \in Packets
    PROVE  /\ p.type \in PacketTypes /\ p.code \in Codes \cup {NoCode} /\ p.re \in Requests
           /\ p.re = NoRequest => p.type \in Pushes
           /\ p.re # NoRequest => /\ p.re.kind \in DOMAIN Accepts
                                  /\ p.type \in Accepts[p.re.kind] \cup Rejects[p.re.kind]
           /\ p.type \in {"MsgSent", "Ack"} => p.code \in Codes
           /\ p # NoPacket /\ IsPacket(p)
<1>1. p \in [type : PacketTypes, code : Codes \cup {NoCode}, re : Requests]
  BY DEF Packets
<1>2. p.type \in PacketTypes /\ p.code \in Codes \cup {NoCode} /\ p.re \in Requests
  BY <1>1
<1>3. NoPacket.type = "none" /\ "none" \notin PacketTypes
  BY DEF NoPacket, PacketTypes
<1>4. p # NoPacket
  BY <1>2, <1>3
<1>5. DOMAIN p = {"type", "code", "re"}
  BY <1>1
<1> QED BY <1>2, <1>4, <1>5 DEF Packets, IsPacket

LEMMA NothingOperates ==
    /\ NoOp \in Operations /\ NoOp.kind = "none"
    /\ "none" \notin DOMAIN Accepts /\ "drain" \notin DOMAIN Accepts /\ "ack" \notin DOMAIN Accepts
    /\ "response" \notin DOMAIN Accepts
BY AcceptsDomain, ClientAssumption DEF NoOp, Operations

\* Whoever is not idle has a session.
LEMMA BusyIsConnected ==
    ASSUME IInv PROVE /\ op.kind # "none" => connected = TRUE
                      /\ op.kind = "none" => op.kind \notin OneAnswer
<1>1. op # NoOp => connected
  BY DEF IInv, DisconnectedIsClean, Idle
<1> QED BY <1>1, NothingOperates DEF IInv, TypeInv, OneAnswer

-----------------------------------------------------------------------------
(* What several actions have in common.                                    *)

\* The session ends.
LEMMA SessionEnds ==
    ASSUME IInv, UNCHANGED faults, connected' = FALSE, ClearTracking, ClearSyncTracking, op' = NoOp,
           lifecycle' \in {"none", "Disconnected"}, nextId' \in 1 .. MaxRequests + 1,
           outbound' \in Seq(Outgoing), inbound' \in Seq(Packets),
           Prompt => outbound' = <<>> /\ inbound' = <<>>,
           AnswerMatchesRequest'
    PROVE  IInv'
<1>1. TypeInv'
  BY NothingOperates DEF TypeInv, ClearSyncTracking
<1>2. AckIsAwaited'
  BY NothingOperates DEF AckIsAwaited
<1>3. DisconnectedIsClean' /\ LifecycleIsCurrent'
  BY DEF DisconnectedIsClean, LifecycleIsCurrent, ClearTracking, ClearSyncTracking, Idle
<1>4. DeferredOK'
  BY NothingOperates DEF DeferredOK, ClearSyncTracking
<1>5. (Prompt => OnlyOwes(outbound, inbound, Expected))'
  <2>1. Prompt' => OnlyOwes(outbound', inbound', Expected')
    BY EmptyLink DEF Prompt
  <2> QED BY <2>1
<1> QED BY <1>1, <1>2, <1>3, <1>4, <1>5 DEF IInv

\* What is in the link when the transport closes is gone, unless the environment carries it over.
LEMMA LinkCloses ==
    ASSUME NEW unsent \in Seq(Outgoing), NEW unread \in Seq(Packets), CloseLink(unsent, unread)
    PROVE  /\ outbound' \in Seq(Outgoing) /\ inbound' \in Seq(Packets)
           /\ Prompt => outbound' = <<>> /\ inbound' = <<>>
<1>1. Prompt => "carry" \notin faults
  BY DEF Prompt
<1>2. CASE outbound' = <<>> /\ inbound' = <<>>
  BY <1>2
<1>3. CASE "carry" \in faults /\ outbound' = unsent /\ inbound' = unread
  BY <1>1, <1>3
<1> QED BY <1>2, <1>3 DEF CloseLink

LEMMA Marked ==
    ASSUME IInv, MarkDisconnected, UNCHANGED <<nextId, served, faults>> PROVE IInv'
<1>1. outbound \in Seq(Outgoing) /\ inbound \in Seq(Packets) /\ nextId \in 1 .. MaxRequests + 1
  BY DEF IInv, TypeInv
<1>2. /\ outbound' \in Seq(Outgoing) /\ inbound' \in Seq(Packets)
      /\ Prompt => outbound' = <<>> /\ inbound' = <<>>
  BY <1>1, LinkCloses DEF MarkDisconnected
<1>3. lifecycle' \in {"none", "Disconnected"}
  BY DEF MarkDisconnected, IInv, TypeInv, LifecycleIsCurrent
<1>4. AnswerMatchesRequest'
  BY DEF IInv, AnswerMatchesRequest, Prompt
<1> QED BY <1>1, <1>2, <1>3, <1>4, SessionEnds DEF MarkDisconnected

\* What is owed to a client that runs no request of its own.
SyncOwed == IF syncState = "AwaitingResponse" THEN SyncRequests ELSE {}

\* An operation ends and the session goes on.
LEMMA OperationEnds ==
    ASSUME IInv, UNCHANGED <<faults, connected, lifecycle, nextId, deferredSync>>,
           op.kind \notin {"none", "init"}, op' = NoOp, syncState' \in {syncState, "Idle"},
           outbound' \in Seq(Outgoing), inbound' \in Seq(Packets),
           Prompt => OnlyOwes(outbound', inbound', SyncOwed'),
           AnswerMatchesRequest'
    PROVE  IInv'
<1>1. connected = TRUE
  BY BusyIsConnected
<1>2. TypeInv'
  BY NothingOperates DEF IInv, TypeInv
<1>3. AckIsAwaited'
  BY NothingOperates DEF AckIsAwaited
<1>4. DisconnectedIsClean' /\ LifecycleIsCurrent'
  BY <1>1, NothingOperates DEF DisconnectedIsClean, LifecycleIsCurrent, IInv
<1>5. DeferredOK'
  BY NothingOperates DEF DeferredOK, IInv, TypeInv, Prompt
<1>6. Expected' = SyncOwed'
  BY NothingOperates DEF Expected, SyncOwed, OneAnswer
<1>7. (Prompt => OnlyOwes(outbound, inbound, Expected))'
  <2>1. Prompt' => OnlyOwes(outbound', inbound', Expected')
    BY <1>6 DEF Prompt
  <2> QED BY <2>1
<1> QED BY <1>2, <1>3, <1>4, <1>5, <1>7 DEF IInv

\* A packet that is not the reader's own answer is published and perhaps kept; the operation goes on.
LEMMA OtherPacket ==
    ASSUME IInv, inbound # <<>>, RetainSyncResponse(Head(inbound)), Consume,
           UNCHANGED <<faults, connected, lifecycle, nextId, served>>, connected = TRUE,
           op' \in Operations, op' = op \/ (op.kind = "drain" /\ op'.kind \in {"none", "drain"}),
           op.kind \in DOMAIN Accepts =>
               Head(inbound).type \notin Accepts[op.kind] \cup Rejects[op.kind],
           op.kind = "drain" => Head(inbound).type \notin SyncTypes,
           AckIsAwaited'
    PROVE  IInv'
<1>p. PICK p : p = Head(inbound)
  OBVIOUS
<1>0. /\ RetainSyncResponse(p)
      /\ op.kind = "drain" => p.type \notin SyncTypes
      /\ op.kind \in DOMAIN Accepts => p.type \notin Accepts[op.kind] \cup Rejects[op.kind]
  BY <1>p
<1>1. outbound \in Seq(Outgoing) /\ inbound \in Seq(Packets)
  BY DEF IInv, TypeInv
<1>2. /\ p \in Packets /\ Tail(inbound) \in Seq(Packets)
      /\ outbound' = outbound /\ inbound' = Tail(inbound)
  BY <1>p, <1>1, SeqTail DEF Consume
<1>3. /\ p.re = NoRequest => p.type \in Pushes
      /\ p.re # NoRequest => /\ p.re.kind \in DOMAIN Accepts
                             /\ p.type \in Accepts[p.re.kind] \cup Rejects[p.re.kind]
  BY <1>2, PacketFields
<1>4. \/ /\ syncState = "AwaitingResponse" /\ p.type \in SyncTypes
         /\ deferredSync' = p /\ syncState' = "Idle"
      \/ /\ ~(syncState = "AwaitingResponse" /\ p.type \in SyncTypes)
         /\ UNCHANGED <<deferredSync, syncState>>
  BY <1>0 DEF RetainSyncResponse
<1>5. TypeInv'
  <2>1. deferredSync' \in Packets \cup {NoPacket} /\ syncState' \in {"Idle", "AwaitingResponse"}
    BY <1>2, <1>4 DEF IInv, TypeInv
  <2>2. op'.kind = "drain" /\ syncState' = "Idle" => nextId' <= MaxRequests
    BY <1>0, <1>4 DEF IInv, TypeInv
  <2> QED BY <1>1, <1>2, <2>1, <2>2 DEF IInv, TypeInv
<1>6. op'.kind = "init" <=> op.kind = "init"
  OBVIOUS
<1>7. DisconnectedIsClean' /\ LifecycleIsCurrent'
  BY <1>6 DEF DisconnectedIsClean, LifecycleIsCurrent, IInv
<1>8. op.kind \in {"drain", "sync"} => p.type \notin SyncTypes
  BY <1>0, SyncLoop, AcceptsDomain
<1>9. SyncTypes \cap Pushes = {}
  BY DEF SyncTypes, Pushes
<1>10. Expected' = Expected \/ (Expected' = {} /\ p.type \in SyncTypes)
  <2>1. op'.kind \in OneAnswer <=> op.kind \in OneAnswer
    BY NothingOperates DEF OneAnswer
  <2>2. op.kind \in OneAnswer => op' = op
    BY NothingOperates DEF OneAnswer
  <2> QED BY <1>4, <2>1, <2>2 DEF Expected
<1>11. ASSUME Prompt, p.re # NoRequest
       PROVE  OnlyOwes(outbound', inbound', {}) /\ p.re.kind = "sync"
  <2>1. OnlyOwes(outbound, inbound, Expected)
    BY <1>11 DEF IInv
  <2>2. p.re \in Expected /\ OnlyOwes(outbound, Tail(inbound), {})
    BY <1>p, <1>1, <1>11, <2>1, ReadAnswer
  <2>3. CASE op.kind \in OneAnswer
    <3>1. p.re.kind = op.kind
      BY <2>2, <2>3 DEF Expected
    <3> QED BY <1>0, <1>3, <1>11, <2>3, <3>1 DEF OneAnswer
  <2>4. CASE op.kind \notin OneAnswer
    BY <1>2, <2>2, <2>4 DEF Expected, SyncRequests
  <2> QED BY <2>3, <2>4
<1>12. Prompt => OnlyOwes(outbound', inbound', Expected')
  <2>1. CASE p.re # NoRequest
    BY <1>11, <2>1, OwesLess
  <2>2. CASE p.re = NoRequest
    <3>1. Expected' = Expected
      BY <1>3, <1>9, <1>10, <2>2
    <3>2. Prompt => OnlyOwes(outbound, Tail(inbound), Expected)
      BY <1>1, ReadOne DEF IInv
    <3> QED BY <1>2, <3>1, <3>2
  <2> QED BY <2>1, <2>2
<1>13. (Prompt => OnlyOwes(outbound, inbound, Expected))'
  <2>1. Prompt' => OnlyOwes(outbound', inbound', Expected')
    BY <1>12 DEF Prompt
  <2> QED BY <2>1
<1>14. AnswerMatchesRequest'
  BY DEF IInv, AnswerMatchesRequest, Prompt
<1>15. DeferredOK'
  <2>1. op'.kind \in {"drain", "sync"} => op.kind \in {"drain", "sync"}
    OBVIOUS
  <2>2. Prompt' = Prompt
    BY DEF Prompt
  <2>3. CASE syncState = "AwaitingResponse" /\ p.type \in SyncTypes
    <3>1. p.re # NoRequest
      BY <1>3, <1>9, <2>3
    <3> QED BY <1>4, <1>8, <1>11, <2>1, <2>2, <2>3, <3>1 DEF DeferredOK
  <2>4. CASE ~(syncState = "AwaitingResponse" /\ p.type \in SyncTypes)
    BY <1>4, <2>1, <2>2, <2>4 DEF DeferredOK, IInv
  <2> QED BY <2>3, <2>4
<1> QED BY <1>5, <1>7, <1>13, <1>14, <1>15 DEF IInv

-----------------------------------------------------------------------------
(* Opening and closing sessions.                                           *)

LEMMA InitIInv == ClientInit => IInv
<1> SUFFICES ASSUME ClientInit PROVE IInv
  OBVIOUS
<1>1. TypeInv
  <2>1. outbound \in Seq(Outgoing) /\ inbound \in Seq(Packets)
    BY EmptyQueue DEF ClientInit
  <2>2. nextId \in 1 .. MaxRequests + 1
    BY ClientAssumption DEF ClientInit
  <2> QED BY <2>1, <2>2, NothingOperates DEF ClientInit, TypeInv
<1>2. AckIsAwaited /\ DisconnectedIsClean /\ LifecycleIsCurrent
  BY NothingOperates
     DEF ClientInit, TrackerInit, AckIsAwaited, DisconnectedIsClean, LifecycleIsCurrent, Idle
<1>3. DeferredOK /\ AnswerMatchesRequest
  BY NothingOperates DEF ClientInit, DeferredOK, AnswerMatchesRequest
<1>4. OnlyOwes(outbound, inbound, Expected)
  BY EmptyLink DEF ClientInit
<1> QED BY <1>1, <1>2, <1>3, <1>4 DEF IInv

\* A command of the model's range.
LEMMA NewCommand ==
    ASSUME IInv, CanWrite, NEW what \in OrdinaryKinds \cup {"init", "sync"}
    PROVE  /\ [kind |-> what, id |-> nextId] \in Outgoing
           /\ nextId \in 0 .. MaxRequests /\ nextId + 1 \in 1 .. MaxRequests + 1
BY ClientAssumption DEF IInv, TypeInv, CanWrite, Outgoing

LEMMA OperationFields ==
    ASSUME NEW what, NEW id, NEW code, NEW n
    PROVE  /\ Operation(what, id, code, n).kind = what /\ Operation(what, id, code, n).id = id
           /\ Operation(what, id, code, n).code = code
           /\ (what \in {"none", "drain", "ack", "response"} \cup DOMAIN Accepts
               /\ id \in 0 .. MaxRequests /\ code \in Codes \cup {NoCode} /\ n \in 0 .. DrainCapacity)
              => Operation(what, id, code, n) \in Operations
BY DEF Operation, Operations

LEMMA OpenSessionIInv == ASSUME IInv, OpenSession, UNCHANGED faults PROVE IInv'
<1> DEFINE cmd == [kind |-> "init", id |-> nextId]
<1>1. Idle /\ CanWrite /\ connected' = TRUE /\ ClearTracking /\ ClearSyncTracking /\ UNCHANGED served
      /\ op' = Operation("init", nextId, NoCode, 0) /\ nextId' = nextId + 1
      /\ lifecycle' = IF connected THEN "Disconnected" ELSE lifecycle
  BY DEF OpenSession
<1>2. cmd \in Outgoing /\ nextId \in 0 .. MaxRequests /\ nextId' \in 1 .. MaxRequests + 1
  BY <1>1, NewCommand
<1>3. 0 \in 0 .. DrainCapacity
  BY ClientAssumption
<1>4. op' \in Operations /\ op'.kind = "init" /\ op'.id = nextId
  BY <1>1, <1>2, <1>3, OperationFields, AcceptsDomain
<1>5. PICK sent \in {<<>>} \cup {s \in {outbound} : "carry" \in faults} : outbound' = Append(sent, cmd)
  BY DEF OpenSession
<1>6. PICK read \in {<<>>} \cup {s \in {inbound} : "carry" \in faults} : inbound' = read
  BY DEF OpenSession
<1>7. sent \in Seq(Outgoing) /\ read \in Seq(Packets)
  <2>1. outbound \in Seq(Outgoing) /\ inbound \in Seq(Packets)
    BY DEF IInv, TypeInv
  <2>2. (sent = <<>> \/ sent = outbound) /\ (read = <<>> \/ read = inbound)
    BY <1>5, <1>6
  <2> QED BY <2>1, <2>2, EmptyQueue
<1>8. outbound' \in Seq(Outgoing) /\ inbound' \in Seq(Packets)
  <2> HIDE DEF cmd
  <2> QED BY <1>2, <1>5, <1>6, <1>7, SeqAppend
<1>9. lifecycle' \in {"none", "Disconnected"}
  BY <1>1 DEF IInv, TypeInv, LifecycleIsCurrent
<1>10. TypeInv'
  BY <1>1, <1>2, <1>4, <1>8, <1>9 DEF TypeInv, ClearSyncTracking
<1>11. AckIsAwaited' /\ DisconnectedIsClean' /\ LifecycleIsCurrent'
  BY <1>1, <1>4, <1>9 DEF AckIsAwaited, DisconnectedIsClean, LifecycleIsCurrent
<1>12. DeferredOK' /\ AnswerMatchesRequest'
  BY <1>1 DEF IInv, DeferredOK, AnswerMatchesRequest, ClearSyncTracking, Prompt
<1>13. Prompt => OnlyOwes(outbound', inbound', Expected')
  <2> HAVE Prompt
  <2>1. sent = <<>> /\ read = <<>>
    BY DEF Prompt
  <2>2. OnlyOwes(<<>>, <<>>, {})
    BY EmptyLink
  <2>3. OnlyOwes(Append(<<>>, cmd), <<>>, {cmd})
    <3> HIDE DEF cmd
    <3>1. <<>> \in Seq(Outgoing)
      OBVIOUS
    <3> QED BY <1>2, <2>2, <3>1, WriteOne
  <2>4. Expected' = {cmd}
    BY <1>4, AcceptsDomain DEF Expected, OneAnswer
  <2> HIDE DEF cmd
  <2> QED BY <1>5, <1>6, <2>1, <2>3, <2>4
<1>14. (Prompt => OnlyOwes(outbound, inbound, Expected))'
  <2>1. Prompt' => OnlyOwes(outbound', inbound', Expected')
    BY <1>13 DEF Prompt
  <2> QED BY <2>1
<1> QED BY <1>10, <1>11, <1>12, <1>14 DEF IInv

LEMMA ClosingIInv ==
    ASSUME IInv, UNCHANGED faults,
           OpenSessionFails \/ Disconnect \/ SendDisconnectCommand \/ WriteFails \/ ReadFails
    PROVE  IInv'
<1>1. /\ outbound \in Seq(Outgoing) /\ inbound \in Seq(Packets) /\ nextId \in 1 .. MaxRequests + 1
      /\ lifecycle \in {"none", "Connected", "Disconnected"}
      /\ lifecycle = "Connected" <=> connected /\ op.kind # "init"
  BY DEF IInv, TypeInv, LifecycleIsCurrent
<1>2. CASE Disconnect \/ WriteFails \/ ReadFails
  BY <1>2, Marked DEF Disconnect, WriteFails, ReadFails
<1>3. CASE OpenSessionFails
  <2>1. /\ outbound' \in Seq(Outgoing) /\ inbound' \in Seq(Packets)
        /\ Prompt => outbound' = <<>> /\ inbound' = <<>>
    BY <1>1, <1>3, LinkCloses DEF OpenSessionFails
  <2>2. lifecycle' \in {"none", "Disconnected"}
    BY <1>1, <1>3 DEF OpenSessionFails
  <2>3. AnswerMatchesRequest'
    BY <1>3 DEF OpenSessionFails, IInv, AnswerMatchesRequest, Prompt
  <2> QED BY <1>1, <1>3, <2>1, <2>2, <2>3, SessionEnds DEF OpenSessionFails, Idle
<1>4. CASE SendDisconnectCommand
  <2> DEFINE cmd == [kind |-> "bye", id |-> nextId]
  <2>1. cmd \in Outgoing /\ nextId' \in 1 .. MaxRequests + 1
    BY <1>4, NewCommand DEF SendDisconnectCommand, OrdinaryKinds
  <2>2. CloseLink(Append(outbound, cmd), inbound)
    BY <1>4 DEF SendDisconnectCommand
  <2>3. /\ outbound' \in Seq(Outgoing) /\ inbound' \in Seq(Packets)
        /\ Prompt => outbound' = <<>> /\ inbound' = <<>>
    <3> HIDE DEF cmd
    <3>1. Append(outbound, cmd) \in Seq(Outgoing)
      BY <1>1, <2>1, SeqAppend
    <3> QED BY <1>1, <2>2, <3>1, LinkCloses
  <2>4. AnswerMatchesRequest'
    BY <1>4 DEF SendDisconnectCommand, IInv, AnswerMatchesRequest, Prompt
  <2> QED BY <1>1, <1>4, <2>1, <2>3, <2>4, SessionEnds DEF SendDisconnectCommand, Idle
<1> QED BY <1>2, <1>3, <1>4

\* connect() on an open session, which an environment with prompt answers does not do.
LEMMA ConnectAgainIInv == ASSUME IInv, ConnectAgain, UNCHANGED faults PROVE IInv'
<1>1. /\ Idle /\ connected /\ ClearTracking /\ ClearSyncTracking /\ ~Prompt
      /\ UNCHANGED <<connected, op, outbound, inbound, nextId, lifecycle, served>>
  BY DEF ConnectAgain, Prompt, linkVars
<1>2. TypeInv'
  BY <1>1, NothingOperates DEF IInv, TypeInv, ClearSyncTracking, Idle
<1>3. AckIsAwaited'
  BY <1>1, NothingOperates DEF AckIsAwaited, Idle
<1>4. DisconnectedIsClean' /\ LifecycleIsCurrent'
  BY <1>1 DEF IInv, DisconnectedIsClean, LifecycleIsCurrent
<1>5. DeferredOK' /\ AnswerMatchesRequest' /\ ~Prompt'
  BY <1>1 DEF IInv, DeferredOK, AnswerMatchesRequest, ClearSyncTracking, Prompt
<1> QED BY <1>2, <1>3, <1>4, <1>5 DEF IInv

-----------------------------------------------------------------------------
(* Starting an operation.                                                  *)

\* An idle client that knows of no outstanding sync is owed nothing.
LEMMA BeginRequestIInv ==
    ASSUME IInv, NEW what \in Kinds \ {"bye"}, BeginRequest(what), UNCHANGED faults PROVE IInv'
<1> DEFINE cmd == [kind |-> what, id |-> nextId]
<1>1. /\ op = NoOp /\ connected = TRUE /\ CanWrite /\ syncState = "Idle"
      /\ outbound' = Append(outbound, cmd) /\ nextId' = nextId + 1
      /\ op' = Operation(what, nextId, NoCode, 0)
      /\ UNCHANGED <<connected, syncState, deferredSync, inbound, lifecycle, served, trackerVars>>
  BY DEF BeginRequest, Idle, Write, sessionVars, IInv, TypeInv
<1>2. what \in {"ok", "query", "contacts", "send", "remote"}
  BY ClientAssumption DEF OrdinaryKinds
<1>3. cmd \in Outgoing /\ nextId \in 0 .. MaxRequests /\ nextId' \in 1 .. MaxRequests + 1
  BY <1>1, <1>2, NewCommand DEF OrdinaryKinds
<1>4. 0 \in 0 .. DrainCapacity
  BY ClientAssumption
<1>5. op' \in Operations /\ op'.kind = what /\ op'.id = nextId /\ what \in OneAnswer
  BY <1>1, <1>2, <1>3, <1>4, OperationFields, AcceptsDomain DEF OneAnswer
<1>6. outbound \in Seq(Outgoing) /\ outbound' \in Seq(Outgoing)
  <2>1. outbound \in Seq(Outgoing)
    BY DEF IInv, TypeInv
  <2> HIDE DEF cmd
  <2> QED BY <1>1, <1>3, <2>1, SeqAppend
<1>7. TypeInv'
  BY <1>1, <1>2, <1>3, <1>5, <1>6 DEF TypeInv, IInv
<1>8. AckIsAwaited'
  BY <1>2, <1>5 DEF AckIsAwaited
<1>9. DisconnectedIsClean' /\ LifecycleIsCurrent'
  BY <1>1, <1>2, <1>5, NothingOperates DEF IInv, DisconnectedIsClean, LifecycleIsCurrent
<1>10. DeferredOK' /\ AnswerMatchesRequest'
  BY <1>1, <1>2, <1>5 DEF IInv, DeferredOK, AnswerMatchesRequest, Prompt
<1>11. Prompt => OnlyOwes(outbound', inbound', Expected')
  <2> HAVE Prompt
  <2>1. Expected = {}
    BY <1>1, NothingOperates DEF Expected, OneAnswer
  <2>2. OnlyOwes(outbound, inbound, {})
    BY <2>1 DEF IInv
  <2>3. Expected' = {cmd}
    BY <1>5 DEF Expected
  <2> HIDE DEF cmd
  <2>4. OnlyOwes(Append(outbound, cmd), inbound, {cmd})
    BY <1>3, <1>6, <2>2, WriteOne
  <2> QED BY <1>1, <2>3, <2>4
<1>12. (Prompt => OnlyOwes(outbound, inbound, Expected))'
  <2>1. Prompt' => OnlyOwes(outbound', inbound', Expected')
    BY <1>11 DEF Prompt
  <2> QED BY <2>1
<1> QED BY <1>7, <1>8, <1>9, <1>10, <1>12 DEF IInv

LEMMA BeginSyncIInv == ASSUME IInv, BeginSync, UNCHANGED faults PROVE IInv'
<1>1. /\ op = NoOp /\ connected = TRUE
      /\ UNCHANGED <<connected, syncState, outbound, inbound, nextId, lifecycle, trackerVars>>
  BY DEF BeginSync, Idle, linkVars, IInv, TypeInv
<1>2. \/ /\ deferredSync # NoPacket /\ deferredSync' = NoPacket /\ UNCHANGED op
         /\ served' = [by |-> [kind |-> "sync", id |-> 0], re |-> deferredSync.re]
      \/ /\ deferredSync = NoPacket /\ op' = Operation("drain", 0, NoCode, 0)
         /\ UNCHANGED <<deferredSync, served>>
  BY DEF BeginSync
<1>3. 0 \in 0 .. MaxRequests /\ 0 \in 0 .. DrainCapacity
  BY ClientAssumption
<1>4. op' \in Operations /\ op'.kind \in {"none", "drain"} /\ deferredSync' = NoPacket
  BY <1>1, <1>2, <1>3, OperationFields, NothingOperates
<1>5. TypeInv'
  <2>1. op'.kind = "drain" /\ syncState' = "Idle" => nextId' <= MaxRequests
    BY <1>1, <1>2, NothingOperates DEF BeginSync, CanWrite
  <2> QED BY <1>1, <1>4, <2>1 DEF IInv, TypeInv
<1>6. AckIsAwaited' /\ DisconnectedIsClean' /\ LifecycleIsCurrent'
  BY <1>1, <1>4, NothingOperates
     DEF IInv, AckIsAwaited, DisconnectedIsClean, LifecycleIsCurrent
<1>7. AnswerMatchesRequest'
  <2>1. CASE UNCHANGED served
    BY <2>1 DEF IInv, AnswerMatchesRequest, Prompt
  <2>2. CASE /\ served' = [by |-> [kind |-> "sync", id |-> 0], re |-> deferredSync.re]
             /\ deferredSync # NoPacket
    <3>1. served'.by.kind = "sync" /\ served'.re = deferredSync.re
      BY <2>2
    <3>2. Prompt => deferredSync.re.kind = "sync"
      BY <2>2 DEF IInv, DeferredOK
    <3> QED BY <3>1, <3>2 DEF AnswerMatchesRequest, Prompt
  <2> QED BY <1>2, <2>1, <2>2
<1>8. DeferredOK'
  BY <1>4 DEF DeferredOK
<1>9. Expected' = Expected
  BY <1>1, <1>4, NothingOperates DEF Expected, OneAnswer
<1>10. (Prompt => OnlyOwes(outbound, inbound, Expected))'
  <2>1. Prompt' => OnlyOwes(outbound', inbound', Expected')
    BY <1>1, <1>9 DEF IInv, Prompt
  <2> QED BY <2>1
<1> QED BY <1>5, <1>6, <1>7, <1>8, <1>10 DEF IInv

LEMMA BeginWaitIInv ==
    ASSUME IInv, NEW c \in Codes, BeginWaitForAck(c), UNCHANGED faults PROVE IInv'
<1>1. /\ op = NoOp /\ connected = TRUE
      /\ UNCHANGED <<connected, syncState, deferredSync, outbound, inbound, nextId, lifecycle, served>>
  BY DEF BeginWaitForAck, Idle, linkVars, sessionVars, IInv, TypeInv
<1>2. \/ UNCHANGED op
      \/ c \notin completedAcks /\ op' = Operation("ack", 0, c, 0) /\ UNCHANGED completedAcks
  BY DEF BeginWaitForAck, trackerVars
<1>3. 0 \in 0 .. MaxRequests /\ 0 \in 0 .. DrainCapacity
  BY ClientAssumption
<1>4. /\ op' \in Operations /\ op'.kind \in {"none", "ack"}
      /\ op'.kind = "ack" => op'.code = c /\ c \notin completedAcks'
  BY <1>1, <1>2, <1>3, OperationFields, NothingOperates
<1>5. TypeInv' /\ AckIsAwaited'
  BY <1>1, <1>4 DEF IInv, TypeInv, AckIsAwaited
<1>6. DisconnectedIsClean' /\ LifecycleIsCurrent'
  BY <1>1, <1>4, NothingOperates DEF IInv, DisconnectedIsClean, LifecycleIsCurrent
<1>7. DeferredOK' /\ AnswerMatchesRequest'
  BY <1>1, <1>4 DEF IInv, DeferredOK, AnswerMatchesRequest, Prompt
<1>8. Expected' = Expected
  BY <1>1, <1>4, NothingOperates DEF Expected, OneAnswer
<1>9. (Prompt => OnlyOwes(outbound, inbound, Expected))'
  <2>1. Prompt' => OnlyOwes(outbound', inbound', Expected')
    BY <1>1, <1>8 DEF IInv, Prompt
  <2> QED BY <2>1
<1> QED BY <1>5, <1>6, <1>7, <1>9 DEF IInv

-----------------------------------------------------------------------------
(* Reading a packet that ends nothing.                                     *)

LEMMA NothingKept ==
    ASSUME NEW p, p.type \notin SyncTypes, UNCHANGED <<syncState, deferredSync>>
    PROVE  RetainSyncResponse(p)
BY DEF RetainSyncResponse

LEMMA ReadOtherIInv == ASSUME IInv, ReadOther, UNCHANGED faults PROVE IInv'
<1> DEFINE p == Head(inbound)
<1>1. /\ op.kind \in DOMAIN Accepts /\ inbound # <<>> /\ p.type \notin Accepts[op.kind] \cup Rejects[op.kind]
      /\ RetainSyncResponse(p) /\ Consume /\ UNCHANGED <<connected, op, nextId, lifecycle, served>>
  BY DEF ReadOther, PublishAndTrack
<1>2. op.kind \notin {"none", "drain", "ack"} /\ op' \in Operations
  BY <1>1, NothingOperates DEF IInv, TypeInv
<1>3. connected = TRUE
  BY <1>2, BusyIsConnected
<1>4. AckIsAwaited'
  BY <1>1, <1>2 DEF AckIsAwaited
<1> QED BY <1>1, <1>2, <1>3, <1>4, OtherPacket

LEMMA NextEventIInv == ASSUME IInv, NextEvent, UNCHANGED faults PROVE IInv'
<1> DEFINE p == Head(inbound)
<1>1. /\ op = NoOp /\ connected = TRUE /\ inbound # <<>>
      /\ Consume /\ UNCHANGED <<connected, op, nextId, lifecycle, served>>
  BY DEF NextEvent, Idle, IInv, TypeInv
<1>2. "Malformed" \notin SyncTypes
  BY DEF SyncTypes
<1>3. RetainSyncResponse(p)
  <2>1. CASE p.type = "Malformed"
    <3>1. UNCHANGED <<syncState, deferredSync>>
      BY <2>1 DEF NextEvent
    <3>2. p.type \notin SyncTypes
      BY <1>2, <2>1
    <3> HIDE DEF p
    <3> QED BY <3>1, <3>2, NothingKept
  <2>2. CASE p.type # "Malformed"
    BY <2>2 DEF NextEvent, PublishAndTrack
  <2> QED BY <2>1, <2>2
<1>4. op.kind = "none" /\ op.kind \notin DOMAIN Accepts /\ op' \in Operations
  BY <1>1, NothingOperates
<1>5. AckIsAwaited'
  BY <1>1, <1>4 DEF AckIsAwaited
<1> QED BY <1>1, <1>3, <1>4, <1>5, OtherPacket

\* wait_for_packet reads something else.
LEMMA ResponseGoesOn ==
    ASSUME IInv, op.kind = "response", inbound # <<>>, RetainSyncResponse(Head(inbound)), Consume,
           UNCHANGED <<faults, connected, op, nextId, lifecycle, served>>
    PROVE  IInv'
<1>1. op.kind \notin DOMAIN Accepts /\ op' \in Operations /\ connected = TRUE
  BY NothingOperates, BusyIsConnected DEF IInv, TypeInv
<1>2. AckIsAwaited'
  BY DEF AckIsAwaited
<1> QED BY <1>1, <1>2, OtherPacket

\* wait_for_ack reads something else.
LEMMA AckGoesOn ==
    ASSUME IInv, op.kind = "ack", inbound # <<>>, RetainSyncResponse(Head(inbound)), Consume,
           UNCHANGED <<faults, connected, op, nextId, lifecycle, served>>,
           op.code \notin completedAcks'
    PROVE  IInv'
<1>1. op.kind \notin DOMAIN Accepts /\ op' \in Operations /\ connected = TRUE
  BY NothingOperates, BusyIsConnected DEF IInv, TypeInv
<1>2. AckIsAwaited'
  BY DEF AckIsAwaited, IInv
<1> QED BY <1>1, <1>2, OtherPacket

\* An ACK of another code leaves the awaited one where it is.
LEMMA OtherAck ==
    ASSUME NEW c, NEW d, c # d, TrackAck(d), c \notin completedAcks PROVE c \notin completedAcks'
BY DEF TrackAck, RememberCompletedAck, trackerVars

\* The drain reads a packet that is not the answer of a sync.
LEMMA DrainGoesOn ==
    ASSUME IInv, op.kind = "drain", inbound # <<>>, RetainSyncResponse(Head(inbound)), Consume,
           Head(inbound).type \notin SyncTypes,
           UNCHANGED <<faults, connected, nextId, lifecycle, served>>,
           IF op.n = DrainCapacity THEN op' = NoOp ELSE op' = [op EXCEPT !.n = @ + 1]
    PROVE  IInv'
<1>1. op.kind \notin DOMAIN Accepts /\ op \in Operations /\ connected = TRUE
  BY NothingOperates, BusyIsConnected DEF IInv, TypeInv
<1>2. op' \in Operations /\ op'.kind \in {"none", "drain"}
  <2>1. CASE op.n = DrainCapacity
    BY <2>1, NothingOperates
  <2>2. CASE op.n # DrainCapacity
    <3>1. op.n \in 0 .. DrainCapacity
      BY <1>1 DEF Operations
    <3>2. op.n + 1 \in 0 .. DrainCapacity
      BY <2>2, <3>1, ClientAssumption
    <3> QED BY <1>1, <2>2, <3>2 DEF Operations
  <2> QED BY <2>1, <2>2
<1>3. AckIsAwaited'
  BY <1>2 DEF AckIsAwaited
<1> QED BY <1>1, <1>2, <1>3, OtherPacket

-----------------------------------------------------------------------------
(* The end of an operation.                                                *)

\* What ends an operation of a prompt environment: nothing of its own is left in the link.
LEMMA OwnAnswerRead ==
    ASSUME IInv, inbound # <<>>, op.kind \in DOMAIN Accepts,
           Head(inbound).type \in Accepts[op.kind] \cup Rejects[op.kind]
    PROVE  Prompt => /\ Head(inbound).re \in Expected
                     /\ outbound = <<>> /\ OnlyOwes(outbound, Tail(inbound), {})
<1> HAVE Prompt
<1>1. outbound \in Seq(Outgoing) /\ inbound \in Seq(Packets) /\ OnlyOwes(outbound, inbound, Expected)
  BY DEF IInv, TypeInv
<1>2. Head(inbound) \in Packets
  BY <1>1, SeqTail
<1>3. Head(inbound).re # NoRequest
  <2>1. Head(inbound).re = NoRequest => Head(inbound).type \in Pushes
    BY <1>2, PacketFields
  <2> QED BY <2>1, PushesAreForeign
<1> QED BY <1>1, <1>3, ReadAnswer

\* The packet that ends it answers it.
LEMMA ServedMatches ==
    ASSUME IInv, inbound # <<>>, op.kind \in DOMAIN Accepts,
           Head(inbound).type \in Accepts[op.kind] \cup Rejects[op.kind],
           Serve(Head(inbound)), UNCHANGED faults
    PROVE  AnswerMatchesRequest'
<1>1. served'.by = [kind |-> op.kind, id |-> op.id] /\ served'.re = Head(inbound).re
  BY DEF Serve
<1>2. Prompt => Head(inbound).re \in Expected
  BY OwnAnswerRead
<1>3. CASE op.kind \in OneAnswer
  BY <1>1, <1>2, <1>3 DEF Expected, AnswerMatchesRequest, Prompt
<1>4. CASE op.kind \notin OneAnswer
  <2>1. op.kind = "sync"
    BY <1>4 DEF OneAnswer
  <2>2. Prompt => Head(inbound).re.kind = "sync"
    BY <1>2, <1>4 DEF Expected, SyncRequests
  <2> QED BY <1>1, <2>1, <2>2 DEF AnswerMatchesRequest, Prompt
<1> QED BY <1>3, <1>4

\* What the link holds after a step that only reads.
LEMMA Consumed ==
    ASSUME IInv, inbound # <<>>, Consume
    PROVE  /\ outbound' \in Seq(Outgoing) /\ inbound' \in Seq(Packets)
           /\ outbound' = outbound /\ inbound' = Tail(inbound)
           /\ Prompt => OnlyOwes(outbound', inbound', Expected)
<1>1. outbound \in Seq(Outgoing) /\ inbound \in Seq(Packets)
  BY DEF IInv, TypeInv
<1>2. outbound' = outbound /\ inbound' = Tail(inbound)
  BY DEF Consume
<1>3. Prompt => OnlyOwes(outbound, Tail(inbound), Expected)
  BY <1>1, ReadOne DEF IInv
<1> QED BY <1>1, <1>2, <1>3, SeqTail

LEMMA ServedRests ==
    ASSUME IInv, UNCHANGED <<served, faults>> PROVE AnswerMatchesRequest'
BY DEF IInv, AnswerMatchesRequest, Prompt

LEMMA OnlySyncIsOwed ==
    ASSUME op.kind \notin OneAnswer PROVE Expected = SyncOwed
BY DEF Expected, SyncOwed

LEMMA PromptParses ==
    ASSUME IInv, inbound # <<>>, Head(inbound).type = "Malformed" PROVE ~Prompt
<1> SUFFICES ASSUME Prompt PROVE FALSE
  OBVIOUS
<1>1. inbound \in Seq(Packets) /\ OnlyOwes(outbound, inbound, Expected)
  BY DEF IInv, TypeInv
<1>2. Head(inbound) = inbound[1] /\ 1 \in 1 .. Len(inbound)
  BY <1>1, SeqTail
<1> QED BY <1>1, <1>2 DEF OnlyOwes

\* An operation other than the handshake fails.
LEMMA OperationFails ==
    ASSUME IInv, FailOperation, op.kind \notin {"none", "init"}, UNCHANGED <<nextId, faults>>,
           outbound' \in Seq(Outgoing), inbound' \in Seq(Packets),
           Prompt => OnlyOwes(outbound', inbound', SyncOwed),
           AnswerMatchesRequest'
    PROVE  IInv'
<1>1. op' = NoOp /\ UNCHANGED <<connected, lifecycle, syncState, deferredSync>>
  BY DEF FailOperation, EndOperation
<1>2. SyncOwed' = SyncOwed
  BY <1>1 DEF SyncOwed
<1> QED BY <1>1, <1>2, OperationEnds

\* The handshake fails, and the session with it.
LEMMA HandshakeFails ==
    ASSUME IInv, FailOperation, op.kind = "init", UNCHANGED <<nextId, faults>>,
           NEW unread \in Seq(Packets), CloseLink(outbound, unread), AnswerMatchesRequest'
    PROVE  IInv'
<1>1. op' = NoOp /\ ClearTracking /\ ClearSyncTracking /\ connected' = FALSE /\ lifecycle' = "Disconnected"
  BY DEF FailOperation
<1>2. outbound \in Seq(Outgoing) /\ nextId' \in 1 .. MaxRequests + 1
  BY DEF IInv, TypeInv
<1>3. /\ outbound' \in Seq(Outgoing) /\ inbound' \in Seq(Packets)
      /\ Prompt => outbound' = <<>> /\ inbound' = <<>>
  BY <1>2, LinkCloses
<1> QED BY <1>1, <1>2, <1>3, SessionEnds

LEMMA ReadMalformedIInv == ASSUME IInv, ReadMalformed, UNCHANGED faults PROVE IInv'
<1>1. /\ op.kind \notin {"none", "drain"} /\ inbound # <<>> /\ Head(inbound).type = "Malformed"
      /\ FailOperation /\ UNCHANGED <<nextId, served>>
  BY DEF ReadMalformed, Reading
<1>2. ~Prompt /\ AnswerMatchesRequest'
  BY <1>1, PromptParses, ServedRests
<1>3. CASE op.kind = "init"
  <2>1. CloseLink(outbound, Tail(inbound))
    BY <1>3 DEF ReadMalformed
  <2>2. inbound \in Seq(Packets)
    BY DEF IInv, TypeInv
  <2>3. Tail(inbound) \in Seq(Packets)
    BY <1>1, <2>2, SeqTail
  <2> QED BY <1>1, <1>2, <1>3, <2>1, <2>3, HandshakeFails
<1>4. CASE op.kind # "init"
  <2>1. Consume
    BY <1>4 DEF ReadMalformed
  <2>2. outbound' \in Seq(Outgoing) /\ inbound' \in Seq(Packets)
    BY <1>1, <2>1, Consumed
  <2> QED BY <1>1, <1>2, <1>4, <2>2, OperationFails
<1> QED BY <1>3, <1>4

LEMMA ReadRejectedIInv == ASSUME IInv, ReadRejected, UNCHANGED faults PROVE IInv'
<1>1. /\ op.kind \in DOMAIN Accepts /\ inbound # <<>>
      /\ Head(inbound).type \in Accepts[op.kind] \cup Rejects[op.kind]
      /\ Serve(Head(inbound)) /\ UNCHANGED nextId
  BY AcceptsDomain DEF ReadRejected
<1>2. AnswerMatchesRequest'
  BY <1>1, ServedMatches
<1>3. Prompt => OnlyOwes(outbound, Tail(inbound), {})
  BY <1>1, OwnAnswerRead
<1>4. op.kind # "none"
  BY <1>1, NothingOperates
<1>5. CASE op.kind = "init"
  <2>1. CloseLink(outbound, Tail(inbound)) /\ FailOperation
    BY <1>5 DEF ReadRejected
  <2>2. inbound \in Seq(Packets)
    BY DEF IInv, TypeInv
  <2>3. Tail(inbound) \in Seq(Packets)
    BY <1>1, <2>2, SeqTail
  <2> QED BY <1>1, <1>2, <1>5, <2>1, <2>3, HandshakeFails
<1>6. ASSUME op.kind # "init"
      PROVE  /\ outbound' \in Seq(Outgoing) /\ inbound' \in Seq(Packets)
             /\ Prompt => OnlyOwes(outbound', inbound', {})
  <2>1. Consume
    BY <1>6 DEF ReadRejected
  <2>2. outbound' \in Seq(Outgoing) /\ inbound' \in Seq(Packets) /\ outbound' = outbound /\ inbound' = Tail(inbound)
    BY <1>1, <2>1, Consumed
  <2> QED BY <1>3, <2>2
<1>7. CASE op.kind = "sync"
  <2>1. op' = NoOp /\ syncState' = "Idle" /\ UNCHANGED <<connected, lifecycle, deferredSync>>
    BY <1>7 DEF ReadRejected, EndOperation
  <2>2. SyncOwed' = {}
    BY <2>1 DEF SyncOwed
  <2> QED BY <1>1, <1>2, <1>6, <1>7, <2>1, <2>2, OperationEnds
<1>8. CASE op.kind \notin {"init", "sync"}
  <2>1. FailOperation
    BY <1>8 DEF ReadRejected
  <2>2. Prompt => OnlyOwes(outbound', inbound', SyncOwed)
    BY <1>6, <1>8, OwesLess
  <2> QED BY <1>1, <1>2, <1>4, <1>6, <1>8, <2>1, <2>2, OperationFails
<1> QED BY <1>5, <1>7, <1>8

LEMMA ResponseIInv == ASSUME IInv, ReadResponse, UNCHANGED faults PROVE IInv'
<1>1. /\ op.kind = "response" /\ inbound # <<>> /\ Consume /\ UNCHANGED <<nextId, served>>
      /\ \/ FailOperation
         \/ RetainSyncResponse(Head(inbound)) /\ UNCHANGED <<connected, op, lifecycle>>
  BY DEF ReadResponse, PublishAndTrack
<1>2. CASE FailOperation
  <2>1. op.kind \notin OneAnswer
    BY <1>1, NothingOperates DEF OneAnswer
  <2>2. /\ outbound' \in Seq(Outgoing) /\ inbound' \in Seq(Packets)
        /\ Prompt => OnlyOwes(outbound', inbound', SyncOwed)
    BY <1>1, <2>1, Consumed, OnlySyncIsOwed
  <2>3. AnswerMatchesRequest'
    BY <1>1, ServedRests
  <2> QED BY <1>1, <1>2, <2>2, <2>3, OperationFails
<1>3. CASE RetainSyncResponse(Head(inbound)) /\ UNCHANGED <<connected, op, lifecycle>>
  BY <1>1, <1>3, ResponseGoesOn
<1> QED BY <1>1, <1>2, <1>3

LEMMA AwaitingAckIInv == ASSUME IInv, ReadAwaitingAck, UNCHANGED faults PROVE IInv'
<1> DEFINE p == Head(inbound)
<1>1. /\ op.kind = "ack" /\ inbound # <<>> /\ Consume /\ UNCHANGED <<nextId, served>>
      /\ \/ EndOperation /\ UNCHANGED <<syncState, deferredSync>>
         \/ /\ p.type = "Ack" /\ p.code # op.code /\ PublishAndTrack(p)
            /\ UNCHANGED <<connected, op, lifecycle>>
         \/ FailOperation
         \/ RetainSyncResponse(p) /\ UNCHANGED <<connected, op, lifecycle, trackerVars>>
  BY DEF ReadAwaitingAck
<1>2. op.kind \notin OneAnswer /\ op.code \notin completedAcks
  BY <1>1, NothingOperates DEF OneAnswer, IInv, AckIsAwaited
<1>3. /\ outbound' \in Seq(Outgoing) /\ inbound' \in Seq(Packets)
      /\ Prompt => OnlyOwes(outbound', inbound', SyncOwed)
  BY <1>1, <1>2, Consumed, OnlySyncIsOwed
<1>4. AnswerMatchesRequest'
  BY <1>1, ServedRests
<1>5. CASE EndOperation /\ UNCHANGED <<syncState, deferredSync>>
  <2>1. op' = NoOp /\ UNCHANGED <<connected, lifecycle, syncState, deferredSync>>
    BY <1>5 DEF EndOperation
  <2>2. SyncOwed' = SyncOwed
    BY <2>1 DEF SyncOwed
  <2> QED BY <1>1, <1>3, <1>4, <2>1, <2>2, OperationEnds
<1>6. CASE FailOperation
  BY <1>1, <1>3, <1>4, <1>6, OperationFails
<1>7. CASE /\ p.type = "Ack" /\ p.code # op.code /\ PublishAndTrack(p)
           /\ UNCHANGED <<connected, op, lifecycle>>
  <2>1. RetainSyncResponse(p) /\ TrackAck(p.code)
    BY <1>7 DEF PublishAndTrack, UpdateTracking
  <2>2. op.code \notin completedAcks'
    BY <1>2, <1>7, <2>1, OtherAck
  <2> QED BY <1>1, <1>7, <2>1, <2>2, AckGoesOn
<1>8. CASE RetainSyncResponse(p) /\ UNCHANGED <<connected, op, lifecycle, trackerVars>>
  <2>1. op.code \notin completedAcks'
    BY <1>2, <1>8 DEF trackerVars
  <2> QED BY <1>1, <1>8, <2>1, AckGoesOn
<1> QED BY <1>1, <1>5, <1>6, <1>7, <1>8

LEMMA DrainPacketIInv == ASSUME IInv, DrainPacket, UNCHANGED faults PROVE IInv'
<1> DEFINE p == Head(inbound)
<1>1. op.kind = "drain" /\ inbound # <<>> /\ Consume /\ UNCHANGED nextId
  BY DEF DrainPacket
<1>2. \/ /\ p.type = "Malformed" /\ EndOperation /\ UNCHANGED <<syncState, deferredSync, served>>
      \/ /\ p.type \in SyncTypes /\ syncState' = "Idle" /\ EndOperation /\ UNCHANGED deferredSync
         /\ served' = [by |-> [kind |-> "sync", id |-> 0], re |-> p.re]
      \/ /\ p.type \notin SyncTypes /\ RetainSyncResponse(p) /\ UNCHANGED <<served, connected, lifecycle>>
         /\ IF op.n = DrainCapacity THEN op' = NoOp ELSE op' = [op EXCEPT !.n = @ + 1]
  BY DEF DrainPacket, PublishAndTrack, EndOperation
<1>3. op.kind \notin OneAnswer
  BY <1>1, NothingOperates DEF OneAnswer
<1>4. /\ outbound' \in Seq(Outgoing) /\ inbound' \in Seq(Packets)
      /\ outbound' = outbound /\ inbound' = Tail(inbound)
  BY <1>1, Consumed
<1>5. CASE p.type = "Malformed" /\ EndOperation /\ UNCHANGED <<syncState, deferredSync, served>>
  <2>1. op' = NoOp /\ UNCHANGED <<connected, lifecycle, syncState, deferredSync>>
    BY <1>5 DEF EndOperation
  <2>2. ~Prompt /\ AnswerMatchesRequest'
    BY <1>1, <1>5, PromptParses, ServedRests
  <2> QED BY <1>1, <1>4, <2>1, <2>2, OperationEnds
<1>6. CASE /\ p.type \in SyncTypes /\ syncState' = "Idle" /\ EndOperation /\ UNCHANGED deferredSync
           /\ served' = [by |-> [kind |-> "sync", id |-> 0], re |-> p.re]
  <2>1. op' = NoOp /\ syncState' = "Idle" /\ UNCHANGED <<connected, lifecycle, deferredSync>>
    BY <1>6 DEF EndOperation
  <2>2. Prompt => p.re \in Expected /\ OnlyOwes(outbound, Tail(inbound), {})
    <3> HAVE Prompt
    <3>1. outbound \in Seq(Outgoing) /\ inbound \in Seq(Packets) /\ OnlyOwes(outbound, inbound, Expected)
      BY DEF IInv, TypeInv
    <3>2. p \in Packets
      BY <1>1, <3>1, SeqTail
    <3>3. SyncTypes \cap Pushes = {}
      BY DEF SyncTypes, Pushes
    <3>4. p.re # NoRequest
      BY <1>6, <3>2, <3>3, PacketFields
    <3> QED BY <1>1, <3>1, <3>4, ReadAnswer
  <2>3. Prompt => p.re.kind = "sync"
    BY <1>3, <2>2 DEF Expected, SyncRequests
  <2>4. served'.by.kind = "sync" /\ served'.re = p.re
    BY <1>6
  <2>5. AnswerMatchesRequest'
    BY <2>3, <2>4 DEF AnswerMatchesRequest, Prompt
  <2>6. SyncOwed' = {}
    BY <2>1 DEF SyncOwed
  <2>7. Prompt => OnlyOwes(outbound', inbound', SyncOwed')
    BY <1>4, <2>2, <2>6
  <2> QED BY <1>1, <1>4, <2>1, <2>5, <2>7, OperationEnds
<1>7. CASE /\ p.type \notin SyncTypes /\ RetainSyncResponse(p) /\ UNCHANGED <<served, connected, lifecycle>>
           /\ IF op.n = DrainCapacity THEN op' = NoOp ELSE op' = [op EXCEPT !.n = @ + 1]
  BY <1>1, <1>7, DrainGoesOn
<1> QED BY <1>2, <1>5, <1>6, <1>7

\* The timer of a request fires when an ordinary answer can no longer come.
LEMMA RequestTimeoutIInv == ASSUME IInv, RequestTimeout, UNCHANGED faults PROVE IInv'
<1>1. /\ op.kind \in DOMAIN Accepts /\ inbound = <<>> /\ FailOperation /\ UNCHANGED <<nextId, served>>
      /\ op.kind = "sync" \/ "late" \in faults \/ outbound = <<>>
  BY DEF RequestTimeout
<1>2. outbound \in Seq(Outgoing) /\ inbound \in Seq(Packets)
  BY DEF IInv, TypeInv
<1>3. AnswerMatchesRequest'
  BY <1>1, ServedRests
<1>4. CASE op.kind = "init"
  <2>1. CloseLink(outbound, inbound)
    BY <1>4 DEF RequestTimeout
  <2> QED BY <1>1, <1>2, <1>3, <1>4, <2>1, HandshakeFails
<1>5. CASE op.kind # "init"
  <2>1. outbound' = outbound /\ inbound' = inbound
    BY <1>5 DEF RequestTimeout, linkVars
  <2>2. Prompt => OnlyOwes(outbound, inbound, SyncOwed)
    <3>1. CASE op.kind = "sync"
      <4>1. op.kind \notin OneAnswer
        BY <3>1 DEF OneAnswer
      <4> QED BY <4>1, OnlySyncIsOwed DEF IInv
    <3>2. CASE op.kind # "sync"
      <4>1. Prompt => outbound = <<>> /\ inbound = <<>>
        BY <1>1, <3>2 DEF Prompt
      <4> QED BY <4>1, EmptyLink
    <3> QED BY <3>1, <3>2
  <2>3. op.kind # "none"
    BY <1>1, NothingOperates
  <2> QED BY <1>1, <1>2, <1>3, <1>5, <2>1, <2>2, <2>3, OperationFails
<1> QED BY <1>4, <1>5

\* A deadline, or a caller that no longer waits.
LEMMA GivingUpIInv ==
    ASSUME IInv, DeadlineExpires \/ DropOperation, UNCHANGED faults PROVE IInv'
<1>1. /\ op.kind \in {"ack", "response", "sync"} /\ outbound' = outbound /\ inbound' = inbound
      /\ UNCHANGED <<nextId, served>>
  BY DEF DeadlineExpires, DropOperation, linkVars
<1>2. op.kind \notin OneAnswer
  BY <1>1, NothingOperates DEF OneAnswer
<1>3. /\ outbound' \in Seq(Outgoing) /\ inbound' \in Seq(Packets)
      /\ Prompt => OnlyOwes(outbound', inbound', SyncOwed)
  BY <1>1, <1>2, OnlySyncIsOwed DEF IInv, TypeInv
<1>4. AnswerMatchesRequest'
  BY <1>1, ServedRests
<1>5. CASE DeadlineExpires
  BY <1>1, <1>3, <1>4, <1>5, OperationFails DEF DeadlineExpires
<1>6. CASE DropOperation
  <2>1. op' = NoOp /\ UNCHANGED <<connected, lifecycle, syncState, deferredSync>>
    BY <1>6 DEF DropOperation, EndOperation
  <2>2. SyncOwed' = SyncOwed
    BY <2>1 DEF SyncOwed
  <2> QED BY <1>1, <1>3, <1>4, <2>1, <2>2, OperationEnds
<1> QED BY <1>5, <1>6

LEMMA ReadAcceptedIInv == ASSUME IInv, ReadAccepted, UNCHANGED faults PROVE IInv'
<1> DEFINE p == Head(inbound)
<1>1. /\ op.kind \in DOMAIN Accepts /\ inbound # <<>> /\ p.type \in Accepts[op.kind]
      /\ p.type \in Accepts[op.kind] \cup Rejects[op.kind]
      /\ Serve(p) /\ Consume /\ UNCHANGED <<connected, deferredSync, nextId>>
      /\ syncState' = IF op.kind = "sync" THEN "Idle" ELSE syncState
      /\ lifecycle' = IF op.kind = "init" THEN "Connected" ELSE lifecycle
      /\ op' = IF op.kind = "remote" THEN Operation("response", op.id, p.code, 0) ELSE NoOp
  BY DEF ReadAccepted
<1>2. AnswerMatchesRequest'
  BY <1>1, ServedMatches
<1>3. Prompt => OnlyOwes(outbound, Tail(inbound), {})
  BY <1>1, OwnAnswerRead
<1>4. /\ outbound' \in Seq(Outgoing) /\ inbound' \in Seq(Packets)
      /\ outbound' = outbound /\ inbound' = Tail(inbound)
  BY <1>1, Consumed
<1>5. op.kind \notin {"none", "drain"} /\ connected = TRUE
  BY <1>1, NothingOperates, BusyIsConnected
<1>6. Prompt => \A Q : OnlyOwes(outbound', inbound', Q)
  BY <1>3, <1>4, OwesLess
<1>7. CASE op.kind \notin {"init", "remote"}
  <2>1. op' = NoOp /\ UNCHANGED lifecycle /\ syncState' \in {syncState, "Idle"}
    BY <1>1, <1>7
  <2> QED BY <1>1, <1>2, <1>4, <1>5, <1>6, <1>7, <2>1, OperationEnds
<1>8. CASE op.kind \in {"init", "remote"}
  <2>1. UNCHANGED <<syncState, deferredSync, connected, nextId>> /\ lifecycle' = "Connected"
    BY <1>1, <1>5, <1>8 DEF IInv, LifecycleIsCurrent
  <2>2. op' \in Operations /\ op'.kind \in {"none", "response"}
    <3>1. CASE op.kind = "init"
      BY <1>1, <3>1, NothingOperates
    <3>2. CASE op.kind = "remote"
      <4>1. inbound \in Seq(Packets) /\ op \in Operations
        BY DEF IInv, TypeInv
      <4>2. p \in Packets
        BY <1>1, <4>1, SeqTail
      <4>3. p.code \in Codes \cup {NoCode}
        BY <4>2, PacketFields
      <4>4. op.id \in 0 .. MaxRequests
        BY <4>1 DEF Operations
      <4>5. 0 \in 0 .. DrainCapacity
        BY ClientAssumption
      <4> QED BY <1>1, <3>2, <4>3, <4>4, <4>5, OperationFields
    <3> QED BY <1>8, <3>1, <3>2
  <2>3. TypeInv'
    BY <1>4, <2>1, <2>2 DEF IInv, TypeInv
  <2>4. AckIsAwaited' /\ DisconnectedIsClean' /\ LifecycleIsCurrent'
    BY <1>5, <2>1, <2>2 DEF AckIsAwaited, DisconnectedIsClean, LifecycleIsCurrent
  <2>5. DeferredOK'
    BY <2>1, <2>2 DEF IInv, DeferredOK, Prompt
  <2>6. (Prompt => OnlyOwes(outbound, inbound, Expected))'
    <3>1. Prompt' => OnlyOwes(outbound', inbound', Expected')
      BY <1>6 DEF Prompt
    <3> QED BY <3>1
  <2> QED BY <1>2, <2>3, <2>4, <2>5, <2>6 DEF IInv
<1> QED BY <1>7, <1>8

\* Nothing is buffered: wait for the outstanding answer, or write the command.
LEMMA DrainDoneIInv == ASSUME IInv, DrainDone, UNCHANGED faults PROVE IInv'
<1> DEFINE cmd == [kind |-> "sync", id |-> nextId]
<1>1. /\ op.kind = "drain" /\ inbound = <<>>
      /\ UNCHANGED <<connected, deferredSync, inbound, lifecycle, served, trackerVars>>
      /\ \/ /\ syncState = "AwaitingResponse" /\ op' = Operation("sync", 0, NoCode, 0)
            /\ UNCHANGED <<syncState, outbound, nextId>>
         \/ /\ syncState = "Idle" /\ syncState' = "AwaitingResponse" /\ Write("sync")
            /\ op' = Operation("sync", nextId, NoCode, 0)
  BY DEF DrainDone
<1>2. connected = TRUE /\ outbound \in Seq(Outgoing) /\ inbound \in Seq(Packets)
  BY <1>1, BusyIsConnected DEF IInv, TypeInv
<1>3. op.kind \notin OneAnswer
  BY <1>1, NothingOperates DEF OneAnswer
<1>4. Prompt => OnlyOwes(outbound, inbound, SyncOwed)
  BY <1>3, OnlySyncIsOwed DEF IInv
<1>5. AnswerMatchesRequest'
  BY <1>1, ServedRests
<1>6. 0 \in 0 .. MaxRequests /\ 0 \in 0 .. DrainCapacity
  BY ClientAssumption
<1>7. /\ op' \in Operations /\ op'.kind = "sync" /\ syncState' = "AwaitingResponse"
      /\ outbound' \in Seq(Outgoing) /\ nextId' \in 1 .. MaxRequests + 1
      /\ Prompt => OnlyOwes(outbound', inbound', SyncRequests)
  <2>1. CASE /\ syncState = "AwaitingResponse" /\ op' = Operation("sync", 0, NoCode, 0)
             /\ UNCHANGED <<syncState, outbound, nextId>>
    <3>1. op' \in Operations /\ op'.kind = "sync"
      BY <1>6, <2>1, OperationFields, AcceptsDomain
    <3>2. SyncOwed = SyncRequests
      BY <2>1 DEF SyncOwed
    <3>3. nextId' \in 1 .. MaxRequests + 1
      BY <2>1 DEF IInv, TypeInv
    <3> QED BY <1>1, <1>2, <1>4, <2>1, <3>1, <3>2, <3>3
  <2>2. CASE /\ syncState = "Idle" /\ syncState' = "AwaitingResponse" /\ Write("sync")
             /\ op' = Operation("sync", nextId, NoCode, 0)
    <3>1. cmd \in Outgoing /\ nextId \in 0 .. MaxRequests /\ nextId + 1 \in 1 .. MaxRequests + 1
      BY <1>1, <2>2, ClientAssumption DEF IInv, TypeInv, Outgoing
    <3>2. op' \in Operations /\ op'.kind = "sync"
      BY <1>6, <2>2, <3>1, OperationFields, AcceptsDomain
    <3>3. outbound' = Append(outbound, cmd) /\ nextId' = nextId + 1
      BY <2>2 DEF Write
    <3>4. {cmd} \subseteq SyncRequests
      BY <3>1 DEF SyncRequests, Requests
    <3>5. SyncOwed = {}
      BY <2>2 DEF SyncOwed
    <3> HIDE DEF cmd
    <3>6. outbound' \in Seq(Outgoing)
      BY <1>2, <3>1, <3>3, SeqAppend
    <3>7. Prompt => OnlyOwes(outbound', inbound, SyncRequests)
      <4> HAVE Prompt
      <4>1. OnlyOwes(Append(outbound, cmd), inbound, {cmd})
        BY <1>2, <1>4, <3>1, <3>5, WriteOne
      <4> QED BY <3>3, <3>4, <4>1, OwesLess
    <3> QED BY <1>1, <2>2, <3>1, <3>2, <3>3, <3>6, <3>7
  <2> QED BY <1>1, <2>1, <2>2
<1>8. TypeInv'
  BY <1>1, <1>2, <1>7 DEF IInv, TypeInv
<1>9. AckIsAwaited' /\ DisconnectedIsClean' /\ LifecycleIsCurrent'
  BY <1>1, <1>2, <1>7 DEF IInv, AckIsAwaited, DisconnectedIsClean, LifecycleIsCurrent
<1>10. DeferredOK'
  BY <1>1 DEF IInv, DeferredOK, Prompt
<1>11. Expected' = SyncRequests
  BY <1>7 DEF Expected, OneAnswer
<1>12. (Prompt => OnlyOwes(outbound, inbound, Expected))'
  <2>1. Prompt' => OnlyOwes(outbound', inbound', Expected')
    BY <1>7, <1>11 DEF Prompt
  <2> QED BY <2>1
<1> QED BY <1>5, <1>8, <1>9, <1>10, <1>12 DEF IInv

-----------------------------------------------------------------------------
(* The companion.                                                          *)

LEMMA CompanionMoves ==
    ASSUME IInv, UNCHANGED <<sessionVars, op, nextId, lifecycle, served, trackerVars, faults>>,
           outbound' \in Seq(Outgoing), inbound' \in Seq(Packets),
           Prompt => OnlyOwes(outbound', inbound', Expected)
    PROVE  IInv'
<1>1. UNCHANGED <<connected, syncState, deferredSync, op, nextId, lifecycle, served, faults,
                  pendingAcks, completedAcks>>
  BY DEF sessionVars, trackerVars
<1>2. TypeInv' /\ AckIsAwaited' /\ DisconnectedIsClean'
  BY <1>1 DEF IInv, TypeInv, AckIsAwaited, DisconnectedIsClean, Idle
<1>3. LifecycleIsCurrent' /\ DeferredOK' /\ AnswerMatchesRequest'
  BY <1>1 DEF IInv, LifecycleIsCurrent, DeferredOK, AnswerMatchesRequest, Prompt
<1>4. Expected' = Expected
  BY <1>1 DEF Expected
<1>5. (Prompt => OnlyOwes(outbound, inbound, Expected))'
  <2>1. Prompt' => OnlyOwes(outbound', inbound', Expected')
    BY <1>1, <1>4 DEF Prompt
  <2> QED BY <2>1
<1> QED BY <1>2, <1>3, <1>5 DEF IInv

LEMMA CompanionAnswersIInv == ASSUME IInv, CompanionAnswers, UNCHANGED faults PROVE IInv'
<1> DEFINE cmd == Head(outbound)
<1>1. /\ outbound # <<>> /\ outbound' = Tail(outbound)
      /\ UNCHANGED <<sessionVars, op, nextId, lifecycle, served, trackerVars>>
  BY DEF CompanionAnswers
<1>2. outbound \in Seq(Outgoing) /\ inbound \in Seq(Packets)
  BY DEF IInv, TypeInv
<1>3. cmd \in Outgoing /\ outbound' \in Seq(Outgoing)
  BY <1>1, <1>2, SeqTail
<1>a. PICK type \in Answers(cmd.kind) :
          \E code \in IF type = "MsgSent" THEN Codes ELSE {NoCode} :
              inbound' = Append(inbound, Packet(type, code, cmd))
  BY DEF CompanionAnswers, Send
<1>4. PICK code \in IF type = "MsgSent" THEN Codes ELSE {NoCode} :
          inbound' = Append(inbound, Packet(type, code, cmd))
  BY <1>a
<1>5. cmd.kind \in DOMAIN Accepts /\ type \in Accepts[cmd.kind] \cup Rejects[cmd.kind]
  BY <1>a, AnswersAreKnown
<1>6. cmd \in Requests /\ cmd # NoRequest
  <2>1. cmd.kind # "none"
    BY <1>5, NothingOperates
  <2>2. cmd \in Requests
    BY <1>3 DEF Outgoing, Requests
  <2> QED BY <2>1, <2>2 DEF NoRequest
<1>7. type \in PacketTypes /\ type \notin {"Malformed", "Ack"}
  BY <1>5, PushesAreForeign DEF Pushes
<1> DEFINE q == Packet(type, code, cmd)
<1>8. q.type = type /\ q.code = code /\ q.re = cmd
  BY DEF Packet
<1> HIDE DEF cmd
<1>9. q \in Packets
  <2>1. q \in [type : PacketTypes, code : Codes \cup {NoCode}, re : Requests]
    BY <1>4, <1>6, <1>7 DEF Packet
  <2>2. q.type \in {"MsgSent", "Ack"} => q.code \in Codes
    BY <1>4, <1>7, <1>8
  <2> HIDE DEF q
  <2> QED BY <1>5, <1>6, <1>8, <2>1, <2>2 DEF Packets
<1> HIDE DEF q
<1>10. inbound' = Append(inbound, q)
  BY <1>4 DEF q
<1>11. inbound' \in Seq(Packets)
  BY <1>2, <1>9, <1>10, SeqAppend
<1>12. q.re = Head(outbound) /\ q.type # "Malformed"
  BY <1>7, <1>8 DEF cmd
<1>13. Prompt => OnlyOwes(outbound', inbound', Expected)
  <2> HAVE Prompt
  <2>1. OnlyOwes(outbound, inbound, Expected)
    BY DEF IInv
  <2>2. OnlyOwes(Tail(outbound), Append(inbound, q), Expected)
    BY <1>1, <1>2, <1>9, <1>12, <2>1, AnswerOne
  <2> QED BY <1>1, <1>10, <2>2
<1> QED BY <1>1, <1>3, <1>11, <1>13, CompanionMoves

LEMMA CompanionIsMuteIInv == ASSUME IInv, CompanionIsMute, UNCHANGED faults PROVE IInv'
<1>1. /\ outbound # <<>> /\ outbound' = Tail(outbound) /\ inbound' = inbound
      /\ UNCHANGED <<sessionVars, op, nextId, lifecycle, served, trackerVars>>
  BY DEF CompanionIsMute
<1>2. outbound \in Seq(Outgoing) /\ inbound \in Seq(Packets)
  BY DEF IInv, TypeInv
<1>3. outbound' \in Seq(Outgoing)
  BY <1>1, <1>2, SeqTail
<1>4. Prompt => OnlyOwes(outbound', inbound', Expected)
  BY <1>1, <1>2, LoseOne DEF IInv
<1> QED BY <1>1, <1>2, <1>3, <1>4, CompanionMoves

LEMMA CompanionPushesIInv == ASSUME IInv, CompanionPushes, UNCHANGED faults PROVE IInv'
<1>1. /\ outbound' = outbound /\ UNCHANGED <<sessionVars, op, nextId, lifecycle, served, trackerVars>>
  BY DEF CompanionPushes
<1>2. outbound \in Seq(Outgoing) /\ inbound \in Seq(Packets)
  BY DEF IInv, TypeInv
<1>3. \E type \in Pushes, code \in Codes \cup {NoCode} :
          /\ inbound' = Append(inbound, Packet(type, code, NoRequest))
          /\ type = "Ack" => code \in Codes
          /\ type = "Malformed" => "malformed" \in faults
  BY DEF CompanionPushes, Send, Pushes
<1>4. PICK type \in Pushes, code \in Codes \cup {NoCode} :
          /\ inbound' = Append(inbound, Packet(type, code, NoRequest))
          /\ type = "Ack" => code \in Codes
          /\ type = "Malformed" => "malformed" \in faults
  BY <1>3
<1> DEFINE q == Packet(type, code, NoRequest)
<1>5. q.type = type /\ q.code = code /\ q.re = NoRequest
  BY DEF Packet
<1>6. NoRequest \in Requests
  BY ClientAssumption DEF NoRequest, Requests
<1>7. type \in PacketTypes /\ type # "MsgSent"
  BY <1>4 DEF Pushes, PacketTypes
<1>8. q \in Packets
  <2>1. q \in [type : PacketTypes, code : Codes \cup {NoCode}, re : Requests]
    BY <1>4, <1>6, <1>7 DEF Packet
  <2> HIDE DEF q
  <2> QED BY <1>4, <1>5, <1>7, <2>1 DEF Packets
<1> HIDE DEF q
<1>9. inbound' = Append(inbound, q)
  BY <1>4 DEF q
<1>10. inbound' \in Seq(Packets)
  BY <1>2, <1>8, <1>9, SeqAppend
<1>11. Prompt => OnlyOwes(outbound', inbound', Expected)
  <2> HAVE Prompt
  <2>1. OnlyOwes(outbound, inbound, Expected)
    BY DEF IInv
  <2>2. q.type # "Malformed"
    BY <1>4, <1>5 DEF Prompt
  <2>3. OnlyOwes(outbound, Append(inbound, q), Expected)
    BY <1>2, <1>5, <1>8, <2>1, <2>2, PushOne
  <2> QED BY <1>1, <1>9, <2>3
<1> QED BY <1>1, <1>2, <1>10, <1>11, CompanionMoves

-----------------------------------------------------------------------------
(* The invariant holds, and what it implies.                               *)

LEMMA NextIInv == IInv /\ [ClientNext]_clientVars => IInv'
<1> SUFFICES ASSUME IInv, [ClientNext]_clientVars PROVE IInv'
  OBVIOUS
<1>1. CASE ClientNext
  <2>1. Act /\ UNCHANGED faults
    BY <1>1 DEF ClientNext, InThisEnvironment
  <2>2. CASE OpenSession
    BY <2>1, <2>2, OpenSessionIInv
  <2>3. CASE OpenSessionFails \/ Disconnect \/ SendDisconnectCommand \/ WriteFails \/ ReadFails
    BY <2>1, <2>3, ClosingIInv
  <2>4. CASE ConnectAgain
    BY <2>1, <2>4, ConnectAgainIInv
  <2>5. CASE \E what \in Kinds \ {"bye"} : BeginRequest(what)
    BY <2>1, <2>5, BeginRequestIInv
  <2>6. CASE BeginSync
    BY <2>1, <2>6, BeginSyncIInv
  <2>7. CASE \E c \in Codes : BeginWaitForAck(c)
    BY <2>1, <2>7, BeginWaitIInv
  <2>8. CASE ReadMalformed
    BY <2>1, <2>8, ReadMalformedIInv
  <2>9. CASE ReadAccepted
    BY <2>1, <2>9, ReadAcceptedIInv
  <2>10. CASE ReadRejected
    BY <2>1, <2>10, ReadRejectedIInv
  <2>11. CASE ReadOther
    BY <2>1, <2>11, ReadOtherIInv
  <2>12. CASE ReadResponse
    BY <2>1, <2>12, ResponseIInv
  <2>13. CASE ReadAwaitingAck
    BY <2>1, <2>13, AwaitingAckIInv
  <2>14. CASE DrainPacket
    BY <2>1, <2>14, DrainPacketIInv
  <2>15. CASE DrainDone
    BY <2>1, <2>15, DrainDoneIInv
  <2>16. CASE NextEvent
    BY <2>1, <2>16, NextEventIInv
  <2>17. CASE RequestTimeout
    BY <2>1, <2>17, RequestTimeoutIInv
  <2>18. CASE DeadlineExpires \/ DropOperation
    BY <2>1, <2>18, GivingUpIInv
  <2>19. CASE CompanionAnswers
    BY <2>1, <2>19, CompanionAnswersIInv
  <2>20. CASE CompanionIsMute
    BY <2>1, <2>20, CompanionIsMuteIInv
  <2>21. CASE CompanionPushes
    BY <2>1, <2>21, CompanionPushesIInv
  <2> QED BY <2>1, <2>2, <2>3, <2>4, <2>5, <2>6, <2>7, <2>8, <2>9, <2>10, <2>11, <2>12, <2>13,
             <2>14, <2>15, <2>16, <2>17, <2>18, <2>19, <2>20, <2>21 DEF Act, ClientStep
<1>2. CASE UNCHANGED clientVars
  <2>1. UNCHANGED <<sessionVars, op, nextId, lifecycle, served, trackerVars, faults>>
    BY <1>2 DEF clientVars
  <2>2. outbound' = outbound /\ inbound' = inbound
    BY <1>2 DEF clientVars, linkVars
  <2>3. outbound' \in Seq(Outgoing) /\ inbound' \in Seq(Packets)
    BY <2>2 DEF IInv, TypeInv
  <2>4. Prompt => OnlyOwes(outbound', inbound', Expected)
    BY <2>2 DEF IInv
  <2> QED BY <2>1, <2>3, <2>4, CompanionMoves
<1> QED BY <1>1, <1>2

LEMMA AlwaysIInv == FairClientSpec => []IInv
BY InitIInv, NextIInv, PTL DEF FairClientSpec, ClientSpec

LEMMA IInvTypes == IInv => ClientTypeOK
<1> SUFFICES ASSUME IInv PROVE ClientTypeOK
  OBVIOUS
<1>1. TypeInv
  BY DEF IInv
<1>2. IsPacket(deferredSync)
  <2>1. IsPacket(NoPacket)
    BY ClientAssumption DEF IsPacket, NoPacket, NoRequest, Requests
  <2> QED BY <1>1, <2>1, PacketFields DEF TypeInv
<1>3. ASSUME NEW i \in DOMAIN outbound PROVE outbound[i] \in Requests
  <2>1. outbound[i] \in Outgoing
    BY <1>1 DEF TypeInv
  <2> QED BY <2>1 DEF Outgoing, Requests
<1>4. ASSUME NEW i \in DOMAIN inbound PROVE IsPacket(inbound[i])
  <2>1. inbound[i] \in Packets
    BY <1>1 DEF TypeInv
  <2> QED BY <2>1, PacketFields
<1>5. /\ op.kind \in {"none", "drain", "ack", "response"} \cup DOMAIN Accepts
      /\ op.n \in 0 .. DrainCapacity /\ op.code \in Codes \cup {NoCode}
  BY <1>1 DEF TypeInv, Operations
<1> QED BY <1>1, <1>2, <1>3, <1>4, <1>5 DEF ClientTypeOK, TypeInv

\* A sync in flight in a prompt environment is one the client knows of.
LEMMA SyncIsKnown ==
    ASSUME IInv, Prompt, SyncInFlight
    PROVE  syncState = "AwaitingResponse"
<1>1. /\ outbound \in Seq(Outgoing) /\ inbound \in Seq(Packets)
      /\ OnlyOwes(outbound, inbound, Expected)
  BY DEF IInv, TypeInv
<1>2. \E q \in Expected : q.kind = "sync"
  <2>1. CASE \E i \in DOMAIN outbound : outbound[i].kind = "sync"
    BY <1>1, <2>1 DEF OnlyOwes
  <2>2. CASE \E i \in DOMAIN inbound : inbound[i].re.kind = "sync"
    <3>1. PICK i \in 1 .. Len(inbound) : inbound[i].re.kind = "sync"
      BY <1>1, <2>2
    <3>2. NoRequest.kind = "none"
      BY DEF NoRequest
    <3>3. inbound[i].re \in Expected \cup {NoRequest}
      BY <1>1 DEF OnlyOwes
    <3> QED BY <3>1, <3>2, <3>3
  <2> QED BY <2>1, <2>2 DEF SyncInFlight
<1>3. op.kind \notin OneAnswer
  BY <1>2 DEF Expected, OneAnswer
<1> QED BY <1>2, <1>3 DEF Expected

LEMMA IInvMatches == IInv => AnswersAreMatched
<1> SUFFICES ASSUME IInv PROVE AnswersAreMatched
  OBVIOUS
<1>1. SyncAnswerIsExpected
  BY SyncIsKnown DEF SyncAnswerIsExpected
<1>2. AnswerMatchesRequest
  BY DEF IInv
<1>3. ASSUME Prompt, deferredSync # NoPacket
      PROVE  syncState = "Idle" /\ ~SyncInFlight
  <2>1. syncState = "Idle"
    BY <1>3 DEF IInv, TypeInv, DeferredOK
  <2> QED BY <1>3, <2>1, SyncIsKnown
<1>4. ASSUME Prompt, NEW i \in DOMAIN outbound, NEW j \in DOMAIN outbound PROVE i = j
  <2>1. outbound \in Seq(Outgoing) /\ Len(outbound) <= 1
    BY <1>4 DEF IInv, TypeInv, OnlyOwes
  <2>2. i \in 1 .. Len(outbound) /\ j \in 1 .. Len(outbound) /\ Len(outbound) \in Nat
    BY <2>1
  <2> QED BY <2>1, <2>2
<1>5. OneSyncAtATime
  BY <1>3, <1>4 DEF OneSyncAtATime
<1> QED BY <1>1, <1>2, <1>5 DEF AnswersAreMatched

-----------------------------------------------------------------------------
(* The client's steps as steps of its ACK bookkeeping.                     *)

LEMMA UpdateRefines ==
    ASSUME NEW p \in Packets, UpdateTracking(p) PROVE TrackerNext \/ UNCHANGED trackerVars
<1>1. CASE p.type \in {"MsgSent", "Ack"}
  <2>1. p.code \in Codes
    BY <1>1, PacketFields
  <2> QED BY <1>1, <2>1 DEF UpdateTracking, TrackerNext
<1>2. CASE p.type \notin {"MsgSent", "Ack"}
  BY <1>2 DEF UpdateTracking
<1> QED BY <1>1, <1>2

LEMMA FailRefines ==
    ASSUME IInv, FailOperation PROVE TrackerNext \/ UNCHANGED trackerVars
<1>1. op.kind = "ack" => op.code \in Codes /\ op.code \notin completedAcks
  BY DEF IInv, AckIsAwaited
<1> QED BY <1>1 DEF FailOperation, TrackerNext

LEMMA StepRefines == IInv /\ [ClientNext]_clientVars => [TrackerNext]_trackerVars
<1> SUFFICES ASSUME IInv, [ClientNext]_clientVars PROVE TrackerNext \/ UNCHANGED trackerVars
  OBVIOUS
<1>1. inbound # <<>> => Head(inbound) \in Packets
  BY SeqTail DEF IInv, TypeInv
<1>2. CASE OpenSession \/ OpenSessionFails \/ ConnectAgain \/ Disconnect \/ SendDisconnectCommand
           \/ WriteFails \/ ReadFails
  BY <1>2 DEF OpenSession, OpenSessionFails, ConnectAgain, Disconnect, SendDisconnectCommand,
              WriteFails, ReadFails, MarkDisconnected, TrackerNext
<1>3. CASE (\E what \in Kinds \ {"bye"} : BeginRequest(what)) \/ BeginSync \/ DrainDone
           \/ DropOperation \/ CompanionAnswers \/ CompanionIsMute \/ CompanionPushes
  BY <1>3 DEF BeginRequest, BeginSync, DrainDone, DropOperation, CompanionAnswers, CompanionIsMute,
              CompanionPushes
<1>4. CASE \E c \in Codes : BeginWaitForAck(c)
  BY <1>4 DEF BeginWaitForAck, TrackerNext
<1>5. CASE ReadMalformed \/ RequestTimeout \/ DeadlineExpires
  BY <1>5, FailRefines DEF ReadMalformed, RequestTimeout, DeadlineExpires
<1>6. CASE ReadRejected
  BY <1>6, FailRefines DEF ReadRejected
<1>7. CASE ReadAccepted
  <2>1. CASE op.kind # "send"
    BY <1>7, <2>1 DEF ReadAccepted
  <2>2. CASE op.kind = "send"
    <3>1. Head(inbound).type = "MsgSent" /\ TrackSent(Head(inbound).code) /\ inbound # <<>>
      BY <1>7, <2>2 DEF ReadAccepted, Accepts
    <3>2. Head(inbound).code \in Codes
      BY <1>1, <3>1, PacketFields
    <3> QED BY <3>1, <3>2 DEF TrackerNext
  <2> QED BY <2>1, <2>2
<1>8. CASE ReadOther
  BY <1>1, <1>8, UpdateRefines DEF ReadOther, PublishAndTrack
<1>9. CASE NextEvent
  BY <1>1, <1>9, UpdateRefines DEF NextEvent, PublishAndTrack
<1>10. CASE ReadResponse
  BY <1>1, <1>10, UpdateRefines, FailRefines DEF ReadResponse, PublishAndTrack
<1>11. CASE ReadAwaitingAck
  <2>1. op.code \in Codes /\ op.code \notin completedAcks
    BY <1>11 DEF ReadAwaitingAck, IInv, AckIsAwaited
  <2>2. \/ MatchWaitedAck(op.code) \/ FailOperation \/ UNCHANGED trackerVars
        \/ UpdateTracking(Head(inbound)) /\ inbound # <<>>
    BY <1>11 DEF ReadAwaitingAck, PublishAndTrack
  <2> QED BY <1>1, <2>1, <2>2, UpdateRefines, FailRefines DEF TrackerNext
<1>12. CASE DrainPacket
  BY <1>1, <1>12, UpdateRefines DEF DrainPacket, PublishAndTrack
<1>13. CASE UNCHANGED clientVars
  BY <1>13 DEF clientVars, trackerVars
<1> QED BY <1>2, <1>3, <1>4, <1>5, <1>6, <1>7, <1>8, <1>9, <1>10, <1>11, <1>12, <1>13
        DEF ClientNext, InThisEnvironment, Act, ClientStep

-----------------------------------------------------------------------------
\* A session begins with nothing of the one before, a client without one remembers nothing, and
\* subscribers were last told what holds, in every environment the model has.
THEOREM SessionsKeptApart == FairClientSpec => []SessionsAreSeparate
<1>1. IInv => SessionsAreSeparate
  BY IInvTypes DEF SessionsAreSeparate, IInv
<1> QED BY <1>1, AlwaysIInv, PTL

\* As long as answers come in time, parse and die with their session, every answer ends the request
\* it answers and at most one sync is unanswered, which the client knows.
THEOREM AnswersMatch == FairClientSpec => []AnswersAreMatched
BY AlwaysIInv, IInvMatches, PTL

\* Every step of the client applies one whole method of the ACK bookkeeping or leaves it alone: what
\* is proved of AckTracker's methods holds inside the client.
THEOREM ClientRefinesTracker == FairClientSpec => TrackerSpec
<1>1. ClientInit => TrackerInit
  BY DEF ClientInit
<1> QED BY <1>1, AlwaysIInv, StepRefines, PTL DEF FairClientSpec, ClientSpec, TrackerSpec

-----------------------------------------------------------------------------
(* The ACK bookkeeping inside the client.                                  *)

Lists(order, keys, capacity) ==
    /\ order \in Seq(Codes) /\ NoDuplicates(order) /\ Len(order) <= capacity
    /\ Holds(order) = keys

MapsInStep == /\ Lists(pendingAckOrder, pendingAcks, PendingCapacity)
              /\ Lists(completedAckOrder, completedAcks, CompletedCapacity)
              /\ pendingAcks \cap completedAcks = {}

LEMMA ListsDiscard ==
    ASSUME NEW order, NEW keys, NEW capacity \in Nat \ {0}, Lists(order, keys, capacity), NEW c
    PROVE  Lists(Retain(order, c), keys \ {c}, capacity)
<1>1. order \in Seq(Codes) /\ NoDuplicates(order)
  BY DEF Lists
<1>2. /\ Retain(order, c) \in Seq(Codes) /\ NoDuplicates(Retain(order, c))
      /\ Holds(Retain(order, c)) = Holds(order) \ {c}
      /\ Len(Retain(order, c)) <= Len(order)
  BY <1>1, RetainProperties
<1>3. Len(Retain(order, c)) <= capacity
  <2>1. \A l, m, n \in Nat : l <= m /\ m <= n => l <= n
    OBVIOUS
  <2>2. Len(order) <= capacity /\ Len(order) \in Nat /\ Len(Retain(order, c)) \in Nat
    BY <1>1, <1>2 DEF Lists
  <2> QED BY <1>2, <2>1, <2>2
<1> QED BY <1>2, <1>3 DEF Lists

LEMMA ListsRemember ==
    ASSUME NEW order, NEW keys, NEW capacity \in Nat \ {0}, Lists(order, keys, capacity), NEW c \in Codes
    PROVE  Lists(Append(Trimmed(Retain(order, c), capacity), c),
                 (keys \ Popped(Retain(order, c), capacity)) \cup {c}, capacity)
<1>1. order \in Seq(Codes) /\ NoDuplicates(order) /\ Len(order) <= capacity /\ Holds(order) = keys
  BY DEF Lists
<1>2. PICK kept : kept = Retain(order, c)
  OBVIOUS
<1>3. Lists(Append(Trimmed(kept, capacity), c), (keys \ Popped(kept, capacity)) \cup {c}, capacity)
  BY <1>1, <1>2, RememberProperties DEF Lists
<1> QED BY <1>2, <1>3

LEMMA TrackerKeepsStep == MapsInStep /\ [TrackerNext]_trackerVars => MapsInStep'
<1> SUFFICES ASSUME MapsInStep, [TrackerNext]_trackerVars PROVE MapsInStep'
  OBVIOUS
<1> USE CapacityAssumption
<1>1. ASSUME NEW c, DiscardPendingAck(c) PROVE Lists(pendingAckOrder', pendingAcks', PendingCapacity)
  BY <1>1, ListsDiscard DEF MapsInStep, DiscardPendingAck
<1>2. ASSUME NEW c, DiscardCompletedAck(c)
      PROVE  Lists(completedAckOrder', completedAcks', CompletedCapacity)
  BY <1>2, ListsDiscard DEF MapsInStep, DiscardCompletedAck
<1>3. ASSUME NEW c \in Codes, RememberPendingAck(c)
      PROVE  Lists(pendingAckOrder', pendingAcks', PendingCapacity)
  BY <1>3, ListsRemember DEF MapsInStep, RememberPendingAck
<1>4. ASSUME NEW c \in Codes, RememberCompletedAck(c)
      PROVE  Lists(completedAckOrder', completedAcks', CompletedCapacity)
  BY <1>4, ListsRemember DEF MapsInStep, RememberCompletedAck
<1>5. ASSUME NEW c \in Codes, TrackSent(c) PROVE MapsInStep'
  <2>1. pendingAcks' \cap completedAcks' = {}
    BY <1>5 DEF TrackSent, DiscardCompletedAck, RememberPendingAck, MapsInStep
  <2> QED BY <1>2, <1>3, <1>5, <2>1 DEF TrackSent, MapsInStep
<1>6. ASSUME NEW c \in Codes, TrackAck(c) PROVE MapsInStep'
  <2>1. CASE UNCHANGED trackerVars
    BY <2>1 DEF MapsInStep, trackerVars
  <2>2. CASE DiscardPendingAck(c) /\ RememberCompletedAck(c)
    <3>1. pendingAcks' \cap completedAcks' = {}
      BY <2>2 DEF DiscardPendingAck, RememberCompletedAck, MapsInStep
    <3> QED BY <1>1, <1>4, <2>2, <3>1 DEF MapsInStep
  <2> QED BY <1>6, <2>1, <2>2 DEF TrackAck
<1>7. ASSUME NEW c \in Codes, TakeCompletedAck(c) PROVE MapsInStep'
  <2>1. pendingAcks' \cap completedAcks' = {} /\ UNCHANGED <<pendingAcks, pendingAckOrder>>
    BY <1>7 DEF TakeCompletedAck, DiscardCompletedAck, pendingVars, MapsInStep
  <2> QED BY <1>2, <1>7, <2>1 DEF TakeCompletedAck, MapsInStep
<1>8. ASSUME NEW c \in Codes, MatchWaitedAck(c) PROVE MapsInStep'
  <2>1. pendingAcks' \cap completedAcks' = {} /\ UNCHANGED <<completedAcks, completedAckOrder>>
    BY <1>8 DEF MatchWaitedAck, DiscardPendingAck, completedVars, MapsInStep
  <2> QED BY <1>1, <1>8, <2>1 DEF MatchWaitedAck, MapsInStep
<1>9. ASSUME NEW c \in Codes, AbandonAck(c) PROVE MapsInStep'
  <2>1. pendingAcks' \cap completedAcks' = {}
    BY <1>9 DEF AbandonAck, DiscardPendingAck, DiscardCompletedAck, MapsInStep
  <2> QED BY <1>1, <1>2, <1>9, <2>1 DEF AbandonAck, MapsInStep
<1>10. CASE ClearTracking
  BY <1>10 DEF ClearTracking, MapsInStep, Lists, NoDuplicates, Holds
<1>11. CASE UNCHANGED trackerVars
  BY <1>11 DEF MapsInStep, trackerVars
<1> QED BY <1>5, <1>6, <1>7, <1>8, <1>9, <1>10, <1>11 DEF TrackerNext

\* The refinement at work: inside the whole client too, each queue lists exactly the keys of its map,
\* once each, and no code is both awaited and acknowledged.
THEOREM ClientMapsInStep == FairClientSpec => []TrackersConsistent
<1>1. TrackerInit => MapsInStep
  BY CapacityAssumption DEF TrackerInit, MapsInStep, Lists, NoDuplicates, Holds
<1>2. MapsInStep => TrackersConsistent
  BY DEF MapsInStep, Lists, TrackersConsistent
<1>3. TrackerSpec => []MapsInStep
  BY <1>1, TrackerKeepsStep, PTL DEF TrackerSpec
<1> QED BY <1>2, <1>3, ClientRefinesTracker, PTL

-----------------------------------------------------------------------------
(* The actor of ManagedClient (managed.rs), for every set of commands,    *)
(* every capacity of its channel and every number of cancellations.        *)

USE DEF States, ActorStates, AllKinds

\* The channel and its waiters list requests that are where they say, once
\* each; the actor is busy with at most one request.
Placed ==
    /\ NoDuplicates(queue) /\ \A r \in Holds(queue) : state[r] = "queued"
    /\ NoDuplicates(senders) /\ \A r \in Holds(senders) : state[r] = "sending"
    /\ \A r \in Commands : state[r] = "active" => actor = "busy"
    /\ \A r, q \in Commands : state[r] = "active" /\ state[q] = "active" => r = q

\* No request is younger than the epoch, and the actor has seen no epoch but
\* that of the request it runs.
Generations ==
    \A r \in Commands : /\ generation[r] <= epoch
                        /\ state[r] = "active" => generation[r] = seen

ActorIInv == ActorTypeOK /\ Placed /\ Generations /\ DirtySessionIsNeverUsed

-----------------------------------------------------------------------------
\* What remains of a queue once its head is taken.
LEMMA TailProperties ==
    ASSUME NEW S, NEW q \in Seq(S), NoDuplicates(q), q # <<>>
    PROVE  /\ Head(q) \in Holds(q) /\ Head(q) \in S
           /\ Tail(q) \in Seq(S) /\ Len(Tail(q)) <= Len(q)
           /\ NoDuplicates(Tail(q))
           /\ Holds(Tail(q)) \subseteq Holds(q) \ {Head(q)}
<1>1. /\ Len(q) \in Nat \ {0} /\ DOMAIN q = 1 .. Len(q) /\ Head(q) = q[1]
      /\ Tail(q) \in Seq(S) /\ Len(Tail(q)) = Len(q) - 1
      /\ DOMAIN Tail(q) = 1 .. Len(q) - 1
      /\ \A i \in 1 .. Len(q) - 1 : Tail(q)[i] = q[i + 1]
  OBVIOUS
<1>2. \A i, j \in 1 .. Len(q) : q[i] = q[j] => i = j
  BY <1>1 DEF NoDuplicates
<1>3. Head(q) \in Holds(q) /\ Head(q) \in S
  BY <1>1 DEF Holds
<1>4. ASSUME NEW i \in 1 .. Len(q) - 1, NEW j \in 1 .. Len(q) - 1,
             Tail(q)[i] = Tail(q)[j]
      PROVE  i = j
  <2>1. i + 1 \in 1 .. Len(q) /\ j + 1 \in 1 .. Len(q) /\ q[i + 1] = q[j + 1]
    BY <1>1, <1>4
  <2> QED BY <1>2, <2>1
<1>5. ASSUME NEW i \in 1 .. Len(q) - 1
      PROVE  Tail(q)[i] \in Holds(q) /\ Tail(q)[i] # Head(q)
  <2>1. i + 1 \in 1 .. Len(q) /\ i + 1 # 1 /\ 1 \in 1 .. Len(q)
    BY <1>1
  <2> QED BY <1>1, <1>2, <2>1 DEF Holds
<1> QED BY <1>1, <1>3, <1>4, <1>5 DEF NoDuplicates, Holds

LEMMA ActorInitIInv == ActorInit => ActorIInv
BY ActorAssumption
   DEF ActorInit, ActorIInv, ActorTypeOK, Placed, Generations, DirtySessionIsNeverUsed,
       NoDuplicates, Holds

\* A cancellation or a step of one caller or of the actor keeps the invariant.
LEMMA ActorNextIInv == ActorIInv /\ [ActorNext]_actorVars => ActorIInv'
<1> SUFFICES ASSUME ActorIInv, [ActorNext]_actorVars PROVE ActorIInv'
  OBVIOUS
<1> USE ActorAssumption DEF ActorIInv
<1> USE DEF ActorTypeOK, Generations, DirtySessionIsNeverUsed
<1>1. ASSUME NEW r \in Commands, NEW k \in CommandKinds, Call(r, k) PROVE ActorIInv'
  BY <1>1 DEF Call, Placed, callerVars
<1>2. ASSUME NEW r \in Commands, Submit(r) PROVE ActorIInv'
  <2> USE <1>2 DEF Submit
  <2>1. CASE actor = "stopped"
    <3>1. /\ state' = [state EXCEPT ![r] = "dropped"] /\ state[r] = "calling"
          /\ UNCHANGED <<queue, senders, kind, generation, handles, epoch, seen, actor, session>>
      BY <2>1
    <3>2. Placed'
      BY <3>1 DEF Placed
    <3> QED BY <3>1, <3>2
  <2>2. CASE actor # "stopped" /\ Len(queue) < QueueCapacity /\ senders = <<>>
    <3>1. r \notin Holds(queue)
      BY DEF Placed
    <3>2. queue' = Append(queue, r) /\ senders' = senders
      BY <2>2
    <3>3. /\ queue' \in Seq(Commands) /\ Holds(queue') = Holds(queue) \cup {r}
          /\ NoDuplicates(queue') /\ Len(queue') = Len(queue) + 1
      BY <3>1, <3>2, AppendKeepsOrder DEF Placed
    <3>4. /\ state' = [state EXCEPT ![r] = "queued"] /\ state[r] = "calling"
          /\ UNCHANGED <<kind, generation, handles, epoch, seen, actor, session>>
      BY <2>2
    <3>5. Placed'
      BY <3>2, <3>3, <3>4 DEF Placed
    <3> QED BY <2>2, <3>2, <3>3, <3>4, <3>5
  <2>3. CASE actor # "stopped" /\ (Len(queue) = QueueCapacity \/ senders # <<>>)
    <3>1. r \notin Holds(senders)
      BY DEF Placed
    <3>2. senders' = Append(senders, r) /\ queue' = queue
      BY <2>3
    <3>3. /\ senders' \in Seq(Commands) /\ Holds(senders') = Holds(senders) \cup {r}
          /\ NoDuplicates(senders')
      BY <3>1, <3>2, AppendKeepsOrder DEF Placed
    <3>4. /\ state' = [state EXCEPT ![r] = "sending"] /\ state[r] = "calling"
          /\ UNCHANGED <<kind, generation, handles, epoch, seen, actor, session>>
      BY <2>3
    <3>5. Placed'
      BY <3>2, <3>3, <3>4 DEF Placed
    <3> QED BY <3>2, <3>3, <3>4, <3>5
  <2> QED BY <2>1, <2>2, <2>3
<1>3. ASSUME NEW r \in Commands, AbandonSend(r) PROVE ActorIInv'
  <2>1. /\ senders' \in Seq(Commands) /\ Holds(senders') = Holds(senders) \ {r}
        /\ NoDuplicates(senders')
    BY <1>3, RetainProperties DEF AbandonSend, Placed
  <2> QED BY <1>3, <2>1 DEF AbandonSend, Placed
<1>4. ASSUME SlotGranted PROVE ActorIInv'
  <2> DEFINE r == Head(senders)
  <2>1. /\ r \in Holds(senders) /\ r \in Commands
        /\ senders' \in Seq(Commands) /\ NoDuplicates(senders')
        /\ Holds(senders') \subseteq Holds(senders) \ {r}
    BY <1>4, TailProperties DEF SlotGranted, Placed
  <2>2. r \notin Holds(queue)
    BY <2>1 DEF Placed
  <2>3. queue' = Append(queue, r) /\ Len(queue) < QueueCapacity
    BY <1>4 DEF SlotGranted
  <2>4. /\ queue' \in Seq(Commands) /\ Holds(queue') = Holds(queue) \cup {r}
        /\ NoDuplicates(queue') /\ Len(queue') = Len(queue) + 1
    BY <2>1, <2>2, <2>3, AppendKeepsOrder DEF Placed
  <2>5. /\ state' = [state EXCEPT ![r] = "queued"]
        /\ UNCHANGED <<kind, generation, handles, epoch, seen, actor, session>>
    BY <1>4 DEF SlotGranted
  <2> HIDE DEF r
  <2> QED BY <2>1, <2>3, <2>4, <2>5 DEF Placed
<1>5. ASSUME Cancel \/ DropHandles \/ HandlesGone \/ NoticeEpoch \/ IdleRead
             \/ BackoffEnds \/ CloseInterrupted \/ CloseTimesOut
      PROVE  ActorIInv'
  <2>1. CASE Cancel
    BY <2>1 DEF Cancel, Placed, callerVars
  <2>2. CASE DropHandles
    BY <2>2 DEF DropHandles, Placed
  <2>3. CASE HandlesGone \/ NoticeEpoch
    BY <2>3 DEF HandlesGone, NoticeEpoch, Receiving, Placed, callerVars
  <2>4. CASE IdleRead \/ BackoffEnds
    BY <2>4 DEF IdleRead, BackoffEnds, Placed, callerVars
  <2>5. CASE CloseInterrupted \/ CloseTimesOut
    BY <2>5 DEF CloseInterrupted, CloseTimesOut, Placed, callerVars
  <2> QED BY <1>5, <2>1, <2>2, <2>3, <2>4, <2>5
<1>6. ASSUME NEW r \in Commands,
             OperationOpens(r) \/ CommandEnds(r) \/ Interrupt(r)
      PROVE  ActorIInv'
  <2>1. CASE OperationOpens(r)
    BY <2>1 DEF OperationOpens, Active, Placed, callerVars
  <2>2. CASE CommandEnds(r) \/ Interrupt(r)
    <3>1. PICK to \in {"done", "interrupted"} : state' = [state EXCEPT ![r] = to]
      BY <2>2 DEF CommandEnds, Interrupt
    <3>2. /\ state[r] = "active" /\ actor = "busy"
          /\ UNCHANGED <<queue, epoch, kind, generation, senders, handles>>
      BY <2>2 DEF CommandEnds, Interrupt, Active, callerVars
    <3>3. \A q \in Commands : state'[q] # "active"
      BY <3>1, <3>2 DEF Placed
    <3>4. Placed'
      BY <3>1, <3>2, <3>3 DEF Placed
    <3>5. /\ actor' \in ActorStates /\ seen' \in Nat
          /\ session' \in {"closed", "open", "dirty"}
          /\ session' = "dirty" => actor' = "closing"
      BY <2>2, <3>2 DEF CommandEnds, Interrupt
    <3> QED BY <3>1, <3>2, <3>3, <3>4, <3>5
  <2> QED BY <1>6, <2>1, <2>2
<1>7. ASSUME TakeCommand PROVE ActorIInv'
  <2> DEFINE r == Head(queue)
  <2>1. /\ r \in Holds(queue) /\ r \in Commands
        /\ queue' \in Seq(Commands) /\ NoDuplicates(queue') /\ Len(queue') <= Len(queue)
        /\ Holds(queue') \subseteq Holds(queue) \ {r}
    BY <1>7, TailProperties DEF TakeCommand, Placed
  <2>2. /\ \/ /\ generation[r] = epoch
              /\ state' = [state EXCEPT ![r] = "active"] /\ actor' = "busy"
              /\ session' \in {session, "closed"}
           \/ /\ state' = [state EXCEPT ![r] = "dropped"] /\ actor' = "loop"
              /\ UNCHANGED session
        /\ Receiving /\ session # "dirty"
        /\ seen' = epoch /\ UNCHANGED <<kind, generation, senders, handles, epoch>>
    BY <1>7 DEF TakeCommand, Receiving, callerVars
  <2> HIDE DEF r
  <2>3. Len(queue') <= QueueCapacity
    BY <2>1
  <2>4. \A s \in Commands : state[s] # "active"
    BY <2>2 DEF Placed, Receiving
  <2>5. PICK to \in {"active", "dropped"} : state' = [state EXCEPT ![r] = to]
    BY <2>2
  <2>6. Placed'
    <3>1. /\ \A s \in Holds(queue') : s # r /\ s \in Commands /\ state'[s] = "queued"
          /\ \A s \in Holds(senders') : s # r /\ state'[s] = "sending"
      <4>1. Holds(queue) \subseteq Commands /\ Holds(senders) \subseteq Commands
        BY DEF Holds
      <4> QED BY <2>1, <2>2, <2>5, <4>1 DEF Placed
    <3>2. \A s \in Commands : state'[s] = "active" => s = r /\ actor' = "busy"
      BY <2>1, <2>2, <2>4
    <3> QED BY <2>1, <2>2, <3>1, <3>2 DEF Placed
  <2> QED BY <2>1, <2>2, <2>3, <2>4, <2>5, <2>6
<1>8. ASSUME StopActor PROVE ActorIInv'
  <2>1. NoDuplicates(<<>>) /\ Holds(<<>>) = {}
    BY DEF NoDuplicates, Holds
  <2> QED BY <1>8, <2>1 DEF StopActor, Placed
<1>9. CASE UNCHANGED actorVars
  BY <1>9 DEF actorVars, callerVars, Placed
<1> QED BY <1>1, <1>2, <1>3, <1>4, <1>5, <1>6, <1>7, <1>8, <1>9 DEF ActorNext, ActorStep

LEMMA ActorAlwaysIInv == ActorSpec => []ActorIInv
BY ActorInitIInv, ActorNextIInv, PTL DEF ActorSpec

\* The actor's variables have their types and the channel never holds more
\* than its capacity.
THEOREM ActorTypeCorrect == ActorSpec => []ActorTypeOK
BY ActorAlwaysIInv, PTL DEF ActorIInv

\* Whatever operation is interrupted and whenever, the session it leaves
\* behind is closed before the actor reads from it or runs another command.
THEOREM NoUseAfterInterruption == ActorSpec => []DirtySessionIsNeverUsed
BY ActorAlwaysIInv, PTL DEF ActorIInv

-----------------------------------------------------------------------------
(* The actor implements the serial executor.                               *)

\* One request changes its phase and the others keep theirs.
LEMMA OnePhaseMoves ==
    ASSUME NEW r \in Commands, NEW to, PhaseOf(r)' = to,
           \A q \in Commands \ {r} : PhaseOf(q)' = PhaseOf(q)
    PROVE  phaseBar' = [phaseBar EXCEPT ![r] = to]
BY DEF phaseBar

\* A request's phase depends on its state and its generation only.
LEMMA SamePhase ==
    ASSUME NEW r \in Commands, state'[r] = state[r], generation'[r] = generation[r],
           epoch' = epoch
    PROVE  PhaseOf(r)' = PhaseOf(r)
BY DEF PhaseOf, Pending

\* Steps that only one request notices.
LEMMA StateMoves ==
    ASSUME NEW r \in Commands, NEW s, state \in [Commands -> States],
           state' = [state EXCEPT ![r] = s], UNCHANGED <<generation, epoch>>
    PROVE  \A q \in Commands \ {r} : PhaseOf(q)' = PhaseOf(q)
BY SamePhase

\* Steps that no caller can see.
LEMMA NothingMoves ==
    ASSUME UNCHANGED <<state, generation, epoch>>,
           actor' = "stopped" <=> actor = "stopped"
    PROVE  UNCHANGED <<phaseBar, openBar>>
BY DEF phaseBar, openBar, PhaseOf, Pending

LEMMA InitRefines == ActorInit => Serial!SerialInit
BY DEF ActorInit, Serial!SerialInit, phaseBar, openBar, PhaseOf, Pending

\* Every step of the actor and its callers is a step of the executor or
\* leaves what callers see as it was.
LEMMA NextRefines ==
    ActorIInv /\ [ActorNext]_actorVars => [Serial!SerialNext]_<<phaseBar, openBar>>
<1> SUFFICES ASSUME ActorIInv, [ActorNext]_actorVars
             PROVE  Serial!SerialNext \/ UNCHANGED <<phaseBar, openBar>>
  OBVIOUS
<1>0. /\ state \in [Commands -> States] /\ generation \in [Commands -> Nat]
      /\ epoch \in Nat
      /\ \A r \in Commands : phaseBar[r] = PhaseOf(r)
  BY DEF ActorIInv, ActorTypeOK, phaseBar
<1>1. ASSUME NEW r \in Commands, NEW k \in CommandKinds, Call(r, k)
      PROVE  Serial!Submitted(r)
  <2>1. PhaseOf(r) = "new" /\ PhaseOf(r)' = "waiting"
    BY <1>0, <1>1 DEF Call, PhaseOf, Pending
  <2>2. \A q \in Commands \ {r} : PhaseOf(q)' = PhaseOf(q)
    BY <1>0, <1>1, SamePhase DEF Call
  <2>3. UNCHANGED openBar
    BY <1>1 DEF Call, openBar
  <2> QED BY <1>0, <2>1, <2>2, <2>3, OnePhaseMoves DEF Serial!Submitted, Serial!Move
<1>2. ASSUME NEW r \in Commands, Submit(r)
      PROVE  Serial!Refused(r) \/ UNCHANGED <<phaseBar, openBar>>
  <2>1. UNCHANGED <<generation, epoch, actor>> /\ UNCHANGED openBar
    BY <1>2 DEF Submit, openBar
  <2>2. CASE state' = [state EXCEPT ![r] = "dropped"] /\ actor = "stopped"
    <3>1. PhaseOf(r) \in {"waiting", "doomed"} /\ PhaseOf(r)' = "refused" /\ ~openBar
      BY <1>0, <1>2, <2>1, <2>2 DEF Submit, PhaseOf, Pending, openBar
    <3> QED BY <1>0, <2>1, <2>2, <3>1, OnePhaseMoves, StateMoves
            DEF Serial!Refused, Serial!Move
  <2>3. CASE state' = [state EXCEPT ![r] = "queued"] \/ state' = [state EXCEPT ![r] = "sending"]
    <3>1. PhaseOf(r)' = PhaseOf(r)
      BY <1>0, <1>2, <2>1, <2>3 DEF Submit, PhaseOf, Pending
    <3>2. \A q \in Commands \ {r} : PhaseOf(q)' = PhaseOf(q)
      BY <1>0, <2>1, <2>3, SamePhase
    <3> QED BY <2>1, <3>1, <3>2 DEF phaseBar
  <2> QED BY <1>2, <2>2, <2>3 DEF Submit
<1>3. ASSUME NEW r \in Commands, AbandonSend(r) PROVE Serial!Withdrawn(r)
  <2>1. PhaseOf(r) \in {"waiting", "doomed"} /\ PhaseOf(r)' = "withdrawn"
    BY <1>0, <1>3 DEF AbandonSend, PhaseOf, Pending
  <2>2. UNCHANGED openBar /\ \A q \in Commands \ {r} : PhaseOf(q)' = PhaseOf(q)
    BY <1>0, <1>3, StateMoves DEF AbandonSend, openBar
  <2> QED BY <1>0, <2>1, <2>2, OnePhaseMoves DEF Serial!Withdrawn, Serial!Move
<1>4. ASSUME SlotGranted PROVE UNCHANGED <<phaseBar, openBar>>
  <2>1. PICK r \in Commands : r = Head(senders) /\ state[r] = "sending"
    BY <1>4, TailProperties DEF SlotGranted, ActorIInv, ActorTypeOK, Placed
  <2>2. /\ state' = [state EXCEPT ![r] = "queued"]
        /\ UNCHANGED <<generation, epoch, actor>>
    BY <1>4, <2>1 DEF SlotGranted
  <2>3. PhaseOf(r)' = PhaseOf(r)
    BY <1>0, <2>1, <2>2 DEF PhaseOf, Pending
  <2> QED BY <1>0, <2>1, <2>2, <2>3, StateMoves DEF phaseBar, openBar
<1>5. ASSUME Cancel PROVE Serial!CancelledAll
  <2>1. UNCHANGED <<state, generation, actor>> /\ epoch' = epoch + 1
    BY <1>5 DEF Cancel, callerVars
  <2>2. ASSUME NEW r \in Commands
        PROVE  PhaseOf(r)' = CASE PhaseOf(r) = "waiting" -> "doomed"
                               [] PhaseOf(r) = "running" -> "halting"
                               [] OTHER -> PhaseOf(r)
    <3>1. generation[r] # epoch'
      BY <1>0, <2>1 DEF ActorIInv, Generations
    <3> QED BY <1>0, <2>1, <3>1 DEF PhaseOf, Pending
  <2> QED BY <2>1, <2>2 DEF Serial!CancelledAll, phaseBar, openBar
<1>6. ASSUME DropHandles \/ HandlesGone \/ NoticeEpoch \/ IdleRead \/ BackoffEnds
             \/ CloseInterrupted \/ CloseTimesOut
             \/ \E r \in Commands : OperationOpens(r)
      PROVE  UNCHANGED <<phaseBar, openBar>>
  <2>1. /\ UNCHANGED <<state, generation, epoch>>
        /\ actor' = "stopped" <=> actor = "stopped"
    BY <1>6 DEF DropHandles, HandlesGone, NoticeEpoch, IdleRead, BackoffEnds,
                CloseInterrupted, CloseTimesOut, OperationOpens, Receiving, callerVars
  <2> QED BY <2>1, NothingMoves
<1>7. ASSUME NEW r \in Commands, CommandEnds(r) PROVE Serial!Ended(r)
  <2>1. PhaseOf(r) \in {"running", "halting"} /\ PhaseOf(r)' = "ended"
    BY <1>0, <1>7 DEF CommandEnds, Active, PhaseOf, Pending
  <2>2. UNCHANGED openBar /\ \A q \in Commands \ {r} : PhaseOf(q)' = PhaseOf(q)
    BY <1>0, <1>7, StateMoves DEF CommandEnds, Active, openBar, callerVars
  <2> QED BY <1>0, <2>1, <2>2, OnePhaseMoves DEF Serial!Ended, Serial!Move
<1>8. ASSUME NEW r \in Commands, Interrupt(r) PROVE Serial!Aborted(r)
  <2>1. generation[r] # epoch
    BY <1>8 DEF Interrupt, Active, ActorIInv, Generations
  <2>2. PhaseOf(r) = "halting" /\ PhaseOf(r)' = "aborted"
    BY <1>0, <1>8, <2>1 DEF Interrupt, Active, PhaseOf, Pending
  <2>3. UNCHANGED openBar /\ \A q \in Commands \ {r} : PhaseOf(q)' = PhaseOf(q)
    BY <1>0, <1>8, StateMoves DEF Interrupt, Active, openBar, callerVars
  <2> QED BY <1>0, <2>2, <2>3, OnePhaseMoves DEF Serial!Aborted, Serial!Move
<1>9. ASSUME TakeCommand
      PROVE  \E r \in Commands : Serial!Started(r) \/ Serial!Refused(r)
  <2>1. PICK r \in Commands : r = Head(queue) /\ state[r] = "queued"
    BY <1>9, TailProperties DEF TakeCommand, ActorIInv, ActorTypeOK, Placed
  <2>2. /\ Receiving /\ UNCHANGED <<generation, epoch>> /\ actor' # "stopped"
        /\ \/ generation[r] = epoch /\ state' = [state EXCEPT ![r] = "active"]
           \/ generation[r] # epoch /\ state' = [state EXCEPT ![r] = "dropped"]
    BY <1>9, <2>1 DEF TakeCommand, callerVars
  <2>3. openBar /\ openBar' = openBar
    BY <2>2 DEF Receiving, openBar
  <2>4. \A q \in Commands \ {r} : PhaseOf(q)' = PhaseOf(q)
    BY <1>0, <2>1, <2>2, StateMoves
  <2>5. CASE generation[r] = epoch
    <3>1. PhaseOf(r) = "waiting" /\ PhaseOf(r)' = "running"
      BY <1>0, <2>1, <2>2, <2>5 DEF PhaseOf, Pending
    <3>2. \A q \in Commands : state[q] # "active"
      BY <2>2 DEF Receiving, ActorIInv, Placed
    <3>3. Serial!NothingRuns
      BY <1>0, <3>2 DEF Serial!NothingRuns, PhaseOf, Pending
    <3> QED BY <1>0, <2>1, <2>3, <2>4, <3>1, <3>3, OnePhaseMoves
            DEF Serial!Started, Serial!Move
  <2>6. CASE generation[r] # epoch
    <3>1. PhaseOf(r) = "doomed" /\ PhaseOf(r)' = "refused"
      BY <1>0, <2>1, <2>2, <2>6 DEF PhaseOf, Pending
    <3> QED BY <1>0, <2>1, <2>3, <2>4, <3>1, OnePhaseMoves
            DEF Serial!Refused, Serial!Move
  <2> QED BY <2>5, <2>6
<1>10. ASSUME StopActor PROVE Serial!Closed
  <2> DEFINE S == {r \in Commands : state[r] \in {"sending", "queued"}}
  <2>1. openBar /\ openBar' = FALSE
    BY <1>10 DEF StopActor, openBar
  <2>2. \A q \in Commands : state[q] # "active"
    BY <1>10 DEF StopActor, ActorIInv, Placed
  <2>3. Serial!NothingRuns
    BY <1>0, <2>2 DEF Serial!NothingRuns, PhaseOf, Pending
  <2>4. S \in SUBSET {r \in Commands : phaseBar[r] \in {"waiting", "doomed"}}
    BY <1>0 DEF PhaseOf, Pending
  <2>5. phaseBar' = [r \in Commands |-> IF r \in S THEN "refused" ELSE phaseBar[r]]
    <3>1. ASSUME NEW r \in Commands
          PROVE  PhaseOf(r)' = IF r \in S THEN "refused" ELSE PhaseOf(r)
      BY <1>0, <1>10 DEF StopActor, PhaseOf, Pending
    <3> QED BY <1>0, <3>1 DEF phaseBar
  <2> QED BY <2>1, <2>3, <2>4, <2>5 DEF Serial!Closed
<1>11. CASE UNCHANGED actorVars
  <2>1. UNCHANGED <<state, generation, epoch, actor>>
    BY <1>11 DEF actorVars, callerVars
  <2> QED BY <2>1, NothingMoves
<1> QED
  BY <1>1, <1>2, <1>3, <1>4, <1>5, <1>6, <1>7, <1>8, <1>9, <1>10, <1>11
     DEF ActorNext, ActorStep, Serial!SerialNext

\* For any number of callers, any channel capacity and any interleaving of
\* calls, waits for a slot, cancellations and the actor's steps, ManagedClient
\* behaves as a serial executor with an instantaneous cancellation.
THEOREM ActorIsSerial == ActorSpec => ImplementsSerialExecutor
BY InitRefines, NextRefines, ActorAlwaysIInv, PTL
   DEF ActorSpec, ImplementsSerialExecutor, Serial!SerialSpec
=============================================================================
