--------------------------- MODULE Queues_proofs ----------------------------
(***************************************************************************)
(* What the queue operations return, for queues over any set S.            *)
(***************************************************************************)
EXTENDS Queues, WellFoundedInduction, TLAPS

\* The case split on a queue that is within its capacity.
LEMMA LeqCases == \A m, n \in Nat : m <= n => m < n \/ m = n
OBVIOUS

\* Every set of indexes has a least one.
LEMMA LeastIndex ==
    ASSUME NEW T, T \subseteq Nat, T # {}
    PROVE  \E x \in T : \A y \in T : x <= y
<1> DEFINE below == OpToRel(<, Nat)
<1>1. \A y, x \in Nat : y < x => <<y, x>> \in below
  BY DEF OpToRel
<1>2. IsWellFoundedOn(below, Nat)
  BY NatLessThanWellFounded
<1> HIDE DEF below
<1>3. PICK x \in T : \A y \in T : <<y, x>> \notin below
  BY <1>2, WFMin
<1>4. ASSUME NEW y \in T PROVE x <= y
  <2>1. x \in Nat /\ y \in Nat
    OBVIOUS
  <2>2. ~(y < x)
    BY <1>1, <1>3, <2>1
  <2> QED BY <2>1, <2>2
<1> QED BY <1>4

\* Retain removes exactly the given code, and no duplicate appears.
LEMMA RetainProperties ==
    ASSUME NEW S, NEW order \in Seq(S), NoDuplicates(order), NEW c
    PROVE  /\ Retain(order, c) \in Seq(S)
           /\ Holds(Retain(order, c)) = Holds(order) \ {c}
           /\ NoDuplicates(Retain(order, c))
           /\ Len(Retain(order, c)) <= Len(order)
<1>1. CASE c \notin Holds(order)
  BY <1>1 DEF Retain, Holds
<1>2. CASE c \in Holds(order)
  <2> DEFINE k == CHOOSE i \in DOMAIN order : order[i] = c
             r == [j \in 1 .. Len(order) - 1 |-> IF j < k THEN order[j] ELSE order[j + 1]]
  <2>1. k \in 1 .. Len(order) /\ order[k] = c /\ Len(order) \in Nat
    BY <1>2 DEF Holds
  <2>2. Retain(order, c) = r
    BY <1>2 DEF Retain
  <2> HIDE DEF k
  <2>3. r \in Seq(S) /\ Len(r) = Len(order) - 1 /\ DOMAIN r = 1 .. Len(order) - 1
    BY <2>1
  <2>4. \A i, j \in DOMAIN order : order[i] = order[j] => i = j
    BY DEF NoDuplicates
  <2>5. Holds(r) \subseteq Holds(order) \ {c}
    BY <2>1, <2>3, <2>4 DEF Holds
  <2>6. ASSUME NEW d \in Holds(order) \ {c} PROVE d \in Holds(r)
    <3>1. PICK i \in 1 .. Len(order) : order[i] = d
      BY DEF Holds
    <3>2. CASE i < k
      <4>1. i \in DOMAIN r /\ r[i] = d
        BY <3>1, <3>2, <2>1, <2>3
      <4> QED BY <4>1 DEF Holds
    <3>3. CASE i > k
      <4>1. i - 1 \in DOMAIN r /\ r[i - 1] = d
        BY <3>1, <3>3, <2>1, <2>3
      <4> QED BY <4>1 DEF Holds
    <3>4. i # k
      BY <3>1, <2>1
    <3> QED BY <3>1, <3>2, <3>3, <3>4, <2>1
  <2>7. NoDuplicates(r)
    BY <2>1, <2>3, <2>4 DEF NoDuplicates
  <2> QED BY <2>1, <2>2, <2>3, <2>5, <2>6, <2>7
<1> QED BY <1>1, <1>2

\* Making room keeps the queue below its capacity and drops exactly the
\* popped codes.
LEMMA TrimmedProperties ==
    ASSUME NEW S, NEW kept \in Seq(S), NoDuplicates(kept),
           NEW capacity \in Nat \ {0}, Len(kept) <= capacity
    PROVE  /\ Trimmed(kept, capacity) \in Seq(S)
           /\ Holds(Trimmed(kept, capacity)) = Holds(kept) \ Popped(kept, capacity)
           /\ NoDuplicates(Trimmed(kept, capacity))
           /\ Len(Trimmed(kept, capacity)) < capacity
<1> DEFINE t == Trimmed(kept, capacity)
<1>0. Len(kept) \in Nat /\ DOMAIN kept = 1 .. Len(kept) /\ capacity \in Nat
  OBVIOUS
<1>1. CASE Len(kept) < capacity
  <2>1. t = kept /\ Popped(kept, capacity) = {}
    BY <1>0, <1>1 DEF Trimmed, Popped
  <2> QED BY <1>1, <2>1
<1>2. CASE Len(kept) = capacity
  <2>1. t = [j \in 1 .. capacity - 1 |-> kept[j + 1]]
    BY <1>0, <1>2 DEF Trimmed
  <2>2. Popped(kept, capacity) = {kept[1]}
    BY <1>0, <1>2 DEF Popped
  <2>3. /\ t \in Seq(S)
        /\ DOMAIN t = 1 .. capacity - 1 /\ Len(t) = capacity - 1
        /\ \A j \in 1 .. capacity - 1 : t[j] = kept[j + 1]
    BY <1>0, <1>2, <2>1
  <2>4. \A i, j \in 1 .. capacity : kept[i] = kept[j] => i = j
    BY <1>0, <1>2 DEF NoDuplicates
  <2>5. Holds(t) = Holds(kept) \ {kept[1]}
    <3>1. ASSUME NEW i \in 1 .. capacity, i # 1
          PROVE  i - 1 \in DOMAIN t /\ t[i - 1] = kept[i]
      BY <2>3, <3>1
    <3>2. Holds(kept) \ {kept[1]} \subseteq Holds(t)
      BY <1>0, <1>2, <3>1 DEF Holds
    <3>3. Holds(t) \subseteq Holds(kept) \ {kept[1]}
      BY <1>0, <1>2, <2>3, <2>4 DEF Holds
    <3> QED BY <3>2, <3>3
  <2>6. NoDuplicates(t)
    <3>1. ASSUME NEW i \in 1 .. capacity - 1, NEW j \in 1 .. capacity - 1, t[i] = t[j]
          PROVE  i = j
      <4>1. i + 1 \in 1 .. capacity /\ j + 1 \in 1 .. capacity
        BY <1>0
      <4>2. kept[i + 1] = kept[j + 1]
        BY <2>3, <3>1
      <4> QED BY <2>4, <4>1, <4>2
    <3> QED BY <2>3, <3>1 DEF NoDuplicates
  <2>7. Len(t) < capacity
    BY <2>3, <1>0
  <2> QED BY <2>2, <2>3, <2>5, <2>6, <2>7
<1>3. Len(kept) < capacity \/ Len(kept) = capacity
  BY <1>0, LeqCases
<1> QED BY <1>1, <1>2, <1>3

\* Appending a code that is not there.
LEMMA AppendKeepsOrder ==
    ASSUME NEW S, NEW t \in Seq(S), NoDuplicates(t), NEW c \in S, c \notin Holds(t)
    PROVE  /\ Append(t, c) \in Seq(S)
           /\ Holds(Append(t, c)) = Holds(t) \cup {c}
           /\ NoDuplicates(Append(t, c))
           /\ Len(Append(t, c)) = Len(t) + 1
<1>1. /\ Len(t) \in Nat /\ DOMAIN t = 1 .. Len(t)
      /\ Append(t, c) \in Seq(S) /\ Len(Append(t, c)) = Len(t) + 1
      /\ DOMAIN Append(t, c) = 1 .. Len(t) + 1
      /\ \A i \in 1 .. Len(t) : Append(t, c)[i] = t[i]
      /\ Append(t, c)[Len(t) + 1] = c
  OBVIOUS
<1>2. Holds(Append(t, c)) = Holds(t) \cup {c}
  BY <1>1 DEF Holds
<1>3. NoDuplicates(Append(t, c))
  BY <1>1 DEF NoDuplicates, Holds
<1> QED BY <1>1, <1>2, <1>3

\* Entering a code: remember_pending_ack and remember_completed_ack, both
\* queue and map, keep the queue a duplicate-free listing of the map.
LEMMA RememberProperties ==
    ASSUME NEW S, NEW order \in Seq(S), NoDuplicates(order),
           NEW capacity \in Nat \ {0}, Len(order) <= capacity,
           NEW c \in S,
           NEW kept, kept = Retain(order, c)
    PROVE  /\ Append(Trimmed(kept, capacity), c) \in Seq(S)
           /\ Holds(Append(Trimmed(kept, capacity), c))
                  = (Holds(order) \ Popped(kept, capacity)) \cup {c}
           /\ NoDuplicates(Append(Trimmed(kept, capacity), c))
           /\ Len(Append(Trimmed(kept, capacity), c)) <= capacity
<1> DEFINE q == Append(Trimmed(kept, capacity), c)
<1>1. /\ kept \in Seq(S) /\ Holds(kept) = Holds(order) \ {c}
      /\ NoDuplicates(kept) /\ Len(kept) <= Len(order)
  BY RetainProperties
<1>2. Len(kept) <= capacity
  BY <1>1
<1>3. /\ Trimmed(kept, capacity) \in Seq(S)
      /\ Holds(Trimmed(kept, capacity)) = Holds(kept) \ Popped(kept, capacity)
      /\ NoDuplicates(Trimmed(kept, capacity))
      /\ Len(Trimmed(kept, capacity)) < capacity
  BY <1>1, <1>2, TrimmedProperties
<1>4. c \notin Holds(Trimmed(kept, capacity))
  BY <1>1, <1>3
<1>5. /\ q \in Seq(S) /\ NoDuplicates(q)
      /\ Holds(q) = Holds(Trimmed(kept, capacity)) \cup {c}
      /\ Len(q) = Len(Trimmed(kept, capacity)) + 1
  BY <1>3, <1>4, AppendKeepsOrder
<1>6. Len(q) <= capacity
  BY <1>3, <1>5
<1> QED BY <1>1, <1>3, <1>5, <1>6

=============================================================================
