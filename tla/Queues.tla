------------------------------- MODULE Queues -------------------------------
(***************************************************************************)
(* Operations on bounded first-in first-out queues without duplicates,     *)
(* written without recursion: the VecDeques of Client (client.rs) and the  *)
(* waiters of a Tokio channel.                                             *)
(***************************************************************************)
EXTENDS Integers, Sequences

Holds(order) == {order[i] : i \in DOMAIN order}

NoDuplicates(order) ==
    \A i, j \in DOMAIN order : order[i] = order[j] => i = j

\* VecDeque::retain(|code| *code != c) on a queue that holds c at most once.
Retain(order, c) ==
    IF c \in Holds(order)
    THEN LET k == CHOOSE i \in DOMAIN order : order[i] = c
         IN  [j \in 1 .. Len(order) - 1 |-> IF j < k THEN order[j] ELSE order[j + 1]]
    ELSE order

\* The codes pop_front yields while the queue is at or above its capacity ...
Popped(order, capacity) == {order[i] : i \in 1 .. Len(order) - capacity + 1}

\* ... and the queue they leave behind.
Trimmed(order, capacity) ==
    IF Len(order) >= capacity
    THEN [j \in 1 .. capacity - 1 |-> order[j + Len(order) - capacity + 1]]
    ELSE order
=============================================================================
