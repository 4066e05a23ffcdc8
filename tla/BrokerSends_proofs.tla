------------------------- MODULE BrokerSends_proofs -------------------------
(***************************************************************************)
(* The bridge (mqtt_cli.rs) waits for exactly the sends whose outcome is   *)
(* open, an outcome once recorded stays, and what is recorded as           *)
(* acknowledged was confirmed: for any limit of pending acknowledgements,  *)
(* any capacity of the event channel and any number of sends.              *)
(***************************************************************************)
EXTENDS BrokerSends, Queues_proofs, FiniteSetTheorems, TLAPS

Statuses == {"none", "pending", "failed", "acknowledged", "timed out"}
NoCodeOrOne == {{}} \cup {{c} : c \in Codes}
Records == [kind : Kinds, content : {"fine"}, status : Statuses, stored : NoCodeOrOne,
            wanted : Statuses, code : NoCodeOrOne, queued : BOOLEAN, confirmed : BOOLEAN]
Waits == [send : Nat, code : NoCodeOrOne, due : BOOLEAN]
Places == {"select", "begin", "resolve", "send", "sent", "ended"}

TypeInv ==
    /\ sends \in Seq(Records) /\ taken \in 0 .. Len(sends)
    /\ loop \in [at : Places, why : {"none", "error", "device"}]
    /\ pending \in Seq(Waits) /\ events \in Seq(Codes \cup {Lost, Other})
    /\ lagged \in BOOLEAN /\ linked \in BOOLEAN /\ limit \in Nat \ {0}
    /\ Len(pending) <= limit /\ Len(events) <= EventCapacity

\* A command the bridge has not begun.
Fresh(s) == s.status = "none" /\ s.wanted = "none" /\ s.code = {} /\ s.queued = FALSE /\ s.confirmed = FALSE

\* A send the device has taken and that has no outcome yet.
Open(s) == s.queued = TRUE /\ s.kind = "direct" /\ s.wanted = "pending"

\* A status is open only while the record should be.
RecordsOK ==
    /\ \A n \in 1 .. Len(sends) : sends[n].wanted = "pending" => sends[n].status = "pending"
    /\ \A n \in 1 .. Len(sends) : n > taken => Fresh(sends[n])

\* The command at work.
Underway == loop.at \in {"begin", "resolve", "send", "sent"}
StageOK ==
    Underway =>
        /\ taken >= 1
        /\ loop.at = "begin" => Fresh(sends[taken])
        /\ loop.at # "begin" => sends[taken].wanted = "pending"
        /\ loop.at \in {"resolve", "send"} =>
              /\ sends[taken].code = {} /\ sends[taken].queued = FALSE /\ sends[taken].confirmed = FALSE
        /\ loop.at = "sent" => sends[taken].queued = TRUE
        /\ sends[taken].kind = "direct" => Len(pending) < limit

\* What the bridge waits for: open sends, with their codes, each once, and none it is still sending.
WaitsOK ==
    loop.at # "ended" =>
        /\ \A i \in 1 .. Len(pending) :
              /\ pending[i].send \in 1 .. taken
              /\ pending[i].code = sends[pending[i].send].code
              /\ Open(sends[pending[i].send])
              /\ Underway => pending[i].send # taken
        /\ \A i, j \in 1 .. Len(pending) : pending[i].send = pending[j].send => i = j

\* ... and none is forgotten.
NoneForgotten ==
    loop.at # "ended" =>
        \A n \in 1 .. taken :
            Open(sends[n]) /\ ~(loop.at = "sent" /\ n = taken) =>
                \E i \in 1 .. Len(pending) : pending[i].send = n

LossOK ==
    /\ loop.at # "ended" => loop.why = "none"
    /\ loop.why = "device" => \A n \in 1 .. Len(sends) : ~Open(sends[n])

\* Somewhere a send with this code was confirmed.
WasConfirmed(code) == \E m \in 1 .. Len(sends) : sends[m].confirmed = TRUE /\ sends[m].code = code

ConfirmedOK ==
    /\ \A i \in 1 .. Len(events) : events[i] \notin {Lost, Other} => WasConfirmed({events[i]})
    /\ \A n \in 1 .. Len(sends) : sends[n].status = "acknowledged" => WasConfirmed(sends[n].code)

\* The inductive invariant.
IInv == TypeInv /\ RecordsOK /\ StageOK /\ WaitsOK /\ NoneForgotten /\ LossOK /\ ConfirmedOK

-----------------------------------------------------------------------------
(* Parts of a queue.                                                       *)

\* Kept lists every position of S once.
LEMMA KeptProperties ==
    ASSUME pending \in Seq(Waits), NEW S \in SUBSET (1 .. Len(pending))
    PROVE  /\ Kept(S) \in Seq(Waits) /\ Len(Kept(S)) <= Len(pending)
           /\ \E at \in [1 .. Len(Kept(S)) -> S] :
                 /\ \A k \in 1 .. Len(Kept(S)) : Kept(S)[k] = pending[at[k]]
                 /\ \A k, l \in 1 .. Len(Kept(S)) : at[k] = at[l] => k = l
                 /\ \A i \in S : \E k \in 1 .. Len(Kept(S)) : at[k] = i
<1> DEFINE n == Cardinality(S)
           upto(i) == {j \in S : j <= i}
           rank == [i \in S |-> Cardinality(upto(i))]
           at == [k \in 1 .. n |-> CHOOSE i \in S : Cardinality(upto(i)) = k]
<1>1. Len(pending) \in Nat /\ IsFiniteSet(1 .. Len(pending)) /\ Cardinality(1 .. Len(pending)) = Len(pending)
  <2> DEFINE len == Len(pending)
  <2>1. len \in Nat /\ len \in Int /\ 1 \in Int
    OBVIOUS
  <2> HIDE DEF len
  <2>2. IsFiniteSet(1 .. len) /\ Cardinality(1 .. len) = IF 1 > len THEN 0 ELSE len - 1 + 1
    BY <2>1, FS_Interval
  <2>3. (IF 1 > len THEN 0 ELSE len - 1 + 1) = len
    BY <2>1
  <2> QED BY <2>1, <2>2, <2>3 DEF len
<1>2. IsFiniteSet(S) /\ n \in Nat /\ n <= Len(pending)
  BY <1>1, FS_Subset, FS_CardinalityType
<1>3. ASSUME NEW i \in S
      PROVE  IsFiniteSet(upto(i)) /\ Cardinality(upto(i)) \in 1 .. n /\ i \in upto(i)
  <2>0. i \in Nat /\ i <= i
    BY <1>1
  <2>1. i \in upto(i) /\ upto(i) \in SUBSET S
    BY <2>0
  <2>2. IsFiniteSet(upto(i)) /\ Cardinality(upto(i)) <= n
    BY <1>2, <2>1, FS_Subset
  <2>3. Cardinality(upto(i)) \in Nat /\ Cardinality(upto(i)) # 0
    BY <2>1, <2>2, FS_CardinalityType, FS_EmptySet
  <2> QED BY <1>2, <2>1, <2>2, <2>3
<1>4. ASSUME NEW i \in S, NEW j \in S, i < j PROVE Cardinality(upto(i)) # Cardinality(upto(j))
  <2>a. \A l \in S : l \in Nat
    BY <1>1
  <2>b. (\A l \in S : l <= i => l <= j) /\ ~(j <= i)
    BY <1>4, <2>a
  <2>1. upto(i) \in SUBSET upto(j) /\ j \notin upto(i)
    BY <2>b
  <2>2. Cardinality(upto(j)) = Cardinality(upto(i)) => upto(j) = upto(i)
    BY <1>3, <2>1, FS_Subset
  <2> QED BY <1>3, <2>1, <2>2
<1>5. \A i, j \in S : Cardinality(upto(i)) = Cardinality(upto(j)) => i = j
  <2> SUFFICES ASSUME NEW i \in S, NEW j \in S, Cardinality(upto(i)) = Cardinality(upto(j)) PROVE i = j
    OBVIOUS
  <2>1. i < j \/ j < i \/ i = j
    BY <1>1
  <2> QED BY <1>4, <2>1
<1> HIDE DEF upto
<1>6. rank \in [S -> 1 .. n]
  BY <1>3
<1>7. rank \in Injection(S, 1 .. n)
  BY <1>5, <1>6 DEF Injection, IsInjective
<1>8. IsFiniteSet(1 .. n) /\ Cardinality(1 .. n) = n
  BY <1>2, FS_Interval
<1>9. rank \in Surjection(S, 1 .. n)
  BY <1>7, <1>8, FS_Injection
<1>10. \A k \in 1 .. n : \E i \in S : Cardinality(upto(i)) = k
  <2>1. \A i \in S : rank[i] = Cardinality(upto(i))
    OBVIOUS
  <2> HIDE DEF rank, n
  <2>2. \A k \in 1 .. n : \E i \in S : rank[i] = k
    BY <1>9 DEF Surjection
  <2> QED BY <2>1, <2>2
<1>11. \A k \in 1 .. n : at[k] \in S /\ Cardinality(upto(at[k])) = k
  BY <1>10
<1>12. Kept(S) = [k \in 1 .. n |-> pending[at[k]]]
  BY DEF Kept, upto
<1>13. \A k \in 1 .. n : pending[at[k]] \in Waits
  <2> HIDE DEF at, n
  <2>1. \A i \in S : pending[i] \in Waits
    BY <1>1
  <2> QED BY <1>11, <2>1
<1> HIDE DEF n, rank
<1>14. Kept(S) \in Seq(Waits) /\ Len(Kept(S)) = n
  BY <1>2, <1>12, <1>13
<1>15. at \in [1 .. n -> S]
  BY <1>11
<1>16. \A i \in S : Cardinality(upto(i)) \in 1 .. n /\ at[Cardinality(upto(i))] = i
  BY <1>3, <1>5, <1>11
<1>17. \A k \in 1 .. n : Kept(S)[k] = pending[at[k]]
  BY <1>12
<1> HIDE DEF at
<1>18. \A k, l \in 1 .. n : at[k] = at[l] => k = l
  BY <1>11
<1>19. \A i \in S : \E k \in 1 .. n : at[k] = i
  BY <1>16
<1> QED BY <1>2, <1>14, <1>15, <1>17, <1>18, <1>19

-----------------------------------------------------------------------------
(* Records of the history.                                                 *)

\* A confirmation is not taken back and keeps its code.
Keeps(s, t) == s.confirmed = TRUE => t.confirmed = TRUE /\ t.code = s.code

Final == {"failed", "acknowledged", "timed out"}

\* What every step leaves alone: the outcomes.
FinalStays ==
    \A n \in 1 .. Len(sends) : sends[n].status \in Final => sends'[n].status = sends[n].status

\* Written changes the two statuses and nothing else.
LEMMA WrittenFields ==
    ASSUME NEW s \in Records, NEW st \in Statuses, NEW t \in Written(s, st)
    PROVE  /\ t \in Records /\ t.kind = s.kind /\ t.code = s.code /\ t.stored = s.stored
           /\ t.queued = s.queued /\ t.confirmed = s.confirmed
           /\ t.wanted = st /\ (t.status = st \/ t.status = s.status)
<1>1. CASE t = [s EXCEPT !.wanted = st, !.status = st]
  BY <1>1 DEF Records
<1>2. CASE t = [s EXCEPT !.wanted = st]
  BY <1>2 DEF Records
<1> QED BY <1>1, <1>2 DEF Written

\* The statuses are five.
LEMMA StatusMembers ==
    /\ "none" \in Statuses /\ "pending" \in Statuses /\ "failed" \in Statuses
    /\ "acknowledged" \in Statuses /\ "timed out" \in Statuses
BY DEF Statuses

\* One record is replaced.
LEMMA PutProperties ==
    ASSUME sends \in Seq(Records), NEW n \in 1 .. Len(sends), NEW s \in Records, Put(n, s)
    PROVE  /\ sends' \in Seq(Records) /\ Len(sends') = Len(sends) /\ sends'[n] = s
           /\ \A m \in 1 .. Len(sends) : m # n => sends'[m] = sends[m]
BY DEF Put

\* What was confirmed stays confirmed.
LEMMA ConfirmationsStay ==
    ASSUME sends \in Seq(Records), sends' \in Seq(Records), Len(sends) <= Len(sends'),
           \A m \in 1 .. Len(sends) : Keeps(sends[m], sends'[m]),
           NEW c, WasConfirmed(c)
    PROVE  \E m \in 1 .. Len(sends') : sends'[m].confirmed = TRUE /\ sends'[m].code = c
<1>1. PICK m \in 1 .. Len(sends) : sends[m].confirmed = TRUE /\ sends[m].code = c
  BY DEF WasConfirmed
<1>2. m \in 1 .. Len(sends') /\ Keeps(sends[m], sends'[m])
  <2>1. Len(sends) \in Nat /\ Len(sends') \in Nat
    OBVIOUS
  <2> QED BY <2>1
<1> QED BY <1>1, <1>2 DEF Keeps

\* A step that acknowledges only what was confirmed and lets nothing into the channel of events.
LEMMA ConfirmedStays ==
    ASSUME TypeInv, ConfirmedOK, sends' \in Seq(Records), Len(sends) <= Len(sends'),
           \A m \in 1 .. Len(sends) : Keeps(sends[m], sends'[m]),
           \A m \in 1 .. Len(sends') :
              sends'[m].status = "acknowledged" => WasConfirmed(sends'[m].code),
           events' = events \/ (events # <<>> /\ events' = Tail(events))
    PROVE  ConfirmedOK'
<1>1. sends \in Seq(Records) /\ events \in Seq(Codes \cup {Lost, Other})
  BY DEF TypeInv
<1>2. ASSUME NEW m \in 1 .. Len(sends'), sends'[m].status = "acknowledged"
      PROVE  \E l \in 1 .. Len(sends') : sends'[l].confirmed = TRUE /\ sends'[l].code = sends'[m].code
  BY <1>1, <1>2, ConfirmationsStay
<1>3. ASSUME NEW i \in 1 .. Len(events'), events'[i] \notin {Lost, Other}
      PROVE  \E l \in 1 .. Len(sends') : sends'[l].confirmed = TRUE /\ sends'[l].code = {events'[i]}
  <2>1. PICK j \in 1 .. Len(events) : events'[i] = events[j]
    <3>1. CASE events' = events
      BY <3>1
    <3>2. CASE events # <<>> /\ events' = Tail(events)
      <4>1. i + 1 \in 1 .. Len(events) /\ events'[i] = events[i + 1]
        BY <1>1, <3>2
      <4> QED BY <4>1
    <3> QED BY <3>1, <3>2
  <2>2. WasConfirmed({events'[i]})
    BY <1>3, <2>1 DEF ConfirmedOK
  <2> QED BY <1>1, <2>2, ConfirmationsStay
<1> QED BY <1>2, <1>3 DEF ConfirmedOK, WasConfirmed

\* ... in particular when it changes no record.
LEMMA SameRecords ==
    ASSUME TypeInv, RecordsOK, ConfirmedOK, sends' = sends, taken' \in Nat, taken <= taken',
           events' = events \/ (events # <<>> /\ events' = Tail(events))
    PROVE  RecordsOK' /\ ConfirmedOK' /\ FinalStays
<1>1. sends \in Seq(Records) /\ taken \in Nat
  BY DEF TypeInv
<1>2. Len(sends) <= Len(sends')
  BY <1>1
<1>3. RecordsOK'
  <2>1. ASSUME NEW n \in 1 .. Len(sends), n > taken' PROVE Fresh(sends[n])
    BY <1>1, <2>1 DEF RecordsOK
  <2> QED BY <2>1 DEF RecordsOK, Fresh
<1>4. \A m \in 1 .. Len(sends) : sends[m].status = "acknowledged" => WasConfirmed(sends[m].code)
  BY DEF ConfirmedOK
<1>5. ConfirmedOK'
  BY <1>1, <1>2, <1>4, ConfirmedStays DEF Keeps
<1> QED BY <1>3, <1>5 DEF FinalStays

\* ... and when it changes one.
LEMMA OneRecord ==
    ASSUME TypeInv, RecordsOK, ConfirmedOK, taken' = taken,
           NEW n \in 1 .. taken, NEW s \in Records, Put(n, s),
           s.wanted = "pending" => s.status = "pending",
           Keeps(sends[n], s),
           sends[n].status \in Final => s.status = sends[n].status,
           s.status = "acknowledged" => WasConfirmed(s.code),
           events' = events \/ (events # <<>> /\ events' = Tail(events))
    PROVE  RecordsOK' /\ ConfirmedOK' /\ FinalStays
<1>1. sends \in Seq(Records) /\ taken \in Nat /\ n \in 1 .. Len(sends) /\ Len(sends) \in Nat
  BY DEF TypeInv
<1>2. /\ sends' \in Seq(Records) /\ Len(sends') = Len(sends) /\ sends'[n] = s
      /\ \A m \in 1 .. Len(sends) : m # n => sends'[m] = sends[m]
  BY <1>1, PutProperties
<1>3. RecordsOK'
  <2>1. ASSUME NEW m \in 1 .. Len(sends), sends'[m].wanted = "pending" PROVE sends'[m].status = "pending"
    BY <1>2, <2>1 DEF RecordsOK
  <2>2. ASSUME NEW m \in 1 .. Len(sends), m > taken PROVE sends'[m] = sends[m]
    BY <1>1, <1>2, <2>2
  <2>3. ASSUME NEW m \in 1 .. Len(sends), m > taken PROVE Fresh(sends'[m])
    BY <2>2, <2>3 DEF RecordsOK
  <2> QED BY <1>2, <2>1, <2>3 DEF RecordsOK, Fresh
<1>4. ASSUME NEW m \in 1 .. Len(sends), sends'[m].status = "acknowledged"
      PROVE WasConfirmed(sends'[m].code)
  BY <1>2, <1>4 DEF ConfirmedOK
<1>5. \A m \in 1 .. Len(sends) : Keeps(sends[m], sends'[m])
  BY <1>2 DEF Keeps
<1>6. Len(sends) <= Len(sends')
  BY <1>1, <1>2
<1>7. ConfirmedOK'
  BY <1>2, <1>4, <1>5, <1>6, ConfirmedStays
<1>8. FinalStays
  BY <1>2 DEF FinalStays
<1> QED BY <1>3, <1>7, <1>8

-----------------------------------------------------------------------------
(* The loop.                                                               *)

\* A bridge that ended for another reason than the loss of its device owes nothing.
LEMMA EndsWell ==
    ASSUME Ends("error")
    PROVE  StageOK' /\ WaitsOK' /\ NoneForgotten' /\ LossOK'
<1>1. loop'.at = "ended" /\ loop'.why = "error"
  BY DEF Ends
<1>2. ~Underway'
  BY <1>1 DEF Underway
<1> QED BY <1>1, <1>2 DEF StageOK, WaitsOK, NoneForgotten, LossOK

\* Going on keeps the reason.
LEMMA GoesOn ==
    ASSUME TypeInv, LossOK, loop.at # "ended", NEW at \in Places, at # "ended", Goes(at)
    PROVE  /\ loop'.at = at /\ loop' \in [at : Places, why : {"none", "error", "device"}]
           /\ LossOK'
<1>1. loop \in [at : Places, why : {"none", "error", "device"}] /\ loop.why = "none"
  BY DEF TypeInv, LossOK
<1>2. loop'.at = at /\ loop'.why = "none" /\ loop' \in [at : Places, why : {"none", "error", "device"}]
  BY <1>1 DEF Goes
<1> QED BY <1>2 DEF LossOK

\* The type of the loop when it ends.
LEMMA EndsType ==
    ASSUME NEW why \in {"none", "error", "device"}, Ends(why)
    PROVE  loop' \in [at : Places, why : {"none", "error", "device"}]
<1>1. "ended" \in Places
  BY DEF Places
<1> QED BY <1>1 DEF Ends

\* The queue of a step that changes neither the sends waited for nor their codes, and ends the
\* command at work or goes on with it.
LEMMA SameWaits ==
    ASSUME TypeInv, WaitsOK, NoneForgotten, loop.at # "ended", taken' = taken,
           Len(pending') = Len(pending),
           \A i \in 1 .. Len(pending) :
              pending'[i].send = pending[i].send /\ pending'[i].code = pending[i].code,
           Underway' => Underway,
           \A m \in 1 .. taken :
              (Underway => m # taken) =>
                 sends'[m].code = sends[m].code /\ (Open(sends'[m]) <=> Open(sends[m])),
           Underway /\ taken \in 1 .. taken /\ Open(sends'[taken]) => loop'.at = "sent"
    PROVE  WaitsOK' /\ NoneForgotten'
<1>1. taken \in Nat
  BY DEF TypeInv
<1>2. ASSUME NEW i \in 1 .. Len(pending)
      PROVE  /\ pending'[i].send \in 1 .. taken
             /\ pending'[i].code = sends'[pending'[i].send].code
             /\ Open(sends'[pending'[i].send])
             /\ Underway' => pending'[i].send # taken
  <2>1. /\ pending[i].send \in 1 .. taken /\ pending[i].code = sends[pending[i].send].code
        /\ Open(sends[pending[i].send]) /\ (Underway => pending[i].send # taken)
    BY DEF WaitsOK
  <2>2. pending'[i].send = pending[i].send /\ pending'[i].code = pending[i].code
    OBVIOUS
  <2> QED BY <2>1, <2>2
<1>3. ASSUME NEW i \in 1 .. Len(pending), NEW j \in 1 .. Len(pending), pending'[i].send = pending'[j].send
      PROVE  i = j
  BY <1>3 DEF WaitsOK
<1>4. WaitsOK'
  BY <1>2, <1>3 DEF WaitsOK, Open, Underway
<1>5. ASSUME NEW n \in 1 .. taken, Open(sends'[n]), ~(loop'.at = "sent" /\ n = taken)
      PROVE  \E i \in 1 .. Len(pending) : pending'[i].send = n
  <2>1. Underway => n # taken
    BY <1>5
  <2>2. Open(sends[n]) /\ ~(loop.at = "sent" /\ n = taken)
    BY <1>5, <2>1 DEF Underway
  <2>3. PICK i \in 1 .. Len(pending) : pending[i].send = n
    BY <2>2 DEF NoneForgotten
  <2> QED BY <2>3
<1>6. NoneForgotten'
  BY <1>5 DEF NoneForgotten, Open
<1> QED BY <1>4, <1>6

-----------------------------------------------------------------------------
(* The steps of a command.                                                 *)

\* The places of the loop.
LEMMA PlaceMembers ==
    /\ "select" \in Places /\ "begin" \in Places /\ "resolve" \in Places /\ "send" \in Places
    /\ "sent" \in Places /\ "ended" \in Places
BY DEF Places

\* A command that passed the gate: the last record is new.
LEMMA ProcessIInv ==
    ASSUME IInv, NEW kind \in Kinds, NEW content \in Contents, Process(kind, content)
    PROVE  IInv' /\ FinalStays
<1> DEFINE s == NewSend(kind, content)
<1> USE DEF IInv
<1>1. /\ sends \in Seq(Records) /\ taken \in 0 .. Len(sends) /\ sends' = Append(sends, s)
      /\ taken' = taken /\ loop' = loop /\ pending' = pending /\ events' = events
      /\ lagged' = lagged /\ linked' = linked /\ limit' = limit /\ loop.at # "ended"
  BY DEF TypeInv, Process
<1>2. s \in Records /\ Fresh(s)
  <2>1. content = "fine" /\ {} \in NoCodeOrOne
    BY DEF Process, ValidCommand, NoCodeOrOne
  <2> QED BY <2>1, StatusMembers DEF NewSend, Records, Fresh
<1> HIDE DEF s
<1>3. /\ sends' \in Seq(Records) /\ Len(sends') = Len(sends) + 1 /\ sends'[Len(sends) + 1] = s
      /\ \A m \in 1 .. Len(sends) : sends'[m] = sends[m]
  BY <1>1, <1>2
<1>4. Len(sends) \in Nat /\ 1 .. Len(sends') = (1 .. Len(sends)) \cup {Len(sends) + 1}
  BY <1>1, <1>3
<1>5. TypeInv'
  BY <1>1, <1>3, <1>4 DEF TypeInv
<1>6. RecordsOK'
  <2>1. \A m \in 1 .. Len(sends') : sends'[m].wanted = "pending" => sends'[m].status = "pending"
    BY <1>2, <1>3, <1>4 DEF RecordsOK, Fresh
  <2>2. \A m \in 1 .. Len(sends') : m > taken => Fresh(sends'[m])
    BY <1>2, <1>3, <1>4 DEF RecordsOK
  <2> QED BY <1>1, <2>1, <2>2 DEF RecordsOK, Fresh
<1>7. ConfirmedOK'
  <2>1. \A m \in 1 .. Len(sends') : sends'[m].status = "acknowledged" => WasConfirmed(sends'[m].code)
    BY <1>2, <1>3, <1>4 DEF ConfirmedOK, Fresh
  <2>2. \A m \in 1 .. Len(sends) : Keeps(sends[m], sends'[m])
    BY <1>3 DEF Keeps
  <2>3. Len(sends) <= Len(sends')
    BY <1>3, <1>4
  <2> QED BY <1>1, <1>3, <2>1, <2>2, <2>3, ConfirmedStays
<1>8. \A m \in 1 .. taken : m \in 1 .. Len(sends) /\ sends'[m] = sends[m]
  BY <1>1, <1>3, <1>4
<1>9. taken >= 1 => taken \in 1 .. taken
  BY <1>1
<1>10. StageOK'
  BY <1>1, <1>8, <1>9 DEF StageOK, Underway, Fresh
<1>11. WaitsOK' /\ NoneForgotten'
  <2>1. Underway' <=> Underway
    BY <1>1 DEF Underway
  <2>2. Underway /\ taken \in 1 .. taken /\ Open(sends'[taken]) => loop'.at = "sent"
    BY <1>1, <1>8 DEF StageOK, Underway, Open, Fresh
  <2> QED BY <1>1, <1>8, <2>1, <2>2, SameWaits
<1>12. LossOK'
  BY <1>1 DEF LossOK
<1>13. FinalStays
  BY <1>3 DEF FinalStays
<1> QED BY <1>5, <1>6, <1>7, <1>10, <1>11, <1>12, <1>13

\* The command is taken: it is rejected, or there is room for its acknowledgement.
LEMMA TakeCommandIInv ==
    ASSUME IInv, TakeCommand
    PROVE  IInv' /\ FinalStays
<1> USE DEF IInv
<1>1. /\ sends \in Seq(Records) /\ taken \in 0 .. Len(sends) /\ taken < Len(sends) /\ taken' = taken + 1
      /\ pending' = pending /\ events' = events /\ loop.at = "select"
      /\ lagged' = lagged /\ linked' = linked /\ limit' = limit
  BY DEF TypeInv, TakeCommand
<1>2. taken' \in Nat /\ taken \in Nat /\ taken <= taken' /\ taken' \in 1 .. Len(sends) /\ Len(sends) \in Nat
  BY <1>1
<1>3. sends' = sends
  <2>1. CASE UNCHANGED sends
    BY <2>1
  <2>2. CASE sends' = [sends EXCEPT ![taken + 1].content = "fine"]
    <3>1. sends[taken + 1] \in Records
      BY <1>1, <1>2
    <3>2. [sends[taken + 1] EXCEPT !.content = "fine"] = sends[taken + 1]
      BY <3>1 DEF Records
    <3> QED BY <1>1, <2>2, <3>2
  <2> QED BY <2>1, <2>2 DEF TakeCommand, ValidPrepared
<1>4. RecordsOK' /\ ConfirmedOK' /\ FinalStays
  BY <1>1, <1>2, <1>3, SameRecords
<1>5. Fresh(sends[taken']) /\ ~Open(sends[taken'])
  BY <1>1, <1>2 DEF RecordsOK, Fresh, Open
<1>6. ASSUME loop' \in [at : Places, why : {"none", "error", "device"}] PROVE TypeInv'
  BY <1>1, <1>2, <1>3, <1>6 DEF TypeInv
<1>7. CASE Ends("error")
  BY <1>4, <1>6, <1>7, EndsWell, EndsType
<1>8. ASSUME NEW at \in {"select", "begin"}, Goes(at),
             at = "begin" => (sends[taken'].kind = "direct" => Len(pending) < limit)
      PROVE  IInv'
  <2>1. loop'.at = at /\ TypeInv' /\ LossOK'
    BY <1>1, <1>6, <1>8, GoesOn, PlaceMembers
  <2>2. ~Underway
    BY <1>1 DEF Underway
  <2>3. ASSUME NEW i \in 1 .. Len(pending)
        PROVE  /\ pending[i].send \in 1 .. taken' /\ pending[i].send # taken'
               /\ pending[i].code = sends[pending[i].send].code /\ Open(sends[pending[i].send])
    <3>1. /\ pending[i].send \in 1 .. taken /\ pending[i].code = sends[pending[i].send].code
          /\ Open(sends[pending[i].send])
      BY <1>1 DEF WaitsOK
    <3> QED BY <1>1, <1>2, <3>1
  <2>4. WaitsOK'
    BY <1>1, <1>3, <2>3 DEF WaitsOK, Open
  <2>5. ASSUME NEW n \in 1 .. taken', Open(sends[n]) PROVE \E i \in 1 .. Len(pending) : pending[i].send = n
    <3>1. n \in 1 .. taken
      BY <1>1, <1>2, <1>5, <2>5
    <3> QED BY <1>1, <2>5, <3>1 DEF NoneForgotten
  <2>6. NoneForgotten'
    BY <1>1, <1>3, <2>5 DEF NoneForgotten, Open
  <2>7. StageOK'
    BY <1>1, <1>2, <1>3, <1>5, <1>8, <2>1 DEF StageOK, Underway, Fresh
  <2> QED BY <1>4, <2>1, <2>4, <2>6, <2>7
<1> QED
  <2>1. CASE Rejects
    BY <1>4, <1>7, <1>8, <2>1 DEF Rejects
  <2>2. CASE Goes("begin") /\ (sends[taken + 1].kind = "direct" => RoomForAck)
    BY <1>1, <1>4, <1>8, <2>2 DEF RoomForAck
  <2> QED BY <2>1, <2>2 DEF TakeCommand

\* A command at work that stops, with its record closed or never opened.
LEMMA Stops ==
    ASSUME IInv, loop.at \in {"begin", "resolve", "send"}, Rejects,
           NEW s \in Records, Put(taken, s), s.wanted # "pending",
           s.status = "acknowledged" => s.status = sends[taken].status,
           Keeps(sends[taken], s),
           sends[taken].status \in Final => s.status = sends[taken].status,
           s.code = sends[taken].code \/ s.status # "acknowledged",
           UNCHANGED <<taken, pending, events, lagged, linked, limit>>
    PROVE  IInv' /\ FinalStays
<1> USE DEF IInv
<1>1. /\ sends \in Seq(Records) /\ taken \in 0 .. Len(sends) /\ taken >= 1 /\ loop.at # "ended" /\ Underway
      /\ loop.at # "sent"
  BY DEF TypeInv, StageOK, Underway
<1>2. taken \in 1 .. taken /\ taken \in 1 .. Len(sends) /\ Len(sends) \in Nat
  BY <1>1
<1>3. /\ sends' \in Seq(Records) /\ Len(sends') = Len(sends) /\ sends'[taken] = s
      /\ \A m \in 1 .. Len(sends) : m # taken => sends'[m] = sends[m]
  BY <1>1, <1>2, PutProperties
<1>4. RecordsOK' /\ ConfirmedOK' /\ FinalStays
  <2>1. s.status = "acknowledged" => WasConfirmed(s.code)
    BY <1>2 DEF ConfirmedOK
  <2> QED BY <1>2, <2>1, OneRecord
<1>5. ASSUME loop' \in [at : Places, why : {"none", "error", "device"}] PROVE TypeInv'
  BY <1>1, <1>3, <1>5 DEF TypeInv
<1>6. CASE Ends("error")
  BY <1>4, <1>5, <1>6, EndsWell, EndsType
<1>7. CASE Goes("select")
  <2>1. loop'.at = "select" /\ TypeInv' /\ LossOK'
    BY <1>1, <1>5, <1>7, GoesOn, PlaceMembers
  <2>2. ~Underway' /\ StageOK'
    BY <2>1 DEF Underway, StageOK
  <2>3. ~Open(sends'[taken])
    BY <1>3 DEF Open
  <2>4. \A m \in 1 .. taken : m # taken => sends'[m] = sends[m]
    BY <1>1, <1>2, <1>3
  <2>5. WaitsOK' /\ NoneForgotten'
    BY <1>1, <2>2, <2>3, <2>4, SameWaits
  <2> QED BY <1>4, <2>1, <2>2, <2>5
<1> QED BY <1>6, <1>7 DEF Rejects

\* A command at work that goes on, with its record open.
LEMMA GoesToSend ==
    ASSUME IInv, loop.at \in {"begin", "resolve", "send"},
           NEW at \in {"resolve", "send", "sent"}, Goes(at),
           NEW s \in Records, Put(taken, s), s.wanted = "pending", s.status = "pending",
           s.kind = sends[taken].kind, s.confirmed = FALSE, sends[taken].status \notin Final,
           Keeps(sends[taken], s),
           at # "sent" => s.code = {} /\ s.queued = FALSE,
           at = "sent" => s.queued = TRUE,
           UNCHANGED <<taken, pending, events, lagged, linked, limit>>
    PROVE  IInv' /\ FinalStays
<1> USE DEF IInv
<1>1. /\ sends \in Seq(Records) /\ taken \in 0 .. Len(sends) /\ taken >= 1 /\ loop.at # "ended" /\ Underway
      /\ loop.at # "sent" /\ (sends[taken].kind = "direct" => Len(pending) < limit)
  BY DEF TypeInv, StageOK, Underway
<1>2. taken \in 1 .. taken /\ taken \in 1 .. Len(sends) /\ Len(sends) \in Nat
  BY <1>1
<1>3. /\ sends' \in Seq(Records) /\ Len(sends') = Len(sends) /\ sends'[taken] = s
      /\ \A m \in 1 .. Len(sends) : m # taken => sends'[m] = sends[m]
  BY <1>1, <1>2, PutProperties
<1>4. RecordsOK' /\ ConfirmedOK' /\ FinalStays
  BY <1>2, OneRecord
<1>5. loop'.at = at /\ loop' \in [at : Places, why : {"none", "error", "device"}] /\ LossOK'
  BY <1>1, GoesOn, PlaceMembers
<1>6. TypeInv'
  BY <1>1, <1>3, <1>5 DEF TypeInv
<1>7. StageOK'
  BY <1>1, <1>3, <1>5 DEF StageOK
<1>8. Open(sends'[taken]) => loop'.at = "sent"
  BY <1>3, <1>5 DEF Open
<1>9. \A m \in 1 .. taken : m # taken => sends'[m] = sends[m]
  BY <1>1, <1>2, <1>3
<1>10. WaitsOK' /\ NoneForgotten'
  BY <1>1, <1>8, <1>9, SameWaits
<1> QED BY <1>4, <1>5, <1>6, <1>7, <1>10

\* The record of the command at work.
LEMMA CurrentIsRecord ==
    ASSUME IInv, Underway
    PROVE  Current \in Records /\ Current = sends[taken] /\ taken \in 1 .. Len(sends) /\ taken \in 1 .. taken
<1>1. sends \in Seq(Records) /\ taken \in 0 .. Len(sends) /\ taken >= 1
  BY DEF IInv, TypeInv, StageOK
<1> QED BY <1>1 DEF Current

\* Writing a record back changes nothing.
LEMMA PutSame ==
    ASSUME sends \in Seq(Records), UNCHANGED sends, NEW n \in 1 .. Len(sends)
    PROVE  Put(n, sends[n])
BY DEF Put

\* The history opens the record before anything is sent.
LEMMA BeginOutgoingIInv ==
    ASSUME IInv, BeginOutgoing
    PROVE  IInv' /\ FinalStays
<1>1. Underway /\ loop.at = "begin" /\ sends \in Seq(Records)
      /\ UNCHANGED <<taken, pending, events, lagged, linked, limit>>
  BY DEF BeginOutgoing, Underway, IInv, TypeInv
<1>2. Current \in Records /\ Current = sends[taken] /\ taken \in 1 .. Len(sends)
  BY <1>1, CurrentIsRecord
<1>3. Fresh(Current)
  BY <1>1, <1>2 DEF IInv, StageOK
<1>4. CASE Rejects /\ UNCHANGED sends
  <2>1. Put(taken, Current)
    BY <1>1, <1>2, <1>4, PutSame
  <2> QED BY <1>1, <1>2, <1>3, <1>4, <2>1, Stops DEF Fresh, Keeps
<1>5. ASSUME NEW s, s = [Current EXCEPT !.status = "pending", !.wanted = "pending"], Put(taken, s),
             Goes(IF Current.kind = "direct" THEN "resolve" ELSE "send")
      PROVE  IInv' /\ FinalStays
  <2>1. /\ s \in Records /\ s.wanted = "pending" /\ s.status = "pending" /\ s.kind = Current.kind
        /\ s.confirmed = Current.confirmed /\ s.code = Current.code /\ s.queued = Current.queued
    BY <1>2, <1>5, StatusMembers DEF Records
  <2>2. s.confirmed = FALSE /\ s.code = {} /\ s.queued = FALSE /\ Current.status \notin Final /\ Keeps(Current, s)
    BY <1>3, <2>1 DEF Fresh, Final, Keeps
  <2>3. PICK at \in {"resolve", "send"} : Goes(at)
    BY <1>5
  <2> QED BY <1>1, <1>2, <1>5, <2>1, <2>2, <2>3, GoesToSend
<1> QED BY <1>4, <1>5 DEF BeginOutgoing

\* A command that may be sent has an open record that nobody confirmed.
LEMMA OpenCurrent ==
    ASSUME IInv, loop.at \in {"resolve", "send"}
    PROVE  /\ Current.wanted = "pending" /\ Current.status = "pending" /\ Current.code = {}
           /\ Current.queued = FALSE /\ Current.confirmed = FALSE
<1>1. Underway
  BY DEF Underway
<1>2. Current = sends[taken] /\ taken \in 1 .. Len(sends)
  BY <1>1, CurrentIsRecord
<1> QED BY <1>1, <1>2 DEF IInv, StageOK, RecordsOK

\* What a failed command leaves behind.
LEMMA FailedRecord ==
    ASSUME IInv, loop.at \in {"resolve", "send"}, NEW s \in RecordFailed(Current)
    PROVE  /\ s \in Records /\ s.wanted = "failed" /\ s.status \in {"pending", "failed"}
           /\ s.confirmed = FALSE
<1>1. Underway
  BY DEF Underway
<1>2. Current \in Records
  BY <1>1, CurrentIsRecord
<1>3. /\ s \in Records /\ s.confirmed = Current.confirmed /\ s.wanted = "failed"
      /\ (s.status = "failed" \/ s.status = Current.status)
  <2>1. s \in Written(Current, "failed") /\ "failed" \in Statuses
    BY StatusMembers DEF RecordFailed
  <2> QED BY <1>2, <2>1, WrittenFields
<1> QED BY <1>3, OpenCurrent

\* The contact is looked up.
LEMMA ResolveIInv ==
    ASSUME IInv, Resolve
    PROVE  IInv' /\ FinalStays
<1>1. Underway /\ loop.at = "resolve" /\ sends \in Seq(Records)
      /\ UNCHANGED <<taken, pending, events, lagged, linked, limit>>
  BY DEF Resolve, Underway, IInv, TypeInv
<1>2. Current \in Records /\ Current = sends[taken] /\ taken \in 1 .. Len(sends)
  BY <1>1, CurrentIsRecord
<1>3. /\ Current.wanted = "pending" /\ Current.status = "pending" /\ Current.code = {}
      /\ Current.queued = FALSE /\ Current.confirmed = FALSE
  BY <1>1, OpenCurrent
<1>4. CASE Goes("send") /\ UNCHANGED sends
  <2>1. Put(taken, Current)
    BY <1>1, <1>2, <1>4, PutSame
  <2>2. Current.status \notin Final /\ Keeps(Current, Current)
    BY <1>3 DEF Final, Keeps
  <2> QED BY <1>1, <1>2, <1>3, <1>4, <2>1, <2>2, GoesToSend
<1>5. ASSUME Rejects, NEW s \in RecordFailed(Current), Put(taken, s)
      PROVE  IInv' /\ FinalStays
  <2>1. s \in Records /\ s.wanted = "failed" /\ s.status \in {"pending", "failed"} /\ s.confirmed = FALSE
    BY <1>1, FailedRecord
  <2>2. Current.status \notin Final /\ Keeps(Current, s)
    BY <1>3 DEF Final, Keeps
  <2> QED BY <1>1, <1>2, <1>5, <2>1, <2>2, Stops
<1> QED BY <1>4, <1>5 DEF Resolve

\* The client reports that the send failed.
LEMMA SendFailsIInv ==
    ASSUME IInv, SendFails
    PROVE  IInv' /\ FinalStays
<1>1. Underway /\ loop.at = "send" /\ sends \in Seq(Records) /\ Rejects
      /\ UNCHANGED <<taken, pending, events, lagged, linked, limit>>
  BY DEF SendFails, Underway, IInv, TypeInv
<1>2. Current \in Records /\ Current = sends[taken] /\ taken \in 1 .. Len(sends)
  BY <1>1, CurrentIsRecord
<1>3. PICK s \in RecordFailed(Current), c \in NoCodeOrOne : Put(taken, [s EXCEPT !.code = c])
  BY DEF SendFails, NoCodeOrOne
<1> DEFINE t == [s EXCEPT !.code = c]
<1>4. s \in Records /\ s.wanted = "failed" /\ s.status \in {"pending", "failed"} /\ s.confirmed = FALSE
  BY <1>1, FailedRecord
<1>5. t \in Records /\ t.wanted = s.wanted /\ t.status = s.status
  BY <1>4 DEF Records
<1> HIDE DEF t
<1>6. Current.status \notin Final /\ Keeps(Current, t)
  BY <1>1, OpenCurrent DEF Final, Keeps
<1>7. Put(taken, t)
  BY <1>3 DEF t
<1>8. t.wanted # "pending" /\ t.status # "acknowledged"
  BY <1>4, <1>5
<1> QED BY <1>1, <1>2, <1>5, <1>6, <1>7, <1>8, Stops

\* The device accepted the send.
LEMMA SendAcceptedIInv ==
    ASSUME IInv, SendAccepted
    PROVE  IInv' /\ FinalStays
<1>1. Underway /\ loop.at = "send" /\ sends \in Seq(Records) /\ Goes("sent")
      /\ UNCHANGED <<taken, pending, events, lagged, linked, limit>>
  BY DEF SendAccepted, Underway, IInv, TypeInv
<1>2. Current \in Records /\ Current = sends[taken] /\ taken \in 1 .. Len(sends)
  BY <1>1, CurrentIsRecord
<1>3. PICK c \in Codes : Put(taken, [Current EXCEPT !.code = {c}, !.queued = TRUE])
  BY DEF SendAccepted
<1> DEFINE s == [Current EXCEPT !.code = {c}, !.queued = TRUE]
<1>4. /\ s \in Records /\ s.wanted = Current.wanted /\ s.status = Current.status
      /\ s.confirmed = Current.confirmed /\ s.kind = Current.kind /\ s.queued = TRUE
  <2>1. {c} \in NoCodeOrOne
    BY DEF NoCodeOrOne
  <2> QED BY <1>2, <2>1 DEF Records
<1>5. Put(taken, s)
  BY <1>3
<1> HIDE DEF s
<1>6. s.wanted = "pending" /\ s.status = "pending" /\ s.confirmed = FALSE
  BY <1>1, <1>4, OpenCurrent
<1>7. Current.status \notin Final /\ Keeps(Current, s)
  BY <1>1, OpenCurrent DEF Final, Keeps
<1> QED BY <1>1, <1>2, <1>4, <1>5, <1>6, <1>7, GoesToSend

\* The command has been sent, and the acknowledgement of a direct message is waited for
\* whatever became of its history and its hook.
LEMMA SentIInv ==
    ASSUME IInv, Sent
    PROVE  IInv' /\ FinalStays
<1> USE DEF IInv
<1>1. /\ Underway /\ loop.at = "sent" /\ sends \in Seq(Records) /\ pending \in Seq(Waits)
      /\ taken' = taken /\ events' = events /\ lagged' = lagged /\ linked' = linked /\ limit' = limit
      /\ limit \in Nat
  BY DEF Sent, Underway, TypeInv
<1>2. Current \in Records /\ Current = sends[taken] /\ taken \in 1 .. Len(sends) /\ taken \in 1 .. taken
  BY <1>1, CurrentIsRecord
<1>3. /\ Current.wanted = "pending" /\ Current.queued = TRUE /\ Current.status = "pending"
      /\ (Current.kind = "direct" => Len(pending) < limit)
  BY <1>1, <1>2 DEF StageOK, RecordsOK
<1>4. \E s \in Records :
         /\ Put(taken, s) /\ s.code = Current.code /\ s.kind = Current.kind /\ s.wanted = Current.wanted
         /\ s.status = Current.status /\ s.queued = Current.queued /\ s.confirmed = Current.confirmed
  <2>1. CASE UNCHANGED sends
    BY <1>1, <1>2, <2>1, PutSame
  <2>2. ASSUME NEW s, s = [Current EXCEPT !.stored = Current.code], Put(taken, s)
        PROVE  /\ s \in Records /\ s.code = Current.code /\ s.kind = Current.kind
               /\ s.wanted = Current.wanted /\ s.status = Current.status /\ s.queued = Current.queued
               /\ s.confirmed = Current.confirmed
    BY <1>2, <2>2 DEF Records
  <2> QED BY <2>1, <2>2 DEF Sent
<1>5. PICK s \in Records :
         /\ Put(taken, s) /\ s.code = Current.code /\ s.kind = Current.kind /\ s.wanted = Current.wanted
         /\ s.status = Current.status /\ s.queued = Current.queued /\ s.confirmed = Current.confirmed
  BY <1>4
<1>6. /\ sends' \in Seq(Records) /\ Len(sends') = Len(sends) /\ sends'[taken] = s
      /\ \A m \in 1 .. Len(sends) : m # taken => sends'[m] = sends[m]
  BY <1>1, <1>2, <1>5, PutProperties
<1>7. RecordsOK' /\ ConfirmedOK' /\ FinalStays
  <2>1. Keeps(sends[taken], s)
    BY <1>2, <1>5 DEF Keeps
  <2> QED BY <1>1, <1>2, <1>3, <1>5, <2>1, OneRecord
<1>8. \A m \in 1 .. taken : m # taken => sends'[m] = sends[m]
  BY <1>1, <1>2, <1>6
<1>9. CASE Current.kind # "direct"
  <2>1. pending' = pending
    BY <1>9 DEF Sent
  <2>2. ASSUME loop' \in [at : Places, why : {"none", "error", "device"}] PROVE TypeInv'
    BY <1>1, <1>6, <2>1, <2>2 DEF TypeInv
  <2>3. CASE Ends("error")
    BY <1>7, <2>2, <2>3, EndsWell, EndsType
  <2>4. CASE Goes("select")
    <3>1. loop'.at = "select" /\ TypeInv' /\ LossOK'
      BY <1>1, <2>2, <2>4, GoesOn, PlaceMembers
    <3>2. ~Underway' /\ StageOK'
      BY <3>1 DEF Underway, StageOK
    <3>3. ~Open(sends'[taken])
      BY <1>5, <1>6, <1>9 DEF Open
    <3>4. WaitsOK' /\ NoneForgotten'
      BY <1>1, <1>8, <2>1, <3>2, <3>3, SameWaits
    <3> QED BY <1>7, <3>1, <3>2, <3>4
  <2> QED BY <2>3, <2>4 DEF Sent
<1>10. CASE Current.kind = "direct"
  <2> DEFINE w == [send |-> taken, code |-> Current.code, due |-> FALSE]
  <2>1. pending' = Append(pending, w)
    BY <1>2, <1>10 DEF Sent, PendingAck
  <2>2. w \in Waits /\ w.send = taken /\ w.code = Current.code
    BY <1>2 DEF Waits, Records
  <2> HIDE DEF w
  <2>3. /\ pending' \in Seq(Waits) /\ Len(pending') = Len(pending) + 1 /\ pending'[Len(pending) + 1] = w
        /\ \A i \in 1 .. Len(pending) : pending'[i] = pending[i]
    BY <1>1, <2>1, <2>2
  <2>4. /\ Len(pending') <= limit /\ Len(pending) \in Nat
        /\ 1 .. Len(pending') = (1 .. Len(pending)) \cup {Len(pending) + 1}
        /\ Len(pending) + 1 \notin 1 .. Len(pending)
    BY <1>1, <1>3, <1>10, <2>3
  <2>5. ASSUME loop' \in [at : Places, why : {"none", "error", "device"}] PROVE TypeInv'
    BY <1>1, <1>6, <2>3, <2>4, <2>5 DEF TypeInv
  <2>6. CASE Ends("error")
    BY <1>7, <2>5, <2>6, EndsWell, EndsType
  <2>7. CASE Goes("select")
    <3>1. loop'.at = "select" /\ TypeInv' /\ LossOK'
      BY <1>1, <2>5, <2>7, GoesOn, PlaceMembers
    <3>2. ~Underway' /\ StageOK'
      BY <3>1 DEF Underway, StageOK
    <3>3. Open(sends'[taken]) /\ sends'[taken].code = w.code
      BY <1>3, <1>5, <1>6, <1>10, <2>2 DEF Open
    <3>4. ASSUME NEW i \in 1 .. Len(pending)
          PROVE  /\ pending'[i].send \in 1 .. taken /\ pending'[i].send # taken
                 /\ pending'[i].code = sends'[pending'[i].send].code /\ Open(sends'[pending'[i].send])
      <4>1. /\ pending[i].send \in 1 .. taken /\ pending[i].code = sends[pending[i].send].code
            /\ Open(sends[pending[i].send]) /\ pending[i].send # taken
        BY <1>1 DEF WaitsOK
      <4> QED BY <1>8, <2>3, <4>1
    <3>5. ASSUME NEW i \in 1 .. Len(pending')
          PROVE  /\ pending'[i].send \in 1 .. taken
                 /\ pending'[i].code = sends'[pending'[i].send].code /\ Open(sends'[pending'[i].send])
      BY <1>2, <2>2, <2>3, <2>4, <3>3, <3>4
    <3>6. ASSUME NEW i \in 1 .. Len(pending'), NEW j \in 1 .. Len(pending'),
                 pending'[i].send = pending'[j].send
          PROVE  i = j
      <4>1. CASE i \in 1 .. Len(pending) /\ j \in 1 .. Len(pending)
        BY <1>1, <2>3, <3>6, <4>1 DEF WaitsOK
      <4> QED BY <2>2, <2>3, <2>4, <3>4, <3>6, <4>1
    <3>7. WaitsOK'
      BY <1>1, <3>2, <3>5, <3>6 DEF WaitsOK, Open
    <3>8. ASSUME NEW n \in 1 .. taken, Open(sends'[n]) PROVE \E i \in 1 .. Len(pending') : pending'[i].send = n
      <4>1. CASE n = taken
        BY <2>2, <2>3, <2>4, <4>1
      <4>2. CASE n # taken
        <5>1. Open(sends[n])
          BY <1>8, <3>8, <4>2
        <5>2. PICK i \in 1 .. Len(pending) : pending[i].send = n
          BY <1>1, <4>2, <5>1 DEF NoneForgotten
        <5> QED BY <2>3, <2>4, <5>2
      <4> QED BY <4>1, <4>2
    <3>9. NoneForgotten'
      BY <1>1, <3>8 DEF NoneForgotten, Open
    <3> QED BY <1>7, <3>1, <3>2, <3>7, <3>9
  <2> QED BY <2>6, <2>7 DEF Sent
<1> QED BY <1>9, <1>10

-----------------------------------------------------------------------------
(* Acknowledgements and their absence.                                     *)

\* The history of a step that settles open sends and acknowledges only what was confirmed.
LEMMA Settles ==
    ASSUME TypeInv, RecordsOK, ConfirmedOK, taken' = taken,
           sends' \in Seq(Records), Len(sends') = Len(sends),
           \A m \in 1 .. Len(sends) :
              \/ sends'[m] = sends[m]
              \/ /\ Open(sends[m]) /\ sends'[m].wanted # "pending" /\ Keeps(sends[m], sends'[m])
                 /\ sends'[m].status = "acknowledged" => WasConfirmed(sends'[m].code),
           events' = events \/ (events # <<>> /\ events' = Tail(events))
    PROVE  RecordsOK' /\ ConfirmedOK' /\ FinalStays
<1>1. sends \in Seq(Records) /\ Len(sends) \in Nat /\ Len(sends) <= Len(sends')
  BY DEF TypeInv
<1>2. ASSUME NEW m \in 1 .. Len(sends), m > taken PROVE sends'[m] = sends[m]
  BY <1>2 DEF RecordsOK, Fresh, Open
<1>3. ASSUME NEW m \in 1 .. Len(sends), m > taken PROVE Fresh(sends'[m])
  BY <1>2, <1>3 DEF RecordsOK
<1>4. ASSUME NEW m \in 1 .. Len(sends), sends'[m].wanted = "pending" PROVE sends'[m].status = "pending"
  BY <1>4 DEF RecordsOK
<1>5. RecordsOK'
  BY <1>3, <1>4 DEF RecordsOK, Fresh
<1>6. ASSUME NEW m \in 1 .. Len(sends), sends'[m].status = "acknowledged" PROVE WasConfirmed(sends'[m].code)
  BY <1>6 DEF ConfirmedOK
<1>7. \A m \in 1 .. Len(sends) : Keeps(sends[m], sends'[m])
  BY DEF Keeps
<1>8. ConfirmedOK'
  BY <1>1, <1>6, <1>7, ConfirmedStays
<1>9. ASSUME NEW m \in 1 .. Len(sends), sends[m].status \in Final PROVE sends'[m].status = sends[m].status
  BY <1>9 DEF RecordsOK, Open, Final
<1>10. FinalStays
  BY <1>9 DEF FinalStays
<1> QED BY <1>5, <1>8, <1>10

\* What an idle bridge waits for is open.
LEMMA PendingIsOpen ==
    ASSUME IInv, loop.at = "select", NEW i \in 1 .. Len(pending)
    PROVE  /\ pending[i].send \in 1 .. taken /\ pending[i].send \in 1 .. Len(sends)
           /\ sends[pending[i].send] \in Records /\ sends[pending[i].send].code = pending[i].code
           /\ Open(sends[pending[i].send])
<1>1. sends \in Seq(Records) /\ taken \in 0 .. Len(sends)
  BY DEF IInv, TypeInv
<1>2. /\ pending[i].send \in 1 .. taken /\ sends[pending[i].send].code = pending[i].code
      /\ Open(sends[pending[i].send])
  BY DEF IInv, WaitsOK
<1> QED BY <1>1, <1>2

\* What leaves the queue is settled, and the rest is as it was.
LEMMA FewerWaits ==
    ASSUME IInv, loop.at = "select", loop'.at = "select", taken' = taken,
           NEW S \in SUBSET (1 .. Len(pending)), pending' = Kept(S),
           \A i \in 1 .. Len(pending) : i \notin S => ~Open(sends'[pending[i].send]),
           \A m \in 1 .. taken :
              (\A i \in 1 .. Len(pending) : i \notin S => pending[i].send # m) => sends'[m] = sends[m]
    PROVE  WaitsOK' /\ NoneForgotten' /\ StageOK'
<1> USE DEF IInv
<1>1. pending \in Seq(Waits)
  BY DEF TypeInv
<1>2. PICK at \in [1 .. Len(Kept(S)) -> S] :
         /\ \A k \in 1 .. Len(Kept(S)) : Kept(S)[k] = pending[at[k]]
         /\ \A k, l \in 1 .. Len(Kept(S)) : at[k] = at[l] => k = l
         /\ \A i \in S : \E k \in 1 .. Len(Kept(S)) : at[k] = i
  BY <1>1, KeptProperties
<1>3. ASSUME NEW k \in 1 .. Len(pending')
      PROVE  /\ at[k] \in S /\ at[k] \in 1 .. Len(pending) /\ pending'[k] = pending[at[k]]
             /\ sends'[pending[at[k]].send] = sends[pending[at[k]].send]
  <2>1. at[k] \in S /\ at[k] \in 1 .. Len(pending) /\ pending'[k] = pending[at[k]]
    BY <1>2
  <2>2. pending[at[k]].send \in 1 .. taken
    BY <2>1, PendingIsOpen
  <2>3. ASSUME NEW i \in 1 .. Len(pending), i \notin S PROVE pending[i].send # pending[at[k]].send
    BY <2>1, <2>3 DEF WaitsOK
  <2> QED BY <2>1, <2>2, <2>3
<1>4. ASSUME NEW k \in 1 .. Len(pending')
      PROVE  /\ pending'[k].send \in 1 .. taken /\ pending'[k].code = sends'[pending'[k].send].code
             /\ Open(sends'[pending'[k].send])
  BY <1>3, PendingIsOpen
<1>5. ASSUME NEW k \in 1 .. Len(pending'), NEW l \in 1 .. Len(pending'), pending'[k].send = pending'[l].send
      PROVE  k = l
  <2>1. at[k] = at[l]
    BY <1>3, <1>5 DEF WaitsOK
  <2> QED BY <1>2, <2>1
<1>6. ~Underway'
  BY DEF Underway
<1>7. WaitsOK'
  BY <1>4, <1>5, <1>6 DEF WaitsOK, Open
<1>8. ASSUME NEW n \in 1 .. taken, Open(sends'[n]) PROVE \E k \in 1 .. Len(pending') : pending'[k].send = n
  <2>1. \A i \in 1 .. Len(pending) : i \notin S => pending[i].send # n
    BY <1>8
  <2>2. Open(sends[n])
    BY <1>8, <2>1
  <2>3. PICK i \in 1 .. Len(pending) : pending[i].send = n
    BY <2>2 DEF NoneForgotten
  <2>4. PICK k \in 1 .. Len(pending') : at[k] = i
    BY <1>2, <2>1, <2>3
  <2> QED BY <1>3, <2>3, <2>4
<1>9. NoneForgotten'
  BY <1>8 DEF NoneForgotten, Open
<1> QED BY <1>6, <1>7, <1>9 DEF StageOK

\* The type after a step on the queue of sends or the channel of events.
LEMMA TypeStays ==
    ASSUME TypeInv, taken' = taken, linked' = linked, limit' = limit,
           sends' \in Seq(Records), Len(sends') = Len(sends),
           pending' \in Seq(Waits), Len(pending') <= limit,
           loop' \in [at : Places, why : {"none", "error", "device"}],
           lagged' \in BOOLEAN, events' = events \/ (events # <<>> /\ events' = Tail(events))
    PROVE  TypeInv'
<1>1. events \in Seq(Codes \cup {Lost, Other}) /\ Len(events) <= EventCapacity
  BY DEF TypeInv
<1>2. EventCapacity \in Nat
  BY BrokerAssumption
<1>3. events' \in Seq(Codes \cup {Lost, Other}) /\ Len(events') <= EventCapacity
  <2>1. CASE events' = events
    BY <1>1, <2>1
  <2>2. CASE events # <<>> /\ events' = Tail(events)
    <3>1. Len(events) \in Nat /\ events' \in Seq(Codes \cup {Lost, Other}) /\ Len(events') = Len(events) - 1
      BY <1>1, <2>2
    <3> QED BY <1>1, <1>2, <3>1
  <2> QED BY <2>1, <2>2
<1> QED BY <1>3 DEF TypeInv

\* The idle loop goes on or ends with an error, and neither history nor queue changes.
LEMMA IdleStep ==
    ASSUME IInv, loop.at = "select", Goes("select") \/ Ends("error"),
           UNCHANGED <<sends, pending, taken, linked, limit>>,
           lagged' \in BOOLEAN, events' = events \/ (events # <<>> /\ events' = Tail(events))
    PROVE  IInv' /\ FinalStays
<1> USE DEF IInv
<1>1. sends \in Seq(Records) /\ pending \in Seq(Waits) /\ Len(pending) <= limit /\ taken \in Nat
  BY DEF TypeInv
<1>2. RecordsOK' /\ ConfirmedOK' /\ FinalStays
  BY <1>1, SameRecords
<1>3. ASSUME loop' \in [at : Places, why : {"none", "error", "device"}] PROVE TypeInv'
  BY <1>1, <1>3, TypeStays
<1>4. CASE Ends("error")
  BY <1>2, <1>3, <1>4, EndsWell, EndsType
<1>5. CASE Goes("select")
  <2>1. loop'.at = "select" /\ TypeInv' /\ LossOK'
    BY <1>3, <1>5, GoesOn, PlaceMembers
  <2>2. ~Underway /\ ~Underway'
    BY <2>1 DEF Underway
  <2>3. WaitsOK' /\ NoneForgotten'
    BY <2>2, SameWaits
  <2> QED BY <1>2, <2>1, <2>2, <2>3 DEF StageOK
<1> QED BY <1>4, <1>5

\* An acknowledgement settles the oldest send that waits for its code.
LEMMA AckEventIInv ==
    ASSUME IInv, loop.at = "select", events # <<>>, Head(events) \notin {Lost, Other}, AckEvent(Head(events)),
           events' = Tail(events), UNCHANGED <<lagged, taken, linked, limit>>
    PROVE  IInv' /\ FinalStays
<1> DEFINE code == Head(events)
           i == First(Matching(code))
           n == pending[i].send
<1>1. /\ sends \in Seq(Records) /\ pending \in Seq(Waits) /\ Len(pending) <= limit /\ limit \in Nat
      /\ lagged \in BOOLEAN /\ events \in Seq(Codes \cup {Lost, Other}) /\ DOMAIN pending = 1 .. Len(pending)
  BY DEF IInv, TypeInv
<1>2. CASE Matching(code) = {}
  BY <1>1, <1>2, IdleStep DEF AckEvent
<1>3. CASE Matching(code) # {}
  <2>1. /\ pending' = Without(i)
        /\ \E s \in Acknowledged(sends[n], code) :
              /\ Put(n, s)
              /\ (s.wanted = "acknowledged" /\ s.status = "acknowledged" /\ Goes("select")) \/ Ends("error")
    BY <1>3 DEF AckEvent
  <2>2. i \in Matching(code)
    <3>1. Matching(code) \subseteq Nat
      BY <1>1 DEF Matching
    <3>2. \E x \in Matching(code) : \A y \in Matching(code) : x <= y
      BY <1>3, <3>1, LeastIndex
    <3> QED BY <3>2 DEF First
  <2>3. i \in 1 .. Len(pending) /\ pending[i].code = {code}
    BY <1>1, <2>2 DEF Matching
  <2> HIDE DEF i, code
  <2>4. n \in 1 .. taken /\ n \in 1 .. Len(sends) /\ sends[n] \in Records /\ sends[n].code = {code} /\ Open(sends[n])
    BY <2>3, PendingIsOpen
  <2>5. WasConfirmed({code})
    <3>1. code = events[1] /\ 1 \in 1 .. Len(events)
      BY <1>1 DEF code
    <3> QED BY <3>1 DEF IInv, ConfirmedOK, code
  <2> HIDE DEF n
  <2>6. PICK s \in Acknowledged(sends[n], code) :
              /\ Put(n, s)
              /\ (s.wanted = "acknowledged" /\ s.status = "acknowledged" /\ Goes("select")) \/ Ends("error")
    BY <2>1 DEF n
  <2>7. /\ s \in Records /\ s.code = {code} /\ s.confirmed = sends[n].confirmed
        /\ s = sends[n] \/ s.wanted = "acknowledged"
    <3>1. CASE s = sends[n]
      BY <2>4, <3>1
    <3>2. CASE s \in Written(sends[n], "acknowledged")
      <4>1. "acknowledged" \in Statuses
        BY StatusMembers
      <4> QED BY <2>4, <3>2, <4>1, WrittenFields
    <3> QED BY <3>1, <3>2 DEF Acknowledged
  <2>8. /\ sends' \in Seq(Records) /\ Len(sends') = Len(sends) /\ sends'[n] = s
        /\ \A m \in 1 .. Len(sends) : m # n => sends'[m] = sends[m]
    BY <1>1, <2>4, <2>6, <2>7, PutProperties
  <2>9. RecordsOK' /\ ConfirmedOK' /\ FinalStays
    <3>1. ASSUME NEW m \in 1 .. Len(sends)
          PROVE  \/ sends'[m] = sends[m]
                 \/ /\ Open(sends[m]) /\ sends'[m].wanted # "pending" /\ Keeps(sends[m], sends'[m])
                    /\ sends'[m].status = "acknowledged" => WasConfirmed(sends'[m].code)
      BY <2>4, <2>5, <2>7, <2>8 DEF Keeps
    <3> QED BY <2>8, <3>1, Settles DEF IInv
  <2>10. pending' = Kept((1 .. Len(pending)) \ {i})
    BY <1>1, <2>1 DEF Without
  <2>11. pending' \in Seq(Waits) /\ Len(pending') <= limit
    <3>1. (1 .. Len(pending)) \ {i} \in SUBSET (1 .. Len(pending))
      OBVIOUS
    <3>2. pending' \in Seq(Waits) /\ Len(pending') <= Len(pending)
      BY <1>1, <2>10, <3>1, KeptProperties
    <3> QED BY <1>1, <3>2
  <2>12. ASSUME loop' \in [at : Places, why : {"none", "error", "device"}] PROVE TypeInv'
    BY <1>1, <2>8, <2>11, <2>12, TypeStays DEF IInv
  <2>13. CASE Ends("error")
    BY <2>9, <2>12, <2>13, EndsWell, EndsType DEF IInv
  <2>14. CASE s.wanted = "acknowledged" /\ Goes("select")
    <3>1. loop'.at = "select" /\ TypeInv' /\ LossOK'
      BY <2>12, <2>14, GoesOn, PlaceMembers DEF IInv
    <3>2. ~Open(sends'[n])
      BY <2>8, <2>14 DEF Open
    <3> DEFINE S == (1 .. Len(pending)) \ {i}
    <3>3. S \in SUBSET (1 .. Len(pending)) /\ \A j \in 1 .. Len(pending) : j \notin S <=> j = i
      BY <2>3
    <3>4. pending' = Kept(S)
      BY <2>10
    <3> HIDE DEF S
    <3>5. \A j \in 1 .. Len(pending) : j \notin S => ~Open(sends'[pending[j].send])
      BY <3>2, <3>3 DEF n
    <3>6. ASSUME NEW m \in 1 .. taken, \A j \in 1 .. Len(pending) : j \notin S => pending[j].send # m
          PROVE  sends'[m] = sends[m]
      <4>1. m # n /\ m \in 1 .. Len(sends)
        BY <2>3, <3>3, <3>6 DEF n, IInv, TypeInv
      <4> QED BY <2>8, <4>1
    <3>7. WaitsOK' /\ NoneForgotten' /\ StageOK'
      BY <3>1, <3>3, <3>4, <3>5, <3>6, FewerWaits
    <3> QED BY <2>9, <3>1, <3>7 DEF IInv
  <2> QED BY <2>6, <2>13, <2>14
<1> QED BY <1>2, <1>3

\* A history given record by record.
Listed(f, len) == f = [n \in 1 .. len |-> f[n]]

\* ... is a sequence of records.
LEMMA HistoryIsSequence ==
    ASSUME NEW len \in Nat, NEW f, Listed(f, len), \A n \in 1 .. len : f[n] \in Records
    PROVE  f \in Seq(Records) /\ Len(f) = len
<1>1. f \in [1 .. len -> Records]
  BY DEF Listed
<1> QED BY <1>1

\* The loss of the device fails everything that is pending, so that nothing stays open.
LEMMA DisconnectedIInv ==
    ASSUME IInv, loop.at = "select", DisconnectedEvent, events # <<>>, events' = Tail(events),
           UNCHANGED <<lagged, taken, linked, limit>>
    PROVE  IInv' /\ FinalStays
<1>1. /\ sends \in Seq(Records) /\ pending \in Seq(Waits) /\ limit \in Nat /\ Len(sends) \in Nat
      /\ lagged \in BOOLEAN /\ DOMAIN pending = 1 .. Len(pending) /\ DOMAIN sends = 1 .. Len(sends)
      /\ taken \in 0 .. Len(sends)
  BY DEF IInv, TypeInv
<1> DEFINE waits(n) == \E i \in 1 .. Len(pending) : pending[i].send = n
<1>2. PICK fails \in SUBSET {pending[i].send : i \in DOMAIN pending} :
          sends' = [n \in DOMAIN sends |->
                      IF \E i \in DOMAIN pending : pending[i].send = n
                      THEN [sends[n] EXCEPT !.wanted = "failed",
                                            !.status = IF n \in fails THEN sends[n].status ELSE "failed"]
                      ELSE sends[n]]
  BY DEF DisconnectedEvent
<1>3. ASSUME NEW n, waits(n)
      PROVE  n \in 1 .. taken /\ n \in 1 .. Len(sends) /\ sends[n] \in Records /\ Open(sends[n])
  <2>1. PICK i \in 1 .. Len(pending) : pending[i].send = n
    BY <1>3
  <2> QED BY <2>1, PendingIsOpen
<1>4. ASSUME NEW n \in 1 .. Len(sends), ~waits(n) PROVE sends'[n] = sends[n]
  BY <1>1, <1>2, <1>4
<1>5. ASSUME NEW n \in 1 .. Len(sends), waits(n)
      PROVE  /\ sends'[n] \in Records /\ sends'[n].wanted = "failed"
             /\ sends'[n].status \in {"pending", "failed"}
             /\ sends'[n].code = sends[n].code /\ sends'[n].confirmed = sends[n].confirmed
  <2> DEFINE status == IF n \in fails THEN sends[n].status ELSE "failed"
  <2>1. sends'[n] = [sends[n] EXCEPT !.wanted = "failed", !.status = status]
    BY <1>1, <1>2, <1>5
  <2> HIDE DEF waits
  <2>2. sends[n] \in Records /\ sends[n].status = "pending"
    BY <1>3, <1>5 DEF Open, IInv, RecordsOK
  <2>3. status \in Statuses /\ status \in {"pending", "failed"} /\ "failed" \in Statuses
    BY <2>2, StatusMembers
  <2> HIDE DEF status
  <2> DEFINE t == [sends[n] EXCEPT !.wanted = "failed", !.status = status]
  <2>4. /\ t \in Records /\ t.wanted = "failed" /\ t.status = status
        /\ t.code = sends[n].code /\ t.confirmed = sends[n].confirmed
    BY <2>2, <2>3 DEF Records
  <2> HIDE DEF t
  <2>5. sends'[n] = t
    BY <2>1 DEF t
  <2> QED BY <2>3, <2>4, <2>5
<1> HIDE DEF waits
<1>6. sends' \in Seq(Records) /\ Len(sends') = Len(sends)
  <2>1. \A n \in 1 .. Len(sends) : sends'[n] \in Records
    BY <1>1, <1>4, <1>5
  <2>2. Listed(sends', Len(sends))
    BY <1>1, <1>2 DEF Listed
  <2> QED BY <1>1, <2>1, <2>2, HistoryIsSequence
<1>7. RecordsOK' /\ ConfirmedOK' /\ FinalStays
  <2>1. ASSUME NEW m \in 1 .. Len(sends)
        PROVE  \/ sends'[m] = sends[m]
               \/ /\ Open(sends[m]) /\ sends'[m].wanted # "pending" /\ Keeps(sends[m], sends'[m])
                  /\ sends'[m].status = "acknowledged" => WasConfirmed(sends'[m].code)
    BY <1>3, <1>4, <1>5 DEF Keeps
  <2> QED BY <1>6, <2>1, Settles DEF IInv
<1>8. /\ loop' = [at |-> "ended", why |-> "device"] /\ pending' = <<>>
      /\ loop' \in [at : Places, why : {"none", "error", "device"}]
  BY EndsType DEF DisconnectedEvent, Ends
<1>9. TypeInv'
  <2>1. pending' \in Seq(Waits) /\ Len(pending') <= limit
    BY <1>1, <1>8
  <2> QED BY <1>1, <1>6, <1>8, <2>1, TypeStays DEF IInv
<1>10. ASSUME NEW n \in 1 .. Len(sends) PROVE ~Open(sends'[n])
  <2>1. CASE waits(n)
    BY <1>5, <2>1 DEF Open
  <2>2. CASE ~waits(n)
    <3>1. n > taken => ~Open(sends[n])
      BY DEF IInv, RecordsOK, Fresh, Open
    <3>2. n \in 1 .. taken => ~Open(sends[n])
      BY <2>2 DEF IInv, NoneForgotten, waits
    <3> QED BY <1>1, <1>4, <2>2, <3>1, <3>2
  <2> QED BY <2>1, <2>2
<1>11. StageOK' /\ WaitsOK' /\ NoneForgotten' /\ LossOK'
  <2>1. loop'.at = "ended" /\ loop'.why = "device"
    BY <1>8
  <2>2. ~Underway'
    BY <2>1 DEF Underway
  <2>3. LossOK'
    BY <1>6, <1>10, <2>1 DEF LossOK, Open
  <2> QED BY <2>1, <2>2, <2>3 DEF StageOK, WaitsOK, NoneForgotten
<1> QED BY <1>7, <1>9, <1>11 DEF IInv

\* An event of the device, or the notice that some were lost.
LEMMA ReceiveEventIInv ==
    ASSUME IInv, ReceiveEvent
    PROVE  IInv' /\ FinalStays
<1>1. loop.at = "select" /\ UNCHANGED <<taken, linked, limit>> /\ lagged \in BOOLEAN
  BY DEF ReceiveEvent, IInv, TypeInv
<1>2. CASE lagged' = FALSE /\ Rejects /\ UNCHANGED <<sends, pending, events>>
  BY <1>1, <1>2, IdleStep DEF Rejects
<1>3. CASE /\ events # <<>> /\ events' = Tail(events) /\ UNCHANGED lagged
           /\ CASE Head(events) = Lost -> DisconnectedEvent \/ (Ends("error") /\ UNCHANGED <<sends, pending>>)
                [] Head(events) = Other -> (Goes("select") \/ Ends("error")) /\ UNCHANGED <<sends, pending>>
                [] OTHER -> AckEvent(Head(events))
  <2>1. CASE DisconnectedEvent
    BY <1>1, <1>3, <2>1, DisconnectedIInv
  <2>2. CASE (Goes("select") \/ Ends("error")) /\ UNCHANGED <<sends, pending>>
    BY <1>1, <1>3, <2>2, IdleStep
  <2>3. CASE Head(events) \notin {Lost, Other} /\ AckEvent(Head(events))
    BY <1>1, <1>3, <2>3, AckEventIInv
  <2>4. Lost # Other
    BY DEF Lost, Other
  <2>5. CASE Head(events) = Lost
    BY <1>3, <2>1, <2>2, <2>4, <2>5
  <2>6. CASE Head(events) = Other
    BY <1>3, <2>2, <2>4, <2>6
  <2>7. CASE Head(events) \notin {Lost, Other}
    BY <1>3, <2>3, <2>7
  <2> QED BY <2>5, <2>6, <2>7
<1> QED BY <1>2, <1>3 DEF ReceiveEvent

\* What the idle bridge knows of its types.
LEMMA IdleTypes ==
    ASSUME IInv
    PROVE  /\ sends \in Seq(Records) /\ Len(sends) \in Nat /\ DOMAIN sends = 1 .. Len(sends)
           /\ pending \in Seq(Waits) /\ Len(pending) \in Nat /\ DOMAIN pending = 1 .. Len(pending)
           /\ limit \in Nat /\ Len(pending) <= limit /\ lagged \in BOOLEAN /\ taken \in 0 .. Len(sends)
           /\ loop \in [at : Places, why : {"none", "error", "device"}]
           /\ <<>> \in Seq(Waits) /\ Len(<<>>) <= limit
           /\ \A n \in 1 .. Len(sends) : sends[n] \in Records
<1>1. sends \in Seq(Records) /\ pending \in Seq(Waits)
  BY DEF IInv, TypeInv
<1>2. /\ limit \in Nat /\ Len(pending) <= limit /\ lagged \in BOOLEAN /\ taken \in 0 .. Len(sends)
      /\ loop \in [at : Places, why : {"none", "error", "device"}]
  BY DEF IInv, TypeInv
<1>3. <<>> \in Seq(Waits) /\ Len(<<>>) = 0
  OBVIOUS
<1> QED BY <1>1, <1>2, <1>3

\* A send that timed out.
LEMMA TimedOutRecord ==
    ASSUME NEW s \in Records, s.status = "pending", NEW t \in Written(s, "timed out")
    PROVE  /\ t \in Records /\ t.code = s.code /\ t.confirmed = s.confirmed
           /\ t.wanted = "timed out" /\ t.status # "acknowledged"
<1>1. "timed out" \in Statuses
  BY StatusMembers
<1>2. /\ t \in Records /\ t.code = s.code /\ t.confirmed = s.confirmed
      /\ t.wanted = "timed out" /\ (t.status = "timed out" \/ t.status = s.status)
  BY <1>1, WrittenFields
<1> QED BY <1>2

\* The history of sends that timed out, up to the one that ended the loop.
LEMMA TimedOut ==
    ASSUME IInv, loop.at = "select", taken' = taken, events' = events,
           NEW T \in SUBSET (1 .. Len(pending)),
           Listed(sends', Len(sends)),
           \A n \in 1 .. Len(sends) :
              (\E i \in T : pending[i].send = n) => sends'[n] \in Written(sends[n], "timed out"),
           \A n \in 1 .. Len(sends) :
              (\A i \in T : pending[i].send # n) => sends'[n] = sends[n]
    PROVE  /\ sends' \in Seq(Records) /\ Len(sends') = Len(sends)
           /\ RecordsOK' /\ ConfirmedOK' /\ FinalStays
           /\ \A i \in T : ~Open(sends'[pending[i].send])
<1>1. /\ sends \in Seq(Records) /\ Len(sends) \in Nat
      /\ \A n \in 1 .. Len(sends) : sends[n] \in Records
  BY IdleTypes
<1>2. ASSUME NEW n \in 1 .. Len(sends), NEW i \in T, pending[i].send = n
      PROVE  /\ sends'[n] \in Records /\ sends'[n].wanted = "timed out" /\ sends'[n].code = sends[n].code
             /\ sends'[n].confirmed = sends[n].confirmed /\ sends'[n].status # "acknowledged"
             /\ Open(sends[n])
  <2>1. sends[n] \in Records /\ Open(sends[n])
    BY <1>2, PendingIsOpen
  <2>2. sends[n].status = "pending"
    BY <2>1 DEF Open, IInv, RecordsOK
  <2>3. sends'[n] \in Written(sends[n], "timed out")
    BY <1>2
  <2> QED BY <2>1, <2>2, <2>3, TimedOutRecord
<1>3. ASSUME NEW n \in 1 .. Len(sends), \A i \in T : pending[i].send # n PROVE sends'[n] = sends[n]
  BY <1>3
<1>4. sends' \in Seq(Records) /\ Len(sends') = Len(sends)
  <2>1. ASSUME NEW n \in 1 .. Len(sends) PROVE sends'[n] \in Records
    <3>1. CASE \E i \in T : pending[i].send = n
      BY <1>2, <3>1
    <3>2. CASE \A i \in T : pending[i].send # n
      <4>1. sends[n] \in Records
        BY <1>1
      <4> QED BY <1>3, <3>2, <4>1
    <3> QED BY <3>1, <3>2
  <2> QED BY <1>1, <2>1, HistoryIsSequence
<1>5. ASSUME NEW m \in 1 .. Len(sends)
      PROVE  \/ sends'[m] = sends[m]
             \/ /\ Open(sends[m]) /\ sends'[m].wanted # "pending" /\ Keeps(sends[m], sends'[m])
                /\ sends'[m].status = "acknowledged" => WasConfirmed(sends'[m].code)
  BY <1>2, <1>3 DEF Keeps
<1>6. RecordsOK' /\ ConfirmedOK' /\ FinalStays
  BY <1>4, <1>5, Settles DEF IInv
<1>7. ASSUME NEW i \in T PROVE ~Open(sends'[pending[i].send])
  <2>1. pending[i].send \in 1 .. Len(sends)
    BY PendingIsOpen
  <2>2. sends'[pending[i].send].wanted = "timed out"
    BY <1>2, <2>1
  <2> QED BY <2>2 DEF Open
<1> QED BY <1>4, <1>6, <1>7

\* The tick of the interval: what is due times out, and the rest is waited for further.
LEMMA ExpirePendingAcksIInv ==
    ASSUME IInv, ExpirePendingAcks
    PROVE  IInv' /\ FinalStays
<1>1. /\ sends \in Seq(Records) /\ pending \in Seq(Waits) /\ limit \in Nat /\ Len(sends) \in Nat
      /\ lagged \in BOOLEAN /\ DOMAIN pending = 1 .. Len(pending) /\ DOMAIN sends = 1 .. Len(sends)
      /\ taken \in 0 .. Len(sends) /\ loop.at = "select" /\ Len(pending) <= limit
      /\ UNCHANGED <<taken, events, lagged, linked, limit>>
      /\ loop \in [at : Places, why : {"none", "error", "device"}]
      /\ <<>> \in Seq(Waits) /\ Len(<<>>) <= limit
  BY IdleTypes DEF ExpirePendingAcks
<1>2. DueNow \in SUBSET (1 .. Len(pending))
  BY <1>1 DEF DueNow
<1>3. ASSUME sends' = [n \in DOMAIN sends |->
                         IF \E i \in DueNow : pending[i].send = n
                         THEN [sends[n] EXCEPT !.wanted = "timed out", !.status = "timed out"]
                         ELSE sends[n]],
             pending' = Kept(DOMAIN pending \ DueNow), UNCHANGED loop
      PROVE  IInv' /\ FinalStays
  <2>1. Listed(sends', Len(sends))
    BY <1>1, <1>3 DEF Listed
  <2>2. \A n \in 1 .. Len(sends) :
           /\ (\E i \in DueNow : pending[i].send = n) => sends'[n] \in Written(sends[n], "timed out")
           /\ (\A i \in DueNow : pending[i].send # n) => sends'[n] = sends[n]
    BY <1>1, <1>3 DEF Written
  <2>3. /\ sends' \in Seq(Records) /\ Len(sends') = Len(sends)
        /\ RecordsOK' /\ ConfirmedOK' /\ FinalStays
        /\ \A i \in DueNow : ~Open(sends'[pending[i].send])
    BY <1>1, <1>2, <2>1, <2>2, TimedOut
  <2> DEFINE S == (1 .. Len(pending)) \ DueNow
  <2>4. /\ S \in SUBSET (1 .. Len(pending)) /\ pending' = Kept(S)
        /\ \A i \in 1 .. Len(pending) : i \notin S <=> i \in DueNow
    BY <1>1, <1>2, <1>3
  <2> HIDE DEF S
  <2>5. pending' \in Seq(Waits) /\ Len(pending') <= limit
    <3>1. Kept(S) \in Seq(Waits) /\ Len(Kept(S)) <= Len(pending)
      BY <1>1, <2>4, KeptProperties
    <3> QED BY <1>1, <2>4, <3>1
  <2>6. TypeInv'
    BY <1>1, <1>3, <2>3, <2>5, TypeStays DEF IInv
  <2>7. ASSUME NEW m \in 1 .. taken, \A i \in 1 .. Len(pending) : i \notin S => pending[i].send # m
        PROVE  sends'[m] = sends[m]
    <3>1. m \in 1 .. Len(sends)
      <4> taken \in 0 .. Len(sends) /\ Len(sends) \in Nat
        BY <1>1
      <4> QED OBVIOUS
    <3>2. \A i \in DueNow : i \in 1 .. Len(pending) /\ i \notin S
      BY <1>2, <2>4
    <3>3. \A i \in DueNow : pending[i].send # m
      BY <2>7, <3>2
    <3> QED BY <2>2, <3>1, <3>3
  <2>8. WaitsOK' /\ NoneForgotten' /\ StageOK'
    BY <1>1, <1>3, <2>3, <2>4, <2>7, FewerWaits
  <2>9. LossOK'
    BY <1>1, <1>3 DEF IInv, LossOK
  <2> QED BY <2>3, <2>6, <2>8, <2>9 DEF IInv
<1>4. ASSUME NEW k \in DueNow, NEW s \in Written(sends[pending[k].send], "timed out"),
             sends' = [n \in DOMAIN sends |->
                         IF n = pending[k].send THEN s
                         ELSE IF \E i \in DueNow : i < k /\ pending[i].send = n
                         THEN [sends[n] EXCEPT !.wanted = "timed out", !.status = "timed out"]
                         ELSE sends[n]],
             pending' = <<>>, Ends("error")
      PROVE  IInv' /\ FinalStays
  <2> DEFINE T == {i \in DueNow : i < k \/ i = k}
  <2>1. Listed(sends', Len(sends))
    BY <1>1, <1>4 DEF Listed
  <2>2. ASSUME NEW n \in 1 .. Len(sends)
        PROVE  /\ (\E i \in T : pending[i].send = n) => sends'[n] \in Written(sends[n], "timed out")
               /\ (\A i \in T : pending[i].send # n) => sends'[n] = sends[n]
    <3>1. CASE n = pending[k].send
      <4>1. \E i \in T : pending[i].send = n
        BY <3>1
      <4>2. sends'[n] = s
        BY <1>1, <1>4, <3>1
      <4> QED BY <1>4, <3>1, <4>1, <4>2
    <3>2. CASE n # pending[k].send
      <4>1. (\E i \in T : pending[i].send = n) <=> (\E i \in DueNow : i < k /\ pending[i].send = n)
        BY <3>2
      <4>2. sends'[n] = IF \E i \in DueNow : i < k /\ pending[i].send = n
                         THEN [sends[n] EXCEPT !.wanted = "timed out", !.status = "timed out"]
                         ELSE sends[n]
        BY <1>1, <1>4, <3>2
      <4> QED BY <4>1, <4>2 DEF Written
    <3> QED BY <3>1, <3>2
  <2>3. T \in SUBSET (1 .. Len(pending))
    BY <1>2
  <2> HIDE DEF T
  <2>4. sends' \in Seq(Records) /\ Len(sends') = Len(sends) /\ RecordsOK' /\ ConfirmedOK' /\ FinalStays
    BY <1>1, <2>1, <2>2, <2>3, TimedOut
  <2>5. pending' \in Seq(Waits) /\ Len(pending') <= limit
    BY <1>1, <1>4
  <2>6. TypeInv'
    BY <1>1, <1>4, <2>4, <2>5, EndsType, TypeStays DEF IInv
  <2> QED BY <1>4, <2>4, <2>6, EndsWell DEF IInv
<1> QED BY <1>3, <1>4 DEF ExpirePendingAcks

\* The bridge is stopped.
LEMMA EndsOtherwiseIInv ==
    ASSUME IInv, EndsOtherwise
    PROVE  IInv' /\ FinalStays
<1>1. /\ loop.at = "select" /\ Ends("error") /\ lagged \in BOOLEAN
      /\ UNCHANGED <<sends, taken, pending, events, lagged, linked, limit>>
  BY DEF EndsOtherwise, IInv, TypeInv
<1> QED BY <1>1, IdleStep

-----------------------------------------------------------------------------
(* Around the bridge.                                                      *)

\* The channel of events stays within its capacity; what it holds was there or is the new event.
LEMMA PushProperties ==
    ASSUME TypeInv, NEW event \in Codes \cup {Lost, Other}, Push(event)
    PROVE  /\ events' \in Seq(Codes \cup {Lost, Other}) /\ Len(events') <= EventCapacity
           /\ lagged' \in BOOLEAN
           /\ \A i \in 1 .. Len(events') : events'[i] = event \/ \E j \in 1 .. Len(events) : events'[i] = events[j]
<1> DEFINE q == Append(events, event)
<1>1. /\ events \in Seq(Codes \cup {Lost, Other}) /\ Len(events) <= EventCapacity /\ lagged \in BOOLEAN
      /\ EventCapacity \in Nat /\ Len(events) \in Nat
  BY BrokerAssumption DEF TypeInv
<1>2. /\ q \in Seq(Codes \cup {Lost, Other}) /\ Len(q) = Len(events) + 1 /\ q[Len(events) + 1] = event
      /\ \A j \in 1 .. Len(events) : q[j] = events[j]
  BY <1>1
<1>3. ASSUME NEW i \in 1 .. Len(q) PROVE q[i] = event \/ \E j \in 1 .. Len(events) : q[i] = events[j]
  <2>1. i = Len(events) + 1 \/ i \in 1 .. Len(events)
    BY <1>1, <1>2
  <2> QED BY <1>2, <2>1
<1>4. (events' = Tail(q) /\ lagged' = TRUE /\ Len(q) > EventCapacity) \/ (events' = q /\ lagged' = lagged /\ ~(Len(q) > EventCapacity))
  BY DEF Push
<1> HIDE DEF q
<1>5. CASE events' = Tail(q) /\ lagged' = TRUE
  <2>1. q # <<>>
    BY <1>1, <1>2
  <2>2. /\ Tail(q) \in Seq(Codes \cup {Lost, Other}) /\ Len(Tail(q)) = Len(q) - 1
        /\ \A i \in 1 .. Len(Tail(q)) : i + 1 \in 1 .. Len(q) /\ Tail(q)[i] = q[i + 1]
    BY <1>2, <2>1
  <2>3. Len(events') <= EventCapacity
    BY <1>1, <1>2, <1>5, <2>2
  <2> QED BY <1>3, <1>5, <2>2, <2>3
<1>6. CASE events' = q /\ lagged' = lagged /\ ~(Len(q) > EventCapacity)
  BY <1>1, <1>2, <1>3, <1>6
<1> QED BY <1>4, <1>5, <1>6

\* A step of the world leaves the loop, its queue and the outcomes alone.
LEMMA OutsideStep ==
    ASSUME IInv, loop.at # "ended", loop' = loop, taken' = taken, limit' = limit, linked' \in BOOLEAN,
           sends' \in Seq(Records), Len(sends') = Len(sends),
           \A m \in 1 .. Len(sends) :
              /\ sends'[m].status = sends[m].status /\ sends'[m].wanted = sends[m].wanted
              /\ sends'[m].code = sends[m].code /\ sends'[m].kind = sends[m].kind
              /\ sends'[m].queued = sends[m].queued
              /\ sends'[m].confirmed = sends[m].confirmed \/ (sends[m].code # {} /\ sends'[m].confirmed = TRUE),
           pending' \in Seq(Waits), Len(pending') = Len(pending),
           \A i \in 1 .. Len(pending) :
              pending'[i].send = pending[i].send /\ pending'[i].code = pending[i].code,
           events' \in Seq(Codes \cup {Lost, Other}), Len(events') <= EventCapacity, lagged' \in BOOLEAN,
           \A i \in 1 .. Len(events') : events'[i] \notin {Lost, Other} =>
              \/ \E j \in 1 .. Len(events) : events'[i] = events[j]
              \/ \E m \in 1 .. Len(sends) : sends'[m].confirmed = TRUE /\ sends'[m].code = {events'[i]}
    PROVE  IInv' /\ FinalStays
<1> USE DEF IInv
<1>1. sends \in Seq(Records) /\ taken \in 0 .. Len(sends) /\ Len(sends) \in Nat /\ Len(sends) <= Len(sends')
  BY DEF TypeInv
<1>2. TypeInv'
  BY DEF TypeInv
<1>3. \A m \in 1 .. taken : m \in 1 .. Len(sends)
  BY <1>1
<1>4. ASSUME NEW m \in 1 .. Len(sends)
      PROVE  /\ Keeps(sends[m], sends'[m]) /\ (Open(sends'[m]) <=> Open(sends[m]))
             /\ Fresh(sends[m]) => Fresh(sends'[m])
  BY DEF Keeps, Open, Fresh
<1>5. RecordsOK'
  <2>1. \A m \in 1 .. Len(sends) : sends'[m].wanted = "pending" => sends'[m].status = "pending"
    BY DEF RecordsOK
  <2>2. \A m \in 1 .. Len(sends) : m > taken => Fresh(sends'[m])
    BY <1>4 DEF RecordsOK
  <2> QED BY <2>1, <2>2 DEF RecordsOK, Fresh
<1>6. ConfirmedOK'
  <2>1. ASSUME NEW m \in 1 .. Len(sends), sends'[m].status = "acknowledged"
        PROVE  \E l \in 1 .. Len(sends') : sends'[l].confirmed = TRUE /\ sends'[l].code = sends'[m].code
    <3>1. WasConfirmed(sends'[m].code)
      BY <2>1 DEF ConfirmedOK
    <3> QED BY <1>1, <1>4, <3>1, ConfirmationsStay
  <2>2. ASSUME NEW i \in 1 .. Len(events'), events'[i] \notin {Lost, Other}
        PROVE  \E l \in 1 .. Len(sends') : sends'[l].confirmed = TRUE /\ sends'[l].code = {events'[i]}
    <3>1. CASE \E j \in 1 .. Len(events) : events'[i] = events[j]
      <4>1. WasConfirmed({events'[i]})
        BY <2>2, <3>1 DEF ConfirmedOK
      <4> QED BY <1>1, <1>4, <4>1, ConfirmationsStay
    <3>2. CASE \E m \in 1 .. Len(sends) : sends'[m].confirmed = TRUE /\ sends'[m].code = {events'[i]}
      BY <3>2
    <3> QED BY <2>2, <3>1, <3>2
  <2> QED BY <2>1, <2>2 DEF ConfirmedOK, WasConfirmed
<1>7. Underway' <=> Underway
  BY DEF Underway
<1>8. StageOK'
  <2> SUFFICES ASSUME Underway PROVE StageOK'
    BY <1>7 DEF StageOK
  <2>1. taken >= 1 /\ taken \in 1 .. Len(sends)
    BY <1>1 DEF StageOK
  <2>2. sends'[taken].confirmed = sends[taken].confirmed \/ sends[taken].code # {}
    BY <2>1
  <2> QED BY <1>4, <2>1, <2>2 DEF StageOK, Fresh
<1>9. WaitsOK' /\ NoneForgotten'
  <2>1. \A m \in 1 .. taken : sends'[m].code = sends[m].code /\ (Open(sends'[m]) <=> Open(sends[m]))
    BY <1>3, <1>4
  <2>2. ASSUME Underway, taken \in 1 .. taken, Open(sends'[taken]) PROVE loop'.at = "sent"
    <3>1. Open(sends[taken])
      BY <2>1, <2>2
    <3> QED BY <2>2, <3>1 DEF StageOK, Underway, Open, Fresh
  <2> QED BY <1>7, <2>1, <2>2, SameWaits
<1>10. LossOK'
  BY DEF LossOK
<1>11. FinalStays
  BY DEF FinalStays
<1> QED BY <1>2, <1>5, <1>6, <1>8, <1>9, <1>10, <1>11

\* The destination confirms a send.
LEMMA ConfirmsIInv ==
    ASSUME IInv, NEW n \in DOMAIN sends, Confirms(n)
    PROVE  IInv' /\ FinalStays
<1>1. /\ n \in 1 .. Len(sends) /\ sends[n] \in Records /\ sends \in Seq(Records) /\ pending \in Seq(Waits)
  BY IdleTypes
<1>2. /\ sends[n].code # {} /\ loop.at # "ended" /\ UNCHANGED <<taken, loop, pending, linked, limit>>
      /\ Put(n, [sends[n] EXCEPT !.confirmed = TRUE]) /\ linked \in BOOLEAN
  BY DEF Confirms, Running, IInv, TypeInv
<1>3. PICK c \in sends[n].code : Push(c)
  BY DEF Confirms
<1>4. c \in Codes /\ sends[n].code = {c}
  <2>1. sends[n].code \in NoCodeOrOne
    BY <1>1 DEF Records
  <2> QED BY <1>3, <2>1 DEF NoCodeOrOne
<1> DEFINE s == [sends[n] EXCEPT !.confirmed = TRUE]
<1>5. /\ s \in Records /\ s.status = sends[n].status /\ s.wanted = sends[n].wanted /\ s.code = sends[n].code
      /\ s.kind = sends[n].kind /\ s.queued = sends[n].queued /\ s.confirmed = TRUE
  BY <1>1 DEF Records
<1>6. Put(n, s)
  BY <1>2
<1> HIDE DEF s
<1>7. /\ sends' \in Seq(Records) /\ Len(sends') = Len(sends) /\ sends'[n] = s
      /\ \A m \in 1 .. Len(sends) : m # n => sends'[m] = sends[m]
  BY <1>1, <1>5, <1>6, PutProperties
<1>8. ASSUME NEW m \in 1 .. Len(sends)
      PROVE  /\ sends'[m].status = sends[m].status /\ sends'[m].wanted = sends[m].wanted
             /\ sends'[m].code = sends[m].code /\ sends'[m].kind = sends[m].kind
             /\ sends'[m].queued = sends[m].queued
             /\ sends'[m].confirmed = sends[m].confirmed \/ (sends[m].code # {} /\ sends'[m].confirmed = TRUE)
  <2>1. CASE m = n
    BY <1>2, <1>5, <1>7, <2>1
  <2>2. CASE m # n
    BY <1>7, <2>2
  <2> QED BY <2>1, <2>2
<1>9. /\ events' \in Seq(Codes \cup {Lost, Other}) /\ Len(events') <= EventCapacity /\ lagged' \in BOOLEAN
      /\ \A i \in 1 .. Len(events') : events'[i] = c \/ \E j \in 1 .. Len(events) : events'[i] = events[j]
  BY <1>3, <1>4, PushProperties DEF IInv
<1>10. sends'[n].confirmed = TRUE /\ sends'[n].code = {c}
  BY <1>4, <1>5, <1>7
<1>11. ASSUME NEW i \in 1 .. Len(events')
       PROVE  \/ \E j \in 1 .. Len(events) : events'[i] = events[j]
              \/ \E m \in 1 .. Len(sends) : sends'[m].confirmed = TRUE /\ sends'[m].code = {events'[i]}
  BY <1>1, <1>9, <1>10
<1> QED BY <1>1, <1>2, <1>7, <1>8, <1>9, <1>11, OutsideStep

\* Other events of the device, its loss among them.
LEMMA DeviceEventIInv ==
    ASSUME IInv, OtherEvent \/ DeviceLost
    PROVE  IInv' /\ FinalStays
<1>1. sends \in Seq(Records) /\ pending \in Seq(Waits)
  BY IdleTypes
<1>2. loop.at # "ended" /\ UNCHANGED <<sends, taken, loop, pending, limit>> /\ linked' \in BOOLEAN
  BY DEF OtherEvent, DeviceLost, Running, IInv, TypeInv
<1>3. PICK event \in {Lost, Other} : Push(event)
  BY DEF OtherEvent, DeviceLost
<1>4. /\ events' \in Seq(Codes \cup {Lost, Other}) /\ Len(events') <= EventCapacity /\ lagged' \in BOOLEAN
      /\ \A i \in 1 .. Len(events') : events'[i] = event \/ \E j \in 1 .. Len(events) : events'[i] = events[j]
  BY <1>3, PushProperties DEF IInv
<1>5. \A i \in 1 .. Len(events') : events'[i] \notin {Lost, Other} => \E j \in 1 .. Len(events) : events'[i] = events[j]
  BY <1>3, <1>4
<1> QED BY <1>1, <1>2, <1>4, <1>5, OutsideStep

\* A deadline passes.
LEMMA AckIsDueIInv ==
    ASSUME IInv, NEW i \in DOMAIN pending, AckIsDue(i)
    PROVE  IInv' /\ FinalStays
<1>1. /\ sends \in Seq(Records) /\ pending \in Seq(Waits) /\ lagged \in BOOLEAN /\ linked \in BOOLEAN
      /\ events \in Seq(Codes \cup {Lost, Other}) /\ Len(events) <= EventCapacity
  BY DEF IInv, TypeInv
<1>2. loop.at # "ended" /\ UNCHANGED <<sends, taken, loop, events, lagged, linked, limit>>
      /\ pending' = [pending EXCEPT ![i].due = TRUE]
  BY DEF AckIsDue, Running
<1>3. i \in 1 .. Len(pending) /\ pending[i] \in Waits
  BY <1>1
<1> DEFINE w == [pending[i] EXCEPT !.due = TRUE]
<1>4. w \in Waits /\ w.send = pending[i].send /\ w.code = pending[i].code
  BY <1>3 DEF Waits
<1>5. pending' = [pending EXCEPT ![i] = w]
  BY <1>2
<1> HIDE DEF w
<1>6. /\ pending' \in Seq(Waits) /\ Len(pending') = Len(pending) /\ pending'[i] = w
      /\ \A j \in 1 .. Len(pending) : j # i => pending'[j] = pending[j]
  BY <1>1, <1>3, <1>4, <1>5
<1>7. ASSUME NEW j \in 1 .. Len(pending)
      PROVE  pending'[j].send = pending[j].send /\ pending'[j].code = pending[j].code
  BY <1>4, <1>6
<1> QED BY <1>1, <1>2, <1>6, <1>7, OutsideStep

-----------------------------------------------------------------------------
(* The theorems.                                                           *)

\* The invariant holds at the start.
LEMMA InitIInv == Init => IInv
<1> SUFFICES ASSUME Init PROVE IInv
  OBVIOUS
<1>1. /\ sends = <<>> /\ taken = 0 /\ pending = <<>> /\ events = <<>> /\ lagged = FALSE /\ linked = TRUE
      /\ limit \in Limits /\ loop = [at |-> "select", why |-> "none"]
  BY DEF Init
<1>2. <<>> \in Seq(Records) /\ <<>> \in Seq(Waits) /\ <<>> \in Seq(Codes \cup {Lost, Other}) /\ Len(<<>>) = 0
  OBVIOUS
<1>3. limit \in Nat \ {0} /\ 0 <= limit /\ EventCapacity \in Nat /\ 0 <= EventCapacity
  BY <1>1, BrokerAssumption
<1>4. loop.at = "select" /\ loop.why = "none" /\ loop \in [at : Places, why : {"none", "error", "device"}]
  <2>1. "select" \in Places
    BY PlaceMembers
  <2> QED BY <1>1, <2>1
<1>5. TypeInv
  <2>1. sends \in Seq(Records) /\ pending \in Seq(Waits) /\ events \in Seq(Codes \cup {Lost, Other})
    BY <1>1, <1>2
  <2>2. Len(sends) = 0 /\ Len(pending) = 0 /\ Len(events) = 0
    BY <1>1, <1>2
  <2>3. taken \in 0 .. Len(sends)
    <3>1. 0 \in 0 .. 0
      OBVIOUS
    <3> QED BY <1>1, <2>2, <3>1, Zenon
  <2>4. lagged \in BOOLEAN /\ linked \in BOOLEAN
    BY <1>1
  <2> QED BY <1>3, <1>4, <2>1, <2>2, <2>3, <2>4 DEF TypeInv
<1>6. \A n \in 1 .. Len(<<>>) : FALSE
  BY <1>2
<1>7. RecordsOK /\ ConfirmedOK
  BY <1>1, <1>6 DEF RecordsOK, ConfirmedOK
<1>8. StageOK
  BY <1>4 DEF StageOK, Underway
<1>9. WaitsOK /\ NoneForgotten /\ LossOK
  BY <1>1, <1>2, <1>4 DEF WaitsOK, NoneForgotten, LossOK
<1> QED BY <1>5, <1>7, <1>8, <1>9 DEF IInv

\* Every step of the bridge and of its world keeps the invariant and every outcome.
LEMMA NextIInv == IInv /\ [Next]_vars => IInv' /\ (FinalStays \/ UNCHANGED vars)
<1> SUFFICES ASSUME IInv, [Next]_vars PROVE IInv' /\ (FinalStays \/ UNCHANGED vars)
  OBVIOUS
<1>1. ASSUME NEW kind \in Kinds, NEW content \in Contents, Process(kind, content) PROVE IInv' /\ FinalStays
  BY <1>1, ProcessIInv
<1>2. CASE BridgeStep
  BY <1>2, TakeCommandIInv, BeginOutgoingIInv, ResolveIInv, SendFailsIInv, SendAcceptedIInv, SentIInv,
     ReceiveEventIInv, ExpirePendingAcksIInv DEF BridgeStep
<1>3. CASE EndsOtherwise
  BY <1>3, EndsOtherwiseIInv
<1>4. ASSUME NEW n \in DOMAIN sends, Confirms(n) PROVE IInv' /\ FinalStays
  BY <1>4, ConfirmsIInv
<1>5. CASE OtherEvent \/ DeviceLost
  BY <1>5, DeviceEventIInv
<1>6. ASSUME NEW i \in DOMAIN pending, AckIsDue(i) PROVE IInv' /\ FinalStays
  BY <1>6, AckIsDueIInv
<1>7. CASE UNCHANGED vars
  <2>0. TypeInv'
    BY <1>7 DEF vars, IInv, TypeInv
  <2>1. RecordsOK' /\ LossOK' /\ ConfirmedOK'
    BY <1>7 DEF vars, IInv, RecordsOK, Fresh, LossOK, Open, ConfirmedOK, WasConfirmed
  <2>2. StageOK' /\ WaitsOK' /\ NoneForgotten'
    BY <1>7 DEF vars, IInv, StageOK, Fresh, Underway, WaitsOK, NoneForgotten, Open
  <2> QED BY <1>7, <2>0, <2>1, <2>2 DEF IInv
<1> QED BY <1>1, <1>2, <1>3, <1>4, <1>5, <1>6, <1>7 DEF Next

\* A send is waited for once or not at all, as its record says.
LEMMA WaitedForOnce ==
    ASSUME IInv, loop.at = "select", NEW n \in 1 .. taken
    PROVE  LET waits == {i \in DOMAIN pending : pending[i].send = n}
           IN Cardinality(waits) =
                 IF sends[n].queued /\ sends[n].kind = "direct" /\ sends[n].wanted = "pending"
                 THEN 1 ELSE 0
<1> DEFINE waits == {i \in DOMAIN pending : pending[i].send = n}
<1>1. /\ DOMAIN pending = 1 .. Len(pending) /\ n \in 1 .. Len(sends) /\ sends[n] \in Records
  <2>1. DOMAIN pending = 1 .. Len(pending) /\ taken \in 0 .. Len(sends) /\ Len(sends) \in Nat
    BY IdleTypes
  <2>2. n \in 1 .. Len(sends)
    BY <2>1
  <2> QED BY <2>1, <2>2, IdleTypes
<1>2. sends[n].queued \in BOOLEAN
  BY <1>1 DEF Records
<1>3. Open(sends[n]) <=> (sends[n].queued /\ sends[n].kind = "direct" /\ sends[n].wanted = "pending")
  BY <1>2 DEF Open
<1>4. CASE Open(sends[n])
  <2>1. PICK i \in 1 .. Len(pending) : pending[i].send = n
    BY <1>4 DEF IInv, NoneForgotten
  <2>2. \A j \in 1 .. Len(pending) : pending[j].send = n => j = i
    BY <2>1 DEF IInv, WaitsOK
  <2>3. waits = {i}
    BY <1>1, <2>1, <2>2
  <2>4. Cardinality(waits) = 1
    BY <2>3, FS_Singleton
  <2> QED BY <1>3, <1>4, <2>4
<1>5. CASE ~Open(sends[n])
  <2>1. waits = {}
    BY <1>1, <1>5, PendingIsOpen
  <2>2. Cardinality(waits) = 0
    BY <2>1, FS_EmptySet
  <2> QED BY <1>3, <1>5, <2>2
<1> QED BY <1>4, <1>5

\* What the invariant says of the bridge and of its history.
LEMMA IInvSuffices == IInv => SendsAreTracked /\ SendsAreTrue
<1> SUFFICES ASSUME IInv PROVE SendsAreTracked /\ SendsAreTrue
  OBVIOUS
<1>1. DOMAIN sends = 1 .. Len(sends) /\ DOMAIN pending = 1 .. Len(pending)
  BY IdleTypes
<1>2. \A n \in 1 .. Len(sends) : /\ sends[n].status \in Statuses /\ sends[n].content = "fine"
                                 /\ sends[n].confirmed \in BOOLEAN /\ sends[n].queued \in BOOLEAN
  BY IdleTypes DEF Records
<1>3. TypeOK
  <2>1. loop.at \in Places
    BY IdleTypes
  <2> QED BY <1>1, <1>2, <2>1 DEF TypeOK, IInv, TypeInv, Statuses, Places
<1>4. PendingIsTracked
  <2> SUFFICES ASSUME loop.at = "select" PROVE PendingIsTracked
    BY DEF PendingIsTracked
  <2>1. ASSUME NEW i \in 1 .. Len(pending) PROVE sends[pending[i].send].status = "pending"
    <3>1. pending[i].send \in 1 .. Len(sends) /\ Open(sends[pending[i].send])
      BY PendingIsOpen
    <3> QED BY <3>1 DEF IInv, RecordsOK, Open
  <2> QED BY <1>1, <2>1, WaitedForOnce DEF PendingIsTracked
<1>5. LossLeavesNothingPending
  <2> SUFFICES ASSUME loop.why = "device", NEW n \in DOMAIN sends, sends[n].kind = "direct", sends[n].queued
               PROVE  sends[n].wanted # "pending"
    BY DEF LossLeavesNothingPending
  <2>1. ~Open(sends[n]) /\ sends[n].queued = TRUE
    BY <1>1, <1>2 DEF IInv, LossOK
  <2> QED BY <2>1 DEF Open
<1>6. OnlyAllowedIsSent
  BY <1>1, <1>2 DEF OnlyAllowedIsSent
<1>7. AcknowledgedIsConfirmed
  <2> SUFFICES ASSUME NEW n \in DOMAIN sends, sends[n].status = "acknowledged"
               PROVE  \E m \in DOMAIN sends : sends[m].confirmed /\ sends[m].code = sends[n].code
    BY DEF AcknowledgedIsConfirmed
  <2>1. PICK m \in 1 .. Len(sends) : sends[m].confirmed = TRUE /\ sends[m].code = sends[n].code
    BY <1>1 DEF IInv, ConfirmedOK, WasConfirmed
  <2> QED BY <1>1, <2>1
<1> QED BY <1>3, <1>4, <1>5, <1>6, <1>7 DEF SendsAreTracked, SendsAreTrue

\* Hence the bridge waits for exactly the sends whose outcome is open, never for more than
\* MAX_PENDING_ACKS of them, and a lost device leaves nothing pending (mqtt_cli.rs).
THEOREM SendsStayTracked == Spec => []SendsAreTracked
<1>1. IInv => SendsAreTracked
  BY IInvSuffices
<1> QED BY InitIInv, NextIInv, <1>1, PTL DEF Spec

\* What is sent was allowed, and what is recorded as acknowledged was confirmed.
THEOREM SendsStayTrue == Spec => []SendsAreTrue
<1>1. IInv => SendsAreTrue
  BY IInvSuffices
<1> QED BY InitIInv, NextIInv, <1>1, PTL DEF Spec

\* An outcome in the history is final: no later event, deadline or loss changes it.
THEOREM OutcomesAreFinal == Spec => OutcomeIsFinal
<1> DEFINE stays == \A n \in DOMAIN sends :
              sends[n].status \in {"failed", "acknowledged", "timed out"} => sends'[n].status = sends[n].status
<1>1. ASSUME IInv, FinalStays PROVE stays
  <2>1. DOMAIN sends = 1 .. Len(sends)
    BY <1>1, IdleTypes
  <2> QED BY <1>1, <2>1 DEF FinalStays, Final
<1>2. IInv /\ [Next]_vars => [stays]_vars
  BY <1>1, NextIInv
<1> HIDE DEF stays
<1>3. Spec => [][stays]_vars
  BY InitIInv, NextIInv, <1>2, PTL DEF Spec
<1> QED BY <1>3 DEF OutcomeIsFinal, stays

=============================================================================
