------------------------- MODULE LocalStore_proofs --------------------------
(***************************************************************************)
(* The commands of any number of processes on the store (lib.rs of         *)
(* meshquill-store) cannot wait for each other in a circle, no change of   *)
(* the configuration is lost, what migrate and repair replace is backed    *)
(* up, a password that the configuration refers to is in the keyring, and  *)
(* the history of a profile stays with it.                                 *)
(***************************************************************************)
EXTENDS LocalStore, Queues_proofs, FiniteSetTheorems, TLAPS

Ops == ConfigOps \cup {"none", "upsert", "load", "clear", "copy"}
Commands == [op : Ops, name : Names \cup {0}, to : Names \cup {0}, flag : BOOLEAN,
             entry : Entries \cup {NoEntry}, secret : 0 .. MaxCommands]
\* Histories in which no two records have the same ID, and those that retention leaves.
Histories == {es \in SUBSET Entries : \A x, y \in es : x.id = y.id => x = y}
Retained == {es \in Histories : IsFiniteSet(es) /\ Cardinality(es) <= MaxMessages}
FileContents == Configs \cup Histories \cup {Absent}

\* What a file may be replaced with.
Fits(f, c) == IF f = ConfigFile THEN c \in Configs
              ELSE IF Directory(f) = "canonical" THEN c \in Retained ELSE c \in Histories
Steps == {s \in [do : {"rename", "sync", "unlink", "backup"}, file : Files, content : FileContents,
                 onError : {"abort", "next", "undo"}] :
            /\ s.do = "rename" => Fits(s.file, s.content)
            /\ s.do = "unlink" => s.file # ConfigFile
            /\ s.do = "backup" => s.content \in Configs /\ s.onError = "abort"}
Procs == [at : {"idle", "locking", "working", "cleaning"}, cmd : Commands, wants : SUBSET Files,
          todo : Seq(Steps), ok : BOOLEAN, oldSecret : 0 .. MaxCommands]
Selections == [name : Names \cup {0}, device : Devices \cup {NoDevice}]
Disks == {d \in [Files -> FileContents] : \A f \in Files : d[f] = Absent \/ Fits(f, d[f])}

\* The types; intended comes later.
TypeInv ==
    /\ visible \in Disks /\ durable \in Disks
    /\ locks \in [Files -> Processes \cup {"free"}]
    /\ proc \in [Processes -> Procs]
    /\ selected \in [Processes -> Selections]
    /\ known \in [Processes -> Entries \cup {NoEntry}]
    /\ left \in 0 .. MaxCommands /\ newest \in 0 .. MaxEntry
    /\ vault \in SUBSET (0 .. MaxCommands)
    /\ backups \in [live : SUBSET Configs, kept : SUBSET Configs]
    /\ promised \in [Devices -> SUBSET Entries]

\* The files a command works on.
Needs(c) ==
    (IF c.op \in ConfigOps THEN {ConfigFile} ELSE {})
    \cup (IF c.op \in {"upsert", "load", "clear", "copy", "rename"} THEN HistoryLocks(c.name) ELSE {})
    \cup (IF c.op \in {"copy", "rename"} THEN HistoryLocks(c.to) ELSE {})

\* A command that has begun.
Begun(c) ==
    /\ c.op # "none"
    /\ c.op # "mqtt" => c.name \in Names /\ c.to \in Names
    /\ c.op = "upsert" => c.entry \in Entries
    /\ c.secret # NoSecret => c.op = "mqtt"

ProcOK(p) ==
    /\ proc[p].at = "idle" => proc[p] = Idle
    /\ proc[p].at \in {"locking", "working"} => Begun(proc[p].cmd)
    /\ proc[p].at # "locking" => proc[p].wants = {}
    /\ proc[p].at # "idle" /\ proc[p].cmd.op = "load" => selected[p] # NoSelection
    /\ known[p] # NoEntry => selected[p] # NoSelection
    /\ selected[p] # NoSelection => selected[p].name \in Names

\* What a process holds comes before what it still wants, and a working process has all it needs.
LocksOK(p) ==
    /\ \A f \in Files : locks[f] = p =>
          /\ proc[p].at \in {"locking", "working"}
          /\ \A g \in proc[p].wants : Precedes(f, g) /\ f # g
    /\ proc[p].at \in {"locking", "working"} =>
          \A f \in Needs(proc[p].cmd) : f \in proc[p].wants \/ locks[f] = p

\* The steps of a command are on its files, and only a rename undoes one.
StepsOf(c) == {s \in Steps : s.file \in Needs(c) /\ (s.onError = "undo" => c.op = "rename")}
PlanOK(p) == proc[p].at = "working" => proc[p].todo \in Seq(StepsOf(proc[p].cmd))

LockInv == TypeInv /\ \A p \in Processes : ProcOK(p) /\ LocksOK(p) /\ PlanOK(p)

-----------------------------------------------------------------------------
(* The order of the locks.                                                 *)

\* A file is known by its rank and its number.
LEMMA FileKinds ==
    ASSUME NEW f \in Files
    PROVE  /\ f[2] \in Nat /\ Rank(f) \in {0, 1, 2}
           /\ Rank(f) = 0 => f = ConfigFile
           /\ Rank(f) = 1 => f = Legacy(f[2])
           /\ Rank(f) = 2 => f = Canonical(f[2])
<1>1. CASE f = ConfigFile
  BY <1>1 DEF ConfigFile, Rank, Directory
<1>2. CASE f \in {Canonical(n) : n \in Names}
  <2>1. PICK n \in Names : f = <<"canonical", n>>
    BY <1>2 DEF Canonical
  <2>2. n \in Nat
    BY StoreAssumption
  <2> QED BY <2>1, <2>2 DEF Canonical, Rank, Directory
<1>3. CASE f \in {Legacy(n) : n \in Names}
  <2>1. PICK n \in Names : f = <<"legacy", n>>
    BY <1>3 DEF Legacy
  <2>2. n \in Nat
    BY StoreAssumption
  <2> QED BY <2>1, <2>2 DEF Legacy, Rank, Directory
<1> QED BY <1>1, <1>2, <1>3 DEF Files, HistoryFiles

\* The order in full.
LEMMA PrecedesMeans ==
    ASSUME NEW f \in Files, NEW g \in Files
    PROVE  Precedes(f, g) <=> (Rank(f) < Rank(g) \/ (Rank(f) = Rank(g) /\ f[2] <= g[2]))
<1>1. <<f, g>> \in Files \X Files /\ <<f, g>>[1] = f /\ <<f, g>>[2] = g
  OBVIOUS
<1> QED BY <1>1 DEF Precedes, InOrder

\* The order is total, and no two files have the same place in it.
LEMMA PrecedesIsOrder ==
    ASSUME NEW f \in Files, NEW g \in Files
    PROVE  /\ Precedes(f, g) \/ Precedes(g, f)
           /\ Precedes(f, f)
           /\ Precedes(f, g) /\ Precedes(g, f) => f = g
<1>1. f[2] \in Nat /\ g[2] \in Nat /\ Rank(f) \in {0, 1, 2} /\ Rank(g) \in {0, 1, 2}
  BY FileKinds
<1>2. Rank(f) = Rank(g) /\ f[2] = g[2] => f = g
  BY <1>1, FileKinds
<1> QED BY <1>1, <1>2, PrecedesMeans

\* ... and it is transitive.
LEMMA PrecedesTransitive ==
    ASSUME NEW f \in Files, NEW g \in Files, NEW h \in Files, Precedes(f, g), Precedes(g, h)
    PROVE  Precedes(f, h)
<1>1. /\ f[2] \in Nat /\ g[2] \in Nat /\ h[2] \in Nat
      /\ Rank(f) \in {0, 1, 2} /\ Rank(g) \in {0, 1, 2} /\ Rank(h) \in {0, 1, 2}
  BY FileKinds
<1> QED BY <1>1, PrecedesMeans

\* Every set of files has a first one.
LEMMA FirstFile ==
    ASSUME NEW W \in SUBSET Files, W # {}
    PROVE  \E f \in W : \A g \in W : Precedes(f, g)
<1> DEFINE ranks == {Rank(f) : f \in W}
<1>1. \A f \in W : f[2] \in Nat /\ Rank(f) \in Nat
  BY FileKinds
<1>2. PICK r \in ranks : \A q \in ranks : r <= q
  <2>1. ranks \subseteq Nat /\ ranks # {}
    BY <1>1
  <2> QED BY <2>1, LeastIndex
<1> DEFINE numbers == {f[2] : f \in {g \in W : Rank(g) = r}}
<1>3. PICK n \in numbers : \A m \in numbers : n <= m
  <2>1. numbers \subseteq Nat /\ numbers # {}
    BY <1>1, <1>2
  <2> QED BY <2>1, LeastIndex
<1>4. PICK f \in W : Rank(f) = r /\ f[2] = n
  BY <1>3
<1>5. ASSUME NEW g \in W PROVE Precedes(f, g)
  <2>1. Rank(f) <= Rank(g) /\ Rank(f) \in Nat /\ Rank(g) \in Nat
    BY <1>1, <1>2, <1>4
  <2>2. Rank(g) = Rank(f) => f[2] <= g[2]
    BY <1>3, <1>4
  <2> QED BY <1>4, <2>1, <2>2, PrecedesMeans
<1> QED BY <1>5

\* The next lock is wanted and comes before all others that are.
LEMMA NextLockIsFirst ==
    ASSUME TypeInv, NEW p \in Processes, proc[p].wants # {}
    PROVE  /\ NextLock(p) \in proc[p].wants /\ NextLock(p) \in Files
           /\ \A g \in proc[p].wants : Precedes(NextLock(p), g)
<1>1. proc[p].wants \in SUBSET Files
  BY DEF TypeInv, Procs
<1>2. \E f \in proc[p].wants : \A g \in proc[p].wants : Precedes(f, g)
  BY <1>1, FirstFile
<1> QED BY <1>1, <1>2 DEF NextLock

\* Among finitely many files there is a last one.
LEMMA LastFile ==
    ASSUME NEW S, IsFiniteSet(S), S # {}, NEW key \in [S -> Files]
    PROVE  \E p \in S : \A q \in S : Precedes(key[q], key[p])
<1> DEFINE n == Cardinality(S)
<1>1. n \in Nat /\ n # 0 /\ ExistsBijection(1 .. n, S)
  BY FS_CardinalityType, FS_EmptySet
<1> HIDE DEF n
<1>2. PICK b \in Bijection(1 .. n, S) : TRUE
  BY <1>1 DEF ExistsBijection
<1>3. b \in [1 .. n -> S] /\ \A p \in S : \E i \in 1 .. n : b[i] = p
  BY <1>2 DEF Bijection, Injection, Surjection
<1>4. \A i \in 1 .. n : key[b[i]] \in Files
  BY <1>3
<1> DEFINE good(m) == \E i \in 1 .. m : \A j \in 1 .. m : Precedes(key[b[j]], key[b[i]])
           bad == {m \in 1 .. n : ~good(m)}
<1>5. bad = {}
  <2> SUFFICES ASSUME bad # {} PROVE FALSE
    OBVIOUS
  <2>1. bad \subseteq Nat
    BY <1>1
  <2>2. PICK m \in bad : \A l \in bad : m <= l
    BY <2>1, LeastIndex
  <2>3. m \in 1 .. n /\ ~good(m) /\ m \in Nat
    BY <1>1, <2>2
  <2>4. CASE m = 1
    <3>1. 1 \in 1 .. n /\ \A j \in 1 .. 1 : j = 1
      BY <2>3, <2>4
    <3>2. Precedes(key[b[1]], key[b[1]])
      BY <1>4, <3>1, PrecedesIsOrder
    <3>3. good(1)
      BY <3>1, <3>2
    <3> HIDE DEF good
    <3> QED BY <2>3, <2>4, <3>3
  <2>5. CASE m # 1
    <3>1. m - 1 \in 1 .. n /\ ~(m <= m - 1) /\ \A j \in 1 .. m : j \in 1 .. m - 1 \/ j = m
      <4> HIDE DEF good, bad
      <4> QED BY <2>3, <2>5, <1>1
    <3>2. good(m - 1)
      <4> HIDE DEF good
      <4>1. m - 1 \notin bad
        BY <2>2, <3>1
      <4> QED BY <3>1, <4>1
    <3>3. PICK i \in 1 .. m - 1 : \A j \in 1 .. m - 1 : Precedes(key[b[j]], key[b[i]])
      BY <3>2
    <3>4. i \in 1 .. n /\ i \in 1 .. m /\ m \in 1 .. m
      BY <1>1, <2>3, <3>1, <3>3
    <3>5. \A j \in 1 .. m - 1 : j \in 1 .. n
      BY <1>1, <2>3
    <3>6. CASE Precedes(key[b[m]], key[b[i]])
      <4>1. ASSUME NEW j \in 1 .. m PROVE Precedes(key[b[j]], key[b[i]])
        <5>1. j \in 1 .. m - 1 \/ j = m
          BY <3>1
        <5> QED BY <3>3, <3>6, <5>1
      <4> QED BY <2>3, <3>4, <4>1
    <3>7. CASE Precedes(key[b[i]], key[b[m]])
      <4>1. \A j \in 1 .. m - 1 : Precedes(key[b[j]], key[b[m]])
        BY <1>4, <2>3, <3>3, <3>4, <3>5, <3>7, PrecedesTransitive
      <4>2. Precedes(key[b[m]], key[b[m]])
        BY <1>4, <2>3, PrecedesIsOrder
      <4>3. ASSUME NEW j \in 1 .. m PROVE Precedes(key[b[j]], key[b[m]])
        <5>1. j \in 1 .. m - 1 \/ j = m
          BY <3>1
        <5> QED BY <4>1, <4>2, <5>1
      <4> QED BY <2>3, <3>4, <4>3
    <3> QED BY <1>4, <2>3, <3>4, <3>6, <3>7, PrecedesIsOrder
  <2> QED BY <2>4, <2>5
<1>6. good(n)
  <2> HIDE DEF good
  <2>1. n \in 1 .. n
    BY <1>1
  <2> QED BY <1>5, <2>1
<1> QED BY <1>3, <1>6

\* Nobody waits in a circle: who waits for a lock waits for one behind all that it holds.
LEMMA NoCycle ==
    ASSUME LockInv
    PROVE  NoLockCycle
<1> SUFFICES ASSUME NEW S \in SUBSET Processes, S # {},
                    \A p \in S : Waiting(p) /\ locks[NextLock(p)] \in S
             PROVE  FALSE
  BY DEF NoLockCycle
<1>1. ASSUME NEW p \in S
      PROVE  /\ NextLock(p) \in proc[p].wants /\ NextLock(p) \in Files
             /\ \A g \in proc[p].wants : Precedes(NextLock(p), g)
  <2>1. TypeInv /\ p \in Processes /\ proc[p].wants # {}
    BY DEF LockInv, Waiting
  <2> HIDE DEF TypeInv
  <2> QED BY <2>1, NextLockIsFirst
<1> DEFINE key == [p \in S |-> NextLock(p)]
<1>2. key \in [S -> Files]
  BY <1>1
<1>3. IsFiniteSet(S)
  BY StoreAssumption, FS_Subset
<1>4. PICK p \in S : \A q \in S : Precedes(NextLock(q), NextLock(p))
  <2>1. PICK p \in S : \A q \in S : Precedes(key[q], key[p])
    BY <1>2, <1>3, LastFile
  <2> QED BY <2>1
<1> DEFINE q == locks[NextLock(p)]
<1>5. q \in S /\ q \in Processes
  OBVIOUS
<1>6. LocksOK(q)
  BY <1>5 DEF LockInv
<1>7. Precedes(NextLock(p), NextLock(q)) /\ NextLock(p) # NextLock(q)
  BY <1>1, <1>5, <1>6 DEF LocksOK
<1>8. Precedes(NextLock(q), NextLock(p))
  BY <1>4, <1>5
<1> QED BY <1>1, <1>5, <1>7, <1>8, PrecedesIsOrder

-----------------------------------------------------------------------------
(* Contents of files.                                                      *)

\* Records with IDs of their own are finitely many.
LEMMA HistoriesAreFinite ==
    ASSUME NEW es \in Histories
    PROVE  IsFiniteSet(es)
<1> DEFINE ids == [e \in es |-> e.id]
<1>1. ids \in [es -> 1 .. MaxEntry]
  BY DEF Histories, Entries
<1>2. \A x, y \in es : ids[x] = ids[y] => x = y
  BY DEF Histories
<1>3. ids \in Injection(es, 1 .. MaxEntry)
  BY <1>1, <1>2 DEF Injection, IsInjective
<1>4. IsFiniteSet(1 .. MaxEntry)
  BY StoreAssumption, FS_Interval
<1> HIDE DEF ids
<1> QED BY <1>3, <1>4, FS_Injection

\* sort and drain leave at most max_messages records.
LEMMA NewestIsRetained ==
    ASSUME NEW es \in Histories
    PROVE  Newest(es) \in Retained
<1> DEFINE N == Newest(es)
<1>1. N \subseteq es /\ es \subseteq Entries /\ \A x, y \in es : x.id = y.id => x = y
  BY DEF Newest, Histories
<1>2. N \in Histories
  BY <1>1 DEF Histories
<1>3. IsFiniteSet(N) /\ IsFiniteSet(es)
  BY <1>2, HistoriesAreFinite
<1>4. MaxMessages \in Nat /\ MaxMessages # 0
  BY StoreAssumption
<1>5. CASE N = {}
  <2>1. Cardinality(N) = 0
    BY <1>5, FS_EmptySet
  <2> QED BY <1>2, <1>3, <1>4, <2>1 DEF Retained
<1>6. CASE N # {}
  <2> DEFINE ids == {e.id : e \in N}
  <2>1. ids \subseteq Nat /\ ids # {}
    BY <1>1, <1>6 DEF Entries
  <2>2. PICK i \in ids : \A j \in ids : i <= j
    BY <2>1, LeastIndex
  <2>3. PICK e \in N : e.id = i
    BY <2>2
  <2> DEFINE above == {x \in es : x.id > e.id}
  <2>4. Cardinality(above) < MaxMessages
    BY <2>3 DEF Newest
  <2>5. N \ {e} \subseteq above
    <3> SUFFICES ASSUME NEW x \in N, x # e PROVE x \in es /\ x.id > e.id
      OBVIOUS
    <3>1. x \in es /\ e \in es /\ x.id # e.id
      BY <1>1, <2>3
    <3>2. x.id \in Nat /\ e.id \in Nat
      BY <1>1, <3>1 DEF Entries
    <3>3. e.id <= x.id
      BY <2>2, <2>3
    <3> QED BY <3>1, <3>2, <3>3
  <2>6. IsFiniteSet(above)
    BY <1>3, FS_Subset
  <2>7. Cardinality(N \ {e}) <= Cardinality(above)
    BY <2>5, <2>6, FS_Subset
  <2>8. Cardinality(N \ {e}) = Cardinality(N) - 1
    BY <1>3, <2>3, FS_RemoveElement
  <2>9. Cardinality(above) \in Nat /\ Cardinality(N) \in Nat
    BY <1>3, <2>6, FS_CardinalityType
  <2>10. Cardinality(N) <= MaxMessages
    <3> HIDE DEF N, above
    <3> QED BY <1>4, <2>4, <2>7, <2>8, <2>9
  <2> QED BY <1>2, <1>3, <2>10 DEF Retained
<1> QED BY <1>5, <1>6

\* merge_entries
LEMMA MergedIsRetained ==
    ASSUME NEW lower \in Histories, NEW higher \in Histories
    PROVE  MergeEntries(lower, higher) \in Retained
<1> DEFINE all == {e \in lower : ~HasId(higher, e.id)} \cup higher
<1>1. all \in Histories
  BY DEF Histories, HasId
<1>2. MergeEntries(lower, higher) = Newest(all)
  BY DEF MergeEntries
<1> HIDE DEF all
<1> QED BY <1>1, <1>2, NewestIsRetained

\* An upsert replaces the record with the ID of the new one.
LEMMA UpsertedIsRetained ==
    ASSUME NEW es \in Histories, NEW e \in Entries
    PROVE  Newest({x \in es : x.id # e.id} \cup {e}) \in Retained
<1>1. {x \in es : x.id # e.id} \cup {e} \in Histories
  BY DEF Histories
<1> QED BY <1>1, NewestIsRetained

\* What the files of a name hold.
LEMMA HistoryTypes ==
    ASSUME TypeInv, NEW n \in Names
    PROVE  /\ Canonical(n) \in Files /\ Legacy(n) \in Files
           /\ Canonical(n) # ConfigFile /\ Legacy(n) # ConfigFile
           /\ Content(Canonical(n)) \in Retained /\ Content(Legacy(n)) \in Histories
           /\ View(n) \in Retained
<1>1. Canonical(n) \in Files /\ Legacy(n) \in Files /\ Canonical(n) # ConfigFile /\ Legacy(n) # ConfigFile
  BY DEF Files, HistoryFiles, Canonical, Legacy, ConfigFile
<1>2. Directory(Canonical(n)) = "canonical" /\ Directory(Legacy(n)) = "legacy"
  BY DEF Directory, Canonical, Legacy
<1>3. \A f \in Files : visible[f] = Absent \/ Fits(f, visible[f])
  BY DEF TypeInv, Disks
<1>4. {} \in Retained /\ {} \in Histories
  BY FS_EmptySet, StoreAssumption DEF Retained, Histories
<1>5. Content(Canonical(n)) \in Retained
  BY <1>1, <1>2, <1>3, <1>4 DEF Content, Present, Fits
<1>6. Content(Legacy(n)) \in Histories
  BY <1>1, <1>2, <1>3, <1>4 DEF Content, Present, Fits
<1>7. View(n) \in Retained
  BY <1>5, <1>6, MergedIsRetained DEF View, Retained
<1> QED BY <1>1, <1>5, <1>6, <1>7

\* What the configuration file holds.
LEMMA ConfigTypes ==
    ASSUME TypeInv
    PROVE  /\ ConfigFile \in Files
           /\ visible[ConfigFile] \in Configs \cup {Absent} /\ durable[ConfigFile] \in Configs \cup {Absent}
           /\ Loaded \in Configs /\ DefaultConfig \in Configs
<1>1. ConfigFile \in Files
  BY DEF Files
<1>2. visible[ConfigFile] \in Configs \cup {Absent} /\ durable[ConfigFile] \in Configs \cup {Absent}
  BY <1>1 DEF TypeInv, Disks, Fits
<1>3. DefaultConfig \in Configs
  BY StoreAssumption DEF DefaultConfig, Config, Configs, Formats, Transports, NoDefault, NoSecret
<1> QED BY <1>1, <1>2, <1>3 DEF Loaded, Present

\* The types of the proof imply those of the model.
LEMMA TypesHold ==
    ASSUME TypeInv
    PROVE  TypeOK
<1>1. \A n \in Names : Cardinality(Content(Canonical(n))) <= MaxMessages
  BY HistoryTypes DEF Retained
<1>2. ASSUME NEW f \in HistoryFiles
      PROVE  /\ visible[f] = Absent \/ visible[f] \subseteq Entries
             /\ durable[f] = Absent \/ durable[f] \subseteq Entries
  <2>1. f \in Files /\ f # ConfigFile
    BY DEF Files, HistoryFiles, Canonical, Legacy, ConfigFile
  <2> QED BY <2>1 DEF TypeInv, Disks, Fits, Retained, Histories
<1>3. DOMAIN visible = Files /\ DOMAIN durable = Files
  BY DEF TypeInv, Disks
<1>4. \A p \in Processes : proc[p].at \in {"idle", "locking", "working", "cleaning"}
  BY DEF TypeInv, Procs
<1> QED BY <1>1, <1>2, <1>3, <1>4 DEF TypeInv, TypeOK

-----------------------------------------------------------------------------
(* Plans.                                                                  *)

\* While a name is not configured an identity is left for it.
LEMMA UnusedIsDevice ==
    ASSUME NEW config \in Configs, NEW n \in Names, ~Configured(config, n)
    PROVE  Unused(config) \in Devices /\ \A m \in Names : config.profiles[m] # Unused(config)
<1> DEFINE others == Names \ {n}
           given == [m \in others |-> config.profiles[m]]
           taken == {given[m] : m \in others}
<1>1. IsFiniteSet(Names) /\ IsFiniteSet(Devices) /\ NoDevice \notin Devices
      /\ Cardinality(Devices) >= Cardinality(Names)
  BY StoreAssumption
<1>2. IsFiniteSet(others) /\ Cardinality(others) = Cardinality(Names) - 1
  BY <1>1, FS_RemoveElement
<1>3. given \in Surjection(others, taken)
  BY DEF Surjection
<1>4. IsFiniteSet(taken) /\ Cardinality(taken) <= Cardinality(others)
  <2> HIDE DEF given, taken, others
  <2> QED BY <1>2, <1>3, FS_Surjection
<1>5. \E d \in Devices : \A m \in Names : config.profiles[m] # d
  <2> SUFFICES ASSUME \A d \in Devices : \E m \in Names : config.profiles[m] = d PROVE FALSE
    OBVIOUS
  <2>1. config.profiles[n] = NoDevice
    BY DEF Configured
  <2>2. Devices \subseteq taken
    BY <1>1, <2>1
  <2> HIDE DEF given, taken, others
  <2>3. Cardinality(Devices) <= Cardinality(taken)
    BY <1>4, <2>2, FS_Subset
  <2>4. Cardinality(Devices) \in Nat /\ Cardinality(taken) \in Nat /\ Cardinality(others) \in Nat
        /\ Cardinality(Names) \in Nat
    BY <1>1, <1>2, <1>4, FS_CardinalityType
  <2> QED BY <1>1, <1>2, <1>4, <2>3, <2>4
<1> QED BY <1>5 DEF Unused

\* A configuration keeps its type when a name gets a device and a default is set.
LEMMA WithIsConfig ==
    ASSUME NEW config \in Configs, NEW n \in Names, NEW d \in Devices \cup {NoDevice}, NEW t \in Transports
    PROVE  With(config, n, d, t) \in Configs
  BY DEF With, Configs

\* ... and when only the default changes.
LEMMA DefaultIsConfig ==
    ASSUME NEW config \in Configs, NEW n \in Names \cup {NoDefault}
    PROVE  [config EXCEPT !.default = n] \in Configs
  BY DEF Configs

\* What a command that is not refused makes of the configuration is a configuration.
LEMMA UpdatedIsConfig ==
    ASSUME TypeInv, NEW c \in Commands, Begun(c), c.op \in ConfigOps, ~Refused(c)
    PROVE  Updated(Loaded, c) \in Configs
<1>1. Loaded \in Configs /\ DefaultConfig \in Configs
  BY ConfigTypes
<1>2. c.op # "mqtt" => c.name \in Names /\ c.to \in Names
  BY DEF Begun
<1>3. /\ Loaded.profiles \in [Names -> Devices \cup {NoDevice}]
      /\ Loaded.default \in Names \cup {NoDefault} /\ Loaded.transport \in [Names -> Transports]
      /\ 0 \in Transports /\ 1 \in Transports
  BY <1>1 DEF Configs, Transports
<1>4. CASE c.op \in {"init", "import"}
  <2>1. ~Configured(Loaded, c.name) /\ c.name \in Names
    BY <1>2, <1>4 DEF Refused
  <2> DEFINE w == With(Loaded, c.name, Unused(Loaded), 0)
  <2>2. w \in Configs
    BY <1>1, <1>3, <2>1, UnusedIsDevice, WithIsConfig
  <2>3. w.default \in Names \cup {NoDefault}
    BY <2>2 DEF Configs
  <2> HIDE DEF w
  <2>4. [w EXCEPT !.default = IF @ = NoDefault \/ c.flag THEN c.name ELSE @] \in Configs
    BY <2>1, <2>2, <2>3, DefaultIsConfig
  <2>5. [w EXCEPT !.default = IF @ = NoDefault THEN c.name ELSE @] \in Configs
    BY <2>1, <2>2, <2>3, DefaultIsConfig
  <2> QED BY <1>4, <2>4, <2>5 DEF Updated, Initialized, Imported, w
<1>5. CASE c.op = "delete"
  <2> DEFINE w == With(Loaded, c.name, NoDevice, 0)
  <2>1. w \in Configs
    BY <1>1, <1>2, <1>3, <1>5, WithIsConfig
  <2>2. w.default \in Names \cup {NoDefault}
    BY <2>1 DEF Configs
  <2> HIDE DEF w
  <2>3. [w EXCEPT !.default = IF @ = c.name THEN NoDefault ELSE @] \in Configs
    BY <2>1, <2>2, DefaultIsConfig
  <2> QED BY <1>5, <2>3 DEF Updated, Deleted, w
<1>6. CASE c.op = "rename"
  <2>1. /\ c.name \in Names /\ c.to \in Names /\ Loaded.profiles[c.name] \in Devices \cup {NoDevice}
        /\ Loaded.transport[c.name] \in Transports
    BY <1>2, <1>3, <1>6
  <2> DEFINE v == With(Loaded, c.to, Loaded.profiles[c.name], Loaded.transport[c.name])
             w == With(v, c.name, NoDevice, 0)
  <2>2. w \in Configs
    <3>1. v \in Configs
      BY <1>1, <2>1, WithIsConfig
    <3> HIDE DEF v
    <3> QED BY <1>3, <2>1, <3>1, WithIsConfig
  <2>3. w.default \in Names \cup {NoDefault}
    BY <2>2 DEF Configs
  <2> HIDE DEF w
  <2>4. [w EXCEPT !.default = IF @ = c.name THEN c.to ELSE @] \in Configs
    BY <2>1, <2>2, <2>3, DefaultIsConfig
  <2> QED BY <1>6, <2>4 DEF Updated, Renamed, w, v
<1>7. CASE c.op = "set_default"
  BY <1>1, <1>2, <1>7, DefaultIsConfig DEF Updated, DefaultSet
<1>8. CASE c.op = "reconfigure"
  <2>1. Reconfigured(Loaded, c) \in Configs
    BY <1>1, <1>2, <1>3, <1>8 DEF Reconfigured, Configs
  <2> QED BY <1>8, <2>1 DEF Updated
<1>9. CASE c.op = "migrate"
  <2>1. Migrated(Loaded) \in Configs
    BY <1>1 DEF Migrated, Configs, Formats
  <2> QED BY <1>9, <2>1 DEF Updated
<1>10. CASE c.op = "repair"
  BY <1>1, <1>10 DEF Updated
<1>11. CASE c.op = "mqtt"
  <2>1. MqttConfigured(Loaded, c) \in Configs
    BY <1>1 DEF MqttConfigured, Configs, Commands
  <2> QED BY <1>11, <2>1 DEF Updated
<1>12. CASE c.op = "mqtt_keep"
  BY <1>1, <1>12 DEF Updated
<1> QED BY <1>4, <1>5, <1>6, <1>7, <1>8, <1>9, <1>10, <1>11, <1>12 DEF ConfigOps

\* A command that has begun works on files of the store.
LEMMA NeedsAreFiles ==
    ASSUME NEW c \in Commands, Begun(c)
    PROVE  Needs(c) \subseteq Files
<1>1. ASSUME NEW n \in Names PROVE HistoryLocks(n) \subseteq Files
  BY DEF HistoryLocks, Files, HistoryFiles
<1>2. ConfigFile \in Files
  BY DEF Files
<1>3. c.op # "mqtt" => c.name \in Names /\ c.to \in Names
  BY DEF Begun
<1> QED BY <1>1, <1>2, <1>3 DEF Needs

\* Replace and Unlink on the files of a command.
LEMMA ReplaceSteps ==
    ASSUME NEW c \in Commands, Begun(c), NEW f \in Needs(c), NEW content, Fits(f, content),
           NEW e \in {"abort", "undo"}, e = "undo" => c.op = "rename"
    PROVE  Replace(f, content, e) \in Seq(StepsOf(c))
<1>1. f \in Files
  BY NeedsAreFiles
<1>2. content \in FileContents /\ Absent \in FileContents
  BY DEF Fits, FileContents, Retained
<1>3. Step("rename", f, content, e) \in Steps /\ Step("sync", f, Absent, e) \in Steps
  BY <1>1, <1>2 DEF Step, Steps
<1>4. Step("rename", f, content, e) \in StepsOf(c) /\ Step("sync", f, Absent, e) \in StepsOf(c)
  BY <1>3 DEF StepsOf, Step
<1> QED BY <1>4 DEF Replace

\* Unlink likewise.
LEMMA UnlinkSteps ==
    ASSUME NEW c \in Commands, Begun(c), NEW f \in Needs(c), f # ConfigFile, NEW e \in {"abort", "next"}
    PROVE  Unlink(f, e) \in Seq(StepsOf(c))
<1>1. f \in Files /\ Absent \in FileContents
  BY NeedsAreFiles DEF FileContents
<1>2. Step("unlink", f, Absent, e) \in Steps
  BY <1>1 DEF Step, Steps
<1>3. Step("unlink", f, Absent, e) \in StepsOf(c)
  BY <1>2 DEF StepsOf, Step
<1> QED BY <1>3 DEF Unlink

\* Two plans one after the other.
LEMMA JoinedSteps ==
    ASSUME NEW S, NEW s \in Seq(S), NEW t \in Seq(S)
    PROVE  s \o t \in Seq(S)
  OBVIOUS

\* The plans on the history of the name that a command is about.
LEMMA HistoryPlans ==
    ASSUME TypeInv, NEW c \in Commands, Begun(c), NEW n \in Names, HistoryLocks(n) \subseteq Needs(c)
    PROVE  /\ ClearPlan(n) \in Seq(StepsOf(c)) /\ LoadPlan(n) \in Seq(StepsOf(c))
           /\ \A e \in Entries : UpsertPlan(n, e) \in Seq(StepsOf(c))
<1>1. Canonical(n) \in Needs(c) /\ Legacy(n) \in Needs(c)
  BY DEF HistoryLocks
<1>2. /\ Canonical(n) # ConfigFile /\ Legacy(n) # ConfigFile
      /\ View(n) \in Retained
  BY HistoryTypes
<1>3. \A content \in Retained : Fits(Canonical(n), content)
  BY DEF Fits, Directory, Canonical, ConfigFile
<1>4. \A content \in Retained : Replace(Canonical(n), content, "abort") \in Seq(StepsOf(c))
  BY <1>1, <1>3, ReplaceSteps
<1>5. \A e \in {"abort", "next"} : Unlink(Canonical(n), e) \in Seq(StepsOf(c))
                                   /\ Unlink(Legacy(n), e) \in Seq(StepsOf(c))
  BY <1>1, <1>2, UnlinkSteps
<1>6. ClearPlan(n) \in Seq(StepsOf(c))
  BY <1>5, JoinedSteps DEF ClearPlan
<1>7. LoadPlan(n) \in Seq(StepsOf(c))
  <2>1. <<>> \in Seq(StepsOf(c))
    OBVIOUS
  <2>2. Replace(Canonical(n), View(n), "abort") \in Seq(StepsOf(c))
    BY <1>2, <1>4
  <2>3. Replace(Canonical(n), View(n), "abort") \o Unlink(Legacy(n), "abort") \in Seq(StepsOf(c))
    BY <1>5, <2>2, JoinedSteps
  <2> QED BY <2>1, <2>2, <2>3 DEF LoadPlan
<1>8. ASSUME NEW e \in Entries PROVE UpsertPlan(n, e) \in Seq(StepsOf(c))
  <2>1. Newest({x \in View(n) : x.id # e.id} \cup {e}) \in Retained
    BY <1>2, UpsertedIsRetained DEF Retained
  <2>2. Replace(Canonical(n), Newest({x \in View(n) : x.id # e.id} \cup {e}), "abort") \in Seq(StepsOf(c))
    BY <1>4, <2>1
  <2> QED BY <1>7, <2>2, JoinedSteps DEF UpsertPlan
<1> QED BY <1>6, <1>7, <1>8

\* The copy of a history, which rename begins with.
LEMMA CopySteps ==
    ASSUME TypeInv, NEW c \in Commands, Begun(c), c.op \in {"copy", "rename"}
    PROVE  CopyPlan(c.name, c.to) \in Seq(StepsOf(c))
<1>1. /\ c.name \in Names /\ c.to \in Names
      /\ HistoryLocks(c.name) \subseteq Needs(c) /\ HistoryLocks(c.to) \subseteq Needs(c)
  BY DEF Begun, Needs
<1>2. LoadPlan(c.name) \in Seq(StepsOf(c))
  BY <1>1, HistoryPlans
<1>3. Canonical(c.to) \in Needs(c)
  BY <1>1 DEF HistoryLocks
<1>4. View(c.name) \in Retained
  BY <1>1, HistoryTypes
<1>5. Fits(Canonical(c.to), View(c.name))
  BY <1>4 DEF Fits, Directory, Canonical, ConfigFile
<1>6. Replace(Canonical(c.to), View(c.name), "abort") \in Seq(StepsOf(c))
  BY <1>3, <1>5, ReplaceSteps
<1>7. <<>> \in Seq(StepsOf(c))
  OBVIOUS
<1> QED BY <1>2, <1>6, <1>7, JoinedSteps DEF CopyPlan

\* Every plan consists of steps of its command.
LEMMA PlanSteps ==
    ASSUME TypeInv, NEW c \in Commands, Begun(c), ~RefusedHere(c)
    PROVE  Plan(c) \in Seq(StepsOf(c))
<1>1. c.op \in Ops /\ c.op # "none"
  BY DEF Commands, Begun
<1>2. c.op # "mqtt" => c.name \in Names /\ c.to \in Names
  BY DEF Begun
<1>3. c.op \in {"upsert", "load", "clear", "copy", "rename"} => HistoryLocks(c.name) \subseteq Needs(c)
  BY DEF Needs
<1>4. CASE c.op \in {"load", "upsert", "clear"}
  <2>1. c.op = "upsert" => c.entry \in Entries
    BY DEF Begun
  <2> QED BY <1>2, <1>3, <1>4, <2>1, HistoryPlans DEF Plan
<1>5. CASE c.op = "copy"
  BY <1>5, CopySteps DEF Plan
<1>6. CASE c.op \in ConfigOps
  <2>1. Updated(Loaded, c) \in Configs /\ ConfigFile \in Needs(c)
    BY <1>6, UpdatedIsConfig DEF RefusedHere, Needs
  <2>2. Fits(ConfigFile, Updated(Loaded, c))
    BY <2>1 DEF Fits
  <2>3. \A e \in {"abort", "undo"} : (e = "undo" => c.op = "rename") =>
            Replace(ConfigFile, Updated(Loaded, c), e) \in Seq(StepsOf(c))
    BY <2>1, <2>2, ReplaceSteps
  <2>4. Plan(c) = ConfigPlan(c)
    BY <1>6 DEF Plan, ConfigOps
  <2>5. CASE c.op = "rename"
    <3>1. c.name \in Names /\ HistoryLocks(c.name) \subseteq Needs(c)
      BY <1>2, <1>3, <2>5
    <3>2. ClearPlan(c.name) \in Seq(StepsOf(c)) /\ CopyPlan(c.name, c.to) \in Seq(StepsOf(c))
      BY <2>5, <3>1, HistoryPlans, CopySteps
    <3>3. Updated(Loaded, c) = Renamed(Loaded, c)
      BY <2>5 DEF Updated
    <3>4. \A e \in {"abort", "undo"} :
            CopyPlan(c.name, c.to) \o Replace(ConfigFile, Renamed(Loaded, c), e) \o ClearPlan(c.name)
              \in Seq(StepsOf(c))
      BY <2>3, <2>5, <3>2, <3>3, JoinedSteps
    <3>5. MovePlan(c.name, c.to, Renamed(Loaded, c)) \in Seq(StepsOf(c))
      BY <3>4 DEF MovePlan
    <3> QED BY <2>4, <2>5, <3>5 DEF ConfigPlan
  <2>6. CASE c.op \in {"migrate", "repair"}
    <3>1. ConfigFile \in Files /\ visible[ConfigFile] \in Configs \cup {Absent}
      BY ConfigTypes
    <3>2. BackupPlan \in Seq(StepsOf(c))
      <4>1. CASE Present(ConfigFile)
        <5>1. Step("backup", ConfigFile, visible[ConfigFile], "abort") \in Steps
          BY <3>1, <4>1 DEF Step, Steps, Present, FileContents
        <5>2. Step("backup", ConfigFile, visible[ConfigFile], "abort") \in StepsOf(c)
          BY <2>1, <5>1 DEF StepsOf, Step
        <5> QED BY <4>1, <5>2 DEF BackupPlan
      <4>2. CASE ~Present(ConfigFile)
        <5>1. <<>> \in Seq(StepsOf(c))
          OBVIOUS
        <5> QED BY <4>2, <5>1 DEF BackupPlan
      <4> QED BY <4>1, <4>2
    <3>3. BackupPlan \o Replace(ConfigFile, Updated(Loaded, c), "abort") \in Seq(StepsOf(c))
      BY <2>3, <3>2, JoinedSteps
    <3> QED BY <2>4, <2>6, <3>3 DEF ConfigPlan
  <2>7. CASE c.op \notin {"migrate", "repair", "rename"}
    BY <2>3, <2>4, <2>7 DEF ConfigPlan
  <2> QED BY <2>5, <2>6, <2>7
<1> QED BY <1>1, <1>4, <1>5, <1>6 DEF Ops

-----------------------------------------------------------------------------
(* Each action keeps LockInv.                                              *)

\* A process that a step does not touch.
LEMMA OthersKeep ==
    ASSUME LockInv, NEW q \in Processes, proc'[q] = proc[q], selected'[q] = selected[q],
           known'[q] = known[q], \A f \in Files : locks'[f] = q => locks[f] = q,
           \A f \in Files : locks[f] = q => locks'[f] = q
    PROVE  (ProcOK(q) /\ LocksOK(q) /\ PlanOK(q))'
<1>1. ProcOK(q) /\ LocksOK(q) /\ PlanOK(q)
  BY DEF LockInv
<1>2. ProcOK(q)'
  BY <1>1 DEF ProcOK
<1>3. PlanOK(q)'
  BY <1>1 DEF PlanOK
<1>4. LocksOK(q)'
  <2>1. proc[q].at \in {"locking", "working"} => Needs(proc[q].cmd) \subseteq Files
    <3>1. proc[q].cmd \in Commands
      BY DEF LockInv, TypeInv, Procs
    <3> QED BY <1>1, <3>1, NeedsAreFiles DEF ProcOK
  <2> QED BY <1>1, <2>1 DEF LocksOK
<1> QED BY <1>2, <1>3, <1>4

\* A process at rest holds no lock, has no plan and satisfies its part.
LEMMA IdleKeeps ==
    ASSUME NEW q \in Processes, proc'[q] = Idle, \A f \in Files : locks'[f] # q,
           known'[q] # NoEntry => selected'[q] # NoSelection,
           selected'[q] # NoSelection => selected'[q].name \in Names
    PROVE  (ProcOK(q) /\ LocksOK(q) /\ PlanOK(q))'
<1>1. Idle.at = "idle" /\ Idle.wants = {}
  BY DEF Idle
<1> QED BY <1>1 DEF ProcOK, LocksOK, PlanOK

\* The constants of the state have their types.
LEMMA IdleType == Idle \in Procs
<1>1. Command("none", 0) \in Commands
  BY StoreAssumption DEF Command, Commands, Ops, NoSecret
<1>2. <<>> \in Seq(Steps)
  OBVIOUS
<1> QED BY <1>1, <1>2, StoreAssumption DEF Idle, Procs, NoSecret

\* No selection is one.
LEMMA NoSelectionType == NoSelection \in Selections
  BY DEF NoSelection, Selections

\* What may become of the selection of a process that begins a command.
SelectionKept(p) ==
    \/ selected' = selected /\ (known' = known \/ known' = [known EXCEPT ![p] = NoEntry])
    \/ NewRun(p)

\* It keeps its type.
LEMMA SelectionKeptType ==
    ASSUME TypeInv, NEW p \in Processes, ProcOK(p), SelectionKept(p)
    PROVE  /\ selected' \in [Processes -> Selections] /\ known' \in [Processes -> Entries \cup {NoEntry}]
           /\ \A q \in Processes \ {p} : selected'[q] = selected[q] /\ known'[q] = known[q]
           /\ known'[p] # NoEntry => selected'[p] # NoSelection
           /\ selected'[p] # NoSelection => selected'[p].name \in Names
<1>1. selected \in [Processes -> Selections] /\ known \in [Processes -> Entries \cup {NoEntry}]
  BY DEF TypeInv
<1>2. CASE selected' = selected /\ (known' = known \/ known' = [known EXCEPT ![p] = NoEntry])
  BY <1>1, <1>2 DEF ProcOK
<1>3. CASE NewRun(p)
  BY <1>1, <1>3, NoSelectionType DEF NewRun
<1> QED BY <1>2, <1>3 DEF SelectionKept

\* A command begins.
LEMMA BeginKeeps ==
    ASSUME LockInv, NEW p \in Processes, NEW c \in Commands, Begun(c),
           Free(p), Begin(p, c, Needs(c)), c.op = "load" => selected'[p] # NoSelection,
           SelectionKept(p), newest' \in 0 .. MaxEntry
    PROVE  LockInv'
<1> DEFINE r == [Idle EXCEPT !.at = "locking", !.cmd = c, !.wants = Needs(c)]
<1>1. TypeInv /\ ProcOK(p) /\ LocksOK(p)
  BY DEF LockInv
<1>2. r \in Procs /\ r.at = "locking" /\ r.cmd = c /\ r.wants = Needs(c)
  <2>1. Needs(c) \in SUBSET Files
    BY NeedsAreFiles
  <2>2. DOMAIN Idle = {"at", "cmd", "wants", "todo", "ok", "oldSecret"}
    BY DEF Idle
  <2> QED BY <2>1, <2>2, IdleType DEF Procs
<1> HIDE DEF r
<1>3. proc' = [proc EXCEPT ![p] = r] /\ locks' = locks
  BY DEF Begin, r
<1>4. /\ proc \in [Processes -> Procs]
      /\ selected' \in [Processes -> Selections] /\ known' \in [Processes -> Entries \cup {NoEntry}]
      /\ \A q \in Processes \ {p} : selected'[q] = selected[q] /\ known'[q] = known[q]
      /\ known'[p] # NoEntry => selected'[p] # NoSelection
      /\ selected'[p] # NoSelection => selected'[p].name \in Names
  BY <1>1, SelectionKeptType DEF TypeInv
<1>5. TypeInv'
  <2>1. proc' \in [Processes -> Procs]
    BY <1>2, <1>3, <1>4
  <2>2. left' \in 0 .. MaxCommands
    <3>1. left' = left - 1 /\ left > 0 /\ left \in 0 .. MaxCommands
      BY <1>1 DEF Begin, Free, TypeInv
    <3> QED BY <3>1, StoreAssumption
  <2>3. vault' \in SUBSET (0 .. MaxCommands)
    BY <1>1 DEF Begin, TypeInv, Commands
  <2>4. UNCHANGED <<visible, durable, backups, promised>>
    BY DEF Begin, fileVars
  <2> QED BY <1>1, <1>3, <1>4, <2>1, <2>2, <2>3, <2>4 DEF TypeInv, Disks
<1>6. proc'[p] = r /\ \A q \in Processes \ {p} : proc'[q] = proc[q]
  BY <1>3, <1>4
<1>7. ASSUME NEW q \in Processes PROVE (ProcOK(q) /\ LocksOK(q) /\ PlanOK(q))'
  <2>1. CASE q # p
    BY <1>3, <1>4, <1>6, <2>1, OthersKeep
  <2>2. CASE q = p
    <3>1. ProcOK(p)'
      BY <1>1, <1>2, <1>4, <1>6 DEF ProcOK
    <3>2. \A f \in Files : locks'[f] # p
      BY <1>1, <1>3 DEF LocksOK, Free, Idle
    <3>3. LocksOK(p)'
      BY <1>2, <1>6, <3>2 DEF LocksOK
    <3>4. PlanOK(p)'
      BY <1>2, <1>6 DEF PlanOK
    <3> QED BY <2>2, <3>1, <3>3, <3>4
  <2> QED BY <2>1, <2>2
<1> QED BY <1>5, <1>7 DEF LockInv

\* What a command is made of.
LEMMA CommandType ==
    ASSUME NEW op \in Ops, NEW n \in Names \cup {0}
    PROVE  /\ Command(op, n) \in Commands
           /\ Command(op, n).op = op /\ Command(op, n).name = n /\ Command(op, n).to = n
           /\ Command(op, n).secret = NoSecret
  BY StoreAssumption DEF Command, Commands, NoSecret

\* BeginConfig keeps LockInv.
LEMMA BeginConfigKeeps ==
    ASSUME LockInv, NEW p \in Processes, BeginConfig(p)
    PROVE  LockInv'
<1>1. PICK op \in ConfigOps \ {"mqtt"}, n \in Names, m \in Names, flag \in BOOLEAN :
          /\ op = "rename" <=> n # m
          /\ Begin(p, [Command(op, n) EXCEPT !.to = m, !.flag = flag],
                   {ConfigFile} \cup IF op = "rename" THEN HistoryLocks(n) \cup HistoryLocks(m) ELSE {})
  BY DEF BeginConfig
<1> DEFINE c == [Command(op, n) EXCEPT !.to = m, !.flag = flag]
<1>2. c \in Commands /\ c.op = op /\ c.name = n /\ c.to = m /\ c.secret = NoSecret
  <2>1. op \in Ops
    BY DEF Ops
  <2>2. PICK k \in Commands : /\ k = Command(op, n)
                              /\ k.op = op /\ k.name = n /\ k.to = n /\ k.secret = NoSecret
    BY <2>1, CommandType
  <2>3. c = [k EXCEPT !.to = m, !.flag = flag]
    BY <2>2
  <2> HIDE DEF c
  <2> QED BY <2>2, <2>3 DEF Commands
<1>3. c \in Commands
  BY <1>2
<1>4. Begun(c)
  BY <1>2 DEF Begun, ConfigOps
<1>5. Needs(c) = {ConfigFile} \cup IF op = "rename" THEN HistoryLocks(n) \cup HistoryLocks(m) ELSE {}
  BY <1>2 DEF Needs, ConfigOps
<1>6. Free(p) /\ SelectionKept(p) /\ newest' = newest
  BY DEF BeginConfig, SelectionKept
<1>7. c.op # "load"
  BY <1>2 DEF ConfigOps
<1>8. newest \in 0 .. MaxEntry
  BY DEF LockInv, TypeInv
<1> HIDE DEF c
<1>9. Begin(p, c, Needs(c))
  BY <1>1, <1>5 DEF c
<1> QED BY <1>3, <1>4, <1>6, <1>7, <1>8, <1>9, BeginKeeps

\* BeginMqttConfigure keeps LockInv.
LEMMA BeginMqttConfigureKeeps ==
    ASSUME LockInv, NEW p \in Processes, BeginMqttConfigure(p)
    PROVE  LockInv'
<1>1. PICK secret \in {NoSecret, left} : Begin(p, [Command("mqtt", 0) EXCEPT !.secret = secret], {ConfigFile})
  BY DEF BeginMqttConfigure
<1> DEFINE c == [Command("mqtt", 0) EXCEPT !.secret = secret]
<1>2. newest \in 0 .. MaxEntry /\ secret \in 0 .. MaxCommands
  BY <1>1, StoreAssumption DEF LockInv, TypeInv, NoSecret
<1>3. c \in Commands /\ c.op = "mqtt"
  <2>1. "mqtt" \in Ops
    BY DEF Ops, ConfigOps
  <2> QED BY <1>2, <2>1, CommandType DEF Commands
<1>4. c \in Commands
  BY <1>3
<1>5. Begun(c)
  BY <1>3 DEF Begun
<1>6. Needs(c) = {ConfigFile}
  BY <1>3 DEF Needs, ConfigOps
<1>7. Free(p) /\ SelectionKept(p) /\ newest' = newest
  BY DEF BeginMqttConfigure, SelectionKept
<1>8. c.op # "load"
  BY <1>3
<1> HIDE DEF c
<1>9. Begin(p, c, Needs(c))
  BY <1>1, <1>6 DEF c
<1> QED BY <1>2, <1>4, <1>5, <1>7, <1>8, <1>9, BeginKeeps

\* A history command for the selected profile.
LEMMA BeginOnHistoryKeeps ==
    ASSUME LockInv, NEW p \in Processes, NEW c \in Commands, c.op \in {"upsert", "load", "clear", "copy"},
           c.name \in Names, c.to \in Names, c.op = "upsert" => c.entry \in Entries,
           c.op # "copy" => c.to = c.name, c.secret = NoSecret, selected[p] # NoSelection, Free(p),
           Begin(p, c, HistoryLocks(c.name) \cup HistoryLocks(c.to)), selected' = selected,
           known' = known \/ known' = [known EXCEPT ![p] = NoEntry], newest' \in 0 .. MaxEntry
    PROVE  LockInv'
<1>1. Begun(c)
  BY DEF Begun
<1>2. Needs(c) = HistoryLocks(c.name) \cup HistoryLocks(c.to)
  BY DEF Needs, ConfigOps
<1>3. Begin(p, c, Needs(c))
  BY <1>2
<1>4. SelectionKept(p)
  BY DEF SelectionKept
<1> QED BY <1>1, <1>3, <1>4, BeginKeeps

\* BeginInsert keeps LockInv.
LEMMA BeginInsertKeeps ==
    ASSUME LockInv, NEW p \in Processes, BeginInsert(p)
    PROVE  LockInv'
<1> DEFINE n == selected[p].name
           e == [id |-> newest + 1, status |-> "pending"]
<1>1. /\ Free(p) /\ selected[p] # NoSelection /\ newest < MaxEntry /\ newest' = newest + 1
      /\ known' = known /\ selected' = selected
      /\ Begin(p, [Command("upsert", n) EXCEPT !.entry = e], HistoryLocks(n))
  BY DEF BeginInsert, HasSelection
<1>2. newest \in 0 .. MaxEntry /\ ProcOK(p)
  BY DEF LockInv, TypeInv
<1>3. n \in Names
  BY <1>1, <1>2 DEF ProcOK
<1>4. newest' \in 0 .. MaxEntry /\ newest + 1 \in 1 .. MaxEntry
  BY <1>1, <1>2, StoreAssumption
<1>5. e \in Entries
  BY <1>4 DEF Entries
<1>6. PICK c \in Commands :
           /\ c = [Command("upsert", n) EXCEPT !.entry = e]
           /\ c.op = "upsert" /\ c.name = n /\ c.to = n /\ c.secret = NoSecret /\ c.entry = e
  <2>1. "upsert" \in Ops
    BY DEF Ops
  <2> HIDE DEF n, e
  <2>2. PICK k \in Commands : /\ k = Command("upsert", n)
                              /\ k.op = "upsert" /\ k.name = n /\ k.to = n /\ k.secret = NoSecret
    BY <1>3, <2>1, CommandType
  <2>3. [k EXCEPT !.entry = e] \in Commands
    BY <1>5, <2>2 DEF Commands
  <2>4. DOMAIN k = {"op", "name", "to", "flag", "entry", "secret"}
    BY <2>2 DEF Commands
  <2> QED BY <2>2, <2>3, <2>4
<1> HIDE DEF n, e
<1>7. HistoryLocks(n) \cup HistoryLocks(n) = HistoryLocks(n)
  OBVIOUS
<1>8. Begin(p, c, HistoryLocks(c.name) \cup HistoryLocks(c.to))
  BY <1>1, <1>6, <1>7
<1> QED BY <1>1, <1>3, <1>4, <1>5, <1>6, <1>8, BeginOnHistoryKeeps

\* BeginUpdate keeps LockInv.
LEMMA BeginUpdateKeeps ==
    ASSUME LockInv, NEW p \in Processes, BeginUpdate(p)
    PROVE  LockInv'
<1> DEFINE n == selected[p].name
           e == [known[p] EXCEPT !.status = "final"]
<1>1. /\ Free(p) /\ known[p] # NoEntry /\ newest' = newest
      /\ known' = [known EXCEPT ![p] = NoEntry] /\ selected' = selected
      /\ Begin(p, [Command("upsert", n) EXCEPT !.entry = e], HistoryLocks(n))
  BY DEF BeginUpdate
<1>2. newest \in 0 .. MaxEntry /\ ProcOK(p) /\ known[p] \in Entries
  BY <1>1 DEF LockInv, TypeInv
<1>3. n \in Names /\ selected[p] # NoSelection
  BY <1>1, <1>2 DEF ProcOK
<1>4. e \in Entries
  BY <1>2 DEF Entries
<1>5. PICK c \in Commands :
           /\ c = [Command("upsert", n) EXCEPT !.entry = e]
           /\ c.op = "upsert" /\ c.name = n /\ c.to = n /\ c.secret = NoSecret /\ c.entry = e
  <2>1. "upsert" \in Ops
    BY DEF Ops
  <2> HIDE DEF n, e
  <2>2. PICK k \in Commands : /\ k = Command("upsert", n)
                              /\ k.op = "upsert" /\ k.name = n /\ k.to = n /\ k.secret = NoSecret
    BY <1>3, <2>1, CommandType
  <2>3. [k EXCEPT !.entry = e] \in Commands
    BY <1>4, <2>2 DEF Commands
  <2>4. DOMAIN k = {"op", "name", "to", "flag", "entry", "secret"}
    BY <2>2 DEF Commands
  <2> QED BY <2>2, <2>3, <2>4
<1> HIDE DEF n, e
<1>6. HistoryLocks(n) \cup HistoryLocks(n) = HistoryLocks(n)
  OBVIOUS
<1>7. Begin(p, c, HistoryLocks(c.name) \cup HistoryLocks(c.to))
  BY <1>1, <1>5, <1>6
<1> QED BY <1>1, <1>2, <1>3, <1>4, <1>5, <1>7, BeginOnHistoryKeeps

\* BeginHistory keeps LockInv.
LEMMA BeginHistoryKeeps ==
    ASSUME LockInv, NEW p \in Processes, BeginHistory(p)
    PROVE  LockInv'
<1> DEFINE n == selected[p].name
<1>1. Free(p) /\ selected[p] # NoSelection /\ newest' = newest /\ known' = known /\ selected' = selected
  BY DEF BeginHistory, HasSelection
<1>2. newest \in 0 .. MaxEntry /\ ProcOK(p)
  BY DEF LockInv, TypeInv
<1>3. n \in Names
  BY <1>1, <1>2 DEF ProcOK
<1>4. \/ \E op \in {"load", "clear"} : Begin(p, Command(op, n), HistoryLocks(n))
      \/ \E m \in Names \ {n} : Begin(p, [Command("copy", n) EXCEPT !.to = m],
                                      HistoryLocks(n) \cup HistoryLocks(m))
  BY DEF BeginHistory
<1> HIDE DEF n
<1>5. CASE \E op \in {"load", "clear"} : Begin(p, Command(op, n), HistoryLocks(n))
  <2>1. PICK op \in {"load", "clear"} : Begin(p, Command(op, n), HistoryLocks(n))
    BY <1>5
  <2>2. HistoryLocks(n) \cup HistoryLocks(n) = HistoryLocks(n) /\ op \in Ops
    BY DEF Ops
  <2> DEFINE c == Command(op, n)
  <2>3. c \in Commands /\ c.op = op /\ c.name = n /\ c.to = n /\ c.secret = NoSecret
    BY <1>3, <2>2, CommandType
  <2> HIDE DEF c
  <2>4. Begin(p, c, HistoryLocks(c.name) \cup HistoryLocks(c.to))
    BY <2>1, <2>2, <2>3 DEF c
  <2> QED BY <1>1, <1>2, <1>3, <2>3, <2>4, BeginOnHistoryKeeps
<1>6. CASE \E m \in Names \ {n} : Begin(p, [Command("copy", n) EXCEPT !.to = m],
                                      HistoryLocks(n) \cup HistoryLocks(m))
  <2>1. PICK m \in Names \ {n} : Begin(p, [Command("copy", n) EXCEPT !.to = m],
                                       HistoryLocks(n) \cup HistoryLocks(m))
    BY <1>6
  <2>2. "copy" \in Ops
    BY DEF Ops
  <2> DEFINE c == [Command("copy", n) EXCEPT !.to = m]
  <2>3. c \in Commands /\ c.op = "copy" /\ c.name = n /\ c.to = m /\ c.secret = NoSecret
    BY <1>3, <2>1, <2>2, CommandType DEF Commands
  <2> HIDE DEF c
  <2>4. Begin(p, c, HistoryLocks(c.name) \cup HistoryLocks(c.to))
    BY <2>1, <2>3 DEF c
  <2> QED BY <1>1, <1>2, <1>3, <2>1, <2>3, <2>4, BeginOnHistoryKeeps
<1> QED BY <1>4, <1>5, <1>6

\* The selection of a profile.
LEMMA SelectProfileKeeps ==
    ASSUME LockInv, NEW p \in Processes, SelectProfile(p)
    PROVE  LockInv'
<1>1. PICK n \in Names : selected' = [selected EXCEPT ![p] = [name |-> n, device |-> Loaded.profiles[n]]]
  BY DEF SelectProfile
<1>2. /\ Free(p) /\ proc' = proc /\ known' = known /\ locks' = locks
      /\ UNCHANGED <<visible, durable, backups, vault, left, newest, promised>>
  BY DEF SelectProfile, fileVars
<1>3. TypeInv /\ ProcOK(p) /\ LocksOK(p)
  BY DEF LockInv
<1>4. Loaded \in Configs
  BY <1>3, ConfigTypes
<1> DEFINE s == [name |-> n, device |-> Loaded.profiles[n]]
<1>5. s \in Selections /\ s.name \in Names
  BY <1>4 DEF Selections, Configs
<1>6. s # NoSelection
  <2>1. 0 \notin Names
    BY StoreAssumption
  <2> QED BY <1>5, <2>1 DEF NoSelection
<1> HIDE DEF s
<1>7. selected \in [Processes -> Selections] /\ selected' = [selected EXCEPT ![p] = s]
  BY <1>1, <1>3 DEF TypeInv, s
<1>8. selected'[p] = s /\ (\A q \in Processes \ {p} : selected'[q] = selected[q])
      /\ selected' \in [Processes -> Selections]
  BY <1>5, <1>7
<1>9. TypeInv'
  BY <1>2, <1>3, <1>8 DEF TypeInv, Disks
<1>10. ASSUME NEW q \in Processes PROVE (ProcOK(q) /\ LocksOK(q) /\ PlanOK(q))'
  <2>1. CASE q # p
    BY <1>2, <1>8, <2>1, OthersKeep
  <2>2. CASE q = p
    <3>1. proc'[p] = Idle
      BY <1>2 DEF Free
    <3>2. \A f \in Files : locks'[f] # p
      BY <1>2, <1>3, <3>1 DEF LocksOK, Idle
    <3> QED BY <1>5, <1>6, <1>8, <2>2, <3>1, <3>2, IdleKeeps
  <2> QED BY <2>1, <2>2
<1> QED BY <1>9, <1>10 DEF LockInv

\* A lock is taken that was free and that the process wanted before all others.
LEMMA LockTaken ==
    ASSUME LockInv, NEW p \in Processes, TryLock(p), locks' = Locked(p)
    PROVE  /\ locks' \in [Files -> Processes \cup {"free"}]
           /\ NextLock(p) \in proc[p].wants /\ locks'[NextLock(p)] = p
           /\ \A f \in Files : locks[f] = p => locks'[f] = p
           /\ \A f \in Files : locks'[f] = p => f = NextLock(p) \/ locks[f] = p
           /\ \A g \in proc[p].wants : Precedes(NextLock(p), g)
           /\ \A q \in Processes \ {p}, f \in Files : locks'[f] = q <=> locks[f] = q
           /\ proc[p].at = "locking" /\ proc[p].wants \subseteq Files
<1> DEFINE l == NextLock(p)
<1>1. TypeInv
  BY DEF LockInv
<1>2. proc[p].at = "locking" /\ proc[p].wants # {} /\ locks[l] = "free"
  BY DEF TryLock, Waiting
<1>3. l \in proc[p].wants /\ l \in Files /\ \A g \in proc[p].wants : Precedes(l, g)
  BY <1>1, <1>2, NextLockIsFirst
<1>4. locks \in [Files -> Processes \cup {"free"}] /\ proc[p].wants \subseteq Files
  BY <1>1 DEF TypeInv, Procs
<1>5. "free" \notin Processes
  BY StoreAssumption
<1>6. locks' = [locks EXCEPT ![l] = p]
  BY DEF Locked
<1> HIDE DEF l
<1>7. /\ locks' \in [Files -> Processes \cup {"free"}] /\ locks'[l] = p
      /\ \A f \in Files : f # l => locks'[f] = locks[f]
  BY <1>3, <1>4, <1>6
<1>8. \A q \in Processes \ {p}, f \in Files : locks'[f] = q <=> locks[f] = q
  BY <1>2, <1>5, <1>7
<1> QED BY <1>2, <1>3, <1>4, <1>7, <1>8 DEF l

\* AcquireLock keeps LockInv.
LEMMA AcquireLockKeeps ==
    ASSUME LockInv, NEW p \in Processes, AcquireLock(p)
    PROVE  LockInv'
<1> DEFINE l == NextLock(p)
<1>1. TypeInv /\ ProcOK(p) /\ LocksOK(p)
  BY DEF LockInv
<1>2. /\ TryLock(p) /\ locks' = Locked(p) /\ proc' = [proc EXCEPT ![p].wants = @ \ {l}]
      /\ UNCHANGED <<visible, durable, backups, vault, selected, known, left, newest, promised>>
  BY DEF AcquireLock, fileVars
<1>3. /\ locks' \in [Files -> Processes \cup {"free"}]
      /\ l \in proc[p].wants /\ locks'[l] = p
      /\ \A f \in Files : locks[f] = p => locks'[f] = p
      /\ \A f \in Files : locks'[f] = p => f = l \/ locks[f] = p
      /\ \A g \in proc[p].wants : Precedes(l, g)
      /\ \A q \in Processes \ {p}, f \in Files : locks'[f] = q <=> locks[f] = q
      /\ proc[p].at = "locking" /\ proc[p].wants \subseteq Files
  BY <1>2, LockTaken
<1> HIDE DEF l
<1>4. /\ proc' \in [Processes -> Procs]
      /\ proc'[p].at = "locking" /\ proc'[p].cmd = proc[p].cmd /\ proc'[p].wants = proc[p].wants \ {l}
      /\ \A q \in Processes \ {p} : proc'[q] = proc[q]
  <2>1. proc \in [Processes -> Procs]
    BY <1>1 DEF TypeInv
  <2> QED BY <1>2, <1>3, <2>1 DEF Procs
<1>5. TypeInv'
  BY <1>1, <1>2, <1>3, <1>4 DEF TypeInv, Disks
<1>6. ASSUME NEW q \in Processes PROVE (ProcOK(q) /\ LocksOK(q) /\ PlanOK(q))'
  <2>1. CASE q # p
    BY <1>2, <1>3, <1>4, <2>1, OthersKeep
  <2>2. CASE q = p
    <3>1. ProcOK(p)' /\ PlanOK(p)'
      BY <1>1, <1>2, <1>3, <1>4 DEF ProcOK, PlanOK
    <3>2. ASSUME NEW f \in Files, locks'[f] = p, NEW g \in proc[p].wants \ {l}
          PROVE  Precedes(f, g) /\ f # g
      BY <1>1, <1>3, <3>2 DEF LocksOK
    <3>3. Needs(proc[p].cmd) \subseteq Files
      <4>1. proc[p].cmd \in Commands /\ Begun(proc[p].cmd)
        BY <1>1, <1>3 DEF TypeInv, Procs, ProcOK
      <4> QED BY <4>1, NeedsAreFiles
    <3>4. \A f \in Needs(proc[p].cmd) : f \in proc[p].wants \ {l} \/ locks'[f] = p
      BY <1>1, <1>3, <3>3 DEF LocksOK
    <3>5. LocksOK(p)'
      BY <1>4, <3>2, <3>4 DEF LocksOK
    <3> QED BY <2>2, <3>1, <3>5
  <2> QED BY <2>1, <2>2
<1> QED BY <1>5, <1>6 DEF LockInv

\* All locks of a process are released and those of the others kept.
LEMMA LocksReleased ==
    ASSUME TypeInv, NEW p \in Processes, ReleaseAll(p)
    PROVE  /\ locks' \in [Files -> Processes \cup {"free"}]
           /\ \A f \in Files : locks'[f] # p
           /\ \A q \in Processes \ {p}, f \in Files : locks'[f] = q <=> locks[f] = q
<1>1. locks \in [Files -> Processes \cup {"free"}] /\ "free" \notin Processes
  BY StoreAssumption DEF TypeInv
<1>2. locks' = [f \in Files |-> IF locks[f] = p THEN "free" ELSE locks[f]]
  BY DEF ReleaseAll
<1> QED BY <1>1, <1>2

\* A command is over.
LEMMA LeaveKeeps ==
    ASSUME LockInv, NEW p \in Processes, NEW ok \in BOOLEAN, Leave(p, ok), proc[p].at # "idle",
           UNCHANGED <<fileVars, vault, selected, known, left, newest>>,
           promised' \in [Devices -> SUBSET Entries]
    PROVE  LockInv'
<1> DEFINE over == IF Garbage(p, ok) = {} THEN Idle
                   ELSE [proc[p] EXCEPT !.at = "cleaning", !.ok = ok, !.todo = <<>>, !.wants = {}]
<1>1. TypeInv /\ ProcOK(p)
  BY DEF LockInv
<1>2. /\ ReleaseAll(p) /\ proc' = [proc EXCEPT ![p] = over]
      /\ UNCHANGED <<visible, durable, backups, vault, selected, known, left, newest>>
  BY DEF Leave, fileVars
<1>3. proc \in [Processes -> Procs]
  BY <1>1 DEF TypeInv
<1>4. /\ over \in Procs
      /\ over = Idle \/ (over.at = "cleaning" /\ over.cmd = proc[p].cmd /\ over.wants = {})
  <2>1. proc[p] \in Procs /\ <<>> \in Seq(Steps)
    BY <1>3
  <2>2. CASE Garbage(p, ok) = {}
    BY <2>2, IdleType
  <2>3. CASE Garbage(p, ok) # {}
    <3> DEFINE r == [proc[p] EXCEPT !.at = "cleaning", !.ok = ok, !.todo = <<>>, !.wants = {}]
    <3>1. r \in Procs /\ r.at = "cleaning" /\ r.cmd = proc[p].cmd /\ r.wants = {}
      BY <2>1 DEF Procs
    <3> QED BY <2>3, <3>1
  <2> QED BY <2>2, <2>3
<1> HIDE DEF over
<1>5. proc'[p] = over /\ (\A q \in Processes \ {p} : proc'[q] = proc[q]) /\ proc' \in [Processes -> Procs]
  BY <1>2, <1>3, <1>4
<1>6. /\ locks' \in [Files -> Processes \cup {"free"}]
      /\ \A f \in Files : locks'[f] # p
      /\ \A q \in Processes \ {p}, f \in Files : locks'[f] = q <=> locks[f] = q
  BY <1>1, <1>2, LocksReleased
<1>7. TypeInv'
  BY <1>1, <1>2, <1>5, <1>6 DEF TypeInv, Disks
<1>8. ASSUME NEW q \in Processes PROVE (ProcOK(q) /\ LocksOK(q) /\ PlanOK(q))'
  <2>1. CASE q # p
    BY <1>2, <1>5, <1>6, <2>1, OthersKeep
  <2>2. CASE q = p /\ over = Idle
    <3>1. known'[p] # NoEntry => selected'[p] # NoSelection
      BY <1>1, <1>2 DEF ProcOK
    <3>2. selected'[p] # NoSelection => selected'[p].name \in Names
      BY <1>1, <1>2 DEF ProcOK
    <3> QED BY <1>5, <1>6, <2>2, <3>1, <3>2, IdleKeeps
  <2>3. CASE q = p /\ over # Idle
    <3>1. proc'[p].at = "cleaning" /\ proc'[p].cmd = proc[p].cmd /\ proc'[p].wants = {}
      BY <1>4, <1>5, <2>3
    <3>2. ProcOK(p)'
      BY <1>1, <1>2, <3>1 DEF ProcOK
    <3>3. LocksOK(p)' /\ PlanOK(p)'
      BY <1>6, <3>1 DEF LocksOK, PlanOK
    <3> QED BY <2>3, <3>2, <3>3
  <2> QED BY <2>1, <2>2, <2>3
<1> QED BY <1>7, <1>8 DEF LockInv

\* A command that gets no lock or is refused leaves.
LEMMA LeavingKeeps ==
    ASSUME LockInv, NEW p \in Processes, LockTimesOut(p) \/ RefuseCommand(p)
    PROVE  LockInv'
<1>1. Leave(p, FALSE) /\ proc[p].at # "idle" /\ promised' = promised
  BY DEF LockTimesOut, RefuseCommand, TryLock, Waiting
<1>2. UNCHANGED <<fileVars, vault, selected, known, left, newest>>
  BY DEF LockTimesOut, RefuseCommand
<1>3. promised \in [Devices -> SUBSET Entries]
  BY DEF LockInv, TypeInv
<1> QED BY <1>1, <1>2, <1>3, LeaveKeeps

\* Return keeps LockInv.
LEMMA ReturnKeeps ==
    ASSUME LockInv, NEW p \in Processes, Return(p)
    PROVE  LockInv'
<1>1. Leave(p, proc[p].ok) /\ proc[p].at = "working"
  BY DEF Return, Working
<1>2. UNCHANGED <<fileVars, vault, selected, known, left, newest>>
  BY DEF Return
<1>3. /\ promised \in [Devices -> SUBSET Entries] /\ proc[p].ok \in BOOLEAN
      /\ proc[p].cmd \in Commands /\ ProcOK(p)
  BY DEF LockInv, TypeInv, Procs
<1> DEFINE c == proc[p].cmd
           d == selected[p].device
           settled == Present(ConfigFile) /\ durable[ConfigFile] = visible[ConfigFile]
<1>4. promised' = promised \/ (c.op = "upsert" /\ promised' =
          [promised EXCEPT ![d] = {e \in @ : e.id # c.entry.id} \cup IF settled THEN {c.entry} ELSE {}])
  BY DEF Return
<1>5. c.op = "upsert" => c.entry \in Entries
  BY <1>1, <1>3 DEF ProcOK, Begun
<1> HIDE DEF c, d, settled
<1>6. promised' \in [Devices -> SUBSET Entries]
  BY <1>3, <1>4, <1>5
<1> QED BY <1>1, <1>2, <1>3, <1>6, LeaveKeeps

\* Steps of a command are steps.
LEMMA StepsOfAreSteps ==
    ASSUME NEW c, NEW t \in Seq(StepsOf(c))
    PROVE  t \in Seq(Steps)
<1>1. \A s \in StepsOf(c) : s \in Steps
  BY DEF StepsOf
<1> QED BY <1>1

\* ReadAndPlan keeps LockInv.
LEMMA ReadAndPlanKeeps ==
    ASSUME LockInv, NEW p \in Processes, ReadAndPlan(p)
    PROVE  LockInv'
<1> DEFINE c == proc[p].cmd
           l == NextLock(p)
           t == Plan(c)
           old == IF c.op = "mqtt" THEN Loaded.secret ELSE proc[p].oldSecret
<1>1. TypeInv /\ ProcOK(p) /\ LocksOK(p)
  BY DEF LockInv
<1>2. /\ TryLock(p) /\ proc[p].wants = {l} /\ locks' = Locked(p) /\ ~RefusedHere(c)
      /\ proc' = [proc EXCEPT ![p].at = "working", ![p].todo = t, ![p].wants = {}, ![p].oldSecret = old]
      /\ known' = known \/ (c.op = "load" /\ \E e \in View(c.name) \cup {NoEntry} : known' = [known EXCEPT ![p] = e])
      /\ UNCHANGED <<visible, durable, backups, vault, selected, left, newest, promised>>
  BY DEF ReadAndPlan, LastLock, fileVars
<1>3. /\ locks' \in [Files -> Processes \cup {"free"}]
      /\ l \in proc[p].wants /\ locks'[l] = p
      /\ \A f \in Files : locks[f] = p => locks'[f] = p
      /\ \A q \in Processes \ {p}, f \in Files : locks'[f] = q <=> locks[f] = q
      /\ proc[p].at = "locking"
  BY <1>2, LockTaken
<1>4. /\ proc \in [Processes -> Procs] /\ known \in [Processes -> Entries \cup {NoEntry}]
      /\ c \in Commands /\ Begun(c) /\ proc[p].oldSecret \in 0 .. MaxCommands
  BY <1>1, <1>3 DEF TypeInv, Procs, ProcOK
<1>5. t \in Seq(StepsOf(c))
  BY <1>1, <1>2, <1>4, PlanSteps
<1>6. t \in Seq(Steps)
  BY <1>5, StepsOfAreSteps
<1>7. old \in 0 .. MaxCommands
  <2>1. Loaded \in Configs
    BY <1>1, ConfigTypes
  <2> QED BY <1>4, <2>1 DEF Configs
<1> HIDE DEF t, old, l
<1>8. /\ proc' \in [Processes -> Procs]
      /\ proc'[p].at = "working" /\ proc'[p].cmd = proc[p].cmd /\ proc'[p].wants = {} /\ proc'[p].todo = t
      /\ \A q \in Processes \ {p} : proc'[q] = proc[q]
  <2> DEFINE e1 == [proc EXCEPT ![p].at = "working"]
             e2 == [e1 EXCEPT ![p].todo = t]
             e3 == [e2 EXCEPT ![p].wants = {}]
  <2>1. proc' = [e3 EXCEPT ![p].oldSecret = old]
    BY <1>2, Zenon
  <2>2. e1 \in [Processes -> Procs] /\ e1[p].at = "working" /\ e1[p].cmd = proc[p].cmd
        /\ \A q \in Processes \ {p} : e1[q] = proc[q]
    BY <1>4 DEF Procs
  <2> HIDE DEF e1
  <2>3. e2 \in [Processes -> Procs] /\ e2[p].at = e1[p].at /\ e2[p].cmd = e1[p].cmd /\ e2[p].todo = t
        /\ \A q \in Processes \ {p} : e2[q] = e1[q]
    BY <1>6, <2>2 DEF Procs
  <2> HIDE DEF e2
  <2>4. e3 \in [Processes -> Procs] /\ e3[p].at = e2[p].at /\ e3[p].cmd = e2[p].cmd /\ e3[p].todo = e2[p].todo
        /\ e3[p].wants = {} /\ \A q \in Processes \ {p} : e3[q] = e2[q]
    BY <2>3 DEF Procs
  <2> HIDE DEF e3
  <2>5. proc' \in [Processes -> Procs] /\ proc'[p].at = e3[p].at /\ proc'[p].cmd = e3[p].cmd
        /\ proc'[p].todo = e3[p].todo /\ proc'[p].wants = e3[p].wants
        /\ \A q \in Processes \ {p} : proc'[q] = e3[q]
    BY <1>7, <2>1, <2>4 DEF Procs
  <2> QED BY <2>2, <2>3, <2>4, <2>5
<1>9. /\ known' \in [Processes -> Entries \cup {NoEntry}]
      /\ \A q \in Processes \ {p} : known'[q] = known[q]
      /\ known'[p] # NoEntry => known[p] # NoEntry \/ c.op = "load"
  <2>1. c.op = "load" => View(c.name) \subseteq Entries
    <3>1. c.op = "load" => c.name \in Names
      BY <1>4 DEF Begun
    <3> QED BY <1>1, <3>1, HistoryTypes DEF Retained, Histories
  <2> QED BY <1>2, <1>4, <2>1
<1>10. TypeInv'
  BY <1>1, <1>2, <1>3, <1>8, <1>9 DEF TypeInv, Disks
<1>11. ASSUME NEW q \in Processes PROVE (ProcOK(q) /\ LocksOK(q) /\ PlanOK(q))'
  <2>1. CASE q # p
    BY <1>2, <1>3, <1>8, <1>9, <2>1, OthersKeep
  <2>2. CASE q = p
    <3>1. ProcOK(p)'
      BY <1>1, <1>2, <1>3, <1>4, <1>8, <1>9 DEF ProcOK
    <3>2. PlanOK(p)'
      BY <1>5, <1>8 DEF PlanOK
    <3>3. Needs(c) \subseteq Files
      BY <1>4, NeedsAreFiles
    <3>4. \A f \in Needs(c) : locks'[f] = p
      BY <1>1, <1>2, <1>3, <3>3 DEF LocksOK
    <3>5. LocksOK(p)'
      BY <1>8, <3>4 DEF LocksOK
    <3> QED BY <2>2, <3>1, <3>2, <3>5
  <2> QED BY <2>1, <2>2
<1> QED BY <1>10, <1>11 DEF LockInv

\* A step of a plan: it only touches the files, what was promised, and the plan.
LEMMA StepKeeps ==
    ASSUME LockInv, NEW p \in Processes, Working(p),
           proc' \in [Processes -> Procs], \A q \in Processes \ {p} : proc'[q] = proc[q],
           proc'[p].at = "working", proc'[p].cmd = proc[p].cmd, proc'[p].wants = proc[p].wants,
           proc'[p].todo \in Seq(StepsOf(proc[p].cmd)),
           UNCHANGED <<vault, locks, selected, known, left, newest>>,
           visible' \in Disks, durable' \in Disks,
           backups' \in [live : SUBSET Configs, kept : SUBSET Configs],
           promised' \in [Devices -> SUBSET Entries]
    PROVE  LockInv'
<1>1. TypeInv /\ ProcOK(p) /\ LocksOK(p) /\ proc[p].at = "working"
  BY DEF LockInv, Working
<1>2. TypeInv'
  BY <1>1 DEF TypeInv, Disks
<1>3. ASSUME NEW q \in Processes PROVE (ProcOK(q) /\ LocksOK(q) /\ PlanOK(q))'
  <2>1. CASE q # p
    BY <2>1, OthersKeep
  <2>2. CASE q = p
    <3>1. ProcOK(p)'
      BY <1>1 DEF ProcOK
    <3>2. PlanOK(p)'
      BY DEF PlanOK
    <3>3. LocksOK(p)'
      BY <1>1 DEF LocksOK
    <3> QED BY <2>2, <3>1, <3>2, <3>3
  <2> QED BY <2>1, <2>2
<1> QED BY <1>2, <1>3 DEF LockInv

\* The head of a plan and what remains of it when it is done.
LEMMA HeadOfPlan ==
    ASSUME LockInv, NEW p \in Processes, Working(p), proc[p].todo # <<>>
    PROVE  /\ Head(proc[p].todo) \in StepsOf(proc[p].cmd)
           /\ Tail(proc[p].todo) \in Seq(StepsOf(proc[p].cmd))
<1>1. proc[p].todo \in Seq(StepsOf(proc[p].cmd))
  BY DEF LockInv, PlanOK, Working
<1> DEFINE S == StepsOf(proc[p].cmd)
           t == proc[p].todo
<1>2. t \in Seq(S) /\ t # <<>>
  BY <1>1
<1> HIDE DEF S, t
<1>3. Head(t) \in S /\ Tail(t) \in Seq(S)
  BY <1>2
<1> QED BY <1>3 DEF S, t

\* A done step leaves the rest of the plan.
LEMMA StepDoneKeeps ==
    ASSUME LockInv, NEW p \in Processes, Working(p), proc[p].todo # <<>>, StepDone(p),
           UNCHANGED <<vault, locks, selected, known, left, newest>>,
           visible' \in Disks, durable' \in Disks,
           backups' \in [live : SUBSET Configs, kept : SUBSET Configs],
           promised' \in [Devices -> SUBSET Entries]
    PROVE  LockInv'
<1> DEFINE t == Tail(proc[p].todo)
<1>1. t \in Seq(StepsOf(proc[p].cmd))
  BY HeadOfPlan
<1>2. t \in Seq(Steps)
  BY <1>1, StepsOfAreSteps
<1>3. proc \in [Processes -> Procs] /\ proc[p].at = "working" /\ proc' = [proc EXCEPT ![p].todo = t]
  BY DEF LockInv, TypeInv, Working, StepDone
<1> HIDE DEF t
<1>4. /\ proc' \in [Processes -> Procs] /\ \A q \in Processes \ {p} : proc'[q] = proc[q]
      /\ proc'[p].at = "working" /\ proc'[p].cmd = proc[p].cmd /\ proc'[p].wants = proc[p].wants
      /\ proc'[p].todo = t
  BY <1>2, <1>3 DEF Procs
<1> QED BY <1>1, <1>4, StepKeeps

\* A disk on which one file is replaced, and one that has some files of each of two.
LEMMA DiskUpdated ==
    ASSUME NEW d \in Disks, NEW f \in Files, NEW c, c = Absent \/ Fits(f, c)
    PROVE  [d EXCEPT ![f] = c] \in Disks
<1>1. c \in FileContents
  BY DEF FileContents, Fits, Retained
<1>2. d \in [Files -> FileContents] /\ \A g \in Files : d[g] = Absent \/ Fits(g, d[g])
  BY DEF Disks
<1>3. [d EXCEPT ![f] = c] \in [Files -> FileContents]
  BY <1>1, <1>2
<1>4. \A g \in Files : [d EXCEPT ![f] = c][g] = IF g = f THEN c ELSE d[g]
  BY <1>2
<1> QED BY <1>2, <1>3, <1>4 DEF Disks

\* A loss of power leaves such a mixture.
LEMMA DiskMixed ==
    ASSUME NEW d \in Disks, NEW e \in Disks, NEW m \in [Files -> FileContents],
           \A f \in Files : m[f] = d[f] \/ m[f] = e[f]
    PROVE  m \in Disks
  BY DEF Disks

\* What is promised to the profiles of a configuration.
LEMMA StillPromisedType ==
    ASSUME promised \in [Devices -> SUBSET Entries], NEW config
    PROVE  StillPromised(config) \in [Devices -> SUBSET Entries]
  BY DEF StillPromised

\* RenameOver keeps LockInv.
LEMMA RenameOverKeeps ==
    ASSUME LockInv, NEW p \in Processes, RenameOver(p)
    PROVE  LockInv'
<1> DEFINE s == Head(proc[p].todo)
<1>1. /\ Working(p) /\ proc[p].todo # <<>> /\ s.do = "rename" /\ StepDone(p)
      /\ visible' = [visible EXCEPT ![s.file] = s.content]
      /\ promised' = promised \/ promised' = StillPromised(s.content)
      /\ UNCHANGED <<durable, backups, vault, locks, selected, known, left, newest>>
  BY DEF RenameOver, Doing, Target
<1>2. s \in Steps
  BY <1>1, HeadOfPlan DEF StepsOf
<1>3. s.file \in Files /\ Fits(s.file, s.content)
  BY <1>1, <1>2 DEF Steps
<1>4. /\ visible \in Disks /\ durable \in Disks /\ promised \in [Devices -> SUBSET Entries]
      /\ backups \in [live : SUBSET Configs, kept : SUBSET Configs]
  BY DEF LockInv, TypeInv
<1> HIDE DEF s
<1>5. visible' \in Disks /\ durable' \in Disks
  BY <1>1, <1>3, <1>4, DiskUpdated
<1>6. promised' \in [Devices -> SUBSET Entries]
  BY <1>1, <1>4, StillPromisedType
<1> QED BY <1>1, <1>4, <1>5, <1>6, StepDoneKeeps

\* SyncDirectory keeps LockInv.
LEMMA SyncDirectoryKeeps ==
    ASSUME LockInv, NEW p \in Processes, SyncDirectory(p)
    PROVE  LockInv'
<1> DEFINE dir == Directory(Target(p))
<1>1. /\ Working(p) /\ proc[p].todo # <<>> /\ StepDone(p)
      /\ durable' = [f \in Files |-> IF Directory(f) = dir THEN visible[f] ELSE durable[f]]
      /\ backups' = IF dir = "config" THEN [backups EXCEPT !.kept = backups.live] ELSE backups
      /\ UNCHANGED <<visible, vault, locks, selected, known, left, newest, promised>>
  BY DEF SyncDirectory, Doing
<1>2. /\ visible \in Disks /\ durable \in Disks /\ promised \in [Devices -> SUBSET Entries]
      /\ backups \in [live : SUBSET Configs, kept : SUBSET Configs]
  BY DEF LockInv, TypeInv
<1> HIDE DEF dir
<1>3. durable' \in [Files -> FileContents] /\ \A f \in Files : durable'[f] = visible[f] \/ durable'[f] = durable[f]
  BY <1>1, <1>2 DEF Disks
<1>4. durable' \in Disks
  BY <1>2, <1>3, DiskMixed
<1>5. backups' \in [live : SUBSET Configs, kept : SUBSET Configs]
  BY <1>1, <1>2
<1> QED BY <1>1, <1>2, <1>4, <1>5, StepDoneKeeps

\* RemoveFile keeps LockInv.
LEMMA RemoveFileKeeps ==
    ASSUME LockInv, NEW p \in Processes, RemoveFile(p)
    PROVE  LockInv'
<1> DEFINE s == Head(proc[p].todo)
<1>1. /\ Working(p) /\ proc[p].todo # <<>> /\ StepDone(p)
      /\ visible' = [visible EXCEPT ![s.file] = Absent]
      /\ UNCHANGED <<durable, backups, vault, locks, selected, known, left, newest>>
  BY DEF RemoveFile, Doing, Target
<1>2. s.file \in Files
  <2>1. s \in Steps
    BY <1>1, HeadOfPlan DEF StepsOf
  <2> QED BY <2>1 DEF Steps
<1>3. /\ visible \in Disks /\ durable \in Disks /\ promised \in [Devices -> SUBSET Entries]
      /\ backups \in [live : SUBSET Configs, kept : SUBSET Configs]
  BY DEF LockInv, TypeInv
<1>4. promised' \in [Devices -> SUBSET Entries]
  BY <1>3 DEF RemoveFile
<1> HIDE DEF s
<1>5. visible' \in Disks
  BY <1>1, <1>2, <1>3, DiskUpdated
<1> QED BY <1>1, <1>3, <1>4, <1>5, StepDoneKeeps

\* CreateBackup keeps LockInv.
LEMMA CreateBackupKeeps ==
    ASSUME LockInv, NEW p \in Processes, CreateBackup(p)
    PROVE  LockInv'
<1> DEFINE s == Head(proc[p].todo)
<1>1. /\ Working(p) /\ proc[p].todo # <<>> /\ s.do = "backup" /\ StepDone(p)
      /\ backups' = [backups EXCEPT !.live = @ \cup {s.content}]
      /\ UNCHANGED <<visible, durable, vault, locks, selected, known, left, newest, promised>>
  BY DEF CreateBackup, Doing
<1>2. s.content \in Configs
  <2>1. s \in Steps
    BY <1>1, HeadOfPlan DEF StepsOf
  <2> QED BY <1>1, <2>1 DEF Steps
<1>3. /\ visible \in Disks /\ durable \in Disks /\ promised \in [Devices -> SUBSET Entries]
      /\ backups \in [live : SUBSET Configs, kept : SUBSET Configs]
  BY DEF LockInv, TypeInv
<1> HIDE DEF s
<1>4. backups' \in [live : SUBSET Configs, kept : SUBSET Configs]
  BY <1>1, <1>2, <1>3
<1> QED BY <1>1, <1>3, <1>4, StepDoneKeeps

\* StepFails keeps LockInv.
LEMMA StepFailsKeeps ==
    ASSUME LockInv, NEW p \in Processes, StepFails(p)
    PROVE  LockInv'
<1> DEFINE s == Head(proc[p].todo)
           c == proc[p].cmd
           t == CASE s.onError = "abort" -> <<>>
                  [] s.onError = "next" -> Tail(proc[p].todo)
                  [] s.onError = "undo" -> ClearPlan(c.to)
<1>1. /\ Working(p) /\ proc[p].todo # <<>>
      /\ UNCHANGED <<visible, durable, backups, vault, locks, selected, known, left, newest, promised>>
  BY DEF StepFails, fileVars
<1>2. proc' = [proc EXCEPT ![p].ok = FALSE, ![p].todo = t]
  BY DEF StepFails
<1>3. s \in StepsOf(c) /\ Tail(proc[p].todo) \in Seq(StepsOf(c))
  BY <1>1, HeadOfPlan
<1>4. TypeInv /\ ProcOK(p) /\ proc[p].at = "working" /\ proc \in [Processes -> Procs]
  BY <1>1 DEF LockInv, TypeInv, Working
<1>5. t \in Seq(StepsOf(c))
  <2>1. s.onError \in {"abort", "next", "undo"}
    BY <1>3 DEF StepsOf, Steps
  <2>2. <<>> \in Seq(StepsOf(c))
    OBVIOUS
  <2>3. CASE s.onError = "undo"
    <3>1. c.op = "rename" /\ c \in Commands /\ Begun(c)
      BY <1>3, <1>4, <2>3 DEF StepsOf, ProcOK, Procs
    <3>2. c.to \in Names /\ HistoryLocks(c.to) \subseteq Needs(c)
      BY <3>1 DEF Begun, Needs
    <3>3. ClearPlan(c.to) \in Seq(StepsOf(c))
      BY <1>4, <3>1, <3>2, HistoryPlans
    <3> QED BY <2>3, <3>3
  <2> QED BY <1>3, <2>1, <2>2, <2>3
<1>6. t \in Seq(Steps)
  BY <1>5, StepsOfAreSteps
<1> HIDE DEF t, s
<1>7. /\ proc' \in [Processes -> Procs] /\ \A q \in Processes \ {p} : proc'[q] = proc[q]
      /\ proc'[p].at = "working" /\ proc'[p].cmd = proc[p].cmd /\ proc'[p].wants = proc[p].wants
      /\ proc'[p].todo = t
  BY <1>2, <1>4, <1>6 DEF Procs
<1>8. visible' \in Disks /\ durable' \in Disks /\ promised' \in [Devices -> SUBSET Entries]
      /\ backups' \in [live : SUBSET Configs, kept : SUBSET Configs]
  BY <1>1, <1>4 DEF TypeInv
<1> QED BY <1>1, <1>5, <1>7, <1>8, StepKeeps

\* CleanupCredential keeps LockInv.
LEMMA CleanupCredentialKeeps ==
    ASSUME LockInv, NEW p \in Processes, CleanupCredential(p)
    PROVE  LockInv'
<1>1. /\ proc[p].at = "cleaning" /\ proc' = [proc EXCEPT ![p] = Idle]
      /\ vault' \subseteq vault
      /\ UNCHANGED <<visible, durable, backups, locks, selected, known, left, newest, promised>>
  BY DEF CleanupCredential, fileVars
<1>2. TypeInv /\ ProcOK(p) /\ LocksOK(p) /\ proc \in [Processes -> Procs]
  BY DEF LockInv, TypeInv
<1>3. proc'[p] = Idle /\ (\A q \in Processes \ {p} : proc'[q] = proc[q]) /\ proc' \in [Processes -> Procs]
  BY <1>1, <1>2, IdleType
<1>4. TypeInv'
  BY <1>1, <1>2, <1>3 DEF TypeInv, Disks
<1>5. ASSUME NEW q \in Processes PROVE (ProcOK(q) /\ LocksOK(q) /\ PlanOK(q))'
  <2>1. CASE q # p
    BY <1>1, <1>3, <2>1, OthersKeep
  <2>2. CASE q = p
    <3>1. \A f \in Files : locks'[f] # p
      BY <1>1, <1>2 DEF LocksOK
    <3>2. known'[p] # NoEntry => selected'[p] # NoSelection
      BY <1>1, <1>2 DEF ProcOK
    <3>3. selected'[p] # NoSelection => selected'[p].name \in Names
      BY <1>1, <1>2 DEF ProcOK
    <3> QED BY <1>3, <2>2, <3>1, <3>2, <3>3, IdleKeeps
  <2> QED BY <2>1, <2>2
<1> QED BY <1>4, <1>5 DEF LockInv

\* Kill keeps LockInv.
LEMMA KillKeeps ==
    ASSUME LockInv, NEW p \in Processes, Kill(p)
    PROVE  LockInv'
<1>1. /\ ReleaseAll(p) /\ proc' = [proc EXCEPT ![p] = Idle]
      /\ selected' = [selected EXCEPT ![p] = NoSelection] /\ known' = [known EXCEPT ![p] = NoEntry]
      /\ UNCHANGED <<visible, durable, backups, vault, left, newest, promised>>
  BY DEF Kill, fileVars
<1>2. /\ TypeInv /\ proc \in [Processes -> Procs] /\ selected \in [Processes -> Selections]
      /\ known \in [Processes -> Entries \cup {NoEntry}]
  BY DEF LockInv, TypeInv
<1>3. /\ proc'[p] = Idle /\ selected'[p] = NoSelection /\ known'[p] = NoEntry
      /\ \A q \in Processes \ {p} : proc'[q] = proc[q] /\ selected'[q] = selected[q] /\ known'[q] = known[q]
      /\ proc' \in [Processes -> Procs] /\ selected' \in [Processes -> Selections]
      /\ known' \in [Processes -> Entries \cup {NoEntry}]
  BY <1>1, <1>2, IdleType, NoSelectionType
<1>4. /\ locks' \in [Files -> Processes \cup {"free"}]
      /\ \A f \in Files : locks'[f] # p
      /\ \A q \in Processes \ {p}, f \in Files : locks'[f] = q <=> locks[f] = q
  BY <1>1, <1>2, LocksReleased
<1>5. TypeInv'
  BY <1>1, <1>2, <1>3, <1>4 DEF TypeInv, Disks
<1>6. ASSUME NEW q \in Processes PROVE (ProcOK(q) /\ LocksOK(q) /\ PlanOK(q))'
  <2>1. CASE q # p
    BY <1>3, <1>4, <2>1, OthersKeep
  <2>2. CASE q = p
    BY <1>3, <1>4, <2>2, IdleKeeps
  <2> QED BY <2>1, <2>2
<1> QED BY <1>5, <1>6 DEF LockInv

\* PowerLoss keeps LockInv.
LEMMA PowerLossKeeps ==
    ASSUME LockInv, PowerLoss
    PROVE  LockInv'
<1>1. PICK kept \in SUBSET Unsynced, more \in SUBSET (backups.live \ backups.kept) :
          /\ visible' = [f \in Files |-> IF f \in kept THEN visible[f] ELSE durable[f]]
          /\ backups' = [live |-> backups.kept \cup more, kept |-> backups.kept \cup more]
  BY DEF PowerLoss
<1>2. /\ durable' = visible'
      /\ promised' = StillPromised(intended')
      /\ locks' = [f \in Files |-> "free"]
      /\ proc' = [p \in Processes |-> Idle]
      /\ selected' = [p \in Processes |-> NoSelection]
      /\ known' = [p \in Processes |-> NoEntry]
      /\ UNCHANGED <<vault, left, newest>>
  BY DEF PowerLoss
<1>3. TypeInv /\ visible \in Disks /\ durable \in Disks /\ promised \in [Devices -> SUBSET Entries]
      /\ backups \in [live : SUBSET Configs, kept : SUBSET Configs]
  BY DEF LockInv, TypeInv
<1>4. visible' \in Disks
  <2>1. visible' \in [Files -> FileContents] /\ \A f \in Files : visible'[f] = visible[f] \/ visible'[f] = durable[f]
    BY <1>1, <1>3 DEF Disks
  <2> QED BY <1>3, <2>1, DiskMixed
<1>5. backups' \in [live : SUBSET Configs, kept : SUBSET Configs]
  BY <1>1, <1>3
<1>6. promised' \in [Devices -> SUBSET Entries]
  BY <1>2, <1>3, StillPromisedType
<1>7. /\ locks' \in [Files -> Processes \cup {"free"}]
      /\ proc' \in [Processes -> Procs] /\ selected' \in [Processes -> Selections]
      /\ known' \in [Processes -> Entries \cup {NoEntry}]
  BY <1>2, IdleType, NoSelectionType
<1>8. TypeInv'
  BY <1>2, <1>3, <1>4, <1>5, <1>6, <1>7 DEF TypeInv
<1>9. ASSUME NEW q \in Processes PROVE (ProcOK(q) /\ LocksOK(q) /\ PlanOK(q))'
  <2>1. proc'[q] = Idle /\ known'[q] = NoEntry /\ selected'[q] = NoSelection
    BY <1>2
  <2>2. \A f \in Files : locks'[f] # q
    BY <1>2, StoreAssumption
  <2> QED BY <2>1, <2>2, IdleKeeps
<1> QED BY <1>8, <1>9 DEF LockInv

\* What an earlier version may have left has the types.
LEMMA InitialTypes ==
    ASSUME Init
    PROVE  TypeInv
<1>1. DefaultConfig \in Configs /\ \A n \in Names : ~Configured(DefaultConfig, n)
  BY StoreAssumption DEF DefaultConfig, Config, Configs, Formats, Transports, NoDefault, NoSecret, Configured
<1>2. 1 \in Names /\ MaxCommands \in Nat /\ MaxEntry \in Nat /\ OldEntries \in 0 .. MaxEntry
  BY StoreAssumption
<1>3. Unused(DefaultConfig) \in Devices
  BY <1>1, <1>2, UnusedIsDevice
<1>4. ASSUME NEW config \in InitialConfigs PROVE config \in Configs \cup {Absent}
  <2>1. CASE config = Absent
    BY <2>1
  <2>2. CASE config # Absent
    <3> DEFINE d == Unused(DefaultConfig)
               profiles == [n \in Names |-> IF n = 1 THEN d ELSE NoDevice]
    <3>1. PICK f \in Formats : config = Config(f, profiles, 1)
      BY <2>2 DEF InitialConfigs
    <3>2. profiles \in [Names -> Devices \cup {NoDevice}]
      BY <1>3
    <3> HIDE DEF profiles
    <3> QED BY <1>2, <3>1, <3>2 DEF Config, Configs, Transports, NoSecret
  <2> QED BY <2>1, <2>2
<1>5. InitialHistory \in Histories
  <2>1. \A i \in 1 .. OldEntries : i \in 1 .. MaxEntry
    BY <1>2
  <2> QED BY <2>1 DEF InitialHistory, Histories, Entries
<1>6. PICK config \in InitialConfigs, old \in {Absent, InitialHistory} :
        visible = [f \in Files |-> CASE f = ConfigFile -> config
                                      [] Directory(f) = "legacy" -> old
                                      [] OTHER -> Absent]
  BY DEF Init
<1>7. visible \in Disks
  <2>1. ASSUME NEW f \in Files
        PROVE  visible[f] \in FileContents /\ (visible[f] = Absent \/ Fits(f, visible[f]))
    <3>1. CASE f = ConfigFile
      <4>1. Directory(f) # "legacy"
        BY <3>1 DEF Directory, ConfigFile
      <4>2. visible[f] = config
        BY <1>6, <3>1, <4>1
      <4> QED BY <1>4, <3>1, <4>2 DEF Fits, FileContents
    <3>2. CASE f # ConfigFile /\ Directory(f) = "legacy"
      <4>1. visible[f] = old
        BY <1>6, <3>2
      <4> QED BY <1>5, <3>2, <4>1 DEF Fits, FileContents
    <3>3. CASE f # ConfigFile /\ Directory(f) # "legacy"
      <4>1. visible[f] = Absent
        BY <1>6, <3>3
      <4> QED BY <4>1 DEF FileContents
    <3> QED BY <3>1, <3>2, <3>3
  <2>2. visible \in [Files -> FileContents]
    BY <1>6, <2>1
  <2> QED BY <2>1, <2>2 DEF Disks
<1>8. ASSUME NEW n \in Names PROVE View(n) \subseteq Entries
  <2>1. Canonical(n) \in Files /\ Legacy(n) \in Files /\ Canonical(n) # ConfigFile /\ Legacy(n) # ConfigFile
    BY DEF Files, HistoryFiles, Canonical, Legacy, ConfigFile
  <2>2. Content(Canonical(n)) \subseteq Entries /\ Content(Legacy(n)) \subseteq Entries
    BY <1>7, <2>1 DEF Content, Present, Disks, Fits, Retained, Histories
  <2> QED BY <2>2 DEF View, MergeEntries, Newest
<1>9. promised \in [Devices -> SUBSET Entries]
  <2>1. promised = [d \in Devices |-> UNION {View(n) : n \in {m \in Names : Loaded.profiles[m] = d}}]
    BY DEF Init
  <2>2. ASSUME NEW d \in Devices
        PROVE  UNION {View(n) : n \in {m \in Names : Loaded.profiles[m] = d}} \in SUBSET Entries
    BY <1>8
  <2> QED BY <2>1, <2>2
<1>10. /\ locks \in [Files -> Processes \cup {"free"}]
       /\ proc \in [Processes -> Procs] /\ selected \in [Processes -> Selections]
       /\ known \in [Processes -> Entries \cup {NoEntry}]
  BY IdleType, NoSelectionType DEF Init
<1>11. left \in 0 .. MaxCommands /\ newest \in 0 .. MaxEntry /\ vault \in SUBSET (0 .. MaxCommands)
  BY <1>2 DEF Init
<1>12. backups \in [live : SUBSET Configs, kept : SUBSET Configs] /\ durable = visible
  BY DEF Init
<1> QED BY <1>7, <1>9, <1>10, <1>11, <1>12 DEF TypeInv

\* The invariant holds at the start.
LEMMA InitLockInv ==
    ASSUME Init
    PROVE  LockInv
<1>1. TypeInv
  BY InitialTypes
<1>2. ASSUME NEW q \in Processes PROVE ProcOK(q) /\ LocksOK(q) /\ PlanOK(q)
  <2>1. proc[q] = Idle /\ known[q] = NoEntry /\ selected[q] = NoSelection
    BY DEF Init
  <2>2. \A f \in Files : locks[f] # q
    BY StoreAssumption DEF Init
  <2>3. Idle.at = "idle" /\ Idle.wants = {}
    BY DEF Idle
  <2> QED BY <2>1, <2>2, <2>3 DEF ProcOK, LocksOK, PlanOK
<1> QED BY <1>1, <1>2 DEF LockInv

\* Every step keeps it.
LEMMA LockInvKept ==
    ASSUME LockInv, [Next]_vars
    PROVE  LockInv'
<1>1. CASE Next
  <2>1. CASE PowerLoss
    BY <2>1, PowerLossKeeps
  <2>2. ASSUME NEW p \in Processes,
               \/ BeginConfig(p) \/ BeginMqttConfigure(p) \/ SelectProfile(p) \/ BeginInsert(p) \/ BeginUpdate(p)
               \/ BeginHistory(p) \/ AcquireLock(p) \/ LockTimesOut(p) \/ RefuseCommand(p) \/ ReadAndPlan(p)
               \/ RenameOver(p) \/ SyncDirectory(p) \/ RemoveFile(p) \/ CreateBackup(p)
               \/ StepFails(p) \/ Return(p) \/ CleanupCredential(p) \/ Kill(p)
        PROVE  LockInv'
    BY <2>2, BeginConfigKeeps, BeginMqttConfigureKeeps, SelectProfileKeeps, BeginInsertKeeps, BeginUpdateKeeps,
       BeginHistoryKeeps, AcquireLockKeeps, LeavingKeeps, ReadAndPlanKeeps, RenameOverKeeps, SyncDirectoryKeeps,
       RemoveFileKeeps, CreateBackupKeeps, StepFailsKeeps, ReturnKeeps, CleanupCredentialKeeps, KillKeeps
  <2> QED BY <1>1, <2>1, <2>2 DEF Next
<1>2. CASE UNCHANGED vars
  <2>1. UNCHANGED <<visible, durable, backups, vault, locks, proc, selected, known, left, newest, promised>>
    BY <1>2 DEF vars, fileVars
  <2>2. TypeInv'
    BY <2>1 DEF LockInv, TypeInv, Disks
  <2>3. ASSUME NEW q \in Processes PROVE (ProcOK(q) /\ LocksOK(q) /\ PlanOK(q))'
    BY <2>1, OthersKeep
  <2> QED BY <2>2, <2>3 DEF LockInv
<1> QED BY <1>1, <1>2

\* The invariant holds in every behaviour.
LEMMA LockInvHolds == Spec => []LockInv
<1>1. Init => LockInv
  BY InitLockInv
<1>2. LockInv /\ [Next]_vars => LockInv'
  BY LockInvKept
<1> QED BY <1>1, <1>2, PTL DEF Spec

\* No set of processes waits for locks that its own members hold (acquire_target_locks, lib.rs).
THEOREM LocksNeverCycle == Spec => []NoLockCycle
<1>1. LockInv => NoLockCycle
  BY NoCycle
<1> QED BY <1>1, LockInvHolds, PTL

-----------------------------------------------------------------------------
(* The configuration.                                                      *)

\* The step that replaces the configuration.
Commits(s) == s.do = "rename" /\ s.file = ConfigFile

\* A plan commits once, and what it commits is made from the file as it is, without the profile that
\* it makes.  What migrate and repair replace has been backed up or will be before.
ConfigPlanOK(p) ==
    proc[p].at = "working" =>
        \A i \in 1 .. Len(proc[p].todo) : Commits(proc[p].todo[i]) =>
            /\ proc[p].todo[i].content = Updated(Loaded, proc[p].cmd)
            /\ \A j \in 1 .. Len(proc[p].todo) : Commits(proc[p].todo[j]) => j = i
            /\ proc[p].cmd.op \in {"init", "import"} => ~Configured(Loaded, proc[p].cmd.name)
            /\ proc[p].cmd.op \in {"migrate", "repair"} /\ Present(ConfigFile) =>
                  \/ visible[ConfigFile] \in backups.live
                  \/ \E j \in 1 .. i - 1 : /\ proc[p].todo[j].do = "backup"
                                           /\ proc[p].todo[j].content = visible[ConfigFile]

ConfigInv == ConfigUpdatesAreApplied /\ \A p \in Processes : ConfigPlanOK(p)

\* A process that a step does not touch, while the configuration stays and no backup goes.
LEMMA OthersCommit ==
    ASSUME ConfigInv, NEW q \in Processes, proc'[q] = proc[q],
           visible'[ConfigFile] = visible[ConfigFile], backups.live \subseteq backups'.live
    PROVE  ConfigPlanOK(q)'
<1>1. ConfigPlanOK(q) /\ Loaded' = Loaded /\ Present(ConfigFile)' = Present(ConfigFile)
  BY DEF ConfigInv, Loaded, Present
<1> QED BY <1>1 DEF ConfigPlanOK

\* A plan of which the first step is done.
LEMMA TailCommits ==
    ASSUME LockInv, ConfigInv, NEW p \in Processes, Working(p), proc[p].todo # <<>>,
           proc'[p].at = "working", proc'[p].cmd = proc[p].cmd, proc'[p].todo = Tail(proc[p].todo),
           visible'[ConfigFile] = visible[ConfigFile], backups.live \subseteq backups'.live,
           Head(proc[p].todo).do = "backup" => Head(proc[p].todo).content \in backups'.live
    PROVE  ConfigPlanOK(p)'
<1> DEFINE t == proc[p].todo
           u == proc'[p].todo
<1>1. ConfigPlanOK(p) /\ Loaded' = Loaded /\ Present(ConfigFile)' = Present(ConfigFile)
  BY DEF ConfigInv, Loaded, Present
<1>2. t \in Seq(StepsOf(proc[p].cmd)) /\ t # <<>> /\ u = Tail(t) /\ Head(t) = t[1]
  BY DEF LockInv, PlanOK, Working
<1> HIDE DEF t, u
<1>3. /\ Len(t) \in Nat /\ Len(t) # 0 /\ Len(u) = Len(t) - 1
      /\ \A i \in 1 .. Len(u) : u[i] = t[i + 1] /\ i + 1 \in 1 .. Len(t) /\ i \in Nat
  BY <1>2
<1>4. ASSUME NEW i \in 1 .. Len(u), Commits(u[i])
      PROVE  /\ u[i].content = Updated(Loaded, proc[p].cmd)
             /\ \A j \in 1 .. Len(u) : Commits(u[j]) => j = i
             /\ proc[p].cmd.op \in {"init", "import"} => ~Configured(Loaded, proc[p].cmd.name)
             /\ proc[p].cmd.op \in {"migrate", "repair"} /\ Present(ConfigFile) =>
                  \/ visible[ConfigFile] \in backups'.live
                  \/ \E j \in 1 .. i - 1 : u[j].do = "backup" /\ u[j].content = visible[ConfigFile]
  <2>1. u[i] = t[i + 1] /\ i + 1 \in 1 .. Len(t) /\ i \in Nat /\ i + 1 - 1 = i
    BY <1>3
  <2>2. /\ t[i + 1].content = Updated(Loaded, proc[p].cmd)
        /\ \A j \in 1 .. Len(t) : Commits(t[j]) => j = i + 1
        /\ proc[p].cmd.op \in {"init", "import"} => ~Configured(Loaded, proc[p].cmd.name)
        /\ proc[p].cmd.op \in {"migrate", "repair"} /\ Present(ConfigFile) =>
                  \/ visible[ConfigFile] \in backups.live
                  \/ \E j \in 1 .. i : t[j].do = "backup" /\ t[j].content = visible[ConfigFile]
    <3>1. \A k \in 1 .. Len(t) : Commits(t[k]) =>
            /\ t[k].content = Updated(Loaded, proc[p].cmd)
            /\ \A j \in 1 .. Len(t) : Commits(t[j]) => j = k
            /\ proc[p].cmd.op \in {"init", "import"} => ~Configured(Loaded, proc[p].cmd.name)
            /\ proc[p].cmd.op \in {"migrate", "repair"} /\ Present(ConfigFile) =>
                  \/ visible[ConfigFile] \in backups.live
                  \/ \E j \in 1 .. k - 1 : t[j].do = "backup" /\ t[j].content = visible[ConfigFile]
      BY <1>1 DEF ConfigPlanOK, Working, t
    <3> QED BY <1>4, <2>1, <3>1
  <2>3. ASSUME NEW j \in 1 .. Len(u), Commits(u[j]) PROVE j = i
    <3>1. u[j] = t[j + 1] /\ j + 1 \in 1 .. Len(t) /\ j \in Nat
      BY <1>3
    <3>2. j + 1 = i + 1
      BY <2>2, <2>3, <3>1
    <3> QED BY <2>1, <3>1, <3>2
  <2>4. ASSUME NEW j \in 1 .. i, t[j].do = "backup", t[j].content = visible[ConfigFile]
        PROVE  \/ visible[ConfigFile] \in backups'.live
               \/ \E k \in 1 .. i - 1 : u[k].do = "backup" /\ u[k].content = visible[ConfigFile]
    <3>1. CASE j = 1
      BY <1>2, <2>4, <3>1 DEF t
    <3>2. CASE j # 1
      <4>1. j - 1 \in 1 .. i - 1 /\ j - 1 \in 1 .. Len(u) /\ j - 1 + 1 = j
        BY <1>3, <2>1, <3>2
      <4>2. u[j - 1] = t[j]
        BY <1>3, <4>1
      <4> QED BY <2>4, <4>1, <4>2
    <3> QED BY <3>1, <3>2
  <2> QED BY <2>1, <2>2, <2>3, <2>4
<1> QED BY <1>1, <1>4 DEF ConfigPlanOK, u

\* A step on the configuration belongs to the process that holds its lock.
LEMMA OnlyHolderCommits ==
    ASSUME LockInv, NEW p \in Processes, Working(p), NEW i \in 1 .. Len(proc[p].todo),
           proc[p].todo[i].file = ConfigFile
    PROVE  locks[ConfigFile] = p
<1>1. proc[p].todo[i] \in StepsOf(proc[p].cmd)
  <2>1. proc[p].todo \in Seq(StepsOf(proc[p].cmd))
    BY DEF LockInv, PlanOK, Working
  <2> DEFINE t == proc[p].todo
             S == StepsOf(proc[p].cmd)
  <2>2. t \in Seq(S) /\ i \in 1 .. Len(t)
    BY <2>1
  <2> HIDE DEF t, S
  <2>3. t[i] \in S
    BY <2>2
  <2> QED BY <2>3 DEF t, S
<1>2. ConfigFile \in Needs(proc[p].cmd)
  BY <1>1 DEF StepsOf
<1> QED BY <1>2 DEF LockInv, LocksOK, ProcOK, Working

\* In a plan with one commit, between steps on histories.
LEMMA OneCommit ==
    ASSUME NEW S, NEW a \in Seq(S), NEW b \in Seq(S), NEW r, NEW y, ~Commits(y),
           \A s \in S : ~Commits(s),
           NEW i \in 1 .. Len(a \o <<r, y>> \o b), Commits((a \o <<r, y>> \o b)[i])
    PROVE  i = Len(a) + 1 /\ (a \o <<r, y>> \o b)[i] = r
<1> DEFINE t == a \o <<r, y>> \o b
<1>1. Len(t) = Len(a) + 2 + Len(b) /\ Len(a) \in Nat /\ Len(b) \in Nat
  BY DEF t
<1>2. /\ \A k \in 1 .. Len(a) : t[k] = a[k]
      /\ t[Len(a) + 1] = r /\ t[Len(a) + 2] = y
      /\ \A k \in Len(a) + 3 .. Len(t) : t[k] = b[k - (Len(a) + 2)] /\ k - (Len(a) + 2) \in 1 .. Len(b)
  BY <1>1 DEF t
<1> HIDE DEF t
<1>3. i \in 1 .. Len(t) /\ Commits(t[i])
  BY DEF t
<1>4. i \notin 1 .. Len(a)
  BY <1>2, <1>3
<1>5. i \notin Len(a) + 3 .. Len(t)
  <2> SUFFICES ASSUME i \in Len(a) + 3 .. Len(t) PROVE FALSE
    OBVIOUS
  <2>1. t[i] = b[i - (Len(a) + 2)] /\ i - (Len(a) + 2) \in 1 .. Len(b)
    BY <1>2
  <2>2. t[i] \in S
    BY <2>1
  <2> QED BY <1>3, <2>2
<1>6. i = Len(a) + 1 \/ i = Len(a) + 2
  BY <1>1, <1>3, <1>4, <1>5
<1> QED BY <1>2, <1>3, <1>6 DEF t

\* What a command that is not refused plans.
LEMMA PlanCommits ==
    ASSUME TypeInv, NEW c \in Commands, Begun(c), ~RefusedHere(c),
           NEW i \in 1 .. Len(Plan(c)), Commits(Plan(c)[i])
    PROVE  /\ Plan(c)[i].content = Updated(Loaded, c)
           /\ \A j \in 1 .. Len(Plan(c)) : Commits(Plan(c)[j]) => j = i
           /\ c.op \in {"migrate", "repair"} /\ Present(ConfigFile) =>
                 \E j \in 1 .. i - 1 : /\ Plan(c)[j].do = "backup"
                                       /\ Plan(c)[j].content = visible[ConfigFile]
<1>1. c.op \in ConfigOps
  <2>1. Plan(c) \in Seq(StepsOf(c))
    BY PlanSteps
  <2> DEFINE t == Plan(c)
             S == StepsOf(c)
  <2>2. t \in Seq(S) /\ i \in 1 .. Len(t) /\ Commits(t[i])
    BY <2>1
  <2> HIDE DEF t, S
  <2>3. t[i] \in S
    BY <2>2
  <2>4. ConfigFile \in Needs(c)
    BY <2>2, <2>3 DEF S, StepsOf, Commits
  <2>5. \A n : ConfigFile \notin HistoryLocks(n)
    BY DEF HistoryLocks, ConfigFile, Canonical, Legacy
  <2> QED BY <2>4, <2>5 DEF Needs
<1>2. Plan(c) = ConfigPlan(c)
  BY <1>1 DEF Plan, ConfigOps
<1> DEFINE R(e) == Step("rename", ConfigFile, Updated(Loaded, c), e)
           Y(e) == Step("sync", ConfigFile, Absent, e)
           B == Step("backup", ConfigFile, visible[ConfigFile], "abort")
<1>3. \A e : /\ Replace(ConfigFile, Updated(Loaded, c), e) = <<R(e), Y(e)>>
             /\ ~Commits(Y(e)) /\ R(e).content = Updated(Loaded, c)
  BY DEF Replace, Step, Commits
<1>4. ~Commits(B) /\ B.do = "backup" /\ B.content = visible[ConfigFile]
  BY DEF Step, Commits
<1> HIDE DEF R, Y, B
<1>5. CASE c.op = "rename"
  <2> DEFINE k == [c EXCEPT !.op = "copy"]
             S == StepsOf(k)
             e == IF AnyPathExists(c.name) THEN "undo" ELSE "abort"
             a == CopyPlan(c.name, c.to)
             b == ClearPlan(c.name)
  <2>1. k \in Commands /\ k.op = "copy" /\ k.name = c.name /\ k.to = c.to
    BY DEF Commands, Ops
  <2>2. Begun(k) /\ k.name \in Names /\ HistoryLocks(k.name) \subseteq Needs(k)
    <3>1. c.secret = NoSecret /\ c.name \in Names /\ c.to \in Names
      BY <1>5 DEF Begun
    <3>2. k.secret = c.secret
      BY DEF Commands
    <3> QED BY <2>1, <3>1, <3>2 DEF Begun, Needs
  <2> HIDE DEF k
  <2>3. a \in Seq(S) /\ b \in Seq(S)
    BY <2>1, <2>2, CopySteps, HistoryPlans
  <2>4. \A s \in S : ~Commits(s)
    <3>1. ConfigFile \notin Needs(k)
      BY <2>1 DEF Needs, HistoryLocks, ConfigFile, Canonical, Legacy, ConfigOps
    <3> QED BY <3>1 DEF StepsOf, Commits
  <2>5. Plan(c) = a \o <<R(e), Y(e)>> \o b
    <3>1. Updated(Loaded, c) = Renamed(Loaded, c)
      BY <1>5 DEF Updated
    <3>2. ConfigPlan(c) = MovePlan(c.name, c.to, Renamed(Loaded, c))
      BY <1>5 DEF ConfigPlan
    <3>3. MovePlan(c.name, c.to, Renamed(Loaded, c))
            = CopyPlan(c.name, c.to) \o Replace(ConfigFile, Renamed(Loaded, c), e) \o ClearPlan(c.name)
      BY DEF MovePlan
    <3> QED BY <1>2, <1>3, <3>1, <3>2, <3>3
  <2> HIDE DEF a, b, S, e
  <2>6. ASSUME NEW j \in 1 .. Len(Plan(c)), Commits(Plan(c)[j])
        PROVE  j = Len(a) + 1 /\ Plan(c)[j] = R(e)
    <3>1. j \in 1 .. Len(a \o <<R(e), Y(e)>> \o b) /\ Commits((a \o <<R(e), Y(e)>> \o b)[j]) /\ ~Commits(Y(e))
      BY <1>3, <2>5, <2>6
    <3>2. j = Len(a) + 1 /\ (a \o <<R(e), Y(e)>> \o b)[j] = R(e)
      BY <2>3, <2>4, <3>1, OneCommit
    <3> QED BY <2>5, <3>2
  <2> QED BY <1>3, <1>5, <2>6
<1>6. CASE c.op \in {"migrate", "repair"} /\ Present(ConfigFile)
  <2>1. ConfigPlan(c) = BackupPlan \o Replace(ConfigFile, Updated(Loaded, c), "abort")
    BY <1>6 DEF ConfigPlan
  <2>2. Plan(c) = <<B>> \o <<R("abort"), Y("abort")>>
    BY <1>2, <1>3, <1>6, <2>1 DEF BackupPlan, B
  <2>3. /\ Len(Plan(c)) = 3 /\ Plan(c)[1] = B /\ Plan(c)[2] = R("abort") /\ Plan(c)[3] = Y("abort")
    BY <2>2
  <2>4. \A j \in 1 .. Len(Plan(c)) : j = 1 \/ j = 2 \/ j = 3
    BY <2>3
  <2>5. \A j \in 1 .. Len(Plan(c)) : Commits(Plan(c)[j]) => j = 2
    BY <1>3, <1>4, <2>3, <2>4
  <2>6. i = 2 /\ 1 \in 1 .. i - 1
    BY <2>5
  <2> QED BY <1>3, <1>4, <2>3, <2>5, <2>6
<1>7. CASE c.op # "rename" /\ ~(c.op \in {"migrate", "repair"} /\ Present(ConfigFile))
  <2>1. Plan(c) = <<R("abort"), Y("abort")>>
    <3>1. CASE c.op \in {"migrate", "repair"}
      <4>1. ConfigPlan(c) = BackupPlan \o Replace(ConfigFile, Updated(Loaded, c), "abort")
        BY <3>1 DEF ConfigPlan
      <4>2. BackupPlan = <<>>
        BY <1>7, <3>1 DEF BackupPlan
      <4> QED BY <1>2, <1>3, <4>1, <4>2
    <3>2. CASE c.op \notin {"migrate", "repair"}
      <4>1. ConfigPlan(c) = Replace(ConfigFile, Updated(Loaded, c), "abort")
        BY <1>7, <3>2 DEF ConfigPlan
      <4> QED BY <1>2, <1>3, <4>1
    <3> QED BY <3>1, <3>2
  <2>2. Len(Plan(c)) = 2 /\ Plan(c)[1] = R("abort") /\ Plan(c)[2] = Y("abort")
    BY <2>1
  <2>3. \A j \in 1 .. Len(Plan(c)) : j = 1 \/ j = 2
    BY <2>2
  <2>4. \A j \in 1 .. Len(Plan(c)) : Commits(Plan(c)[j]) => j = 1
    BY <1>3, <2>2, <2>3
  <2> QED BY <1>3, <1>7, <2>2, <2>4
<1> QED BY <1>5, <1>6, <1>7

\* Steps that leave the configuration and the backups alone, and begin no plan.
LEMMA QuietKeeps ==
    ASSUME ConfigInv, visible' = visible, backups' = backups, intended' = intended,
           \A q \in Processes : proc'[q] = proc[q] \/ proc'[q].at # "working"
    PROVE  ConfigInv'
<1>1. ConfigUpdatesAreApplied'
  BY DEF ConfigInv, ConfigUpdatesAreApplied, Loaded, Present
<1>2. ASSUME NEW q \in Processes PROVE ConfigPlanOK(q)'
  <2>1. CASE proc'[q] = proc[q]
    BY <2>1, OthersCommit
  <2>2. CASE proc'[q].at # "working"
    BY <2>2 DEF ConfigPlanOK
  <2> QED BY <2>1, <2>2
<1> QED BY <1>1, <1>2 DEF ConfigInv

\* The actions that are such steps.
LEMMA QuietActions ==
    ASSUME LockInv, NEW p \in Processes,
           \/ BeginConfig(p) \/ BeginMqttConfigure(p) \/ SelectProfile(p) \/ BeginInsert(p) \/ BeginUpdate(p)
           \/ BeginHistory(p) \/ AcquireLock(p) \/ LockTimesOut(p) \/ RefuseCommand(p)
           \/ Return(p) \/ CleanupCredential(p) \/ Kill(p)
    PROVE  /\ visible' = visible /\ backups' = backups /\ intended' = intended /\ durable' = durable
           /\ \A q \in Processes : proc'[q] = proc[q] \/ proc'[q].at # "working"
<1>1. proc \in [Processes -> Procs] /\ proc[p] \in Procs
  BY DEF LockInv, TypeInv
<1>2. Idle.at = "idle"
  BY DEF Idle
<1>3. ASSUME NEW c, NEW w, Begin(p, c, w)
      PROVE  /\ visible' = visible /\ backups' = backups /\ intended' = intended /\ durable' = durable
             /\ \A q \in Processes : proc'[q] = proc[q] \/ proc'[q].at # "working"
  <2> DEFINE r == [Idle EXCEPT !.at = "locking", !.cmd = c, !.wants = w]
  <2>1. r.at = "locking"
    BY DEF Idle
  <2> HIDE DEF r
  <2>2. proc' = [proc EXCEPT ![p] = r] /\ UNCHANGED <<visible, backups, durable, intended>>
    BY <1>3 DEF Begin, fileVars, r
  <2> QED BY <1>1, <2>1, <2>2
<1>4. CASE BeginConfig(p) \/ BeginMqttConfigure(p) \/ BeginInsert(p) \/ BeginUpdate(p) \/ BeginHistory(p)
  <2>1. \E c, w : Begin(p, c, w)
    BY <1>4 DEF BeginConfig, BeginMqttConfigure, BeginInsert, BeginUpdate, BeginHistory
  <2> QED BY <1>3, <2>1
<1>5. CASE SelectProfile(p)
  BY <1>5 DEF SelectProfile, fileVars
<1>6. CASE AcquireLock(p)
  <2>1. proc[p].at = "locking" /\ proc' = [proc EXCEPT ![p].wants = @ \ {NextLock(p)}]
        /\ UNCHANGED <<visible, backups, durable, intended>>
    BY <1>6 DEF AcquireLock, TryLock, Waiting, fileVars
  <2> QED BY <1>1, <2>1 DEF Procs
<1>7. ASSUME NEW ok, Leave(p, ok) PROVE \A q \in Processes : proc'[q] = proc[q] \/ proc'[q].at # "working"
  <2> DEFINE r == [proc[p] EXCEPT !.at = "cleaning", !.ok = ok, !.todo = <<>>, !.wants = {}]
             over == IF Garbage(p, ok) = {} THEN Idle ELSE r
  <2>1. r.at = "cleaning"
    BY <1>1 DEF Procs
  <2>2. proc' = [proc EXCEPT ![p] = over]
    BY <1>7 DEF Leave
  <2>3. over.at # "working"
    <3> HIDE DEF r
    <3> QED BY <1>2, <2>1
  <2> HIDE DEF over
  <2> QED BY <1>1, <2>2, <2>3
<1>8. CASE LockTimesOut(p) \/ RefuseCommand(p) \/ Return(p)
  <2>1. (\E ok : Leave(p, ok)) /\ UNCHANGED <<visible, backups, durable, intended>>
    BY <1>8 DEF LockTimesOut, RefuseCommand, Return, fileVars
  <2> QED BY <1>7, <2>1
<1>9. CASE CleanupCredential(p) \/ Kill(p)
  <2>1. proc' = [proc EXCEPT ![p] = Idle] /\ UNCHANGED <<visible, backups, durable, intended>>
    BY <1>9 DEF CleanupCredential, Kill, fileVars
  <2> QED BY <1>1, <1>2, <2>1
<1> QED BY <1>4, <1>5, <1>6, <1>8, <1>9

\* What a step of a plan does to the process that takes it.
LEMMA StepDoneEffect ==
    ASSUME LockInv, NEW p \in Processes, Working(p), StepDone(p)
    PROVE  /\ proc'[p].at = "working" /\ proc'[p].cmd = proc[p].cmd /\ proc'[p].todo = Tail(proc[p].todo)
           /\ proc'[p].ok = proc[p].ok /\ proc'[p].oldSecret = proc[p].oldSecret
           /\ \A q \in Processes \ {p} : proc'[q] = proc[q]
<1>1. proc \in [Processes -> Procs] /\ proc[p].at = "working"
      /\ proc' = [proc EXCEPT ![p].todo = Tail(proc[p].todo)]
  BY DEF LockInv, TypeInv, Working, StepDone
<1> QED BY <1>1 DEF Procs

\* What planning does to it.
LEMMA ReadAndPlanEffect ==
    ASSUME LockInv, NEW p \in Processes, ReadAndPlan(p)
    PROVE  /\ proc'[p].at = "working" /\ proc'[p].cmd = proc[p].cmd /\ proc'[p].todo = Plan(proc[p].cmd)
           /\ proc'[p].ok = proc[p].ok
           /\ proc'[p].oldSecret = IF proc[p].cmd.op = "mqtt" THEN Loaded.secret ELSE proc[p].oldSecret
           /\ \A q \in Processes \ {p} : proc'[q] = proc[q]
           /\ proc[p].at = "locking" /\ proc[p].cmd \in Commands /\ Begun(proc[p].cmd)
           /\ ~RefusedHere(proc[p].cmd)
           /\ UNCHANGED <<visible, durable, backups, vault, left, intended>>
<1> DEFINE t == Plan(proc[p].cmd)
           old == IF proc[p].cmd.op = "mqtt" THEN Loaded.secret ELSE proc[p].oldSecret
<1>1. proc \in [Processes -> Procs] /\ proc[p].at = "locking" /\ ProcOK(p)
  BY DEF LockInv, TypeInv, ReadAndPlan, TryLock, Waiting
<1>2. /\ proc' = [proc EXCEPT ![p].at = "working", ![p].todo = t, ![p].wants = {}, ![p].oldSecret = old]
      /\ ~RefusedHere(proc[p].cmd) /\ UNCHANGED <<visible, durable, backups, vault, left, intended>>
  BY DEF ReadAndPlan, fileVars
<1>3. proc[p].cmd \in Commands /\ Begun(proc[p].cmd)
  BY <1>1 DEF Procs, ProcOK
<1> HIDE DEF t, old
<1> DEFINE e1 == [proc EXCEPT ![p].at = "working"]
           e2 == [e1 EXCEPT ![p].todo = t]
           e3 == [e2 EXCEPT ![p].wants = {}]
           names == {"at", "cmd", "wants", "todo", "ok", "oldSecret"}
<1>4. proc' = [e3 EXCEPT ![p].oldSecret = old]
  BY <1>2, Zenon
<1>5. DOMAIN proc = Processes /\ DOMAIN proc[p] = names
  BY <1>1 DEF Procs
<1>6. /\ DOMAIN e1 = Processes /\ e1[p] = [proc[p] EXCEPT !.at = "working"]
      /\ \A q \in Processes \ {p} : e1[q] = proc[q]
  BY <1>5
<1>7. /\ DOMAIN e1[p] = names /\ e1[p].at = "working" /\ e1[p].cmd = proc[p].cmd /\ e1[p].ok = proc[p].ok
  BY <1>5, <1>6
<1> HIDE DEF e1
<1>8. /\ DOMAIN e2 = Processes /\ e2[p] = [e1[p] EXCEPT !.todo = t]
      /\ \A q \in Processes \ {p} : e2[q] = e1[q]
  BY <1>6
<1>9. /\ DOMAIN e2[p] = names /\ e2[p].at = "working" /\ e2[p].cmd = proc[p].cmd /\ e2[p].ok = proc[p].ok
      /\ e2[p].todo = t
  BY <1>7, <1>8
<1> HIDE DEF e2
<1>10. /\ DOMAIN e3 = Processes /\ e3[p] = [e2[p] EXCEPT !.wants = {}]
       /\ \A q \in Processes \ {p} : e3[q] = e2[q]
  BY <1>8
<1>11. /\ DOMAIN e3[p] = names /\ e3[p].at = "working" /\ e3[p].cmd = proc[p].cmd /\ e3[p].ok = proc[p].ok
       /\ e3[p].todo = t
  BY <1>9, <1>10
<1> HIDE DEF e3
<1>12. proc'[p] = [e3[p] EXCEPT !.oldSecret = old] /\ \A q \in Processes \ {p} : proc'[q] = e3[q]
  BY <1>4, <1>10
<1>13. /\ proc'[p].at = "working" /\ proc'[p].cmd = proc[p].cmd /\ proc'[p].ok = proc[p].ok
       /\ proc'[p].todo = t /\ proc'[p].oldSecret = old
  BY <1>11, <1>12
<1> QED BY <1>1, <1>2, <1>3, <1>6, <1>8, <1>10, <1>12, <1>13 DEF t, old

\* Each action keeps ConfigInv.
LEMMA ReadAndPlanCommits ==
    ASSUME LockInv, ConfigInv, NEW p \in Processes, ReadAndPlan(p)
    PROVE  ConfigInv'
<1>1. /\ proc'[p].at = "working" /\ proc'[p].cmd = proc[p].cmd /\ proc'[p].todo = Plan(proc[p].cmd)
      /\ \A q \in Processes \ {p} : proc'[q] = proc[q]
      /\ proc[p].cmd \in Commands /\ Begun(proc[p].cmd) /\ ~RefusedHere(proc[p].cmd)
      /\ UNCHANGED <<visible, backups, intended>>
  BY ReadAndPlanEffect
<1>2. Loaded' = Loaded /\ Present(ConfigFile)' = Present(ConfigFile) /\ TypeInv
  BY <1>1 DEF Loaded, Present, LockInv
<1>3. ASSUME NEW q \in Processes PROVE ConfigPlanOK(q)'
  <2>1. CASE q # p
    BY <1>1, <2>1, OthersCommit
  <2>2. CASE q = p
    <3> DEFINE c == proc[p].cmd
               t == Plan(c)
    <3>1. ASSUME NEW i \in 1 .. Len(t), Commits(t[i])
          PROVE  /\ t[i].content = Updated(Loaded, c)
                 /\ \A j \in 1 .. Len(t) : Commits(t[j]) => j = i
                 /\ c.op \in {"migrate", "repair"} /\ Present(ConfigFile) =>
                       \E j \in 1 .. i - 1 : t[j].do = "backup" /\ t[j].content = visible[ConfigFile]
      BY <1>1, <1>2, <3>1, PlanCommits
    <3> HIDE DEF t
    <3>2. proc'[p].todo = t
      BY <1>1 DEF t
    <3>3. c.op \in {"init", "import"} => ~Configured(Loaded, c.name)
      BY <1>1 DEF RefusedHere, Refused, ConfigOps
    <3> QED BY <1>1, <1>2, <2>2, <3>1, <3>2, <3>3 DEF ConfigPlanOK
  <2> QED BY <2>1, <2>2
<1>4. ConfigUpdatesAreApplied'
  BY <1>1, <1>2 DEF ConfigInv, ConfigUpdatesAreApplied
<1> QED BY <1>3, <1>4 DEF ConfigInv

\* Steps that do not replace the configuration.
LEMMA OtherStepCommits ==
    ASSUME LockInv, ConfigInv, NEW p \in Processes, Working(p), proc[p].todo # <<>>, StepDone(p),
           visible'[ConfigFile] = visible[ConfigFile], backups.live \subseteq backups'.live,
           Head(proc[p].todo).do = "backup" => Head(proc[p].todo).content \in backups'.live,
           intended' = intended
    PROVE  ConfigInv'
<1>1. /\ proc'[p].at = "working" /\ proc'[p].cmd = proc[p].cmd /\ proc'[p].todo = Tail(proc[p].todo)
      /\ \A q \in Processes \ {p} : proc'[q] = proc[q]
  BY StepDoneEffect
<1>2. ASSUME NEW q \in Processes PROVE ConfigPlanOK(q)'
  <2>1. CASE q # p
    BY <1>1, <2>1, OthersCommit
  <2>2. CASE q = p
    BY <1>1, <2>2, TailCommits
  <2> QED BY <2>1, <2>2
<1>3. ConfigUpdatesAreApplied'
  BY DEF ConfigInv, ConfigUpdatesAreApplied, Loaded, Present
<1> QED BY <1>2, <1>3 DEF ConfigInv

\* The step that does finds the file as it was planned from, with its backup.
LEMMA CommitIsCurrent ==
    ASSUME LockInv, ConfigInv, NEW p \in Processes, RenameOver(p), Target(p) = ConfigFile
    PROVE  /\ locks[ConfigFile] = p
           /\ visible'[ConfigFile] = Updated(Loaded, proc[p].cmd) /\ visible'[ConfigFile] \in Configs
           /\ Loaded' = Updated(Loaded, proc[p].cmd) /\ intended' = Loaded'
           /\ \A j \in 1 .. Len(proc[p].todo) : Commits(proc[p].todo[j]) => j = 1
           /\ proc[p].cmd.op \in {"init", "import"} => ~Configured(Loaded, proc[p].cmd.name)
           /\ proc[p].cmd.op \in {"migrate", "repair"} /\ Present(ConfigFile) =>
                 visible[ConfigFile] \in backups.live
<1> DEFINE t == proc[p].todo
           s == Head(t)
<1>1. /\ Working(p) /\ t # <<>> /\ s.do = "rename" /\ s.file = ConfigFile
      /\ visible' = [visible EXCEPT ![ConfigFile] = s.content]
      /\ intended' = Updated(intended, proc[p].cmd)
  BY DEF RenameOver, Doing, Target
<1>2. t \in Seq(StepsOf(proc[p].cmd))
  BY <1>1 DEF LockInv, PlanOK, Working
<1>3. s \in Steps
  BY <1>1, HeadOfPlan DEF StepsOf
<1>4. s.content \in Configs
  BY <1>1, <1>3 DEF Steps, Fits
<1>5. 1 \in 1 .. Len(t) /\ t[1] = s /\ Commits(t[1])
  <2>1. Len(t) \in Nat /\ Len(t) # 0 /\ t[1] = s
    BY <1>1, <1>2
  <2> HIDE DEF t, s
  <2> QED BY <1>1, <2>1 DEF Commits
<1>6. ConfigPlanOK(p) /\ intended = Loaded
  BY DEF ConfigInv, ConfigUpdatesAreApplied
<1>7. /\ s.content = Updated(Loaded, proc[p].cmd)
      /\ \A j \in 1 .. Len(t) : Commits(t[j]) => j = 1
      /\ proc[p].cmd.op \in {"init", "import"} => ~Configured(Loaded, proc[p].cmd.name)
      /\ proc[p].cmd.op \in {"migrate", "repair"} /\ Present(ConfigFile) => visible[ConfigFile] \in backups.live
  <2>1. ~\E j \in 1 .. 1 - 1 : TRUE
    OBVIOUS
  <2> QED BY <1>1, <1>5, <1>6, <2>1 DEF ConfigPlanOK, Working
<1>8. locks[ConfigFile] = p
  BY <1>1, <1>5, OnlyHolderCommits
<1>9. visible'[ConfigFile] = s.content
  <2>1. ConfigFile \in Files /\ visible \in [Files -> FileContents]
    BY DEF Files, LockInv, TypeInv, Disks
  <2> QED BY <1>1, <2>1
<1>10. Loaded' = s.content
  BY <1>4, <1>9, AbsentAssumption DEF Loaded, Present
<1> HIDE DEF s, t
<1>11. intended' = Updated(Loaded, proc[p].cmd)
  BY <1>1, <1>6
<1> QED BY <1>4, <1>7, <1>8, <1>9, <1>10, <1>11 DEF t

\* RenameOver keeps ConfigInv.
LEMMA RenameOverCommits ==
    ASSUME LockInv, ConfigInv, NEW p \in Processes, RenameOver(p)
    PROVE  ConfigInv'
<1>1. /\ Working(p) /\ proc[p].todo # <<>> /\ Head(proc[p].todo).do = "rename" /\ StepDone(p)
      /\ visible' = [visible EXCEPT ![Target(p)] = Head(proc[p].todo).content] /\ backups' = backups
  BY DEF RenameOver, Doing
<1>2. CASE Target(p) # ConfigFile
  <2>1. visible'[ConfigFile] = visible[ConfigFile]
    <3>1. ConfigFile \in Files /\ visible \in [Files -> FileContents]
      BY DEF Files, LockInv, TypeInv, Disks
    <3> QED BY <1>1, <1>2, <3>1
  <2>2. intended' = intended
    BY <1>2 DEF RenameOver
  <2> QED BY <1>1, <2>1, <2>2, OtherStepCommits
<1>3. CASE Target(p) = ConfigFile
  <2>1. /\ locks[ConfigFile] = p /\ intended' = Loaded'
        /\ \A j \in 1 .. Len(proc[p].todo) : Commits(proc[p].todo[j]) => j = 1
    BY <1>3, CommitIsCurrent
  <2>2. /\ proc'[p].at = "working" /\ proc'[p].cmd = proc[p].cmd /\ proc'[p].todo = Tail(proc[p].todo)
        /\ \A q \in Processes \ {p} : proc'[q] = proc[q]
    BY <1>1, StepDoneEffect
  <2>3. ASSUME NEW q \in Processes, proc'[q].at = "working", NEW i \in 1 .. Len(proc'[q].todo),
               Commits(proc'[q].todo[i])
        PROVE  FALSE
    <3>1. CASE q # p
      <4>1. Working(q) /\ i \in 1 .. Len(proc[q].todo) /\ proc[q].todo[i].file = ConfigFile
        BY <2>2, <2>3, <3>1 DEF Working, Commits
      <4>2. locks[ConfigFile] = q
        BY <4>1, OnlyHolderCommits
      <4> QED BY <2>1, <3>1, <4>2
    <3>2. CASE q = p
      <4> DEFINE t == proc[p].todo
      <4>1. t \in Seq(StepsOf(proc[p].cmd)) /\ t # <<>>
        BY <1>1 DEF LockInv, PlanOK, Working
      <4>2. i \in 1 .. Len(Tail(t)) /\ Commits(Tail(t)[i])
        BY <2>2, <2>3, <3>2
      <4> HIDE DEF t
      <4>3. i + 1 \in 1 .. Len(t) /\ i + 1 # 1 /\ Tail(t)[i] = t[i + 1]
        BY <4>1, <4>2
      <4> QED BY <2>1, <4>2, <4>3 DEF t
    <3> QED BY <3>1, <3>2
  <2>4. \A q \in Processes : ConfigPlanOK(q)'
    BY <2>3 DEF ConfigPlanOK
  <2> QED BY <2>1, <2>4 DEF ConfigInv, ConfigUpdatesAreApplied
<1> QED BY <1>2, <1>3

\* The other file operations keep ConfigInv.
LEMMA FileStepCommits ==
    ASSUME LockInv, ConfigInv, NEW p \in Processes, SyncDirectory(p) \/ RemoveFile(p) \/ CreateBackup(p)
    PROVE  ConfigInv'
<1> DEFINE s == Head(proc[p].todo)
<1>1. Working(p) /\ proc[p].todo # <<>> /\ StepDone(p) /\ intended' = intended
  BY DEF SyncDirectory, RemoveFile, CreateBackup, Doing
<1>2. s \in Steps
  BY <1>1, HeadOfPlan DEF StepsOf
<1>3. backups \in [live : SUBSET Configs, kept : SUBSET Configs] /\ visible \in [Files -> FileContents]
  BY DEF LockInv, TypeInv, Disks
<1>4. CASE SyncDirectory(p)
  <2>1. s.do = "sync" /\ visible' = visible
    BY <1>4 DEF SyncDirectory, Doing
  <2>2. backups'.live = backups.live
    BY <1>3, <1>4 DEF SyncDirectory
  <2> QED BY <1>1, <2>1, <2>2, OtherStepCommits
<1>5. CASE RemoveFile(p)
  <2>1. s.do = "unlink" /\ visible' = [visible EXCEPT ![s.file] = Absent] /\ backups' = backups
    BY <1>5 DEF RemoveFile, Doing, Target
  <2>2. s.file # ConfigFile
    BY <1>2, <2>1 DEF Steps
  <2> HIDE DEF s
  <2>3. visible'[ConfigFile] = visible[ConfigFile]
    BY <1>3, <2>1, <2>2 DEF Files
  <2> QED BY <1>1, <2>1, <2>3, OtherStepCommits DEF s
<1>6. CASE CreateBackup(p)
  <2>1. s.do = "backup" /\ visible' = visible /\ backups' = [backups EXCEPT !.live = @ \cup {s.content}]
    BY <1>6 DEF CreateBackup, Doing
  <2> HIDE DEF s
  <2>2. backups.live \subseteq backups'.live /\ s.content \in backups'.live
    BY <1>3, <2>1
  <2> QED BY <1>1, <2>1, <2>2, OtherStepCommits DEF s
<1> QED BY <1>4, <1>5, <1>6

\* What a failure does to the process that meets it.
LEMMA StepFailsEffect ==
    ASSUME LockInv, NEW p \in Processes, StepFails(p)
    PROVE  /\ Working(p) /\ proc[p].todo # <<>>
           /\ proc'[p].at = "working" /\ proc'[p].cmd = proc[p].cmd
           /\ proc'[p].ok = FALSE /\ proc'[p].oldSecret = proc[p].oldSecret
           /\ \/ Head(proc[p].todo).onError = "abort" /\ proc'[p].todo = <<>>
              \/ Head(proc[p].todo).onError = "next" /\ proc'[p].todo = Tail(proc[p].todo)
              \/ Head(proc[p].todo).onError = "undo" /\ proc'[p].todo = ClearPlan(proc[p].cmd.to)
           /\ \A q \in Processes \ {p} : proc'[q] = proc[q]
           /\ UNCHANGED <<visible, durable, backups, vault, left, intended>>
           /\ Head(proc[p].todo).do = "sync" => "sync" \in Faults
<1> DEFINE s == Head(proc[p].todo)
           t == CASE s.onError = "abort" -> <<>>
                  [] s.onError = "next" -> Tail(proc[p].todo)
                  [] s.onError = "undo" -> ClearPlan(proc[p].cmd.to)
<1>1. /\ Working(p) /\ proc[p].todo # <<>> /\ proc' = [proc EXCEPT ![p].ok = FALSE, ![p].todo = t]
      /\ s.do = "sync" => "sync" \in Faults
      /\ UNCHANGED <<visible, durable, backups, vault, left, intended>>
  BY DEF StepFails, fileVars
<1>2. s.onError \in {"abort", "next", "undo"}
  BY <1>1, HeadOfPlan DEF StepsOf, Steps
<1>3. \/ s.onError = "abort" /\ t = <<>>
      \/ s.onError = "next" /\ t = Tail(proc[p].todo)
      \/ s.onError = "undo" /\ t = ClearPlan(proc[p].cmd.to)
  BY <1>2
<1>4. proc \in [Processes -> Procs] /\ proc[p].at = "working"
  BY <1>1 DEF LockInv, TypeInv, Working
<1> HIDE DEF t, s
<1> DEFINE e1 == [proc EXCEPT ![p].ok = FALSE]
<1>5. proc' = [e1 EXCEPT ![p].todo = t]
  BY <1>1, Zenon
<1>6. /\ e1 \in [Processes -> Procs] /\ e1[p].at = "working" /\ e1[p].cmd = proc[p].cmd /\ e1[p].ok = FALSE
      /\ e1[p].oldSecret = proc[p].oldSecret /\ \A q \in Processes \ {p} : e1[q] = proc[q]
  BY <1>4 DEF Procs
<1> HIDE DEF e1
<1>7. /\ proc'[p].at = "working" /\ proc'[p].cmd = proc[p].cmd /\ proc'[p].ok = FALSE
      /\ proc'[p].oldSecret = proc[p].oldSecret /\ proc'[p].todo = t
      /\ \A q \in Processes \ {p} : proc'[q] = proc[q]
  BY <1>5, <1>6 DEF Procs
<1> QED BY <1>1, <1>3, <1>7 DEF s

\* StepFails keeps ConfigInv.
LEMMA StepFailsCommits ==
    ASSUME LockInv, ConfigInv, NEW p \in Processes, StepFails(p)
    PROVE  ConfigInv'
<1> DEFINE s == Head(proc[p].todo)
<1>1. /\ Working(p) /\ proc[p].todo # <<>> /\ proc'[p].at = "working" /\ proc'[p].cmd = proc[p].cmd
      /\ \/ s.onError = "abort" /\ proc'[p].todo = <<>>
         \/ s.onError = "next" /\ proc'[p].todo = Tail(proc[p].todo)
         \/ s.onError = "undo" /\ proc'[p].todo = ClearPlan(proc[p].cmd.to)
      /\ \A q \in Processes \ {p} : proc'[q] = proc[q]
      /\ UNCHANGED <<visible, durable, backups, vault, left, intended>>
  BY StepFailsEffect
<1>2. s \in Steps
  BY <1>1, HeadOfPlan DEF StepsOf
<1>3. ConfigPlanOK(p)'
  <2>1. CASE s.onError = "abort" /\ proc'[p].todo = <<>>
    <3>1. Len(proc'[p].todo) = 0
      BY <2>1
    <3> QED BY <3>1 DEF ConfigPlanOK
  <2>2. CASE s.onError = "next" /\ proc'[p].todo = Tail(proc[p].todo)
    <3>1. s.do # "backup"
      BY <1>2, <2>2 DEF Steps
    <3> QED BY <1>1, <2>2, <3>1, TailCommits
  <2>3. CASE proc'[p].todo = ClearPlan(proc[p].cmd.to)
    <3> DEFINE n == proc[p].cmd.to
               a == Step("unlink", Canonical(n), Absent, "next")
               b == Step("unlink", Legacy(n), Absent, "next")
    <3>1. proc'[p].todo = <<a>> \o <<b>>
      BY <2>3 DEF ClearPlan, Unlink
    <3>2. ~Commits(a) /\ ~Commits(b)
      BY DEF Commits, Step
    <3> HIDE DEF a, b
    <3>3. Len(<<a>> \o <<b>>) = 2 /\ (<<a>> \o <<b>>)[1] = a /\ (<<a>> \o <<b>>)[2] = b
      OBVIOUS
    <3>4. \A i \in 1 .. 2 : i = 1 \/ i = 2
      OBVIOUS
    <3>5. \A i \in 1 .. Len(proc'[p].todo) : ~Commits(proc'[p].todo[i])
      BY <3>1, <3>2, <3>3, <3>4
    <3> QED BY <3>5 DEF ConfigPlanOK
  <2> QED BY <1>1, <2>1, <2>2, <2>3
<1>4. ASSUME NEW q \in Processes PROVE ConfigPlanOK(q)'
  <2>1. CASE q # p
    BY <1>1, <2>1, OthersCommit
  <2> QED BY <1>3, <2>1
<1>5. ConfigUpdatesAreApplied'
  BY <1>1 DEF ConfigInv, ConfigUpdatesAreApplied, Loaded, Present
<1> QED BY <1>4, <1>5 DEF ConfigInv

\* PowerLoss keeps ConfigInv.
LEMMA PowerLossCommits ==
    ASSUME PowerLoss
    PROVE  ConfigInv'
<1>1. /\ intended' = IF visible'[ConfigFile] = Absent THEN DefaultConfig ELSE visible'[ConfigFile]
      /\ proc' = [p \in Processes |-> Idle]
  BY DEF PowerLoss
<1>2. ConfigUpdatesAreApplied'
  BY <1>1 DEF ConfigUpdatesAreApplied, Loaded, Present
<1>3. \A q \in Processes : ConfigPlanOK(q)'
  BY <1>1 DEF ConfigPlanOK, Idle
<1> QED BY <1>2, <1>3 DEF ConfigInv

\* Every step keeps ConfigInv.
LEMMA ConfigInvKept ==
    ASSUME LockInv, ConfigInv, [Next]_vars
    PROVE  ConfigInv'
<1>1. CASE Next
  <2>1. CASE PowerLoss
    BY <2>1, PowerLossCommits
  <2>2. ASSUME NEW p \in Processes,
               \/ BeginConfig(p) \/ BeginMqttConfigure(p) \/ SelectProfile(p) \/ BeginInsert(p) \/ BeginUpdate(p)
               \/ BeginHistory(p) \/ AcquireLock(p) \/ LockTimesOut(p) \/ RefuseCommand(p)
               \/ Return(p) \/ CleanupCredential(p) \/ Kill(p)
        PROVE  ConfigInv'
    BY <2>2, QuietActions, QuietKeeps
  <2>3. ASSUME NEW p \in Processes,
               \/ ReadAndPlan(p) \/ RenameOver(p) \/ SyncDirectory(p) \/ RemoveFile(p) \/ CreateBackup(p)
               \/ StepFails(p)
        PROVE  ConfigInv'
    BY <2>3, ReadAndPlanCommits, RenameOverCommits, FileStepCommits, StepFailsCommits
  <2> QED BY <1>1, <2>1, <2>2, <2>3 DEF Next
<1>2. CASE UNCHANGED vars
  BY <1>2, QuietKeeps DEF vars, fileVars
<1> QED BY <1>1, <1>2

\* ConfigInv holds in every behaviour.
LEMMA ConfigInvHolds == Spec => []ConfigInv
<1>1. Init => ConfigInv
  BY DEF Init, ConfigInv, ConfigUpdatesAreApplied, ConfigPlanOK, Idle
<1>2. LockInv /\ ConfigInv /\ [Next]_vars => ConfigInv'
  BY ConfigInvKept
<1> QED BY <1>1, <1>2, LockInvHolds, PTL DEF Spec

\* The configuration file is what the committed commands make of it one after the other: no
\* command of any process overwrites what it has not read (ConfigStore::update, lib.rs).
THEOREM NoUpdateIsLost == Spec => []ConfigUpdatesAreApplied
<1>1. ConfigInv => ConfigUpdatesAreApplied
  BY DEF ConfigInv
<1> QED BY <1>1, ConfigInvHolds, PTL

\* A step of migrate or repair that changes the configuration finds a backup of it.
LEMMA ReplacesBackedUp ==
    ASSUME LockInv, ConfigInv, [Next]_vars, NEW p \in Processes,
           proc[p].cmd.op \in {"migrate", "repair"}, proc'[p] # proc[p], proc'[p] # Idle,
           Present(ConfigFile), visible'[ConfigFile] # visible[ConfigFile]
    PROVE  visible[ConfigFile] \in backups.live
<1>1. Next /\ ~PowerLoss
  BY DEF vars, fileVars, PowerLoss
<1>2. PICK q \in Processes :
               \/ BeginConfig(q) \/ BeginMqttConfigure(q) \/ SelectProfile(q) \/ BeginInsert(q) \/ BeginUpdate(q)
               \/ BeginHistory(q) \/ AcquireLock(q) \/ LockTimesOut(q) \/ RefuseCommand(q) \/ ReadAndPlan(q)
               \/ RenameOver(q) \/ SyncDirectory(q) \/ RemoveFile(q) \/ CreateBackup(q)
               \/ StepFails(q) \/ Return(q) \/ CleanupCredential(q) \/ Kill(q)
  BY <1>1 DEF Next
<1>3. visible' = visible \/ RemoveFile(q) \/ RenameOver(q)
  <2>1. CASE ReadAndPlan(q) \/ SyncDirectory(q) \/ CreateBackup(q) \/ StepFails(q)
    BY <2>1 DEF ReadAndPlan, SyncDirectory, CreateBackup, StepFails, fileVars
  <2> QED BY <1>2, <2>1, QuietActions
<1>4. ConfigFile \in Files /\ visible \in [Files -> FileContents]
  BY DEF Files, LockInv, TypeInv, Disks
<1>5. CASE RemoveFile(q)
  <2> DEFINE s == Head(proc[q].todo)
  <2>1. Working(q) /\ proc[q].todo # <<>> /\ s.do = "unlink" /\ visible' = [visible EXCEPT ![s.file] = Absent]
    BY <1>5 DEF RemoveFile, Doing, Target
  <2>2. s \in Steps
    BY <2>1, HeadOfPlan DEF StepsOf
  <2>3. s.file # ConfigFile
    BY <2>1, <2>2 DEF Steps
  <2> HIDE DEF s
  <2> QED BY <1>4, <2>1, <2>3
<1>6. CASE RenameOver(q)
  <2>1. Working(q) /\ StepDone(q) /\ visible' = [visible EXCEPT ![Target(q)] = Head(proc[q].todo).content]
    BY <1>6 DEF RenameOver, Doing
  <2>2. Target(q) = ConfigFile
    BY <1>4, <2>1
  <2>3. q = p
    BY <2>1, StepDoneEffect
  <2> QED BY <1>6, <2>2, <2>3, CommitIsCurrent
<1> QED BY <1>3, <1>5, <1>6

\* What migrate and repair replace can be had back, also after failed operations
\* (create_backup before persist, lib.rs).
THEOREM BackupComesFirst == Spec => ReplacedIsBackedUp
<1>1. LockInv /\ ConfigInv /\ [Next]_vars =>
        [(Present(ConfigFile) /\ visible'[ConfigFile] # visible[ConfigFile]) =>
          \A p \in Processes :
             proc[p].cmd.op \in {"migrate", "repair"} /\ proc'[p] \notin {proc[p], Idle} =>
                visible[ConfigFile] \in backups.live]_vars
  BY ReplacesBackedUp
<1> QED BY <1>1, LockInvHolds, ConfigInvHolds, PTL DEF Spec, ReplacedIsBackedUp

-----------------------------------------------------------------------------
(* The passwords in the keyring.                                           *)

\* The passwords that the configuration refers to, now or after a power failure.
Referred(disk) == IF disk[ConfigFile] = Absent THEN NoSecret ELSE disk[ConfigFile].secret
Refs == {Referred(visible), Referred(durable)}

\* A command whose new password is not, or not yet, in the configuration.
Uncommitted(p) == \/ proc[p].at = "locking"
                  \/ proc[p].at = "working" /\ (~proc[p].ok \/ Len(proc[p].todo) = 2)
                  \/ proc[p].at = "cleaning" /\ ~proc[p].ok

\* Passwords are numbered downwards as commands begin.
FreshOK(p) ==
    /\ proc[p].cmd.secret # NoSecret => proc[p].cmd.secret > left
    /\ proc[p].oldSecret # NoSecret => proc[p].oldSecret > left
    /\ proc[p].cmd.op # "mqtt" => proc[p].cmd.secret = NoSecret /\ proc[p].oldSecret = NoSecret

\* A new password is in the keyring before the configuration refers to it, and is nobody else's.
PendingOK(p) ==
    Uncommitted(p) /\ proc[p].cmd.secret # NoSecret =>
        /\ proc[p].cmd.secret \in vault /\ proc[p].cmd.secret \notin Refs
        /\ \A q \in Processes : /\ proc[q].oldSecret # proc[p].cmd.secret
                                /\ q # p => proc[q].cmd.secret # proc[p].cmd.secret

\* A password that was replaced is referred to no more.
GarbageOK(p) ==
    proc[p].at = "cleaning" /\ proc[p].ok /\ proc[p].oldSecret \notin {NoSecret, proc[p].cmd.secret} =>
        proc[p].oldSecret \notin Refs

\* Nothing fails before the locks are taken.  Then mqtt_configure replaces the configuration,
\* makes that durable, and returns.
MqttPlanOK(p) ==
    /\ proc[p].at = "locking" => proc[p].ok
    /\ proc[p].at = "working" /\ proc[p].cmd.op = "mqtt" =>
          \/ proc[p].ok /\ proc[p].todo = Replace(ConfigFile, Updated(Loaded, proc[p].cmd), "abort")
          \/ /\ proc[p].ok /\ proc[p].todo = <<Step("sync", ConfigFile, Absent, "abort")>>
             /\ Referred(visible) = proc[p].cmd.secret
          \/ /\ proc[p].ok /\ proc[p].todo = <<>>
             /\ Referred(visible) = proc[p].cmd.secret /\ Referred(durable) = proc[p].cmd.secret
          \/ ~proc[p].ok /\ proc[p].todo = <<>>

VaultOK == (\A s \in Refs : s # NoSecret => s \in vault) /\ \A s \in vault : s > left
SecretInv == VaultOK /\ \A p \in Processes : FreshOK(p) /\ PendingOK(p) /\ GarbageOK(p) /\ MqttPlanOK(p)

\* What the configuration in force refers to.
LEMMA LoadedRefers ==
    ASSUME TypeInv
    PROVE  /\ Loaded.secret = Referred(visible) /\ Referred(visible) \in 0 .. MaxCommands
           /\ Referred(durable) \in 0 .. MaxCommands
<1>1. visible[ConfigFile] \in Configs \cup {Absent} /\ durable[ConfigFile] \in Configs \cup {Absent}
  BY ConfigTypes
<1>2. DefaultConfig.secret = NoSecret /\ NoSecret \in 0 .. MaxCommands
  BY StoreAssumption DEF DefaultConfig, Config, NoSecret
<1> QED BY <1>1, <1>2 DEF Loaded, Present, Referred, Configs

\* Only mqtt configure sets a reference, to its own password.
LEMMA UpdatedRefers ==
    ASSUME NEW config \in Configs, NEW c, c.op \in ConfigOps
    PROVE  Updated(config, c).secret \in {config.secret, NoSecret} \cup IF c.op = "mqtt" THEN {c.secret} ELSE {}
<1> DEFINE names == {"format", "profiles", "transport", "default", "secret"}
<1>1. DOMAIN config = names
  BY DEF Configs
<1>2. ASSUME NEW r, DOMAIN r = names, NEW n, NEW d, NEW t
      PROVE  DOMAIN With(r, n, d, t) = names /\ With(r, n, d, t).secret = r.secret
  BY <1>2 DEF With
<1>3. ASSUME NEW r, DOMAIN r = names, NEW d PROVE [r EXCEPT !.default = d].secret = r.secret
  BY <1>3
<1>4. CASE c.op = "init"
  <2> DEFINE w == With(config, c.name, Unused(config), 0)
  <2>1. DOMAIN w = names /\ w.secret = config.secret
    BY <1>1, <1>2
  <2> HIDE DEF w
  <2>2. [w EXCEPT !.default = IF @ = NoDefault \/ c.flag THEN c.name ELSE @].secret = config.secret
    BY <2>1
  <2> QED BY <1>4, <2>2 DEF Updated, Initialized, w
<1>5. CASE c.op = "import"
  <2> DEFINE w == With(config, c.name, Unused(config), 0)
  <2>1. DOMAIN w = names /\ w.secret = config.secret
    BY <1>1, <1>2
  <2> HIDE DEF w
  <2>2. [w EXCEPT !.default = IF @ = NoDefault THEN c.name ELSE @].secret = config.secret
    BY <2>1
  <2> QED BY <1>5, <2>2 DEF Updated, Imported, w
<1>6. CASE c.op = "delete"
  <2> DEFINE w == With(config, c.name, NoDevice, 0)
  <2>1. DOMAIN w = names /\ w.secret = config.secret
    BY <1>1, <1>2
  <2> HIDE DEF w
  <2>2. [w EXCEPT !.default = IF @ = c.name THEN NoDefault ELSE @].secret = config.secret
    BY <2>1
  <2> QED BY <1>6, <2>2 DEF Updated, Deleted, w
<1>7. CASE c.op = "rename"
  <2> DEFINE v == With(config, c.to, config.profiles[c.name], config.transport[c.name])
             w == With(v, c.name, NoDevice, 0)
  <2>1. DOMAIN v = names /\ v.secret = config.secret
    BY <1>1, <1>2
  <2>2. DOMAIN w = names /\ w.secret = config.secret
    <3> HIDE DEF v
    <3> QED BY <1>2, <2>1
  <2> HIDE DEF w
  <2>3. [w EXCEPT !.default = IF @ = c.name THEN c.to ELSE @].secret = config.secret
    BY <2>2
  <2> QED BY <1>7, <2>3 DEF Updated, Renamed, w, v
<1>8. CASE c.op = "set_default"
  BY <1>1, <1>3, <1>8 DEF Updated, DefaultSet
<1>9. CASE c.op = "reconfigure"
  <2>1. Reconfigured(config, c).secret = config.secret
    BY <1>1 DEF Reconfigured
  <2> QED BY <1>9, <2>1 DEF Updated
<1>10. CASE c.op = "migrate"
  <2>1. Migrated(config).secret = config.secret
    BY <1>1 DEF Migrated
  <2> QED BY <1>10, <2>1 DEF Updated
<1>11. CASE c.op = "repair"
  BY <1>11 DEF Updated, DefaultConfig, Config
<1>12. CASE c.op = "mqtt"
  <2>1. MqttConfigured(config, c).secret = c.secret
    BY <1>1 DEF MqttConfigured
  <2> QED BY <1>12, <2>1 DEF Updated
<1>13. CASE c.op = "mqtt_keep"
  BY <1>13 DEF Updated
<1> QED BY <1>4, <1>5, <1>6, <1>7, <1>8, <1>9, <1>10, <1>11, <1>12, <1>13 DEF ConfigOps

\* The types of passwords.
LEMMA SecretTypes ==
    ASSUME LockInv
    PROVE  /\ left \in Nat /\ vault \subseteq Nat /\ Refs \subseteq Nat /\ NoSecret = 0
           /\ \A q \in Processes : proc[q].cmd.secret \in Nat /\ proc[q].oldSecret \in Nat
<1>1. TypeInv
  BY DEF LockInv
<1>2. left \in 0 .. MaxCommands /\ vault \in SUBSET (0 .. MaxCommands)
  BY <1>1 DEF TypeInv
<1>3. ASSUME NEW q \in Processes PROVE proc[q].cmd.secret \in Nat /\ proc[q].oldSecret \in Nat
  <2>1. proc[q] \in Procs
    BY <1>1 DEF TypeInv
  <2>2. proc[q].cmd \in Commands /\ proc[q].oldSecret \in 0 .. MaxCommands
    BY <2>1 DEF Procs
  <2>3. proc[q].cmd.secret \in 0 .. MaxCommands
    BY <2>2 DEF Commands
  <2> QED BY <2>2, <2>3
<1>4. Refs \subseteq Nat
  BY <1>1, LoadedRefers DEF Refs
<1> QED BY <1>2, <1>3, <1>4 DEF NoSecret

\* Steps that begin no command: enough to look at what they do to the passwords that are
\* referred to or about to be.
LEMMA SecretStep ==
    ASSUME LockInv, SecretInv, left' = left, vault' \subseteq vault,
           \A q \in Processes : proc'[q].cmd = proc[q].cmd \/ proc'[q] = Idle,
           \A q \in Processes : \/ proc'[q].oldSecret = proc[q].oldSecret \/ proc'[q] = Idle
                                \/ proc[q].cmd.op = "mqtt" /\ proc'[q].oldSecret = Referred(visible),
           \A s \in Refs' : s # NoSecret => s \in vault',
           \A q \in Processes : Uncommitted(q)' /\ proc'[q].cmd.secret # NoSecret =>
               Uncommitted(q) /\ proc'[q].cmd.secret \in vault' /\ proc'[q].cmd.secret \notin Refs',
           \A q \in Processes : GarbageOK(q)' /\ MqttPlanOK(q)'
    PROVE  SecretInv'
<1>1. Idle.cmd.secret = NoSecret /\ Idle.oldSecret = NoSecret /\ Idle.cmd.op # "mqtt"
  BY DEF Idle, Command
<1>2. Referred(visible) # NoSecret => Referred(visible) \in vault /\ Referred(visible) > left
  BY DEF SecretInv, VaultOK, Refs
<1>3. VaultOK'
  BY DEF SecretInv, VaultOK
<1>4. ASSUME NEW q \in Processes PROVE FreshOK(q)'
  <2>1. FreshOK(q)
    BY DEF SecretInv
  <2> QED BY <1>1, <1>2, <2>1 DEF FreshOK
<1>5. ASSUME NEW p \in Processes PROVE PendingOK(p)'
  <2> SUFFICES ASSUME Uncommitted(p)', proc'[p].cmd.secret # NoSecret
               PROVE  /\ proc'[p].cmd.secret \in vault' /\ proc'[p].cmd.secret \notin Refs'
                      /\ \A q \in Processes : /\ proc'[q].oldSecret # proc'[p].cmd.secret
                                              /\ q # p => proc'[q].cmd.secret # proc'[p].cmd.secret
    BY DEF PendingOK
  <2>1. Uncommitted(p) /\ proc'[p].cmd.secret \in vault' /\ proc'[p].cmd.secret \notin Refs'
        /\ proc'[p].cmd = proc[p].cmd
    BY <1>1
  <2>2. /\ proc[p].cmd.secret \notin Refs
        /\ \A q \in Processes : /\ proc[q].oldSecret # proc[p].cmd.secret
                                /\ q # p => proc[q].cmd.secret # proc[p].cmd.secret
    BY <2>1 DEF SecretInv, PendingOK
  <2>3. ASSUME NEW q \in Processes
        PROVE  /\ proc'[q].oldSecret # proc'[p].cmd.secret
               /\ q # p => proc'[q].cmd.secret # proc'[p].cmd.secret
    <3>1. Referred(visible) # proc[p].cmd.secret
      BY <2>2 DEF Refs
    <3> QED BY <1>1, <2>1, <2>2, <3>1
  <2> QED BY <2>1, <2>3
<1> QED BY <1>3, <1>4, <1>5 DEF SecretInv

\* A process that does not move, while neither file changes.
LEMMA StillProcess ==
    ASSUME SecretInv, NEW q \in Processes,
           visible'[ConfigFile] = visible[ConfigFile], durable'[ConfigFile] = durable[ConfigFile],
           proc'[q].at = proc[q].at, proc'[q].cmd = proc[q].cmd, proc'[q].ok = proc[q].ok,
           proc'[q].todo = proc[q].todo, proc'[q].oldSecret = proc[q].oldSecret
    PROVE  /\ GarbageOK(q)' /\ MqttPlanOK(q)' /\ Refs' = Refs
           /\ Uncommitted(q)' => Uncommitted(q)
<1>1. GarbageOK(q) /\ MqttPlanOK(q)
  BY DEF SecretInv
<1>2. Refs' = Refs /\ Referred(visible)' = Referred(visible) /\ Referred(durable)' = Referred(durable)
      /\ Loaded' = Loaded
  BY DEF Refs, Referred, Loaded, Present
<1>3. GarbageOK(q)'
  BY <1>1, <1>2 DEF GarbageOK
<1>4. MqttPlanOK(q)'
  BY <1>1, <1>2 DEF MqttPlanOK
<1>5. Uncommitted(q)' => Uncommitted(q)
  BY DEF Uncommitted
<1> QED BY <1>2, <1>3, <1>4, <1>5

\* A process at rest.
LEMMA IdleProcess ==
    ASSUME NEW q \in Processes, proc'[q] = Idle
    PROVE  GarbageOK(q)' /\ MqttPlanOK(q)' /\ ~Uncommitted(q)'
<1>1. Idle.at = "idle"
  BY DEF Idle
<1> QED BY <1>1 DEF GarbageOK, MqttPlanOK, Uncommitted

\* A command begins.  A new password has a number that none before it had.
LEMMA BeginSecret ==
    ASSUME LockInv, SecretInv, NEW p \in Processes, NEW c, NEW w, Begin(p, c, w), left > 0,
           c.secret = NoSecret \/ (c.secret = left /\ c.op = "mqtt")
    PROVE  SecretInv'
<1> DEFINE r == [Idle EXCEPT !.at = "locking", !.cmd = c, !.wants = w]
<1>1. r.at = "locking" /\ r.cmd = c /\ r.oldSecret = NoSecret /\ r.ok
  BY DEF Idle
<1> HIDE DEF r
<1>2. /\ proc' = [proc EXCEPT ![p] = r] /\ left' = left - 1 /\ vault' = vault \cup ({c.secret} \ {NoSecret})
      /\ UNCHANGED <<visible, durable>>
  BY DEF Begin, fileVars, r
<1>3. proc \in [Processes -> Procs]
  BY DEF LockInv, TypeInv
<1>4. proc'[p] = r /\ \A q \in Processes \ {p} : proc'[q] = proc[q]
  BY <1>2, <1>3
<1>5. /\ left \in Nat /\ vault \subseteq Nat /\ Refs \subseteq Nat /\ NoSecret = 0
      /\ \A q \in Processes : proc[q].cmd.secret \in Nat /\ proc[q].oldSecret \in Nat
  BY SecretTypes
<1>6. Refs' = Refs
  BY <1>2 DEF Refs, Referred
<1>7. /\ \A s \in vault : s > left
      /\ \A s \in Refs : s # NoSecret => s \in vault
      /\ \A q \in Processes : FreshOK(q)
  BY DEF SecretInv, VaultOK
<1>8. /\ \A s \in Nat : s > left => s > left' /\ s # left
      /\ left > left'
  BY <1>2, <1>5
<1>9. VaultOK'
  BY <1>2, <1>5, <1>6, <1>7, <1>8 DEF VaultOK
<1>10. ASSUME NEW q \in Processes PROVE FreshOK(q)'
  <2>1. CASE q = p
    BY <1>1, <1>4, <1>8, <2>1 DEF FreshOK
  <2>2. CASE q # p
    BY <1>4, <1>5, <1>7, <1>8, <2>2 DEF FreshOK
  <2> QED BY <2>1, <2>2
<1>11. ASSUME NEW q \in Processes PROVE PendingOK(q)'
  <2> SUFFICES ASSUME Uncommitted(q)', proc'[q].cmd.secret # NoSecret
               PROVE  /\ proc'[q].cmd.secret \in vault' /\ proc'[q].cmd.secret \notin Refs'
                      /\ \A o \in Processes : /\ proc'[o].oldSecret # proc'[q].cmd.secret
                                              /\ o # q => proc'[o].cmd.secret # proc'[q].cmd.secret
    BY DEF PendingOK
  <2>1. CASE q = p
    <3>1. proc'[q].cmd.secret = left /\ left \in vault' /\ left # NoSecret
      BY <1>1, <1>2, <1>4, <2>1
    <3>2. left \notin Refs
      BY <1>5, <1>7, <1>8, <3>1
    <3>3. ASSUME NEW o \in Processes
          PROVE  proc'[o].oldSecret # left /\ (o # q => proc'[o].cmd.secret # left)
      BY <1>1, <1>4, <1>5, <1>7, <1>8, <2>1, <3>1 DEF FreshOK
    <3> QED BY <1>6, <3>1, <3>2, <3>3
  <2>2. CASE q # p
    <3>1. proc'[q] = proc[q] /\ Uncommitted(q)
      BY <1>4, <2>2 DEF Uncommitted
    <3>2. /\ proc[q].cmd.secret \in vault /\ proc[q].cmd.secret \notin Refs
          /\ \A o \in Processes : /\ proc[o].oldSecret # proc[q].cmd.secret
                                  /\ o # q => proc[o].cmd.secret # proc[q].cmd.secret
      BY <3>1 DEF SecretInv, PendingOK
    <3>3. proc[q].cmd.secret # left /\ proc[q].cmd.secret # NoSecret
      BY <1>5, <1>7, <1>8, <3>1, <3>2
    <3> QED BY <1>1, <1>2, <1>4, <1>6, <3>1, <3>2, <3>3
  <2> QED BY <2>1, <2>2
<1>12. ASSUME NEW q \in Processes PROVE GarbageOK(q)' /\ MqttPlanOK(q)'
  <2>1. CASE q = p
    BY <1>1, <1>4, <2>1 DEF GarbageOK, MqttPlanOK
  <2>2. CASE q # p
    BY <1>2, <1>4, <2>2, StillProcess
  <2> QED BY <2>1, <2>2
<1> QED BY <1>9, <1>10, <1>11, <1>12 DEF SecretInv

\* Every way in which a command begins.
LEMMA BeginningsSecret ==
    ASSUME LockInv, SecretInv, NEW p \in Processes,
           \/ BeginConfig(p) \/ BeginMqttConfigure(p) \/ BeginInsert(p) \/ BeginUpdate(p) \/ BeginHistory(p)
    PROVE  SecretInv'
<1>1. left > 0
  BY DEF BeginConfig, BeginMqttConfigure, BeginInsert, BeginUpdate, BeginHistory, Free
<1>2. \A op, n : /\ DOMAIN Command(op, n) = {"op", "name", "to", "flag", "entry", "secret"}
                 /\ Command(op, n).secret = NoSecret /\ Command(op, n).op = op
  BY DEF Command
<1>3. \E c, w : Begin(p, c, w) /\ (c.secret = NoSecret \/ (c.secret = left /\ c.op = "mqtt"))
  <2>1. CASE BeginConfig(p)
    <3>1. PICK op, n, m, flag, w : Begin(p, [Command(op, n) EXCEPT !.to = m, !.flag = flag], w)
      BY <2>1 DEF BeginConfig
    <3>2. [Command(op, n) EXCEPT !.to = m, !.flag = flag].secret = NoSecret
      BY <1>2
    <3> QED BY <3>1, <3>2
  <2>2. CASE BeginMqttConfigure(p)
    <3>1. PICK secret \in {NoSecret, left} : Begin(p, [Command("mqtt", 0) EXCEPT !.secret = secret], {ConfigFile})
      BY <2>2 DEF BeginMqttConfigure
    <3> DEFINE c == [Command("mqtt", 0) EXCEPT !.secret = secret]
    <3>2. c.secret = secret /\ c.op = "mqtt"
      BY <1>2
    <3> QED BY <3>1, <3>2
  <2>3. CASE BeginInsert(p) \/ BeginUpdate(p)
    <3>1. \E n, e, w : Begin(p, [Command("upsert", n) EXCEPT !.entry = e], w)
      BY <2>3 DEF BeginInsert, BeginUpdate
    <3>2. \A n, e : [Command("upsert", n) EXCEPT !.entry = e].secret = NoSecret
      BY <1>2
    <3> QED BY <3>1, <3>2
  <2>4. CASE BeginHistory(p)
    <3>1. \/ \E op, n, w : Begin(p, Command(op, n), w)
          \/ \E n, m, w : Begin(p, [Command("copy", n) EXCEPT !.to = m], w)
      BY <2>4 DEF BeginHistory
    <3>2. CASE \E op, n, w : Begin(p, Command(op, n), w)
      BY <1>2, <3>2
    <3>3. CASE \E n, m, w : Begin(p, [Command("copy", n) EXCEPT !.to = m], w)
      <4>1. PICK n, m, w : Begin(p, [Command("copy", n) EXCEPT !.to = m], w)
        BY <3>3
      <4>2. [Command("copy", n) EXCEPT !.to = m].secret = NoSecret
        BY <1>2
      <4> QED BY <4>1, <4>2
    <3> QED BY <3>1, <3>2, <3>3
  <2> QED BY <2>1, <2>2, <2>3, <2>4
<1> QED BY <1>1, <1>3, BeginSecret

\* Steps that move no process as far as passwords go.
LEMMA StillSecret ==
    ASSUME LockInv, SecretInv, UNCHANGED <<visible, durable, left, vault>>,
           \A q \in Processes : /\ proc'[q].at = proc[q].at /\ proc'[q].cmd = proc[q].cmd
                                /\ proc'[q].ok = proc[q].ok /\ proc'[q].todo = proc[q].todo
                                /\ proc'[q].oldSecret = proc[q].oldSecret
    PROVE  SecretInv'
<1>1. Refs' = Refs
  BY DEF Refs, Referred
<1>2. ASSUME NEW q \in Processes PROVE GarbageOK(q)' /\ MqttPlanOK(q)' /\ (Uncommitted(q)' => Uncommitted(q))
  BY StillProcess
<1>3. \A s \in Refs : s # NoSecret => s \in vault
  BY DEF SecretInv, VaultOK
<1>4. ASSUME NEW q \in Processes, Uncommitted(q)', proc'[q].cmd.secret # NoSecret
      PROVE  Uncommitted(q) /\ proc'[q].cmd.secret \in vault' /\ proc'[q].cmd.secret \notin Refs'
  <2>1. Uncommitted(q) /\ PendingOK(q)
    BY <1>2, <1>4 DEF SecretInv
  <2> QED BY <1>1, <1>4, <2>1 DEF PendingOK
<1> QED BY <1>1, <1>2, <1>3, <1>4, SecretStep

\* Selecting a profile and taking a lock.
LEMMA SelectAndLockSecret ==
    ASSUME LockInv, SecretInv, NEW p \in Processes, SelectProfile(p) \/ AcquireLock(p)
    PROVE  SecretInv'
<1>1. proc \in [Processes -> Procs]
  BY DEF LockInv, TypeInv
<1>2. UNCHANGED <<visible, durable, left, vault>>
  BY DEF SelectProfile, AcquireLock, fileVars
<1>3. proc' = proc \/ proc' = [proc EXCEPT ![p].wants = @ \ {NextLock(p)}]
  BY DEF SelectProfile, AcquireLock
<1>4. \A q \in Processes : /\ proc'[q].at = proc[q].at /\ proc'[q].cmd = proc[q].cmd
                           /\ proc'[q].ok = proc[q].ok /\ proc'[q].todo = proc[q].todo
                           /\ proc'[q].oldSecret = proc[q].oldSecret
  BY <1>1, <1>3 DEF Procs
<1> QED BY <1>2, <1>4, StillSecret

\* A command is over: it succeeded, and both copies of the configuration refer to its password
\* if it had one, or its password was not committed.
LEMMA LeaveSecret ==
    ASSUME LockInv, SecretInv, NEW p \in Processes, NEW ok \in BOOLEAN, Leave(p, ok),
           UNCHANGED <<visible, durable, left, vault>>,
           ~ok => Uncommitted(p),
           ok /\ proc[p].cmd.op = "mqtt" => Refs = {proc[p].cmd.secret}
    PROVE  SecretInv'
<1> DEFINE r == [proc[p] EXCEPT !.at = "cleaning", !.ok = ok, !.todo = <<>>, !.wants = {}]
           over == IF Garbage(p, ok) = {} THEN Idle ELSE r
<1>1. proc \in [Processes -> Procs] /\ proc[p] \in Procs
  BY DEF LockInv, TypeInv
<1>2. r.at = "cleaning" /\ r.cmd = proc[p].cmd /\ r.ok = ok /\ r.oldSecret = proc[p].oldSecret
  BY <1>1 DEF Procs
<1>3. proc' = [proc EXCEPT ![p] = over] /\ (over = Idle \/ over = r)
  BY DEF Leave
<1> HIDE DEF over, r
<1>4. proc'[p] = over /\ \A q \in Processes \ {p} : proc'[q] = proc[q]
  BY <1>1, <1>3
<1>5. Refs' = Refs
  BY DEF Refs, Referred
<1>6. GarbageOK(p)' /\ MqttPlanOK(p)' /\ (Uncommitted(p)' => Uncommitted(p))
  <2>1. CASE over = Idle
    BY <1>4, <2>1, IdleProcess
  <2>2. CASE over = r
    <3>1. MqttPlanOK(p)' /\ (Uncommitted(p)' => Uncommitted(p))
      BY <1>2, <1>4, <2>2 DEF MqttPlanOK, Uncommitted
    <3>2. GarbageOK(p)'
      <4>1. FreshOK(p)
        BY DEF SecretInv
      <4>2. ok /\ proc[p].oldSecret \notin {NoSecret, proc[p].cmd.secret} => proc[p].oldSecret \notin Refs
        BY <4>1 DEF FreshOK
      <4> QED BY <1>2, <1>4, <1>5, <2>2, <4>2 DEF GarbageOK
    <3> QED BY <3>1, <3>2
  <2> QED BY <1>3, <2>1, <2>2
<1>7. ASSUME NEW q \in Processes
      PROVE  GarbageOK(q)' /\ MqttPlanOK(q)' /\ (Uncommitted(q)' => Uncommitted(q))
  <2>1. CASE q # p
    BY <1>4, <2>1, StillProcess
  <2> QED BY <1>6, <2>1
<1>8. \A s \in Refs : s # NoSecret => s \in vault
  BY DEF SecretInv, VaultOK
<1>9. \A q \in Processes : /\ proc'[q].cmd = proc[q].cmd \/ proc'[q] = Idle
                           /\ proc'[q].oldSecret = proc[q].oldSecret \/ proc'[q] = Idle
  BY <1>2, <1>3, <1>4
<1>10. ASSUME NEW q \in Processes, Uncommitted(q)', proc'[q].cmd.secret # NoSecret
       PROVE  Uncommitted(q) /\ proc'[q].cmd.secret \in vault' /\ proc'[q].cmd.secret \notin Refs'
  <2>1. Uncommitted(q) /\ PendingOK(q)
    BY <1>7, <1>10 DEF SecretInv
  <2>2. proc'[q].cmd = proc[q].cmd
    <3>1. Idle.cmd.secret = NoSecret
      BY DEF Idle, Command
    <3> QED BY <1>9, <1>10, <3>1
  <2> QED BY <1>5, <1>10, <2>1, <2>2 DEF PendingOK
<1> QED BY <1>5, <1>7, <1>8, <1>9, <1>10, SecretStep

\* Every way in which a command leaves.
LEMMA LeavingSecret ==
    ASSUME LockInv, SecretInv, NEW p \in Processes, LockTimesOut(p) \/ RefuseCommand(p) \/ Return(p)
    PROVE  SecretInv'
<1>1. UNCHANGED <<visible, durable, left, vault>>
  BY DEF LockTimesOut, RefuseCommand, Return, fileVars
<1>2. CASE LockTimesOut(p) \/ RefuseCommand(p)
  <2>1. Leave(p, FALSE) /\ Uncommitted(p)
    BY <1>2 DEF LockTimesOut, RefuseCommand, TryLock, Waiting, Uncommitted
  <2> QED BY <1>1, <2>1, LeaveSecret
<1>3. CASE Return(p)
  <2>1. proc[p].at = "working" /\ proc[p].todo = <<>> /\ Leave(p, proc[p].ok)
    BY <1>3 DEF Return, Working
  <2>2. proc[p].ok \in BOOLEAN
    BY DEF LockInv, TypeInv, Procs
  <2>3. ~proc[p].ok => Uncommitted(p)
    BY <2>1 DEF Uncommitted
  <2>4. proc[p].ok /\ proc[p].cmd.op = "mqtt" => Refs = {proc[p].cmd.secret}
    <3>1. MqttPlanOK(p)
      BY DEF SecretInv
    <3>2. proc[p].todo # Replace(ConfigFile, Updated(Loaded, proc[p].cmd), "abort")
          /\ proc[p].todo # <<Step("sync", ConfigFile, Absent, "abort")>>
      BY <2>1 DEF Replace
    <3> QED BY <2>1, <3>1, <3>2 DEF MqttPlanOK, Refs
  <2> QED BY <1>1, <2>1, <2>2, <2>3, <2>4, LeaveSecret
<1> QED BY <1>2, <1>3

\* A process ends, or a password is removed that nobody refers to or will.
LEMMA EndingSecret ==
    ASSUME LockInv, SecretInv, NEW p \in Processes, Kill(p) \/ CleanupCredential(p)
    PROVE  SecretInv'
<1>1. proc \in [Processes -> Procs]
  BY DEF LockInv, TypeInv
<1>2. proc' = [proc EXCEPT ![p] = Idle] /\ UNCHANGED <<visible, durable, left>>
  BY DEF Kill, CleanupCredential, fileVars
<1>3. proc'[p] = Idle /\ \A q \in Processes \ {p} : proc'[q] = proc[q]
  BY <1>1, <1>2
<1>4. Refs' = Refs
  BY <1>2 DEF Refs, Referred
<1>5. ASSUME NEW q \in Processes
      PROVE  GarbageOK(q)' /\ MqttPlanOK(q)' /\ (Uncommitted(q)' => q # p /\ Uncommitted(q))
  <2>1. CASE q # p
    BY <1>2, <1>3, <2>1, StillProcess
  <2>2. CASE q = p
    BY <1>3, <2>2, IdleProcess
  <2> QED BY <2>1, <2>2
<1>6. vault' \subseteq vault /\ \A s \in vault : s \in vault' \/
        (/\ proc[p].at = "cleaning"
         /\ \/ ~proc[p].ok /\ s = proc[p].cmd.secret /\ s # NoSecret
            \/ proc[p].ok /\ s = proc[p].oldSecret /\ s \notin {NoSecret, proc[p].cmd.secret})
  BY DEF Kill, CleanupCredential, Garbage
<1>7. FreshOK(p) /\ PendingOK(p) /\ GarbageOK(p)
  BY DEF SecretInv
<1>8. ASSUME NEW s \in Refs', s # NoSecret PROVE s \in vault'
  <2>1. s \in Refs /\ s \in vault
    BY <1>4, <1>8 DEF SecretInv, VaultOK
  <2>2. proc[p].at = "cleaning" /\ ~proc[p].ok => Uncommitted(p)
    BY DEF Uncommitted
  <2> QED BY <1>6, <1>7, <2>1, <2>2 DEF PendingOK, GarbageOK
<1>9. ASSUME NEW q \in Processes, Uncommitted(q)', proc'[q].cmd.secret # NoSecret
      PROVE  Uncommitted(q) /\ proc'[q].cmd.secret \in vault' /\ proc'[q].cmd.secret \notin Refs'
  <2>1. q # p /\ Uncommitted(q) /\ PendingOK(q) /\ proc'[q] = proc[q]
    BY <1>3, <1>5, <1>9 DEF SecretInv
  <2>2. /\ proc[q].cmd.secret \in vault /\ proc[q].cmd.secret \notin Refs
        /\ proc[p].oldSecret # proc[q].cmd.secret /\ proc[p].cmd.secret # proc[q].cmd.secret
    BY <1>9, <2>1 DEF PendingOK
  <2> QED BY <1>4, <1>6, <2>1, <2>2
<1>10. \A q \in Processes : /\ proc'[q].cmd = proc[q].cmd \/ proc'[q] = Idle
                            /\ proc'[q].oldSecret = proc[q].oldSecret \/ proc'[q] = Idle
  BY <1>3
<1> QED BY <1>2, <1>5, <1>6, <1>8, <1>9, <1>10, SecretStep

\* mqtt configure works with the lock of the configuration.
LEMMA MqttHolds ==
    ASSUME LockInv, NEW q \in Processes, proc[q].at = "working", proc[q].cmd.op = "mqtt"
    PROVE  locks[ConfigFile] = q
<1>1. LocksOK(q) /\ ProcOK(q)
  BY DEF LockInv
<1>2. ConfigFile \in Needs(proc[q].cmd) /\ proc[q].wants = {}
  BY <1>1 DEF Needs, ConfigOps, ProcOK
<1> QED BY <1>1, <1>2 DEF LocksOK

\* A command reads the configuration and plans.
LEMMA ReadAndPlanSecret ==
    ASSUME LockInv, SecretInv, NEW p \in Processes, ReadAndPlan(p)
    PROVE  SecretInv'
<1> DEFINE c == proc[p].cmd
<1>1. /\ proc'[p].at = "working" /\ proc'[p].cmd = c /\ proc'[p].todo = Plan(c)
      /\ proc'[p].ok = proc[p].ok
      /\ proc'[p].oldSecret = IF c.op = "mqtt" THEN Loaded.secret ELSE proc[p].oldSecret
      /\ \A q \in Processes \ {p} : proc'[q] = proc[q]
      /\ proc[p].at = "locking"
      /\ UNCHANGED <<visible, durable, vault, left>>
  BY ReadAndPlanEffect
<1>2. Loaded.secret = Referred(visible)
  BY LoadedRefers DEF LockInv
<1>3. Refs' = Refs /\ Loaded' = Loaded
  BY <1>1 DEF Refs, Referred, Loaded, Present
<1>4. c.op = "mqtt" => Plan(c) = Replace(ConfigFile, Updated(Loaded, c), "abort")
  BY DEF Plan, ConfigPlan
<1>5. GarbageOK(p)' /\ MqttPlanOK(p)' /\ Uncommitted(p)
  <2>1. proc[p].ok
    BY <1>1 DEF SecretInv, MqttPlanOK
  <2> QED BY <1>1, <1>3, <1>4, <2>1 DEF GarbageOK, MqttPlanOK, Uncommitted
<1>6. ASSUME NEW q \in Processes
      PROVE  GarbageOK(q)' /\ MqttPlanOK(q)' /\ (Uncommitted(q)' => Uncommitted(q))
  <2>1. CASE q # p
    BY <1>1, <2>1, StillProcess
  <2> QED BY <1>5, <2>1
<1>7. \A s \in Refs : s # NoSecret => s \in vault
  BY DEF SecretInv, VaultOK
<1>8. \A q \in Processes : proc'[q].cmd = proc[q].cmd
  BY <1>1
<1>9. \A q \in Processes : \/ proc'[q].oldSecret = proc[q].oldSecret
                           \/ proc[q].cmd.op = "mqtt" /\ proc'[q].oldSecret = Referred(visible)
  BY <1>1, <1>2
<1>10. ASSUME NEW q \in Processes, Uncommitted(q)', proc'[q].cmd.secret # NoSecret
       PROVE  Uncommitted(q) /\ proc'[q].cmd.secret \in vault' /\ proc'[q].cmd.secret \notin Refs'
  <2>1. Uncommitted(q) /\ PendingOK(q)
    BY <1>6, <1>10 DEF SecretInv
  <2> QED BY <1>1, <1>3, <1>8, <1>10, <2>1 DEF PendingOK
<1> QED BY <1>1, <1>3, <1>6, <1>7, <1>8, <1>9, <1>10, SecretStep

\* A step of a command without password that leaves the configuration alone.
LEMMA PlainStepSecret ==
    ASSUME LockInv, SecretInv, NEW p \in Processes, proc[p].cmd.op # "mqtt", Working(p),
           proc'[p].at = "working", proc'[p].cmd = proc[p].cmd, proc'[p].oldSecret = proc[p].oldSecret,
           \A q \in Processes \ {p} : proc'[q] = proc[q],
           visible'[ConfigFile] = visible[ConfigFile], durable'[ConfigFile] = durable[ConfigFile],
           UNCHANGED <<vault, left>>
    PROVE  SecretInv'
<1>1. Refs' = Refs
  BY DEF Refs, Referred
<1>2. proc[p].cmd.secret = NoSecret
  BY DEF SecretInv, FreshOK
<1>3. ASSUME NEW q \in Processes
      PROVE  GarbageOK(q)' /\ MqttPlanOK(q)' /\ (Uncommitted(q)' => Uncommitted(q) \/ q = p)
  <2>1. CASE q # p
    BY <2>1, StillProcess
  <2>2. CASE q = p
    BY <2>2 DEF GarbageOK, MqttPlanOK
  <2> QED BY <2>1, <2>2
<1>4. \A s \in Refs : s # NoSecret => s \in vault
  BY DEF SecretInv, VaultOK
<1>5. \A q \in Processes : proc'[q].cmd = proc[q].cmd /\ proc'[q].oldSecret = proc[q].oldSecret
  OBVIOUS
<1>6. ASSUME NEW q \in Processes, Uncommitted(q)', proc'[q].cmd.secret # NoSecret
      PROVE  Uncommitted(q) /\ proc'[q].cmd.secret \in vault' /\ proc'[q].cmd.secret \notin Refs'
  <2>1. Uncommitted(q) /\ PendingOK(q)
    BY <1>2, <1>3, <1>6 DEF SecretInv
  <2> QED BY <1>1, <1>5, <1>6, <2>1 DEF PendingOK
<1> QED BY <1>1, <1>3, <1>4, <1>5, <1>6, SecretStep

\* The steps of mqtt configure.
LEMMA MqttSteps ==
    ASSUME SecretInv, NEW p \in Processes, Working(p), proc[p].todo # <<>>, proc[p].cmd.op = "mqtt"
    PROVE  /\ proc[p].ok /\ Head(proc[p].todo).file = ConfigFile
           /\ \/ /\ Head(proc[p].todo).do = "rename" /\ Head(proc[p].todo).onError = "abort"
                 /\ Uncommitted(p)
                 /\ Tail(proc[p].todo) = <<Step("sync", ConfigFile, Absent, "abort")>>
              \/ /\ Head(proc[p].todo).do = "sync" /\ Tail(proc[p].todo) = <<>>
                 /\ Referred(visible) = proc[p].cmd.secret
<1> DEFINE R == Step("rename", ConfigFile, Updated(Loaded, proc[p].cmd), "abort")
           Y == Step("sync", ConfigFile, Absent, "abort")
           t == proc[p].todo
<1>1. /\ R.do = "rename" /\ R.file = ConfigFile /\ R.onError = "abort"
      /\ Y.do = "sync" /\ Y.file = ConfigFile
  BY DEF Step
<1>2. MqttPlanOK(p)
  BY DEF SecretInv
<1>3. /\ proc[p].ok
      /\ t = <<R, Y>> \/ (t = <<Y>> /\ Referred(visible) = proc[p].cmd.secret)
  BY <1>2 DEF MqttPlanOK, Working, Replace
<1>4. t = <<R, Y>> => Uncommitted(p)
  BY DEF Uncommitted, Working
<1> HIDE DEF R, Y
<1>5. CASE t = <<R, Y>>
  <2>1. Head(t) = R /\ Tail(t) = <<Y>>
    BY <1>5
  <2> QED BY <1>1, <1>3, <1>4, <1>5, <2>1 DEF Y
<1>6. CASE t = <<Y>> /\ Referred(visible) = proc[p].cmd.secret
  <2>1. Head(t) = Y /\ Tail(t) = <<>>
    BY <1>6
  <2> QED BY <1>1, <1>3, <1>6, <2>1
<1> QED BY <1>3, <1>5, <1>6

\* The configuration is replaced.
LEMMA CommitSecret ==
    ASSUME LockInv, ConfigInv, SecretInv, NEW p \in Processes, RenameOver(p), Target(p) = ConfigFile
    PROVE  SecretInv'
<1> DEFINE c == proc[p].cmd
           new == Referred(visible)'
<1>1. /\ Working(p) /\ proc[p].todo # <<>> /\ Head(proc[p].todo).do = "rename" /\ StepDone(p)
      /\ Head(proc[p].todo).file = ConfigFile
      /\ UNCHANGED <<durable, vault, left>>
  BY DEF RenameOver, Doing, Target
<1>2. /\ locks[ConfigFile] = p /\ visible'[ConfigFile] = Updated(Loaded, c) /\ visible'[ConfigFile] \in Configs
  BY CommitIsCurrent
<1>3. /\ proc'[p].at = "working" /\ proc'[p].cmd = c /\ proc'[p].todo = Tail(proc[p].todo)
      /\ proc'[p].ok = proc[p].ok /\ proc'[p].oldSecret = proc[p].oldSecret
      /\ \A q \in Processes \ {p} : proc'[q] = proc[q]
  BY <1>1, StepDoneEffect
<1>4. c.op \in ConfigOps
  <2>1. ConfigFile \in Needs(c)
    BY <1>1, HeadOfPlan DEF StepsOf
  <2>2. \A n : ConfigFile \notin HistoryLocks(n)
    BY DEF HistoryLocks, ConfigFile, Canonical, Legacy
  <2> QED BY <2>1, <2>2 DEF Needs
<1>5. Loaded \in Configs /\ Loaded.secret = Referred(visible)
  BY ConfigTypes, LoadedRefers DEF LockInv
<1>6. new = Updated(Loaded, c).secret
  BY <1>2, AbsentAssumption DEF Referred
<1>7. new \in {Referred(visible), NoSecret} \/ (c.op = "mqtt" /\ new = c.secret)
  BY <1>4, <1>5, <1>6, UpdatedRefers
<1>8. c.op = "mqtt" => new = c.secret
  <2>1. MqttConfigured(Loaded, c).secret = c.secret
    BY <1>5 DEF MqttConfigured, Configs
  <2> QED BY <1>6, <2>1 DEF Updated
<1>9. Referred(durable)' = Referred(durable) /\ Refs' = {new, Referred(durable)}
  BY <1>1 DEF Referred, Refs
<1> HIDE DEF new
<1>10. c.op = "mqtt" => /\ proc[p].ok /\ Uncommitted(p)
                        /\ Tail(proc[p].todo) = <<Step("sync", ConfigFile, Absent, "abort")>>
  BY <1>1, MqttSteps
<1>11. FreshOK(p) /\ PendingOK(p)
  BY DEF SecretInv
<1>12. ASSUME NEW s \in Refs', s # NoSecret PROVE s \in vault'
  <2>1. \A x \in Refs : x # NoSecret => x \in vault
    BY DEF SecretInv, VaultOK
  <2> QED BY <1>1, <1>7, <1>9, <1>10, <1>11, <1>12, <2>1 DEF PendingOK, Refs
<1>13. Uncommitted(p)' => c.secret = NoSecret
  <2>1. CASE c.op = "mqtt"
    <3>1. Len(proc'[p].todo) = 1 /\ proc'[p].ok
      <4> DEFINE Y == Step("sync", ConfigFile, Absent, "abort")
      <4>1. proc'[p].todo = <<Y>> /\ proc'[p].ok
        BY <1>3, <1>10, <2>1
      <4> HIDE DEF Y
      <4>2. Len(<<Y>>) = 1
        OBVIOUS
      <4> QED BY <4>1, <4>2
    <3>2. proc'[p].at = "working"
      BY <1>3
    <3>3. Len(proc'[p].todo) # 2
      BY <3>1
    <3>4. ~Uncommitted(p)'
      BY <3>1, <3>2, <3>3 DEF Uncommitted
    <3> QED BY <3>4
  <2>2. CASE c.op # "mqtt"
    BY <1>11, <2>2 DEF FreshOK
  <2> QED BY <2>1, <2>2
<1>14. ASSUME NEW q \in Processes, Uncommitted(q)', proc'[q].cmd.secret # NoSecret
       PROVE  Uncommitted(q) /\ proc'[q].cmd.secret \in vault' /\ proc'[q].cmd.secret \notin Refs'
  <2>1. q # p /\ proc'[q] = proc[q]
    BY <1>3, <1>13, <1>14
  <2>2. Uncommitted(q) /\ PendingOK(q)
    BY <1>14, <2>1 DEF Uncommitted, SecretInv
  <2>3. /\ proc[q].cmd.secret \in vault /\ proc[q].cmd.secret \notin Refs /\ proc[q].cmd.secret # NoSecret
        /\ proc[q].cmd.secret # c.secret
    BY <1>14, <2>1, <2>2 DEF PendingOK
  <2> QED BY <1>1, <1>7, <1>9, <2>1, <2>2, <2>3 DEF Refs
<1>15. ASSUME NEW q \in Processes PROVE GarbageOK(q)' /\ MqttPlanOK(q)'
  <2>1. CASE q = p
    <3>1. GarbageOK(p)'
      BY <1>3 DEF GarbageOK
    <3>2. MqttPlanOK(p)'
      <4>1. c.op = "mqtt" => /\ proc'[p].ok /\ proc'[p].todo = <<Step("sync", ConfigFile, Absent, "abort")>>
                             /\ Referred(visible)' = c.secret
        BY <1>3, <1>8, <1>10 DEF new
      <4> QED BY <1>3, <4>1 DEF MqttPlanOK
    <3> QED BY <2>1, <3>1, <3>2
  <2>2. CASE q # p
    <3>1. proc'[q] = proc[q] /\ GarbageOK(q) /\ MqttPlanOK(q)
      BY <1>3, <2>2 DEF SecretInv
    <3>2. MqttPlanOK(q)'
      <4>1. ~(proc[q].at = "working" /\ proc[q].cmd.op = "mqtt")
        BY <1>2, <2>2, MqttHolds
      <4> QED BY <3>1, <4>1 DEF MqttPlanOK
    <3>3. GarbageOK(q)'
      <4> SUFFICES ASSUME proc[q].at = "cleaning", proc[q].ok, proc[q].oldSecret \notin {NoSecret, proc[q].cmd.secret}
                   PROVE  proc[q].oldSecret \notin Refs'
        BY <3>1 DEF GarbageOK
      <4>1. proc[q].oldSecret \notin Refs
        BY <3>1 DEF GarbageOK
      <4>2. c.op = "mqtt" => proc[q].oldSecret # c.secret
        BY <1>10, <1>11 DEF PendingOK
      <4> QED BY <1>7, <1>9, <4>1, <4>2 DEF Refs
    <3> QED BY <3>2, <3>3
  <2> QED BY <2>1, <2>2
<1>16. \A q \in Processes : proc'[q].cmd = proc[q].cmd /\ proc'[q].oldSecret = proc[q].oldSecret
  BY <1>3
<1> QED BY <1>1, <1>12, <1>14, <1>15, <1>16, SecretStep

\* The directory of the configuration is synced.
LEMMA SyncSecret ==
    ASSUME LockInv, SecretInv, NEW p \in Processes, SyncDirectory(p)
    PROVE  SecretInv'
<1> DEFINE c == proc[p].cmd
           dir == Directory(Target(p))
<1>1. /\ Working(p) /\ proc[p].todo # <<>> /\ Head(proc[p].todo).do = "sync" /\ StepDone(p)
      /\ durable' = [f \in Files |-> IF Directory(f) = dir THEN visible[f] ELSE durable[f]]
      /\ UNCHANGED <<visible, vault, left>>
  BY DEF SyncDirectory, Doing
<1>2. /\ proc'[p].at = "working" /\ proc'[p].cmd = c /\ proc'[p].todo = Tail(proc[p].todo)
      /\ proc'[p].ok = proc[p].ok /\ proc'[p].oldSecret = proc[p].oldSecret
      /\ \A q \in Processes \ {p} : proc'[q] = proc[q]
  BY <1>1, StepDoneEffect
<1>3. /\ durable'[ConfigFile] = visible[ConfigFile] \/ durable'[ConfigFile] = durable[ConfigFile]
      /\ Target(p) = ConfigFile => durable'[ConfigFile] = visible[ConfigFile]
  <2>1. ConfigFile \in Files
    BY DEF Files
  <2> QED BY <1>1, <2>1
<1>4. /\ Referred(visible)' = Referred(visible) /\ Loaded' = Loaded
      /\ Referred(durable)' = Referred(visible) \/ Referred(durable)' = Referred(durable)
      /\ Target(p) = ConfigFile => Referred(durable)' = Referred(visible)
  BY <1>1, <1>3 DEF Referred, Loaded, Present
<1>5. Refs' \subseteq Refs
  BY <1>4 DEF Refs
<1>6. FreshOK(p)
  BY DEF SecretInv
<1>7. c.op = "mqtt" => /\ proc[p].ok /\ Tail(proc[p].todo) = <<>>
                       /\ Referred(visible) = c.secret /\ Target(p) = ConfigFile
  BY <1>1, MqttSteps DEF Target
<1>8. Uncommitted(p)' => c.secret = NoSecret
  <2>1. CASE c.op = "mqtt"
    <3>1. Len(proc'[p].todo) = 0 /\ proc'[p].ok
      <4>1. proc'[p].todo = <<>> /\ proc'[p].ok
        BY <1>2, <1>7, <2>1
      <4> QED BY <4>1
    <3> QED BY <1>2, <3>1 DEF Uncommitted
  <2>2. CASE c.op # "mqtt"
    BY <1>6, <2>2 DEF FreshOK
  <2> QED BY <2>1, <2>2
<1>9. ASSUME NEW q \in Processes, Uncommitted(q)', proc'[q].cmd.secret # NoSecret
      PROVE  Uncommitted(q) /\ proc'[q].cmd.secret \in vault' /\ proc'[q].cmd.secret \notin Refs'
  <2>1. q # p /\ proc'[q] = proc[q]
    BY <1>2, <1>8, <1>9
  <2>2. Uncommitted(q) /\ PendingOK(q)
    BY <1>9, <2>1 DEF Uncommitted, SecretInv
  <2> QED BY <1>1, <1>5, <1>9, <2>1, <2>2 DEF PendingOK
<1>10. ASSUME NEW q \in Processes PROVE GarbageOK(q)' /\ MqttPlanOK(q)'
  <2>1. CASE q = p
    <3>1. GarbageOK(p)'
      BY <1>2 DEF GarbageOK
    <3>2. MqttPlanOK(p)'
      <4>1. c.op = "mqtt" => /\ proc'[p].ok /\ proc'[p].todo = <<>>
                             /\ Referred(visible)' = c.secret /\ Referred(durable)' = c.secret
        BY <1>2, <1>4, <1>7
      <4> QED BY <1>2, <4>1 DEF MqttPlanOK
    <3> QED BY <2>1, <3>1, <3>2
  <2>2. CASE q # p
    <3>1. proc'[q] = proc[q] /\ GarbageOK(q) /\ MqttPlanOK(q)
      BY <1>2, <2>2 DEF SecretInv
    <3>2. MqttPlanOK(q)'
      BY <1>4, <3>1 DEF MqttPlanOK
    <3>3. GarbageOK(q)'
      BY <1>5, <3>1 DEF GarbageOK
    <3> QED BY <3>2, <3>3
  <2> QED BY <2>1, <2>2
<1>11. \A s \in Refs' : s # NoSecret => s \in vault'
  BY <1>1, <1>5 DEF SecretInv, VaultOK
<1>12. \A q \in Processes : proc'[q].cmd = proc[q].cmd /\ proc'[q].oldSecret = proc[q].oldSecret
  BY <1>2
<1> QED BY <1>1, <1>9, <1>10, <1>11, <1>12, SecretStep

\* The other file operations are not those of mqtt configure.
LEMMA HistoryStepSecret ==
    ASSUME LockInv, SecretInv, NEW p \in Processes,
           (RenameOver(p) /\ Target(p) # ConfigFile) \/ RemoveFile(p) \/ CreateBackup(p)
    PROVE  SecretInv'
<1> DEFINE s == Head(proc[p].todo)
<1>1. /\ Working(p) /\ proc[p].todo # <<>> /\ StepDone(p)
      /\ UNCHANGED <<durable, vault, left>>
      /\ \/ s.do = "rename" /\ s.file # ConfigFile /\ visible' = [visible EXCEPT ![s.file] = s.content]
         \/ s.do = "unlink" /\ visible' = [visible EXCEPT ![s.file] = Absent]
         \/ s.do = "backup" /\ visible' = visible
  BY DEF RenameOver, RemoveFile, CreateBackup, Doing, Target
<1>2. s \in Steps
  BY <1>1, HeadOfPlan DEF StepsOf
<1>3. s.do = "unlink" => s.file # ConfigFile
  BY <1>2 DEF Steps
<1>4. proc[p].cmd.op # "mqtt"
  BY <1>1, MqttSteps
<1>5. ConfigFile \in Files /\ visible \in [Files -> FileContents]
  BY DEF Files, LockInv, TypeInv, Disks
<1> HIDE DEF s
<1>6. visible'[ConfigFile] = visible[ConfigFile]
  BY <1>1, <1>3, <1>5
<1>7. /\ proc'[p].at = "working" /\ proc'[p].cmd = proc[p].cmd /\ proc'[p].oldSecret = proc[p].oldSecret
      /\ \A q \in Processes \ {p} : proc'[q] = proc[q]
  BY <1>1, StepDoneEffect
<1> QED BY <1>1, <1>4, <1>6, <1>7, PlainStepSecret

\* A failed operation, which is not the sync of a directory.
LEMMA StepFailsSecret ==
    ASSUME LockInv, SecretInv, NEW p \in Processes, StepFails(p), "sync" \notin Faults
    PROVE  SecretInv'
<1> DEFINE c == proc[p].cmd
<1>1. /\ Working(p) /\ proc[p].todo # <<>> /\ proc'[p].at = "working" /\ proc'[p].cmd = c
      /\ proc'[p].ok = FALSE /\ proc'[p].oldSecret = proc[p].oldSecret
      /\ Head(proc[p].todo).onError = "abort" => proc'[p].todo = <<>>
      /\ \A q \in Processes \ {p} : proc'[q] = proc[q]
      /\ UNCHANGED <<visible, durable, vault, left>>
      /\ Head(proc[p].todo).do # "sync"
  BY StepFailsEffect
<1>2. CASE c.op # "mqtt"
  BY <1>1, <1>2, PlainStepSecret
<1>3. CASE c.op = "mqtt"
  <2>1. Head(proc[p].todo).onError = "abort" /\ Uncommitted(p)
    BY <1>1, <1>3, MqttSteps
  <2>2. proc'[p].todo = <<>>
    BY <1>1, <2>1
  <2>3. GarbageOK(p)' /\ MqttPlanOK(p)'
    BY <1>1, <2>2 DEF GarbageOK, MqttPlanOK
  <2>4. ASSUME NEW q \in Processes
        PROVE  GarbageOK(q)' /\ MqttPlanOK(q)' /\ (Uncommitted(q)' => Uncommitted(q))
    <3>1. CASE q # p
      BY <1>1, <3>1, StillProcess
    <3> QED BY <2>1, <2>3, <3>1
  <2>5. Refs' = Refs
    BY <1>1 DEF Refs, Referred
  <2>6. \A s \in Refs : s # NoSecret => s \in vault
    BY DEF SecretInv, VaultOK
  <2>7. \A q \in Processes : proc'[q].cmd = proc[q].cmd /\ proc'[q].oldSecret = proc[q].oldSecret
    BY <1>1
  <2>8. ASSUME NEW q \in Processes, Uncommitted(q)', proc'[q].cmd.secret # NoSecret
        PROVE  Uncommitted(q) /\ proc'[q].cmd.secret \in vault' /\ proc'[q].cmd.secret \notin Refs'
    <3>1. Uncommitted(q) /\ PendingOK(q)
      BY <2>4, <2>8 DEF SecretInv
    <3> QED BY <1>1, <2>5, <2>7, <2>8, <3>1 DEF PendingOK
  <2> QED BY <1>1, <2>4, <2>5, <2>6, <2>7, <2>8, SecretStep
<1> QED BY <1>2, <1>3

\* The machine loses power.
LEMMA PowerLossSecret ==
    ASSUME LockInv, SecretInv, PowerLoss
    PROVE  SecretInv'
<1>1. PICK kept \in SUBSET Unsynced :
          visible' = [f \in Files |-> IF f \in kept THEN visible[f] ELSE durable[f]]
  BY DEF PowerLoss
<1>2. durable' = visible' /\ proc' = [q \in Processes |-> Idle] /\ UNCHANGED <<vault, left>>
  BY DEF PowerLoss
<1>3. visible'[ConfigFile] = visible[ConfigFile] \/ visible'[ConfigFile] = durable[ConfigFile]
  <2>1. ConfigFile \in Files
    BY DEF Files
  <2> QED BY <1>1, <2>1
<1>4. Refs' \subseteq Refs
  BY <1>2, <1>3 DEF Refs, Referred
<1>5. \A q \in Processes : proc'[q] = Idle
  BY <1>2
<1>6. \A q \in Processes : GarbageOK(q)' /\ MqttPlanOK(q)' /\ ~Uncommitted(q)'
  BY <1>5, IdleProcess
<1>7. \A s \in Refs' : s # NoSecret => s \in vault'
  BY <1>2, <1>4 DEF SecretInv, VaultOK
<1> QED BY <1>2, <1>5, <1>6, <1>7, SecretStep

\* Every step keeps SecretInv, while directories can be synced.
LEMMA SecretInvKept ==
    ASSUME LockInv, ConfigInv, SecretInv, [Next]_vars, "sync" \notin Faults
    PROVE  SecretInv'
<1>1. CASE Next
  <2>1. CASE PowerLoss
    BY <2>1, PowerLossSecret
  <2>2. ASSUME NEW p \in Processes,
               \/ BeginConfig(p) \/ BeginMqttConfigure(p) \/ SelectProfile(p) \/ BeginInsert(p) \/ BeginUpdate(p)
               \/ BeginHistory(p) \/ AcquireLock(p) \/ LockTimesOut(p) \/ RefuseCommand(p)
               \/ Return(p) \/ CleanupCredential(p) \/ Kill(p)
        PROVE  SecretInv'
    BY <2>2, BeginningsSecret, SelectAndLockSecret, LeavingSecret, EndingSecret
  <2>3. ASSUME NEW p \in Processes,
               \/ ReadAndPlan(p) \/ RenameOver(p) \/ SyncDirectory(p) \/ RemoveFile(p) \/ CreateBackup(p)
               \/ StepFails(p)
        PROVE  SecretInv'
    BY <2>3, ReadAndPlanSecret, CommitSecret, SyncSecret, HistoryStepSecret, StepFailsSecret
  <2> QED BY <1>1, <2>1, <2>2, <2>3 DEF Next
<1>2. CASE UNCHANGED vars
  BY <1>2, StillSecret DEF vars, fileVars
<1> QED BY <1>1, <1>2

\* SecretInv holds at the start.
LEMMA InitSecretInv ==
    ASSUME Init
    PROVE  SecretInv
<1>1. \A q \in Processes : proc[q] = Idle
  BY DEF Init
<1>2. Idle.at = "idle" /\ Idle.cmd.secret = NoSecret /\ Idle.oldSecret = NoSecret /\ Idle.cmd.op # "mqtt"
  BY DEF Idle, Command
<1>3. \A q \in Processes : FreshOK(q) /\ PendingOK(q) /\ GarbageOK(q) /\ MqttPlanOK(q)
  BY <1>1, <1>2 DEF FreshOK, PendingOK, GarbageOK, MqttPlanOK, Uncommitted
<1>4. PICK config \in InitialConfigs, old \in {Absent, InitialHistory} :
        visible = [f \in Files |-> CASE f = ConfigFile -> config
                                      [] Directory(f) = "legacy" -> old
                                      [] OTHER -> Absent]
  BY DEF Init
<1>5. visible[ConfigFile] = config
  <2>1. ConfigFile \in Files /\ Directory(ConfigFile) # "legacy"
    BY DEF Files, Directory, ConfigFile
  <2> QED BY <1>4, <2>1
<1>6. config = Absent \/ config.secret = NoSecret
  BY <1>4 DEF InitialConfigs, Config
<1>7. Referred(visible) = NoSecret /\ durable = visible /\ vault = {}
  BY <1>5, <1>6 DEF Referred, Init
<1>8. VaultOK
  BY <1>7 DEF VaultOK, Refs
<1> QED BY <1>3, <1>8 DEF SecretInv

\* While directories can be synced, the password that the configuration refers to is in the
\* keyring, whatever commands run, fail or die, and also after a loss of power
\* (mqtt_configure, prepare_authentication and cleanup_credential, mqtt_cli.rs).
THEOREM ReferredIsStored == ASSUME "sync" \notin Faults PROVE Spec => []PasswordIsStored
<1>1. Init => SecretInv
  BY InitSecretInv
<1>2. LockInv /\ ConfigInv /\ SecretInv /\ [Next]_vars => SecretInv'
  BY SecretInvKept
<1>3. LockInv /\ SecretInv => PasswordIsStored
  BY LoadedRefers DEF LockInv, SecretInv, VaultOK, Refs, PasswordIsStored
<1> QED BY <1>1, <1>2, <1>3, LockInvHolds, ConfigInvHolds, PTL DEF Spec

\* Together: every variable has its type, no history exceeds its bound, no change of the
\* configuration is lost, and what it refers to is there.
THEOREM ConfigurationStaysKept == ASSUME "sync" \notin Faults PROVE Spec => []ConfigurationIsKept
<1>1. LockInv /\ ConfigUpdatesAreApplied /\ PasswordIsStored => ConfigurationIsKept
  BY TypesHold DEF LockInv, ConfigurationIsKept
<1>2. Spec => []PasswordIsStored
  BY ReferredIsStored
<1> QED BY <1>1, <1>2, LockInvHolds, NoUpdateIsLost, PTL

-----------------------------------------------------------------------------
(* The histories.                                                          *)

\* The content of a history file and of the configuration file, which may be absent.
Held(content) == IF content = Absent THEN {} ELSE content
ConfigOf(content) == IF content = Absent THEN DefaultConfig ELSE content

\* es has e, in its state or a later one, or enough newer records.
Covers(es, e) ==
    \/ \E x \in es : x.id = e.id /\ x.status \in {e.status, "final"}
    \/ Cardinality({x \in es : x.id > e.id}) >= MaxMessages
Pays(owed, es) == \A e \in owed : Covers(es, e)

\* What is owed under each name: by a configuration file, by the one in force, and by that one or
\* the one that a loss of power brings back.
OwedBy(content, due) ==
    [n \in Names |-> IF Configured(ConfigOf(content), n) THEN due[ConfigOf(content).profiles[n]] ELSE {}]
OwedNow == OwedBy(visible[ConfigFile], promised)
Owed == [n \in Names |-> OwedNow[n] \cup OwedBy(durable[ConfigFile], promised)[n]]

\* What the history files hold, in memory and on the disk.
InMemory == [n \in Names |-> Held(visible[Canonical(n)])]
OnDisk == [n \in Names |-> Held(durable[Canonical(n)])]
LegacyCopies(n) == {Held(visible[Legacy(n)]), Held(durable[Legacy(n)])}

\* Whatever a loss of power leaves of each directory, it pays.
ViewsPay(n) ==
    \A l \in LegacyCopies(n), c \in {InMemory[n], OnDisk[n]} : Pays(Owed[n], MergeEntries(l, c))

\* No two names stand for one device, and only those of the configuration in force are owed anything.
Distinct(config) ==
    \A m, n \in Names : Configured(config, n) /\ config.profiles[m] = config.profiles[n] => m = n
OwedOK ==
    /\ Distinct(ConfigOf(visible[ConfigFile])) /\ Distinct(ConfigOf(durable[ConfigFile]))
    /\ \A d \in Devices : promised[d] # {} => \E n \in Names : ConfigOf(visible[ConfigFile]).profiles[n] = d

Renames(s, n) == s.do = "rename" /\ s.file = Canonical(n)
Touches(s, n) == s.do \in {"rename", "unlink"} /\ s.file = Canonical(n)
Unlinks(s, n) == s.do = "unlink" /\ s.file \in HistoryLocks(n)
Syncs(s, dir) == s.do = "sync" /\ Directory(s.file) = dir

\* Before step i of a plan the canonical file of n pays what is owed, in memory (v) and on the
\* disk (d).
Ready(t, i, n, owed, v, d) ==
    \/ /\ Pays(owed, v) /\ Pays(owed, d)
       /\ \A k \in 1 .. i - 1 : ~Touches(t[k], n)
    \/ \E j \in 1 .. i - 1 :
          /\ Syncs(t[j], "canonical") /\ \A k \in j + 1 .. i - 1 : ~Touches(t[k], n)
          /\ \/ Pays(owed, v) /\ \A k \in 1 .. j - 1 : ~Touches(t[k], n)
             \/ \E k \in 1 .. j - 1 : /\ Renames(t[k], n) /\ Pays(owed, t[k].content)
                                      /\ \A m \in k + 1 .. j - 1 : ~Touches(t[m], n)

\* Before step i of a plan that renames a profile nothing is owed under its old name any more.
Settled(t, i, owed, now) ==
    \/ owed = {}
    \/ \E j \in 1 .. i - 1 :
          Syncs(t[j], "config") /\ (now = {} \/ \E k \in 1 .. j - 1 : Commits(t[k]))

\* A step of a plan t for command c while owed, now, v and d are as above.
StepPays(t, i, n, c, owed, now, v, d) ==
    /\ ~(t[i].do = "rename" /\ t[i].file = Legacy(n))
    /\ Renames(t[i], n) => Pays(owed[n], t[i].content)
    /\ Unlinks(t[i], n) =>
          \/ c.op = "clear"
          \/ t[i].onError = "abort" /\ t[i].file = Legacy(n) /\ Ready(t, i, n, owed[n], v[n], d[n])
          \/ c.op = "rename" /\ t[i].onError = "next" /\ owed[n] = {}
          \/ c.op = "rename" /\ t[i].onError = "next" /\ n = c.name /\ Settled(t, i, owed[n], now[n])

\* The commit of a rename: the new name is free, its file is ready, and then only the old one is cleared.
CommitPays(t, i, c, owed, now, v, d) ==
    /\ c.to # c.name /\ owed[c.to] = {} /\ Ready(t, i, c.to, now[c.name], v[c.to], d[c.to])
    /\ \A j \in i + 1 .. Len(t) : t[j].do \in {"rename", "unlink"} =>
          t[j].do = "unlink" /\ t[j].onError = "next" /\ t[j].file \in HistoryLocks(c.name)

\* Only an unlink may fail and the plan goes on, and only a commit that fails is undone.
ErrorsOK(s) == /\ s.onError = "next" => s.do = "unlink"
               /\ s.onError = "undo" => s.do = "sync" \/ Commits(s)

PlanPays(t, c, ok, owed, now, v, d) ==
    /\ \A i \in 1 .. Len(t) : ErrorsOK(t[i])
    /\ \A i \in 1 .. Len(t), n \in Names : StepPays(t, i, n, c, owed, now, v, d)
    /\ c.op = "rename" =>
          \A i \in 1 .. Len(t) : Commits(t[i]) => CommitPays(t, i, c, owed, now, v, d)
    /\ c.op = "upsert" /\ ok => Ready(t, Len(t) + 1, c.name, {c.entry}, v[c.name], d[c.name])

PlansPay ==
    \A p \in Processes : proc[p].at = "working" =>
        PlanPays(proc[p].todo, proc[p].cmd, proc[p].ok, Owed, OwedNow, InMemory, OnDisk)

PayInv == OwedOK /\ PlansPay /\ \A n \in Names : ViewsPay(n)

\* IDs in files, on their way into one, or known to a process.
Ids(es) == {e.id : e \in es}
IdsIn(s) == IF s.do = "rename" /\ s.file # ConfigFile THEN Ids(s.content) ELSE {}
Used(i) ==
    \/ \E f \in HistoryFiles : i \in Ids(Held(visible[f])) \/ i \in Ids(Held(durable[f]))
    \/ \E p \in Processes : \/ known[p].id = i
                            \/ \E k \in 1 .. Len(proc[p].todo) : i \in IdsIn(proc[p].todo[k])

\* The ID of a new record is nobody else's until it is stored.
Fresh(p) == proc[p].at = "locking" /\ proc[p].cmd.entry.status = "pending"
IdsInv ==
    /\ \A i \in 1 .. MaxEntry : Used(i) => i <= newest
    /\ \A p \in Processes : proc[p].cmd.entry.id <= newest
    /\ \A p \in Processes : Fresh(p) =>
          /\ ~Used(proc[p].cmd.entry.id)
          /\ \A q \in Processes \ {p} : proc[q].cmd.entry.id # proc[p].cmd.entry.id

\* A set that has for every record of another one with its ID, in its state or a later one.
Better(more, less) ==
    \A x \in less : \E y \in more : y.id = x.id /\ y.status \in {x.status, "final"}

\* The records behind an ID.
Behind(es, i) == {x \in es : x.id > i}

\* What is known of records.
LEMMA RecordTypes ==
    ASSUME NEW es \in Histories
    PROVE  /\ es \subseteq Entries /\ \A x, y \in es : x.id = y.id => x = y
           /\ \A x \in es : x.id \in Nat /\ x.id # 0 /\ x.status \in {"pending", "final"}
           /\ \A i : IsFiniteSet(Behind(es, i)) /\ Cardinality(Behind(es, i)) \in Nat
<1>1. es \subseteq Entries /\ \A x, y \in es : x.id = y.id => x = y
  BY DEF Histories
<1>2. \A x \in es : x.id \in Nat /\ x.id # 0 /\ x.status \in {"pending", "final"}
  BY <1>1 DEF Entries
<1>3. IsFiniteSet(es)
  BY HistoriesAreFinite
<1>4. ASSUME NEW i PROVE IsFiniteSet(Behind(es, i)) /\ Cardinality(Behind(es, i)) \in Nat
  <2>1. Behind(es, i) \in SUBSET es
    BY DEF Behind
  <2> QED BY <1>3, <2>1, FS_Subset, FS_CardinalityType
<1> QED BY <1>1, <1>2, <1>4

\* A better set has as many records behind an ID.
LEMMA BetterCounts ==
    ASSUME NEW more \in Histories, NEW less \in Histories, Better(more, less), NEW i
    PROVE  Cardinality(Behind(less, i)) <= Cardinality(Behind(more, i))
<1> DEFINE f == [x \in Behind(less, i) |-> CHOOSE y \in more : y.id = x.id]
<1>1. ASSUME NEW x \in Behind(less, i) PROVE f[x] \in Behind(more, i) /\ f[x].id = x.id
  <2>1. x \in less /\ x.id > i
    BY DEF Behind
  <2>2. \E y \in more : y.id = x.id
    BY <2>1 DEF Better
  <2>3. f[x] \in more /\ f[x].id = x.id
    BY <2>2
  <2> QED BY <2>1, <2>3 DEF Behind
<1>2. f \in [Behind(less, i) -> Behind(more, i)]
  BY <1>1
<1> HIDE DEF f
<1>3. \A x, y \in Behind(less, i) : f[x] = f[y] => x = y
  <2>1. Behind(less, i) \subseteq less
    BY DEF Behind
  <2> QED BY <1>1, <2>1, RecordTypes
<1>4. f \in Injection(Behind(less, i), Behind(more, i))
  BY <1>2, <1>3 DEF Injection, IsInjective
<1> QED BY <1>4, FS_Injection, RecordTypes

\* What covers a record still does when it gets better.
LEMMA BetterCovers ==
    ASSUME NEW more \in Histories, NEW less \in Histories, Better(more, less), NEW e \in Entries,
           Covers(less, e)
    PROVE  Covers(more, e)
<1>1. CASE \E x \in less : x.id = e.id /\ x.status \in {e.status, "final"}
  BY <1>1 DEF Covers, Better
<1>2. CASE Cardinality(Behind(less, e.id)) >= MaxMessages
  <2>1. Cardinality(Behind(less, e.id)) <= Cardinality(Behind(more, e.id))
    BY BetterCounts
  <2>2. Cardinality(Behind(less, e.id)) \in Nat /\ Cardinality(Behind(more, e.id)) \in Nat
    BY RecordTypes
  <2>3. MaxMessages \in Nat
    BY StoreAssumption
  <2>4. Cardinality(Behind(more, e.id)) >= MaxMessages
    BY <1>2, <2>1, <2>2, <2>3
  <2> QED BY <2>4 DEF Covers, Behind
<1> QED BY <1>1, <1>2 DEF Covers, Behind

\* Dropping the oldest leaves max_messages behind an ID if there were as many.
LEMMA NewestCounts ==
    ASSUME NEW es \in Histories, NEW i \in Nat, Cardinality(Behind(es, i)) >= MaxMessages
    PROVE  Cardinality(Behind(Newest(es), i)) >= MaxMessages
<1> DEFINE B == Behind(es, i)
           K == Behind(Newest(es), i)
           dropped == {x.id : x \in B \ K}
<1>1. es \subseteq Entries /\ \A x \in es : x.id \in Nat /\ x.id <= MaxEntry
  BY RecordTypes DEF Entries
<1>2. B \subseteq es /\ K \subseteq B
  BY DEF Behind, Newest
<1>3. IsFiniteSet(B) /\ IsFiniteSet(K) /\ Cardinality(K) \in Nat
  <2>1. Newest(es) \in Histories
    BY NewestIsRetained DEF Retained
  <2> QED BY <2>1, RecordTypes
<1>4. CASE B = K
  BY <1>4
<1>5. CASE B # K
  <2> DEFINE T == {MaxEntry - j : j \in dropped}
  <2>1. T \subseteq Nat /\ T # {} /\ MaxEntry \in Nat
    <3>1. dropped # {} /\ \A j \in dropped : j \in Nat /\ j <= MaxEntry
      BY <1>1, <1>2, <1>5
    <3>2. MaxEntry \in Nat
      BY StoreAssumption
    <3> HIDE DEF dropped
    <3>3. \A j \in dropped : MaxEntry - j \in Nat
      BY <3>1, <3>2
    <3> QED BY <3>1, <3>2, <3>3
  <2>2. PICK t \in T : \A u \in T : t <= u
    BY <2>1, LeastIndex
  <2>3. PICK x \in B \ K : t = MaxEntry - x.id
    BY <2>2
  <2>4. ASSUME NEW y \in B \ K PROVE y.id <= x.id
    <3>1. MaxEntry - x.id <= MaxEntry - y.id
      <4>1. y.id \in dropped
        OBVIOUS
      <4>2. MaxEntry - y.id \in T
        BY <4>1
      <4> QED BY <2>2, <2>3, <4>2
    <3>2. x.id \in Nat /\ y.id \in Nat
      BY <1>1, <1>2, <2>3
    <3> QED BY <2>1, <3>1, <3>2
  <2>5. Behind(es, x.id) \subseteq K
    <3> SUFFICES ASSUME NEW y \in es, y.id > x.id PROVE y \in K
      BY DEF Behind
    <3>1. x \in es /\ x.id > i
      BY <2>3 DEF Behind
    <3>2. x.id \in Nat /\ y.id \in Nat
      BY <1>1, <3>1
    <3>3. y \notin B \ K
      BY <2>4, <3>2
    <3>4. CASE y \in B
      BY <3>3, <3>4
    <3>5. CASE y \notin B
      <4>1. ~(y.id > i)
        BY <3>5 DEF Behind
      <4> QED BY <3>1, <3>2, <4>1
    <3> QED BY <3>4, <3>5
  <2>6. Cardinality(Behind(es, x.id)) >= MaxMessages
    <3>1. x \in es /\ x.id > i /\ x \notin Newest(es)
      BY <2>3 DEF Behind
    <3>2. ~(Cardinality(Behind(es, x.id)) < MaxMessages)
      BY <3>1 DEF Newest, Behind
    <3>3. Cardinality(Behind(es, x.id)) \in Nat /\ MaxMessages \in Nat
      BY RecordTypes, StoreAssumption
    <3> QED BY <3>2, <3>3
  <2>7. Cardinality(Behind(es, x.id)) <= Cardinality(K)
    BY <1>3, <2>5, FS_Subset
  <2>8. Cardinality(Behind(es, x.id)) \in Nat /\ MaxMessages \in Nat
    BY RecordTypes, StoreAssumption
  <2> HIDE DEF K
  <2>9. Cardinality(K) >= MaxMessages
    BY <1>3, <2>6, <2>7, <2>8
  <2> QED BY <2>9 DEF K
<1> QED BY <1>4, <1>5

\* Dropping the oldest records uncovers none.
LEMMA NewestCovers ==
    ASSUME NEW es \in Histories, NEW e \in Entries, Covers(es, e)
    PROVE  Covers(Newest(es), e)
<1>1. e.id \in Nat
  BY StoreAssumption DEF Entries
<1>2. CASE Cardinality(Behind(es, e.id)) >= MaxMessages
  <2>1. Cardinality(Behind(Newest(es), e.id)) >= MaxMessages
    BY <1>1, <1>2, NewestCounts
  <2> QED BY <2>1 DEF Covers, Behind
<1>3. CASE ~(Cardinality(Behind(es, e.id)) >= MaxMessages)
  <2>1. PICK x \in es : x.id = e.id /\ x.status \in {e.status, "final"}
    BY <1>3 DEF Covers, Behind
  <2>2. Cardinality(Behind(es, e.id)) \in Nat /\ MaxMessages \in Nat
    BY RecordTypes, StoreAssumption
  <2>3. Cardinality(Behind(es, x.id)) < MaxMessages
    BY <1>3, <2>1, <2>2
  <2>4. x \in Newest(es)
    BY <2>3 DEF Newest, Behind
  <2> QED BY <2>1, <2>4 DEF Covers
<1> QED BY <1>2, <1>3

\* merge_entries loses nothing of the file that comes first.
LEMMA MergePays ==
    ASSUME NEW lower \in Histories, NEW higher \in Histories, NEW owed \in SUBSET Entries,
           Pays(owed, higher)
    PROVE  Pays(owed, MergeEntries(lower, higher))
<1> DEFINE all == {e \in lower : ~HasId(higher, e.id)} \cup higher
<1>1. all \in Histories
  BY DEF Histories, HasId
<1>2. MergeEntries(lower, higher) = Newest(all)
  BY DEF MergeEntries
<1>3. Better(all, higher)
  BY DEF Better
<1> HIDE DEF all
<1> QED BY <1>1, <1>2, <1>3, BetterCovers, NewestCovers DEF Pays

\* A record that an upsert replaces was an earlier state of it.
LEMMA UpsertPays ==
    ASSUME NEW es \in Histories, NEW e \in Entries, e.status = "final" \/ e.id \notin Ids(es),
           NEW owed \in SUBSET Entries, Pays(owed, es)
    PROVE  Pays(owed, Newest({x \in es : x.id # e.id} \cup {e}))
<1> DEFINE all == {x \in es : x.id # e.id} \cup {e}
<1>1. all \in Histories
  BY DEF Histories
<1>2. Better(all, es)
  <2> SUFFICES ASSUME NEW x \in es PROVE \E y \in all : y.id = x.id /\ y.status \in {x.status, "final"}
    BY DEF Better
  <2>1. CASE x.id # e.id
    BY <2>1
  <2>2. CASE x.id = e.id
    <3>1. e.status = "final"
      BY <2>2 DEF Ids
    <3> QED BY <2>2, <3>1
  <2> QED BY <2>1, <2>2
<1> HIDE DEF all
<1>3. Pays(owed, Newest(all))
  BY <1>1, <1>2, BetterCovers, NewestCovers DEF Pays
<1> QED BY <1>3 DEF all

\* ... and the new one is stored unless it is too old.
LEMMA UpsertStores ==
    ASSUME NEW es \in Histories, NEW e \in Entries
    PROVE  Pays({e}, Newest({x \in es : x.id # e.id} \cup {e}))
<1> DEFINE all == {x \in es : x.id # e.id} \cup {e}
<1>1. all \in Histories
  BY DEF Histories
<1>2. Covers(all, e)
  BY DEF Covers
<1> HIDE DEF all
<1>3. Covers(Newest(all), e)
  BY <1>1, <1>2, NewestCovers
<1> QED BY <1>3 DEF all, Pays

\* Nothing pays only if nothing is owed.
LEMMA NothingPays ==
    ASSUME NEW owed \in SUBSET Entries, Pays(owed, {})
    PROVE  owed = {}
<1>1. ASSUME NEW e \in owed PROVE FALSE
  <2>1. {x \in {} : x.id > e.id} = {}
    OBVIOUS
  <2>2. Cardinality({}) = 0 /\ MaxMessages \in Nat /\ MaxMessages # 0
    BY FS_EmptySet, StoreAssumption
  <2>3. ~(Cardinality({x \in {} : x.id > e.id}) >= MaxMessages)
    BY <2>1, <2>2
  <2> QED BY <2>3 DEF Pays, Covers
<1> QED BY <1>1

-----------------------------------------------------------------------------
(* The IDs of records.                                                     *)

\* What a step may make of the IDs in use, but for those in S.
LEMMA UsedStep ==
    ASSUME NEW S,
           \A f \in HistoryFiles : \A i \in 1 .. MaxEntry :
               i \in Ids(Held(visible'[f])) \/ i \in Ids(Held(durable'[f])) => Used(i),
           \A q \in Processes : \A i \in 1 .. MaxEntry : known'[q].id = i => Used(i),
           \A q \in Processes : \/ proc'[q].todo = proc[q].todo
                                \/ \A k \in 1 .. Len(proc'[q].todo), i \in 1 .. MaxEntry :
                                       i \in IdsIn(proc'[q].todo[k]) => Used(i) \/ i \in S
    PROVE  \A i \in 1 .. MaxEntry : Used(i)' => Used(i) \/ i \in S
<1> SUFFICES ASSUME NEW i \in 1 .. MaxEntry, Used(i)', ~Used(i), i \notin S
             PROVE  FALSE
  OBVIOUS
<1>1. CASE \E f \in HistoryFiles : i \in Ids(Held(visible'[f])) \/ i \in Ids(Held(durable'[f]))
  BY <1>1
<1>2. CASE \E q \in Processes : known'[q].id = i
  BY <1>2
<1>3. CASE \E q \in Processes : \E k \in 1 .. Len(proc'[q].todo) : i \in IdsIn(proc'[q].todo[k])
  <2>1. PICK q \in Processes : \E k \in 1 .. Len(proc'[q].todo) : i \in IdsIn(proc'[q].todo[k])
    BY <1>3
  <2>2. proc'[q].todo = proc[q].todo
    BY <2>1
  <2>3. Used(i)
    BY <2>1, <2>2 DEF Used
  <2> QED BY <2>3
<1> QED BY <1>1, <1>2, <1>3 DEF Used

\* The IDs of commands.
LEMMA EntryIds ==
    ASSUME TypeInv, NEW q \in Processes
    PROVE  /\ proc[q].cmd.entry \in Entries \cup {NoEntry}
           /\ proc[q].cmd.entry.id \in Nat /\ NoEntry.id = 0 /\ NoEntry.status # "pending"
           /\ proc[q].cmd.entry.status = "pending" => proc[q].cmd.entry.id \in 1 .. MaxEntry
           /\ newest \in Nat /\ MaxEntry \in Nat
<1>1. proc[q].cmd.entry \in Entries \cup {NoEntry}
  BY DEF TypeInv, Procs, Commands
<1>2. newest \in Nat /\ MaxEntry \in Nat
  BY StoreAssumption DEF TypeInv
<1>3. NoEntry.id = 0 /\ NoEntry.status # "pending"
  BY DEF NoEntry
<1>4. \A e \in Entries : e.id \in 1 .. MaxEntry
  BY DEF Entries
<1> QED BY <1>1, <1>2, <1>3, <1>4

\* Steps that bring no new ID into use.
LEMMA IdsKept ==
    ASSUME LockInv, LockInv', IdsInv, newest' = newest,
           \A i \in 1 .. MaxEntry : Used(i)' => Used(i),
           \A q \in Processes : proc'[q].cmd = proc[q].cmd \/ proc'[q].cmd.entry = NoEntry,
           \A q \in Processes : proc'[q].at = "locking" => proc[q].at = "locking" \/ proc'[q].cmd.entry = NoEntry
    PROVE  IdsInv'
<1>1. TypeInv /\ TypeInv'
  BY DEF LockInv
<1>2. ASSUME NEW q \in Processes PROVE proc'[q].cmd.entry.id <= newest'
  <2>1. proc[q].cmd.entry.id <= newest /\ newest \in Nat /\ NoEntry.id = 0
    BY <1>1, EntryIds DEF IdsInv
  <2> QED BY <2>1
<1>3. \A i \in 1 .. MaxEntry : Used(i)' => i <= newest'
  BY DEF IdsInv
<1>4. ASSUME NEW q \in Processes, Fresh(q)'
      PROVE  /\ ~Used(proc[q].cmd.entry.id)'
             /\ \A r \in Processes \ {q} : proc'[r].cmd.entry.id # proc'[q].cmd.entry.id
  <2>1. proc'[q].at = "locking" /\ proc'[q].cmd.entry.status = "pending"
    BY <1>4 DEF Fresh
  <2>2. proc'[q].cmd.entry # NoEntry
    BY <1>1, <2>1, EntryIds
  <2>3. Fresh(q) /\ proc'[q].cmd = proc[q].cmd
    BY <2>1, <2>2 DEF Fresh
  <2>4. proc[q].cmd.entry.id \in 1 .. MaxEntry /\ MaxEntry \in Nat /\ NoEntry.id = 0
    BY <1>1, <2>3, EntryIds DEF Fresh
  <2>5. ~Used(proc[q].cmd.entry.id)
    BY <2>3 DEF IdsInv
  <2>6. ASSUME NEW i \in 1 .. MaxEntry, i = proc[q].cmd.entry.id PROVE ~Used(i)'
    BY <2>5, <2>6
  <2>7. ~Used(proc[q].cmd.entry.id)'
    <3>1. proc'[q].cmd.entry.id \in 1 .. MaxEntry
      BY <2>3, <2>4
    <3>2. PICK i \in 1 .. MaxEntry : i = proc[q].cmd.entry.id /\ i = proc'[q].cmd.entry.id
      BY <2>3, <2>4
    <3>3. ~Used(i)'
      BY <2>6, <3>2
    <3> QED BY <3>2, <3>3 DEF Used
  <2>8. ASSUME NEW r \in Processes \ {q} PROVE proc'[r].cmd.entry.id # proc'[q].cmd.entry.id
    <3>1. proc[r].cmd.entry.id # proc[q].cmd.entry.id
      BY <2>3 DEF IdsInv
    <3> QED BY <2>3, <2>4, <3>1
  <2> QED BY <2>7, <2>8
<1> QED BY <1>2, <1>3, <1>4 DEF IdsInv

\* What the files hold is in use, and so is what a process knows or plans.
LEMMA UsedNow ==
    ASSUME TypeInv, NEW i
    PROVE  /\ \A f \in HistoryFiles : i \in Ids(Held(visible[f])) \/ i \in Ids(Held(durable[f])) => Used(i)
           /\ \A q \in Processes : known[q].id = i => Used(i)
           /\ \A q \in Processes : \A k \in 1 .. Len(proc[q].todo) : i \in IdsIn(proc[q].todo[k]) => Used(i)
  BY DEF Used

\* How a command begins.
LEMMA BeginEffect ==
    ASSUME LockInv, NEW p \in Processes, NEW c, NEW w, Begin(p, c, w)
    PROVE  /\ proc'[p].at = "locking" /\ proc'[p].cmd = c /\ proc'[p].todo = <<>>
           /\ \A q \in Processes \ {p} : proc'[q] = proc[q]
           /\ UNCHANGED <<visible, durable, promised>>
<1> DEFINE r == [Idle EXCEPT !.at = "locking", !.cmd = c, !.wants = w]
<1>1. r.at = "locking" /\ r.cmd = c /\ r.todo = <<>>
  BY DEF Idle
<1> HIDE DEF r
<1>2. proc' = [proc EXCEPT ![p] = r] /\ UNCHANGED <<visible, durable, promised>>
  BY DEF Begin, fileVars, r
<1>3. proc \in [Processes -> Procs]
  BY DEF LockInv, TypeInv
<1> QED BY <1>1, <1>2, <1>3

\* ... and which IDs are in use then.
LEMMA BeginUses ==
    ASSUME LockInv, NEW p \in Processes, NEW c, NEW w, Begin(p, c, w),
           known' = known \/ known' = [known EXCEPT ![p] = NoEntry]
    PROVE  \A i \in 1 .. MaxEntry : Used(i)' => Used(i)
<1>1. /\ proc'[p].todo = <<>> /\ UNCHANGED <<visible, durable>>
      /\ \A q \in Processes \ {p} : proc'[q] = proc[q]
  BY BeginEffect
<1>2. TypeInv /\ known \in [Processes -> Entries \cup {NoEntry}] /\ NoEntry.id = 0
  BY DEF LockInv, TypeInv, NoEntry
<1>3. \A f \in HistoryFiles : \A i \in 1 .. MaxEntry :
          i \in Ids(Held(visible'[f])) \/ i \in Ids(Held(durable'[f])) => Used(i)
  BY <1>1, <1>2, UsedNow
<1>4. ASSUME NEW q \in Processes, NEW i \in 1 .. MaxEntry, known'[q].id = i PROVE Used(i)
  <2>1. known'[q] = known[q] \/ known'[q] = NoEntry
    BY <1>2
  <2>2. known[q].id = i
    BY <1>2, <1>4, <2>1
  <2> QED BY <1>2, <2>2, UsedNow
<1>5. ASSUME NEW q \in Processes
      PROVE  proc'[q].todo = proc[q].todo
             \/ \A k \in 1 .. Len(proc'[q].todo), i \in 1 .. MaxEntry : i \in IdsIn(proc'[q].todo[k]) => Used(i) \/ i \in {}
  BY <1>1
<1> QED BY <1>3, <1>4, <1>5, UsedStep

\* Commands without a record.
LEMMA PlainBegins ==
    ASSUME LockInv, LockInv', IdsInv, NEW p \in Processes,
           BeginConfig(p) \/ BeginMqttConfigure(p) \/ BeginHistory(p)
    PROVE  IdsInv'
<1>1. \A op, n : Command(op, n).entry = NoEntry
  BY DEF Command
<1>2. \A op, n, m, flag : [Command(op, n) EXCEPT !.to = m, !.flag = flag].entry = NoEntry
  BY DEF Command
<1>3. \A op, n, m : [Command(op, n) EXCEPT !.to = m].entry = NoEntry
  BY DEF Command
<1>4. \A op, n, x : [Command(op, n) EXCEPT !.secret = x].entry = NoEntry
  BY DEF Command
<1>5. /\ \E c, w : Begin(p, c, w) /\ c.entry = NoEntry
      /\ known' = known \/ known' = [known EXCEPT ![p] = NoEntry]
      /\ newest' = newest
  <2>1. CASE BeginConfig(p)
    <3>1. PICK op \in ConfigOps \ {"mqtt"}, n \in Names, m \in Names, flag \in BOOLEAN :
             Begin(p, [Command(op, n) EXCEPT !.to = m, !.flag = flag],
                   {ConfigFile} \cup IF op = "rename" THEN HistoryLocks(n) \cup HistoryLocks(m) ELSE {})
      BY <2>1 DEF BeginConfig
    <3> DEFINE c == [Command(op, n) EXCEPT !.to = m, !.flag = flag]
               w == {ConfigFile} \cup IF op = "rename" THEN HistoryLocks(n) \cup HistoryLocks(m) ELSE {}
    <3>2. Begin(p, c, w) /\ c.entry = NoEntry
      BY <1>2, <3>1
    <3> HIDE DEF c, w
    <3>3. known' = [known EXCEPT ![p] = NoEntry] /\ newest' = newest
      BY <2>1 DEF BeginConfig, NewRun
    <3> QED BY <3>2, <3>3
  <2>2. CASE BeginMqttConfigure(p)
    BY <1>4, <2>2 DEF BeginMqttConfigure, NewRun
  <2>3. CASE BeginHistory(p)
    <3> DEFINE n == selected[p].name
    <3>1. known' = known /\ newest' = newest
      BY <2>3 DEF BeginHistory
    <3>2. \/ \E op \in {"load", "clear"} : Begin(p, Command(op, n), HistoryLocks(n))
          \/ \E m \in Names \ {n} : Begin(p, [Command("copy", n) EXCEPT !.to = m],
                                          HistoryLocks(n) \cup HistoryLocks(m))
      BY <2>3 DEF BeginHistory
    <3>3. CASE \E op \in {"load", "clear"} : Begin(p, Command(op, n), HistoryLocks(n))
      BY <1>1, <3>1, <3>3
    <3>4. CASE \E m \in Names \ {n} : Begin(p, [Command("copy", n) EXCEPT !.to = m],
                                          HistoryLocks(n) \cup HistoryLocks(m))
      <4>1. PICK m \in Names : Begin(p, [Command("copy", n) EXCEPT !.to = m], HistoryLocks(n) \cup HistoryLocks(m))
        BY <3>4
      <4> DEFINE c == [Command("copy", n) EXCEPT !.to = m]
      <4>2. Begin(p, c, HistoryLocks(n) \cup HistoryLocks(m)) /\ c.entry = NoEntry
        BY <1>3, <4>1
      <4> HIDE DEF c
      <4> QED BY <3>1, <4>2
    <3> QED BY <3>2, <3>3, <3>4
  <2> QED BY <2>1, <2>2, <2>3
<1>6. PICK c, w : Begin(p, c, w) /\ c.entry = NoEntry
  BY <1>5
<1>7. /\ proc'[p].cmd.entry = NoEntry /\ \A q \in Processes \ {p} : proc'[q] = proc[q]
  BY <1>6, BeginEffect
<1>8. \A i \in 1 .. MaxEntry : Used(i)' => Used(i)
  BY <1>5, <1>6, BeginUses
<1> QED BY <1>5, <1>7, <1>8, IdsKept

\* A new record gets an ID that nobody has used.
LEMMA BeginInsertIds ==
    ASSUME LockInv, LockInv', IdsInv, NEW p \in Processes, BeginInsert(p)
    PROVE  IdsInv'
<1> DEFINE c == [Command("upsert", selected[p].name) EXCEPT
                    !.entry = [id |-> newest + 1, status |-> "pending"]]
<1>1. c.entry.id = newest + 1
  BY DEF Command
<1>2. Begin(p, c, HistoryLocks(selected[p].name)) /\ known' = known /\ newest' = newest + 1
  BY DEF BeginInsert
<1> HIDE DEF c
<1>3. proc'[p].cmd = c /\ \A q \in Processes \ {p} : proc'[q] = proc[q]
  BY <1>2, BeginEffect
<1>4. \A i \in 1 .. MaxEntry : Used(i)' => Used(i)
  BY <1>2, BeginUses
<1>5. TypeInv /\ TypeInv' /\ newest \in Nat /\ MaxEntry \in Nat
  BY StoreAssumption DEF LockInv, TypeInv
<1>6. \A i \in 1 .. MaxEntry : Used(i)' => i <= newest
  BY <1>4 DEF IdsInv
<1>7. ASSUME NEW q \in Processes, q # p PROVE proc'[q] = proc[q] /\ proc'[q].cmd.entry.id <= newest /\ proc'[q].cmd.entry.id \in Nat
  BY <1>3, <1>5, <1>7, EntryIds DEF IdsInv
<1>8. proc'[p].cmd.entry.id = newest + 1
  BY <1>1, <1>3
<1>9. ASSUME NEW q \in Processes PROVE proc'[q].cmd.entry.id <= newest'
  <2>1. CASE q = p
    BY <1>2, <1>5, <1>8, <2>1
  <2>2. CASE q # p
    BY <1>2, <1>5, <1>7, <2>2
  <2> QED BY <2>1, <2>2
<1>10. \A i \in 1 .. MaxEntry : Used(i)' => i <= newest'
  BY <1>2, <1>5, <1>6
<1>11. ASSUME NEW q \in Processes, Fresh(q)'
       PROVE  /\ ~Used(proc[q].cmd.entry.id)'
              /\ \A r \in Processes \ {q} : proc'[r].cmd.entry.id # proc'[q].cmd.entry.id
  <2>1. proc'[q].cmd.entry.id \in 1 .. MaxEntry
    <3>1. proc'[q].cmd.entry \in Entries \cup {NoEntry}
      BY <1>5 DEF TypeInv, Procs, Commands
    <3>2. proc'[q].cmd.entry.status = "pending" /\ NoEntry.status # "pending"
      BY <1>11 DEF Fresh, NoEntry
    <3> QED BY <3>1, <3>2 DEF Entries
  <2>2. PICK i \in 1 .. MaxEntry : i = proc'[q].cmd.entry.id
    BY <2>1
  <2>3. ~Used(i)'
    <3>1. CASE q = p
      BY <1>5, <1>6, <1>8, <2>2, <3>1
    <3>2. CASE q # p
      <4>1. Fresh(q) /\ proc[q].cmd.entry.id = i
        BY <1>7, <1>11, <2>2, <3>2 DEF Fresh
      <4>2. ~Used(i)
        BY <4>1 DEF IdsInv
      <4> QED BY <1>4, <4>2
    <3> QED BY <3>1, <3>2
  <2>4. ~Used(proc[q].cmd.entry.id)'
    BY <2>2, <2>3 DEF Used
  <2>5. ASSUME NEW r \in Processes \ {q} PROVE proc'[r].cmd.entry.id # proc'[q].cmd.entry.id
    <3>1. CASE q = p
      BY <1>5, <1>7, <1>8, <3>1
    <3>2. CASE r = p
      BY <1>5, <1>7, <1>8, <3>2
    <3>3. CASE q # p /\ r # p
      BY <1>7, <1>11, <3>3 DEF IdsInv, Fresh
    <3> QED BY <3>1, <3>2, <3>3
  <2> QED BY <2>4, <2>5
<1> QED BY <1>9, <1>10, <1>11 DEF IdsInv

\* An update is of a record that is in use.
LEMMA BeginUpdateIds ==
    ASSUME LockInv, LockInv', IdsInv, NEW p \in Processes, BeginUpdate(p)
    PROVE  IdsInv'
<1> DEFINE e == [known[p] EXCEPT !.status = "final"]
           c == [Command("upsert", selected[p].name) EXCEPT !.entry = e]
<1>1. TypeInv /\ TypeInv' /\ newest \in Nat /\ MaxEntry \in Nat
  BY StoreAssumption DEF LockInv, TypeInv
<1>2. known[p] \in Entries /\ known[p].id \in 1 .. MaxEntry
  BY <1>1 DEF BeginUpdate, TypeInv, Entries
<1>3. e.id = known[p].id /\ e.status = "final"
  BY <1>2 DEF Entries
<1>4. Begin(p, c, HistoryLocks(selected[p].name)) /\ known' = [known EXCEPT ![p] = NoEntry] /\ newest' = newest
  BY DEF BeginUpdate
<1>5. c.entry = e
  BY DEF Command
<1> HIDE DEF c, e
<1>6. proc'[p].cmd.entry = e /\ \A q \in Processes \ {p} : proc'[q] = proc[q]
  BY <1>4, <1>5, BeginEffect
<1>7. \A i \in 1 .. MaxEntry : Used(i)' => Used(i)
  BY <1>4, BeginUses
<1>8. Used(known[p].id) /\ known[p].id <= newest
  BY <1>1, <1>2, UsedNow DEF IdsInv
<1>9. ASSUME NEW q \in Processes PROVE proc'[q].cmd.entry.id <= newest'
  BY <1>3, <1>4, <1>6, <1>8 DEF IdsInv
<1>10. \A i \in 1 .. MaxEntry : Used(i)' => i <= newest'
  BY <1>4, <1>7 DEF IdsInv
<1>11. ASSUME NEW q \in Processes, Fresh(q)'
       PROVE  /\ ~Used(proc[q].cmd.entry.id)'
              /\ \A r \in Processes \ {q} : proc'[r].cmd.entry.id # proc'[q].cmd.entry.id
  <2>1. q # p
    BY <1>3, <1>6, <1>11 DEF Fresh
  <2>2. Fresh(q) /\ proc'[q] = proc[q]
    BY <1>6, <1>11, <2>1 DEF Fresh
  <2>3. proc[q].cmd.entry.id \in 1 .. MaxEntry /\ ~Used(proc[q].cmd.entry.id)
    BY <1>1, <2>2, EntryIds DEF Fresh, IdsInv
  <2>4. PICK i \in 1 .. MaxEntry : i = proc[q].cmd.entry.id /\ i = proc'[q].cmd.entry.id /\ ~Used(i)
    BY <2>2, <2>3
  <2>5. ~Used(i)'
    BY <1>7, <2>4
  <2>6. ~Used(proc[q].cmd.entry.id)'
    BY <2>4, <2>5 DEF Used
  <2>7. ASSUME NEW r \in Processes \ {q} PROVE proc'[r].cmd.entry.id # proc'[q].cmd.entry.id
    <3>1. CASE r = p
      <4>1. known[p].id # i
        BY <1>8, <2>4
      <4> QED BY <1>3, <1>6, <2>4, <3>1, <4>1
    <3>2. CASE r # p
      BY <1>6, <2>2, <3>2 DEF IdsInv
    <3> QED BY <3>1, <3>2
  <2> QED BY <2>6, <2>7
<1> QED BY <1>9, <1>10, <1>11 DEF IdsInv

\* What the quiet actions do to a process.
LEMMA QuietProcesses ==
    ASSUME LockInv, NEW p \in Processes,
           \/ SelectProfile(p) \/ AcquireLock(p) \/ LockTimesOut(p) \/ RefuseCommand(p)
           \/ Return(p) \/ CleanupCredential(p) \/ Kill(p)
    PROVE  /\ newest' = newest /\ (known' = known \/ known' = [known EXCEPT ![p] = NoEntry])
           /\ \A q \in Processes : /\ proc'[q].cmd = proc[q].cmd \/ proc'[q].cmd.entry = NoEntry
                                   /\ proc'[q].todo = proc[q].todo \/ proc'[q].todo = <<>>
                                   /\ proc'[q].at = "locking" => proc[q].at = "locking"
<1>1. proc \in [Processes -> Procs] /\ proc[p] \in Procs
  BY DEF LockInv, TypeInv
<1>2. Idle.at = "idle" /\ Idle.todo = <<>> /\ Idle.cmd.entry = NoEntry
  BY DEF Idle, Command
<1>3. CASE SelectProfile(p)
  BY <1>3 DEF SelectProfile
<1>4. CASE AcquireLock(p)
  <2>1. proc' = [proc EXCEPT ![p].wants = @ \ {NextLock(p)}] /\ newest' = newest /\ known' = known
    BY <1>4 DEF AcquireLock
  <2>2. /\ proc'[p].cmd = proc[p].cmd /\ proc'[p].todo = proc[p].todo /\ proc'[p].at = proc[p].at
        /\ \A q \in Processes \ {p} : proc'[q] = proc[q]
    BY <1>1, <2>1 DEF Procs
  <2> QED BY <2>1, <2>2
<1>5. ASSUME NEW ok, Leave(p, ok)
      PROVE  \A q \in Processes : /\ proc'[q].cmd = proc[q].cmd \/ proc'[q].cmd.entry = NoEntry
                                  /\ proc'[q].todo = proc[q].todo \/ proc'[q].todo = <<>>
                                  /\ proc'[q].at = "locking" => proc[q].at = "locking"
  <2> DEFINE r == [proc[p] EXCEPT !.at = "cleaning", !.ok = ok, !.todo = <<>>, !.wants = {}]
             over == IF Garbage(p, ok) = {} THEN Idle ELSE r
  <2>1. r.at = "cleaning" /\ r.cmd = proc[p].cmd /\ r.todo = <<>>
    BY <1>1 DEF Procs
  <2>2. proc' = [proc EXCEPT ![p] = over]
    BY <1>5 DEF Leave
  <2>3. over.at # "locking" /\ over.todo = <<>> /\ (over.cmd = proc[p].cmd \/ over.cmd.entry = NoEntry)
    <3> HIDE DEF r
    <3> QED BY <1>2, <2>1
  <2> HIDE DEF over
  <2> QED BY <1>1, <2>2, <2>3
<1>6. CASE LockTimesOut(p) \/ RefuseCommand(p) \/ Return(p)
  <2>1. (\E ok : Leave(p, ok)) /\ UNCHANGED <<newest, known>>
    BY <1>6 DEF LockTimesOut, RefuseCommand, Return
  <2> QED BY <1>5, <2>1
<1>7. CASE CleanupCredential(p) \/ Kill(p)
  <2>1. proc' = [proc EXCEPT ![p] = Idle] /\ newest' = newest
        /\ (known' = known \/ known' = [known EXCEPT ![p] = NoEntry])
    BY <1>7 DEF CleanupCredential, Kill
  <2> QED BY <1>1, <1>2, <2>1
<1> QED BY <1>3, <1>4, <1>6, <1>7

\* They bring no ID into use.
LEMMA QuietIds ==
    ASSUME LockInv, LockInv', IdsInv, NEW p \in Processes,
           \/ SelectProfile(p) \/ AcquireLock(p) \/ LockTimesOut(p) \/ RefuseCommand(p)
           \/ Return(p) \/ CleanupCredential(p) \/ Kill(p)
    PROVE  IdsInv'
<1>1. /\ newest' = newest /\ (known' = known \/ known' = [known EXCEPT ![p] = NoEntry])
      /\ \A q \in Processes : /\ proc'[q].cmd = proc[q].cmd \/ proc'[q].cmd.entry = NoEntry
                              /\ proc'[q].todo = proc[q].todo \/ proc'[q].todo = <<>>
                              /\ proc'[q].at = "locking" => proc[q].at = "locking"
  BY QuietProcesses
<1>2. visible' = visible /\ durable' = durable
  BY QuietActions
<1>3. TypeInv /\ known \in [Processes -> Entries \cup {NoEntry}] /\ NoEntry.id = 0
  BY DEF LockInv, TypeInv, NoEntry
<1>4. \A f \in HistoryFiles : \A i \in 1 .. MaxEntry :
          i \in Ids(Held(visible'[f])) \/ i \in Ids(Held(durable'[f])) => Used(i)
  BY <1>2, <1>3, UsedNow
<1>5. ASSUME NEW q \in Processes, NEW i \in 1 .. MaxEntry, known'[q].id = i PROVE Used(i)
  <2>1. known'[q] = known[q] \/ known'[q] = NoEntry
    BY <1>1, <1>3
  <2>2. known[q].id = i
    BY <1>3, <1>5, <2>1
  <2> QED BY <1>3, <2>2, UsedNow
<1>6. ASSUME NEW q \in Processes
      PROVE  proc'[q].todo = proc[q].todo
             \/ \A k \in 1 .. Len(proc'[q].todo), i \in 1 .. MaxEntry : i \in IdsIn(proc'[q].todo[k]) => Used(i) \/ i \in {}
  BY <1>1
<1>7. \A i \in 1 .. MaxEntry : Used(i)' => Used(i)
  BY <1>4, <1>5, <1>6, UsedStep
<1> QED BY <1>1, <1>7, IdsKept

\* A step of a plan that is over, or fails.
LEMMA StepIds ==
    ASSUME LockInv, LockInv', IdsInv, NEW p \in Processes, Working(p), newest' = newest, known' = known,
           proc'[p].cmd = proc[p].cmd, proc'[p].at = "working", \A q \in Processes \ {p} : proc'[q] = proc[q],
           \/ proc[p].todo # <<>> /\ proc'[p].todo = Tail(proc[p].todo)
           \/ proc'[p].todo = <<>> \/ proc'[p].todo = ClearPlan(proc[p].cmd.to),
           \A f \in HistoryFiles : \A i \in 1 .. MaxEntry :
               i \in Ids(Held(visible'[f])) \/ i \in Ids(Held(durable'[f])) => Used(i)
    PROVE  IdsInv'
<1>1. TypeInv /\ known \in [Processes -> Entries \cup {NoEntry}] /\ NoEntry.id = 0
  BY DEF LockInv, TypeInv, NoEntry
<1>2. \A q \in Processes, i \in 1 .. MaxEntry : known'[q].id = i => Used(i)
  BY <1>1, UsedNow
<1>3. ASSUME NEW k \in 1 .. Len(proc'[p].todo), NEW i \in 1 .. MaxEntry, i \in IdsIn(proc'[p].todo[k]) PROVE Used(i)
  <2>1. proc[p].todo \in Seq(Steps)
    BY <1>1 DEF TypeInv, Procs
  <2>2. CASE proc[p].todo # <<>> /\ proc'[p].todo = Tail(proc[p].todo)
    <3>1. k + 1 \in 1 .. Len(proc[p].todo) /\ proc'[p].todo[k] = proc[p].todo[k + 1]
      BY <2>1, <2>2
    <3> QED BY <1>1, <1>3, <3>1, UsedNow
  <2>3. CASE proc'[p].todo = <<>>
    BY <2>3
  <2>4. CASE proc'[p].todo = ClearPlan(proc[p].cmd.to)
    <3>1. proc'[p].todo[k].do = "unlink"
      BY <2>4 DEF ClearPlan, Unlink, Step
    <3> QED BY <1>3, <3>1 DEF IdsIn
  <2> QED BY <2>2, <2>3, <2>4
<1>4. ASSUME NEW q \in Processes
      PROVE  proc'[q].todo = proc[q].todo
             \/ \A k \in 1 .. Len(proc'[q].todo), i \in 1 .. MaxEntry : i \in IdsIn(proc'[q].todo[k]) => Used(i) \/ i \in {}
  BY <1>3
<1>5. \A i \in 1 .. MaxEntry : Used(i)' => Used(i)
  BY <1>2, <1>4, UsedStep
<1>6. \A q \in Processes : proc'[q].cmd = proc[q].cmd /\ (proc'[q].at = "locking" => proc[q].at = "locking")
  BY DEF Working
<1> QED BY <1>5, <1>6, IdsKept

\* The file operations.
LEMMA FileStepIds ==
    ASSUME LockInv, LockInv', IdsInv, NEW p \in Processes,
           RenameOver(p) \/ SyncDirectory(p) \/ RemoveFile(p) \/ CreateBackup(p) \/ StepFails(p)
    PROVE  IdsInv'
<1>1. TypeInv /\ visible \in [Files -> FileContents] /\ durable \in [Files -> FileContents]
      /\ HistoryFiles \subseteq Files /\ ConfigFile \notin HistoryFiles
  BY DEF LockInv, TypeInv, Disks, Files, HistoryFiles, ConfigFile, Canonical, Legacy
<1>2. Held(Absent) = {} /\ Ids({}) = {}
  BY DEF Held, Ids
<1>3. CASE StepFails(p)
  <2>1. newest' = newest /\ known' = known
    BY <1>3 DEF StepFails
  <2>2. visible' = visible /\ durable' = durable
    BY <1>3, StepFailsEffect
  <2>3. \A f \in HistoryFiles : \A i \in 1 .. MaxEntry :
            i \in Ids(Held(visible'[f])) \/ i \in Ids(Held(durable'[f])) => Used(i)
    BY <1>1, <2>2, UsedNow
  <2> QED BY <1>3, <2>1, <2>3, StepFailsEffect, StepIds
<1>4. CASE RenameOver(p) \/ SyncDirectory(p) \/ RemoveFile(p) \/ CreateBackup(p)
  <2>1. Working(p) /\ proc[p].todo # <<>> /\ StepDone(p) /\ newest' = newest /\ known' = known
    BY <1>4 DEF RenameOver, SyncDirectory, RemoveFile, CreateBackup, Doing
  <2>2. \A f \in HistoryFiles : \A i \in 1 .. MaxEntry :
            i \in Ids(Held(visible'[f])) \/ i \in Ids(Held(durable'[f])) => Used(i)
    <3>1. CASE SyncDirectory(p)
      <4>1. visible' = visible /\ \A f \in Files : durable'[f] \in {visible[f], durable[f]}
        BY <3>1 DEF SyncDirectory
      <4> QED BY <1>1, <4>1, UsedNow
    <3>2. CASE RemoveFile(p)
      <4>1. durable' = durable /\ \A f \in Files : visible'[f] \in {visible[f], Absent}
        BY <1>1, <3>2 DEF RemoveFile
      <4> QED BY <1>1, <1>2, <4>1, UsedNow
    <3>3. CASE CreateBackup(p)
      BY <1>1, <3>3, UsedNow DEF CreateBackup
    <3>4. CASE RenameOver(p)
      <4> DEFINE s == proc[p].todo[1]
      <4>1. proc[p].todo \in Seq(Steps) /\ Head(proc[p].todo) = s /\ 1 \in 1 .. Len(proc[p].todo) /\ s \in Steps
        BY <1>1, <2>1 DEF TypeInv, Procs
      <4>2. durable' = durable /\ visible' = [visible EXCEPT ![s.file] = s.content] /\ s.do = "rename"
        BY <3>4, <4>1 DEF RenameOver, Target, Doing
      <4>3. ASSUME NEW f \in HistoryFiles, NEW i \in 1 .. MaxEntry, i \in Ids(Held(visible'[f])) PROVE Used(i)
        <5>1. CASE f # s.file
          BY <1>1, <4>2, <4>3, <5>1, UsedNow
        <5>2. CASE f = s.file
          <6>1. Fits(f, s.content) /\ f # ConfigFile
            BY <1>1, <4>1, <4>2, <5>2 DEF Steps
          <6>2. visible'[f] = s.content
            BY <1>1, <4>2, <5>2
          <6>3. i \in Ids(s.content)
            <7>1. CASE s.content = Absent
              BY <1>2, <4>3, <6>2, <7>1
            <7>2. CASE s.content # Absent
              BY <4>3, <6>2, <7>2 DEF Held
            <7> QED BY <7>1, <7>2
          <6>4. i \in IdsIn(s)
            BY <4>2, <5>2, <6>1, <6>3 DEF IdsIn
          <6> QED BY <1>1, <4>1, <6>4, UsedNow
        <5> QED BY <5>1, <5>2
      <4> QED BY <1>1, <4>2, <4>3, UsedNow
    <3> QED BY <1>4, <3>1, <3>2, <3>3, <3>4
  <2> QED BY <2>1, <2>2, StepDoneEffect, StepIds
<1> QED BY <1>3, <1>4

\* The steps of a command that write nothing but the contents C into histories.
Writes(c, C) == {s \in StepsOf(c) : s.do = "rename" /\ s.file # ConfigFile => s.content \in C}

\* Replace and Unlink as such steps.
LEMMA ReplaceWrites ==
    ASSUME NEW c, NEW C, NEW f, NEW x, NEW e, Replace(f, x, e) \in Seq(StepsOf(c)), f = ConfigFile \/ x \in C
    PROVE  Replace(f, x, e) \in Seq(Writes(c, C))
<1>1. /\ Replace(f, x, e) = <<Step("rename", f, x, e), Step("sync", f, Absent, e)>>
  BY DEF Replace
<1>2. Step("rename", f, x, e) \in StepsOf(c) /\ Step("sync", f, Absent, e) \in StepsOf(c)
  BY <1>1
<1>3. Step("rename", f, x, e) \in Writes(c, C) /\ Step("sync", f, Absent, e) \in Writes(c, C)
  BY <1>2 DEF Writes, Step
<1> QED BY <1>1, <1>3

\* An unlink writes nothing.
LEMMA UnlinkWrites ==
    ASSUME NEW c, NEW C, NEW f, NEW e, Unlink(f, e) \in Seq(StepsOf(c))
    PROVE  Unlink(f, e) \in Seq(Writes(c, C))
<1>1. Unlink(f, e) = <<Step("unlink", f, Absent, e)>>
  BY DEF Unlink
<1>2. Step("unlink", f, Absent, e) \in StepsOf(c)
  BY <1>1
<1>3. Step("unlink", f, Absent, e) \in Writes(c, C)
  BY <1>2 DEF Writes, Step
<1> QED BY <1>1, <1>3

\* The plans on a history.
LEMMA HistoryWrites ==
    ASSUME TypeInv, NEW c \in Commands, Begun(c), NEW n \in Names, HistoryLocks(n) \subseteq Needs(c),
           NEW C, View(n) \in C
    PROVE  /\ ClearPlan(n) \in Seq(Writes(c, C)) /\ LoadPlan(n) \in Seq(Writes(c, C))
           /\ \A e \in Entries : Newest({x \in View(n) : x.id # e.id} \cup {e}) \in C =>
                  UpsertPlan(n, e) \in Seq(Writes(c, C))
<1>1. Canonical(n) \in Needs(c) /\ Legacy(n) \in Needs(c)
  BY DEF HistoryLocks
<1>2. /\ Canonical(n) # ConfigFile /\ Legacy(n) # ConfigFile
      /\ View(n) \in Retained
  BY HistoryTypes
<1>3. \A content \in Retained : Fits(Canonical(n), content)
  BY DEF Fits, Directory, Canonical, ConfigFile
<1>4. \A content \in Retained : Replace(Canonical(n), content, "abort") \in Seq(StepsOf(c))
  BY <1>1, <1>3, ReplaceSteps
<1>5. \A e \in {"abort", "next"} : Unlink(Canonical(n), e) \in Seq(StepsOf(c))
                                   /\ Unlink(Legacy(n), e) \in Seq(StepsOf(c))
  BY <1>1, <1>2, UnlinkSteps
<1>6. \A content \in Retained \cap C : Replace(Canonical(n), content, "abort") \in Seq(Writes(c, C))
  BY <1>4, ReplaceWrites
<1>7. \A e \in {"abort", "next"} : Unlink(Canonical(n), e) \in Seq(Writes(c, C))
                                   /\ Unlink(Legacy(n), e) \in Seq(Writes(c, C))
  BY <1>5, UnlinkWrites
<1>8. ClearPlan(n) \in Seq(Writes(c, C))
  BY <1>7, JoinedSteps DEF ClearPlan
<1>9. LoadPlan(n) \in Seq(Writes(c, C))
  <2>1. <<>> \in Seq(Writes(c, C))
    OBVIOUS
  <2>2. Replace(Canonical(n), View(n), "abort") \in Seq(Writes(c, C))
    BY <1>2, <1>6
  <2>3. Replace(Canonical(n), View(n), "abort") \o Unlink(Legacy(n), "abort") \in Seq(Writes(c, C))
    BY <1>7, <2>2, JoinedSteps
  <2> QED BY <2>1, <2>2, <2>3 DEF LoadPlan
<1>10. ASSUME NEW e \in Entries, Newest({x \in View(n) : x.id # e.id} \cup {e}) \in C
       PROVE  UpsertPlan(n, e) \in Seq(Writes(c, C))
  <2>1. Newest({x \in View(n) : x.id # e.id} \cup {e}) \in Retained
    BY <1>2, UpsertedIsRetained DEF Retained
  <2>2. Replace(Canonical(n), Newest({x \in View(n) : x.id # e.id} \cup {e}), "abort") \in Seq(Writes(c, C))
    BY <1>6, <1>10, <2>1
  <2> QED BY <1>9, <2>2, JoinedSteps DEF UpsertPlan
<1> QED BY <1>8, <1>9, <1>10

\* Every plan writes the history of the name of its command, as it is or with the record.
LEMMA PlanWrites ==
    ASSUME TypeInv, NEW c \in Commands, Begun(c), ~RefusedHere(c), NEW C,
           c.name \in Names => View(c.name) \in C,
           c.op = "upsert" => Newest({x \in View(c.name) : x.id # c.entry.id} \cup {c.entry}) \in C
    PROVE  Plan(c) \in Seq(Writes(c, C))
<1>0. Plan(c) \in Seq(StepsOf(c)) /\ c.op \in Ops /\ c.op # "none"
  BY PlanSteps DEF Commands, Begun
<1>1. CASE c.op \in ConfigOps \ {"rename"}
  <2>1. Needs(c) = {ConfigFile}
    BY <1>1 DEF Needs, ConfigOps
  <2>2. StepsOf(c) \subseteq Writes(c, C)
    BY <2>1 DEF StepsOf, Writes
  <2> QED BY <1>0, <2>2
<1>2. CASE c.op \in {"load", "upsert", "clear", "copy", "rename"}
  <2>1. c.name \in Names /\ c.to \in Names /\ HistoryLocks(c.name) \subseteq Needs(c)
    BY <1>2 DEF Begun, Needs
  <2>2. ClearPlan(c.name) \in Seq(Writes(c, C)) /\ LoadPlan(c.name) \in Seq(Writes(c, C))
    BY <2>1, HistoryWrites
  <2>3. CASE c.op \in {"load", "clear"}
    BY <2>2, <2>3 DEF Plan
  <2>4. CASE c.op = "upsert"
    <3>1. c.entry \in Entries
      BY <2>4 DEF Begun
    <3>2. UpsertPlan(c.name, c.entry) \in Seq(Writes(c, C))
      BY <2>1, <2>4, <3>1, HistoryWrites
    <3> QED BY <2>4, <3>2 DEF Plan
  <2>5. c.op \in {"copy", "rename"} => CopyPlan(c.name, c.to) \in Seq(Writes(c, C))
    <3> SUFFICES ASSUME c.op \in {"copy", "rename"} PROVE CopyPlan(c.name, c.to) \in Seq(Writes(c, C))
      OBVIOUS
    <3>1. Canonical(c.to) \in Needs(c)
      BY DEF Needs, HistoryLocks
    <3>2. View(c.name) \in Retained
      BY <2>1, HistoryTypes
    <3>3. Fits(Canonical(c.to), View(c.name))
      BY <3>2 DEF Fits, Directory, Canonical, ConfigFile
    <3>4. Replace(Canonical(c.to), View(c.name), "abort") \in Seq(StepsOf(c))
      BY <3>1, <3>3, ReplaceSteps
    <3>5. Replace(Canonical(c.to), View(c.name), "abort") \in Seq(Writes(c, C))
      BY <2>1, <3>4, ReplaceWrites
    <3>6. <<>> \in Seq(Writes(c, C))
      OBVIOUS
    <3> QED BY <2>2, <3>5, <3>6, JoinedSteps DEF CopyPlan
  <2>6. CASE c.op = "copy"
    BY <2>5, <2>6 DEF Plan
  <2>7. CASE c.op = "rename"
    <3>1. Updated(Loaded, c) \in Configs /\ ConfigFile \in Needs(c) /\ Updated(Loaded, c) = Renamed(Loaded, c)
      BY <2>7, UpdatedIsConfig DEF RefusedHere, Needs, ConfigOps, Updated
    <3>2. Fits(ConfigFile, Renamed(Loaded, c))
      BY <3>1 DEF Fits
    <3>3. \A e \in {"abort", "undo"} : Replace(ConfigFile, Renamed(Loaded, c), e) \in Seq(Writes(c, C))
      BY <2>7, <3>1, <3>2, ReplaceSteps, ReplaceWrites
    <3>4. \A e \in {"abort", "undo"} :
            CopyPlan(c.name, c.to) \o Replace(ConfigFile, Renamed(Loaded, c), e) \o ClearPlan(c.name)
              \in Seq(Writes(c, C))
      BY <2>2, <2>5, <2>7, <3>3, JoinedSteps
    <3>5. MovePlan(c.name, c.to, Renamed(Loaded, c)) \in Seq(Writes(c, C))
      BY <3>4 DEF MovePlan
    <3>6. Plan(c) = MovePlan(c.name, c.to, Renamed(Loaded, c))
      BY <2>7 DEF Plan, ConfigPlan
    <3> QED BY <3>5, <3>6
  <2> QED BY <1>2, <2>3, <2>4, <2>6, <2>7
<1> QED BY <1>0, <1>1, <1>2 DEF Ops

\* What a file holds, for a name.
LEMMA ViewHolds ==
    ASSUME TypeInv, NEW n \in Names
    PROVE  /\ Content(Canonical(n)) = Held(visible[Canonical(n)]) /\ Content(Legacy(n)) = Held(visible[Legacy(n)])
           /\ View(n) = MergeEntries(Held(visible[Legacy(n)]), Held(visible[Canonical(n)]))
           /\ \A x \in View(n) : x \in Held(visible[Legacy(n)]) \/ x \in Held(visible[Canonical(n)])
<1>1. \A f : Content(f) = Held(visible[f])
  BY DEF Content, Present, Held
<1> QED BY <1>1 DEF View, MergeEntries, Newest

\* A plan brings at most the ID of its own record into use.
LEMMA ReadAndPlanIds ==
    ASSUME LockInv, LockInv', IdsInv, NEW p \in Processes, ReadAndPlan(p)
    PROVE  IdsInv'
<1> DEFINE c == proc[p].cmd
           own == IF c.op = "upsert" THEN {c.entry.id} ELSE {}
<1>1. /\ proc'[p].at = "working" /\ proc'[p].cmd = c /\ proc'[p].todo = Plan(c)
      /\ \A q \in Processes \ {p} : proc'[q] = proc[q]
      /\ proc[p].at = "locking" /\ c \in Commands /\ Begun(c) /\ ~RefusedHere(c)
      /\ visible' = visible /\ durable' = durable
  BY ReadAndPlanEffect
<1>2. /\ newest' = newest
      /\ known' = known \/ (c.op = "load" /\ \E e \in View(c.name) \cup {NoEntry} : known' = [known EXCEPT ![p] = e])
  BY DEF ReadAndPlan
<1>3. TypeInv /\ known \in [Processes -> Entries \cup {NoEntry}] /\ NoEntry.id = 0 /\ newest \in Nat /\ MaxEntry \in Nat
  BY StoreAssumption DEF LockInv, TypeInv, NoEntry
<1>4. ASSUME NEW x, c.name \in Names, x \in View(c.name) PROVE Used(x.id)
  <2>1. Canonical(c.name) \in HistoryFiles /\ Legacy(c.name) \in HistoryFiles
    BY <1>4 DEF HistoryFiles
  <2>2. x \in Held(visible[Legacy(c.name)]) \/ x \in Held(visible[Canonical(c.name)])
    BY <1>3, <1>4, ViewHolds
  <2>3. x.id \in Ids(Held(visible[Legacy(c.name)])) \/ x.id \in Ids(Held(visible[Canonical(c.name)]))
    BY <2>2 DEF Ids
  <2> QED BY <1>3, <2>1, <2>3, UsedNow
<1> HIDE DEF c
<1>5. \A f \in HistoryFiles : \A i \in 1 .. MaxEntry :
          i \in Ids(Held(visible'[f])) \/ i \in Ids(Held(durable'[f])) => Used(i)
  BY <1>1, <1>3, UsedNow
<1>6. ASSUME NEW q \in Processes, NEW i \in 1 .. MaxEntry, known'[q].id = i PROVE Used(i)
  <2>1. CASE known' = known
    BY <1>3, <1>6, <2>1, UsedNow
  <2>2. CASE c.op = "load" /\ \E e \in View(c.name) \cup {NoEntry} : known' = [known EXCEPT ![p] = e]
    <3>1. PICK e \in View(c.name) \cup {NoEntry} : known' = [known EXCEPT ![p] = e]
      BY <2>2
    <3>2. c.name \in Names
      BY <1>1, <2>2 DEF Begun
    <3>3. CASE q # p
      BY <1>3, <1>6, <3>1, <3>3, UsedNow
    <3>4. CASE q = p
      <4>1. e.id = i
        BY <1>3, <1>6, <3>1, <3>4
      <4>2. e \in View(c.name)
        BY <1>3, <3>1, <4>1
      <4> QED BY <1>4, <3>2, <4>1, <4>2
    <3> QED BY <3>3, <3>4
  <2> QED BY <1>2, <2>1, <2>2
<1>7. ASSUME NEW k \in 1 .. Len(Plan(c)), NEW i \in 1 .. MaxEntry, i \in IdsIn(Plan(c)[k])
      PROVE  Used(i) \/ i \in own
  <2> DEFINE upserted == Newest({x \in View(c.name) : x.id # c.entry.id} \cup {c.entry})
             C == {es \in {View(c.name), upserted} : (c.name \in Names /\ es = View(c.name)) \/ (c.op = "upsert" /\ es = upserted)}
  <2>1. Plan(c) \in Seq(Writes(c, C))
    <3>1. c.name \in Names => View(c.name) \in C
      OBVIOUS
    <3>2. c.op = "upsert" => upserted \in C
      OBVIOUS
    <3> HIDE DEF C
    <3> QED BY <1>1, <1>3, <3>1, <3>2, PlanWrites
  <2>2. Plan(c)[k] \in Writes(c, C)
    <3> HIDE DEF C
    <3> QED BY <2>1
  <2>3. Plan(c)[k].content \in C /\ i \in Ids(Plan(c)[k].content)
    <3> HIDE DEF C
    <3>1. Plan(c)[k].do = "rename" /\ Plan(c)[k].file # ConfigFile /\ i \in Ids(Plan(c)[k].content)
      BY <1>7 DEF IdsIn
    <3> QED BY <2>2, <3>1 DEF Writes
  <2>4. PICK x \in Plan(c)[k].content : x.id = i
    BY <2>3 DEF Ids
  <2>5. CASE c.name \in Names /\ Plan(c)[k].content = View(c.name)
    BY <1>4, <2>4, <2>5
  <2>6. CASE c.op = "upsert" /\ Plan(c)[k].content = upserted
    <3>1. c.name \in Names
      BY <1>1, <2>6 DEF Begun
    <3>2. x \in View(c.name) \/ x = c.entry
      BY <2>4, <2>6 DEF Newest
    <3> QED BY <1>4, <2>4, <2>6, <3>1, <3>2
  <2> QED BY <2>3, <2>5, <2>6
<1>8. ASSUME NEW q \in Processes
      PROVE  proc'[q].todo = proc[q].todo
             \/ \A k \in 1 .. Len(proc'[q].todo), i \in 1 .. MaxEntry : i \in IdsIn(proc'[q].todo[k]) => Used(i) \/ i \in own
  <2> HIDE DEF own
  <2> QED BY <1>1, <1>7
<1>9. \A i \in 1 .. MaxEntry : Used(i)' => Used(i) \/ i \in own
  <2> HIDE DEF own
  <2> QED BY <1>5, <1>6, <1>8, UsedStep
<1>10. \A q \in Processes : proc'[q].cmd = proc[q].cmd
  BY <1>1 DEF c
<1>11. \A q \in Processes : proc'[q].cmd.entry.id <= newest'
  BY <1>2, <1>10 DEF IdsInv
<1>12. \A i \in 1 .. MaxEntry : Used(i)' => i <= newest'
  BY <1>2, <1>9 DEF IdsInv, c
<1>13. ASSUME NEW q \in Processes, Fresh(q)'
       PROVE  /\ ~Used(proc[q].cmd.entry.id)'
              /\ \A r \in Processes \ {q} : proc'[r].cmd.entry.id # proc'[q].cmd.entry.id
  <2>1. q # p
    BY <1>1, <1>13 DEF Fresh
  <2>2. Fresh(q) /\ proc'[q] = proc[q]
    BY <1>1, <1>13, <2>1 DEF Fresh
  <2>3. proc[q].cmd.entry.id \in 1 .. MaxEntry /\ ~Used(proc[q].cmd.entry.id)
        /\ \A r \in Processes \ {q} : proc[r].cmd.entry.id # proc[q].cmd.entry.id
    BY <1>3, <2>2, EntryIds DEF Fresh, IdsInv
  <2>4. PICK i \in 1 .. MaxEntry : i = proc[q].cmd.entry.id /\ i = proc'[q].cmd.entry.id /\ ~Used(i)
    BY <2>2, <2>3
  <2>5. i \notin own
    BY <2>1, <2>3, <2>4 DEF c
  <2>6. ~Used(i)'
    <3> HIDE DEF own
    <3> QED BY <1>9, <2>4, <2>5
  <2>7. ~Used(proc[q].cmd.entry.id)'
    BY <2>4, <2>6 DEF Used
  <2> QED BY <1>10, <2>3, <2>7
<1> QED BY <1>11, <1>12, <1>13 DEF IdsInv

\* After a loss of power the files are what they were in memory or on the disk.
LEMMA PowerLossIds ==
    ASSUME LockInv, LockInv', IdsInv, PowerLoss
    PROVE  IdsInv'
<1>1. /\ newest' = newest /\ known' = [q \in Processes |-> NoEntry] /\ proc' = [q \in Processes |-> Idle]
      /\ durable' = visible' /\ \A f \in Files : visible'[f] \in {visible[f], durable[f]}
  BY DEF PowerLoss
<1>2. TypeInv /\ NoEntry.id = 0 /\ HistoryFiles \subseteq Files
  BY DEF LockInv, NoEntry, Files
<1>3. Idle.todo = <<>> /\ Idle.cmd.entry = NoEntry
  BY DEF Idle, Command
<1>4. \A f \in HistoryFiles : \A i \in 1 .. MaxEntry :
          i \in Ids(Held(visible'[f])) \/ i \in Ids(Held(durable'[f])) => Used(i)
  BY <1>1, <1>2, UsedNow
<1>5. \A q \in Processes, i \in 1 .. MaxEntry : known'[q].id = i => Used(i)
  BY <1>1, <1>2
<1>6. ASSUME NEW q \in Processes
      PROVE  proc'[q].todo = proc[q].todo
             \/ \A k \in 1 .. Len(proc'[q].todo), i \in 1 .. MaxEntry : i \in IdsIn(proc'[q].todo[k]) => Used(i) \/ i \in {}
  BY <1>1, <1>3
<1>7. \A i \in 1 .. MaxEntry : Used(i)' => Used(i)
  BY <1>4, <1>5, <1>6, UsedStep
<1>8. \A q \in Processes : proc'[q].cmd.entry = NoEntry
  BY <1>1, <1>3
<1> QED BY <1>1, <1>7, <1>8, IdsKept

\* Every step keeps IdsInv.
LEMMA IdsInvKept ==
    ASSUME LockInv, LockInv', IdsInv, [Next]_vars
    PROVE  IdsInv'
<1>1. CASE UNCHANGED vars
  BY <1>1 DEF vars, fileVars, IdsInv, Used, Fresh
<1>2. CASE PowerLoss
  BY <1>2, PowerLossIds
<1>3. ASSUME NEW p \in Processes, Next, ~PowerLoss,
             \/ BeginConfig(p) \/ BeginMqttConfigure(p) \/ SelectProfile(p) \/ BeginInsert(p) \/ BeginUpdate(p)
             \/ BeginHistory(p) \/ AcquireLock(p) \/ LockTimesOut(p) \/ RefuseCommand(p) \/ ReadAndPlan(p)
             \/ RenameOver(p) \/ SyncDirectory(p) \/ RemoveFile(p) \/ CreateBackup(p)
             \/ StepFails(p) \/ Return(p) \/ CleanupCredential(p) \/ Kill(p)
      PROVE  IdsInv'
  <2>1. CASE BeginConfig(p) \/ BeginMqttConfigure(p) \/ BeginHistory(p)
    BY <2>1, PlainBegins
  <2>2. CASE BeginInsert(p)
    BY <2>2, BeginInsertIds
  <2>3. CASE BeginUpdate(p)
    BY <2>3, BeginUpdateIds
  <2>4. CASE \/ SelectProfile(p) \/ AcquireLock(p) \/ LockTimesOut(p) \/ RefuseCommand(p)
             \/ Return(p) \/ CleanupCredential(p) \/ Kill(p)
    BY <2>4, QuietIds
  <2>5. CASE ReadAndPlan(p)
    BY <2>5, ReadAndPlanIds
  <2>6. CASE RenameOver(p) \/ SyncDirectory(p) \/ RemoveFile(p) \/ CreateBackup(p) \/ StepFails(p)
    BY <2>6, FileStepIds
  <2> QED BY <1>3, <2>1, <2>2, <2>3, <2>4, <2>5, <2>6
<1> QED BY <1>1, <1>2, <1>3 DEF Next

\* At the start only the IDs of the old records are in use.
LEMMA InitIdsInv ==
    ASSUME Init
    PROVE  IdsInv
<1>1. PICK config \in InitialConfigs, old \in {Absent, InitialHistory} :
        visible = [f \in Files |-> CASE f = ConfigFile -> config
                                      [] Directory(f) = "legacy" -> old
                                      [] OTHER -> Absent]
  BY DEF Init
<1>2. /\ durable = visible /\ proc = [p \in Processes |-> Idle] /\ known = [p \in Processes |-> NoEntry]
      /\ newest = OldEntries
  BY DEF Init
<1>3. Idle.todo = <<>> /\ Idle.cmd.entry = NoEntry /\ Idle.at = "idle" /\ NoEntry.id = 0
  BY DEF Idle, Command, NoEntry
<1>4. OldEntries \in Nat
  BY StoreAssumption
<1>5. HistoryFiles \subseteq Files /\ ConfigFile \notin HistoryFiles
  BY DEF Files, HistoryFiles, ConfigFile, Canonical, Legacy
<1>6. ASSUME NEW f \in HistoryFiles PROVE visible[f] \in {old, Absent}
  <2>1. f \in Files /\ f # ConfigFile
    BY <1>5
  <2> QED BY <1>1, <2>1
<1>7. ASSUME NEW f \in HistoryFiles, NEW i \in Ids(Held(visible[f])) PROVE i <= OldEntries
  <2>1. PICK e \in Held(visible[f]) : e.id = i
    BY DEF Ids
  <2>2. visible[f] = InitialHistory /\ visible[f] # Absent
    BY <1>1, <1>6, <2>1 DEF Held
  <2>3. e \in InitialHistory
    BY <2>1, <2>2 DEF Held
  <2> QED BY <1>4, <2>1, <2>3 DEF InitialHistory
<1>8. ASSUME NEW i \in 1 .. MaxEntry, Used(i) PROVE i <= newest
  <2>1. \A p \in Processes : known[p].id # i /\ Len(proc[p].todo) = 0
    BY <1>2, <1>3
  <2>2. \E f \in HistoryFiles : i \in Ids(Held(visible[f]))
    BY <1>2, <1>8, <2>1 DEF Used
  <2> QED BY <1>2, <1>7, <2>2
<1>9. \A p \in Processes : proc[p].cmd.entry.id <= newest /\ ~Fresh(p)
  BY <1>2, <1>3, <1>4 DEF Fresh
<1> QED BY <1>8, <1>9 DEF IdsInv

-----------------------------------------------------------------------------
(* How plans go on.                                                        *)

\* Less is owed, and a file may have got to the disk.
LEMMA ReadyKept ==
    ASSUME NEW t, NEW i, NEW n, NEW o, NEW o2 \in SUBSET o, NEW v, NEW d, NEW d2 \in {d, v},
           Ready(t, i, n, o, v, d)
    PROVE  Ready(t, i, n, o2, v, d2)
<1>1. \A es : Pays(o, es) => Pays(o2, es)
  BY DEF Pays
<1>2. CASE Pays(o, v) /\ Pays(o, d) /\ \A k \in 1 .. i - 1 : ~Touches(t[k], n)
  BY <1>1, <1>2 DEF Ready
<1>3. CASE \E j \in 1 .. i - 1 :
             /\ Syncs(t[j], "canonical") /\ \A k \in j + 1 .. i - 1 : ~Touches(t[k], n)
             /\ \/ Pays(o, v) /\ \A k \in 1 .. j - 1 : ~Touches(t[k], n)
                \/ \E k \in 1 .. j - 1 : /\ Renames(t[k], n) /\ Pays(o, t[k].content)
                                         /\ \A m \in k + 1 .. j - 1 : ~Touches(t[m], n)
  BY <1>1, <1>3 DEF Ready
<1> QED BY <1>2, <1>3 DEF Ready

\* The positions of the rest of a plan.
LEMMA TailSteps ==
    ASSUME NEW S, NEW t \in Seq(S), t # <<>>
    PROVE  /\ Tail(t) \in Seq(S) /\ Len(Tail(t)) = Len(t) - 1 /\ Head(t) = t[1] /\ Len(t) \in Nat /\ Len(t) >= 1
           /\ \A k \in 1 .. Len(t) - 1 : Tail(t)[k] = t[k + 1]
           /\ \A k \in 2 .. Len(t) : t[k] = Tail(t)[k - 1]
<1>1. /\ Tail(t) \in Seq(S) /\ Len(Tail(t)) = Len(t) - 1 /\ Head(t) = t[1] /\ Len(t) \in Nat /\ Len(t) >= 1
      /\ \A k \in 1 .. Len(t) - 1 : Tail(t)[k] = t[k + 1]
  OBVIOUS
<1>2. ASSUME NEW k \in 2 .. Len(t) PROVE t[k] = Tail(t)[k - 1]
  <2>1. k - 1 \in 1 .. Len(t) - 1 /\ (k - 1) + 1 = k
    BY <1>1
  <2> QED BY <1>1, <2>1
<1> QED BY <1>1, <1>2

\* The first step of a plan is done: v and d were the file before it, and v2 and d2 are after it.
Effect(s, n, v, d, v2, d2) ==
    /\ Renames(s, n) => v2 = s.content
    /\ ~Touches(s, n) => v2 = v
    /\ d2 = IF Syncs(s, "canonical") THEN v ELSE d

\* A file is ready before a step of the rest of the plan if it was before.
LEMMA ReadyTail ==
    ASSUME NEW S, NEW t \in Seq(S), t # <<>>, NEW i \in 1 .. Len(t), NEW n, NEW o, NEW o2 \in SUBSET o,
           NEW v, NEW d, NEW v2, NEW d2, Effect(t[1], n, v, d, v2, d2), Ready(t, i + 1, n, o, v, d)
    PROVE  Ready(Tail(t), i, n, o2, v2, d2)
<1> DEFINE u == Tail(t)
<1>1. \A es : Pays(o, es) => Pays(o2, es)
  BY DEF Pays
<1>2. Len(t) \in Nat /\ i \in Nat /\ i <= Len(t) /\ \A k \in 1 .. Len(t) - 1 : u[k] = t[k + 1]
  BY TailSteps
<1>3. i + 1 - 1 = i
  BY <1>2
<1> HIDE DEF u
<1>4. CASE Pays(o, v) /\ Pays(o, d) /\ \A k \in 1 .. i : ~Touches(t[k], n)
  <2>1. ~Touches(t[1], n)
    BY <1>2, <1>4
  <2>2. Pays(o2, v2) /\ Pays(o2, d2)
    BY <1>1, <1>4, <2>1 DEF Effect
  <2>3. ASSUME NEW k \in 1 .. i - 1 PROVE ~Touches(u[k], n)
    <3>1. k \in 1 .. Len(t) - 1 /\ k + 1 \in 1 .. i
      BY <1>2
    <3> QED BY <1>2, <1>4, <3>1
  <2> QED BY <2>2, <2>3 DEF Ready, u
<1>5. ASSUME NEW j \in 1 .. i, Syncs(t[j], "canonical"), \A k \in j + 1 .. i : ~Touches(t[k], n),
             \/ Pays(o, v) /\ \A k \in 1 .. j - 1 : ~Touches(t[k], n)
             \/ \E k \in 1 .. j - 1 : /\ Renames(t[k], n) /\ Pays(o, t[k].content)
                                      /\ \A m \in k + 1 .. j - 1 : ~Touches(t[m], n)
      PROVE  Ready(u, i, n, o2, v2, d2)
  <2>1. CASE j = 1
    <3>1. Pays(o, v) /\ ~Touches(t[1], n)
      BY <1>5, <2>1 DEF Syncs, Touches
    <3>2. Pays(o2, v2) /\ Pays(o2, d2)
      BY <1>1, <1>5, <2>1, <3>1 DEF Effect
    <3>3. ASSUME NEW k \in 1 .. i - 1 PROVE ~Touches(u[k], n)
      <4>1. k \in 1 .. Len(t) - 1 /\ k + 1 \in j + 1 .. i
        BY <1>2, <2>1
      <4> QED BY <1>2, <1>5, <4>1
    <3> QED BY <3>2, <3>3 DEF Ready
  <2>2. CASE j # 1
    <3> DEFINE g == j - 1
    <3>1. g \in 1 .. i - 1 /\ g \in 1 .. Len(t) - 1 /\ g + 1 = j
      BY <1>2, <2>2
    <3>2. Syncs(u[g], "canonical")
      BY <1>2, <1>5, <3>1
    <3>3. ASSUME NEW k \in g + 1 .. i - 1 PROVE ~Touches(u[k], n)
      <4>1. k \in 1 .. Len(t) - 1 /\ k + 1 \in j + 1 .. i
        BY <1>2, <3>1
      <4> QED BY <1>2, <1>5, <4>1
    <3>4. CASE Pays(o, v) /\ \A k \in 1 .. j - 1 : ~Touches(t[k], n)
      <4>1. ~Touches(t[1], n)
        BY <2>2, <3>4
      <4>2. Pays(o2, v2)
        BY <1>1, <3>4, <4>1 DEF Effect
      <4>3. ASSUME NEW k \in 1 .. g - 1 PROVE ~Touches(u[k], n)
        <5>1. k \in 1 .. Len(t) - 1 /\ k + 1 \in 1 .. j - 1
          BY <1>2, <3>1
        <5> QED BY <1>2, <3>4, <5>1
      <4> HIDE DEF g
      <4> QED BY <3>1, <3>2, <3>3, <4>2, <4>3 DEF Ready
    <3>5. ASSUME NEW k \in 1 .. j - 1, Renames(t[k], n), Pays(o, t[k].content),
                 \A m \in k + 1 .. j - 1 : ~Touches(t[m], n)
          PROVE  Ready(u, i, n, o2, v2, d2)
      <4>1. CASE k = 1
        <5>1. Pays(o2, v2)
          BY <1>1, <3>5, <4>1 DEF Effect
        <5>2. ASSUME NEW m \in 1 .. g - 1 PROVE ~Touches(u[m], n)
          <6>1. m \in 1 .. Len(t) - 1 /\ m + 1 \in k + 1 .. j - 1
            BY <1>2, <3>1, <4>1
          <6> QED BY <1>2, <3>5, <6>1
        <5> HIDE DEF g
        <5> QED BY <3>1, <3>2, <3>3, <5>1, <5>2 DEF Ready
      <4>2. CASE k # 1
        <5> DEFINE h == k - 1
        <5>1. h \in 1 .. g - 1 /\ h \in 1 .. Len(t) - 1 /\ h + 1 = k
          BY <1>2, <3>1, <4>2
        <5>2. Renames(u[h], n) /\ Pays(o2, u[h].content)
          BY <1>1, <1>2, <3>5, <5>1
        <5>3. ASSUME NEW m \in h + 1 .. g - 1 PROVE ~Touches(u[m], n)
          <6>1. m \in 1 .. Len(t) - 1 /\ m + 1 \in k + 1 .. j - 1
            BY <1>2, <3>1, <5>1
          <6> QED BY <1>2, <3>5, <6>1
        <5> HIDE DEF g, h
        <5> QED BY <3>1, <3>2, <3>3, <5>1, <5>2, <5>3 DEF Ready
      <4> QED BY <4>1, <4>2
    <3> QED BY <1>5, <3>4, <3>5
  <2> QED BY <2>1, <2>2
<1>6. \/ Pays(o, v) /\ Pays(o, d) /\ \A k \in 1 .. i : ~Touches(t[k], n)
      \/ \E j \in 1 .. i :
            /\ Syncs(t[j], "canonical") /\ \A k \in j + 1 .. i : ~Touches(t[k], n)
            /\ \/ Pays(o, v) /\ \A k \in 1 .. j - 1 : ~Touches(t[k], n)
               \/ \E k \in 1 .. j - 1 : /\ Renames(t[k], n) /\ Pays(o, t[k].content)
                                        /\ \A m \in k + 1 .. j - 1 : ~Touches(t[m], n)
  BY <1>3 DEF Ready
<1>7. CASE \E j \in 1 .. i :
            /\ Syncs(t[j], "canonical") /\ \A k \in j + 1 .. i : ~Touches(t[k], n)
            /\ \/ Pays(o, v) /\ \A k \in 1 .. j - 1 : ~Touches(t[k], n)
               \/ \E k \in 1 .. j - 1 : /\ Renames(t[k], n) /\ Pays(o, t[k].content)
                                        /\ \A m \in k + 1 .. j - 1 : ~Touches(t[m], n)
  <2>1. Ready(u, i, n, o2, v2, d2)
    BY <1>5, <1>7
  <2> QED BY <2>1 DEF u
<1> QED BY <1>4, <1>6, <1>7

\* Nothing is owed any more before a step of the rest of a plan if it was not before.
LEMMA SettledTail ==
    ASSUME NEW S, NEW t \in Seq(S), t # <<>>, NEW i \in 1 .. Len(t) - 1, NEW o, NEW o2 \in SUBSET o,
           NEW h, NEW h2 \in SUBSET h, Syncs(t[1], "config") => o2 \subseteq h2, Commits(t[1]) => h2 = {},
           Settled(t, i + 1, o, h)
    PROVE  Settled(Tail(t), i, o2, h2)
<1> DEFINE u == Tail(t)
<1>1. Len(t) \in Nat /\ i \in Nat /\ i + 1 - 1 = i /\ \A k \in 1 .. Len(t) - 1 : u[k] = t[k + 1]
  BY TailSteps
<1> HIDE DEF u
<1>2. CASE o = {}
  BY <1>2 DEF Settled
<1>3. ASSUME NEW j \in 1 .. i, Syncs(t[j], "config"), h = {} \/ \E k \in 1 .. j - 1 : Commits(t[k])
      PROVE  Settled(u, i, o2, h2)
  <2>1. CASE j = 1
    <3>1. h = {}
      BY <1>3, <2>1
    <3>2. o2 = {}
      BY <1>3, <2>1, <3>1
    <3> QED BY <3>2 DEF Settled
  <2>2. CASE j # 1
    <3> DEFINE g == j - 1
    <3>1. g \in 1 .. i - 1 /\ g \in 1 .. Len(t) - 1 /\ g + 1 = j
      BY <1>1, <2>2
    <3>2. Syncs(u[g], "config")
      BY <1>1, <1>3, <3>1
    <3>3. h2 = {} \/ \E k \in 1 .. g - 1 : Commits(u[k])
      <4>1. CASE h = {}
        BY <4>1
      <4>2. ASSUME NEW k \in 1 .. j - 1, Commits(t[k]) PROVE h2 = {} \/ \E m \in 1 .. g - 1 : Commits(u[m])
        <5>1. CASE k = 1
          BY <4>2, <5>1
        <5>2. CASE k # 1
          <6>1. k - 1 \in 1 .. g - 1 /\ k - 1 \in 1 .. Len(t) - 1 /\ (k - 1) + 1 = k
            BY <1>1, <3>1, <5>2
          <6>2. u[k - 1] = t[k]
            BY <1>1, <6>1
          <6> QED BY <4>2, <6>1, <6>2
        <5> QED BY <5>1, <5>2
      <4> QED BY <1>3, <4>1, <4>2
    <3> HIDE DEF g
    <3> QED BY <3>1, <3>2, <3>3 DEF Settled
  <2> QED BY <2>1, <2>2
<1> QED BY <1>1, <1>2, <1>3 DEF Settled, u

\* A step of the rest of a plan pays if it did before.
LEMMA StepTail ==
    ASSUME NEW S, NEW t \in Seq(S), t # <<>>, NEW i \in 1 .. Len(t) - 1, NEW n, NEW c,
           NEW o, NEW o2, NEW h, NEW h2, NEW v, NEW v2, NEW d, NEW d2,
           o2[n] \subseteq o[n], h2[n] \subseteq h[n], Effect(t[1], n, v[n], d[n], v2[n], d2[n]),
           Syncs(t[1], "config") => o2[n] \subseteq h2[n], Commits(t[1]) /\ n = c.name => h2[n] = {},
           StepPays(t, i + 1, n, c, o, h, v, d)
    PROVE  StepPays(Tail(t), i, n, c, o2, h2, v2, d2)
<1> DEFINE u == Tail(t)
<1>1. u[i] = t[i + 1] /\ i \in 1 .. Len(t) /\ Len(t) \in Nat
  BY TailSteps
<1>2. \A es : Pays(o[n], es) => Pays(o2[n], es)
  BY DEF Pays
<1>3. Ready(t, i + 1, n, o[n], v[n], d[n]) => Ready(u, i, n, o2[n], v2[n], d2[n])
  BY <1>1, ReadyTail
<1>4. n = c.name => (Settled(t, i + 1, o[n], h[n]) => Settled(u, i, o2[n], h2[n]))
  BY SettledTail
<1> HIDE DEF u
<1>5. StepPays(u, i, n, c, o2, h2, v2, d2)
  BY <1>1, <1>2, <1>3, <1>4 DEF StepPays
<1> QED BY <1>5 DEF u

\* What a step that is no commit does to every name.
Effects(s, o, o2, h, h2, v, v2, d, d2) ==
    \A n \in Names : /\ o2[n] \subseteq o[n] /\ h2[n] \subseteq h[n]
                     /\ Effect(s, n, v[n], d[n], v2[n], d2[n])
                     /\ Syncs(s, "config") => o2[n] \subseteq h2[n]

\* The rest of a plan pays when its first step, which is no commit, is done.
LEMMA TailPays ==
    ASSUME NEW S, NEW t \in Seq(S), t # <<>>, NEW c, NEW ok \in BOOLEAN, NEW ok2 \in BOOLEAN, ok2 => ok,
           NEW o, NEW o2, NEW h, NEW h2, NEW v, NEW v2, NEW d, NEW d2,
           ~Commits(t[1]), c.op \in {"rename", "upsert"} => c.name \in Names /\ c.to \in Names,
           Effects(t[1], o, o2, h, h2, v, v2, d, d2), PlanPays(t, c, ok, o, h, v, d)
    PROVE  PlanPays(Tail(t), c, ok2, o2, h2, v2, d2)
<1>0. \A n \in Names : /\ o2[n] \subseteq o[n] /\ h2[n] \subseteq h[n]
                       /\ Effect(t[1], n, v[n], d[n], v2[n], d2[n])
                       /\ Syncs(t[1], "config") => o2[n] \subseteq h2[n]
  BY DEF Effects
<1> DEFINE u == Tail(t)
<1>1. Len(u) = Len(t) - 1 /\ Len(t) \in Nat /\ Len(t) >= 1 /\ \A k \in 1 .. Len(t) - 1 : u[k] = t[k + 1]
  BY TailSteps
<1>2. \A k \in 1 .. Len(t) - 1 : k + 1 \in 1 .. Len(t)
  BY <1>1
<1>3. \A i \in 1 .. Len(u) : ErrorsOK(u[i])
  BY <1>1, <1>2 DEF PlanPays
<1>4. ASSUME NEW i \in 1 .. Len(u), NEW n \in Names PROVE StepPays(u, i, n, c, o2, h2, v2, d2)
  <2>1. i \in 1 .. Len(t) - 1 /\ i + 1 \in 1 .. Len(t)
    BY <1>1
  <2>2. StepPays(t, i + 1, n, c, o, h, v, d)
    BY <2>1 DEF PlanPays
  <2> QED BY <1>0, <2>1, <2>2, StepTail
<1>5. ASSUME c.op = "rename", NEW i \in 1 .. Len(u), Commits(u[i]) PROVE CommitPays(u, i, c, o2, h2, v2, d2)
  <2>1. i \in 1 .. Len(t) - 1 /\ i + 1 \in 1 .. Len(t) /\ i \in 1 .. Len(t) /\ c.name \in Names /\ c.to \in Names
    BY <1>1, <1>5
  <2>2. CommitPays(t, i + 1, c, o, h, v, d)
    BY <1>1, <1>5, <2>1 DEF PlanPays
  <2>3. o2[c.to] = {} /\ c.to # c.name
    BY <1>0, <2>1, <2>2 DEF CommitPays
  <2>4. Ready(u, i, c.to, h2[c.name], v2[c.to], d2[c.to])
    <3>1. Ready(t, i + 1, c.to, h[c.name], v[c.to], d[c.to])
      BY <2>2 DEF CommitPays
    <3> QED BY <1>0, <2>1, <3>1, ReadyTail
  <2>5. ASSUME NEW j \in i + 1 .. Len(u), u[j].do \in {"rename", "unlink"}
        PROVE  u[j].do = "unlink" /\ u[j].onError = "next" /\ u[j].file \in HistoryLocks(c.name)
    <3>1. j \in 1 .. Len(t) - 1 /\ j + 1 \in (i + 1) + 1 .. Len(t)
      BY <1>1, <2>1
    <3> QED BY <1>1, <2>2, <2>5, <3>1 DEF CommitPays
  <2> QED BY <2>3, <2>4, <2>5 DEF CommitPays
<1>6. ASSUME c.op = "upsert", ok2 PROVE Ready(u, Len(u) + 1, c.name, {c.entry}, v2[c.name], d2[c.name])
  <2>1. Ready(t, Len(t) + 1, c.name, {c.entry}, v[c.name], d[c.name]) /\ c.name \in Names
    BY <1>6 DEF PlanPays
  <2>2. Len(t) \in 1 .. Len(t) /\ Len(u) + 1 = Len(t)
    BY <1>1
  <2>3. Ready(u, Len(t), c.name, {c.entry}, v2[c.name], d2[c.name])
    BY <1>0, <2>1, <2>2, ReadyTail
  <2> QED BY <2>2, <2>3
<1> HIDE DEF u
<1>7. PlanPays(u, c, ok2, o2, h2, v2, d2)
  BY <1>3, <1>4, <1>5, <1>6 DEF PlanPays
<1> QED BY <1>7 DEF u

\* The rest of a rename pays when it has been committed.
LEMMA CommitTailPays ==
    ASSUME NEW S, NEW t \in Seq(S), t # <<>>, NEW c, NEW ok, c.op = "rename", c.name \in Names, c.to \in Names,
           c.name # c.to, NEW o, NEW o2, NEW h, NEW h2, NEW v, NEW v2, NEW d, NEW d2,
           Commits(t[1]), \A k \in 2 .. Len(t) : ~Commits(t[k]), h2[c.name] = {},
           \A n \in Names : Effect(t[1], n, v[n], d[n], v2[n], d2[n]),
           \A n \in Names \ {c.to} : o2[n] \subseteq o[n] /\ h2[n] \subseteq h[n],
           PlanPays(t, c, ok, o, h, v, d)
    PROVE  PlanPays(Tail(t), c, ok, o2, h2, v2, d2)
<1> DEFINE u == Tail(t)
<1>1. Len(u) = Len(t) - 1 /\ Len(t) \in Nat /\ Len(t) >= 1 /\ \A k \in 1 .. Len(t) - 1 : u[k] = t[k + 1]
  BY TailSteps
<1>2. \A k \in 1 .. Len(t) - 1 : k + 1 \in 1 .. Len(t) /\ k + 1 \in 2 .. Len(t)
  BY <1>1
<1>3. \A i \in 1 .. Len(u) : ErrorsOK(u[i]) /\ ~Commits(u[i])
  BY <1>1, <1>2 DEF PlanPays
<1>4. CommitPays(t, 1, c, o, h, v, d)
  BY <1>1 DEF PlanPays
<1>5. ASSUME NEW i \in 1 .. Len(u), NEW n \in Names PROVE StepPays(u, i, n, c, o2, h2, v2, d2)
  <2>1. i \in 1 .. Len(t) - 1 /\ i + 1 \in 1 .. Len(t) /\ i + 1 \in 1 + 1 .. Len(t)
    BY <1>1
  <2>2. StepPays(t, i + 1, n, c, o, h, v, d)
    BY <2>1 DEF PlanPays
  <2>3. CASE n # c.to
    <3>1. ~Syncs(t[1], "config")
      BY DEF Commits, Syncs
    <3> QED BY <2>1, <2>2, <2>3, <3>1, StepTail
  <2>4. CASE n = c.to
    <3>1. u[i].do \in {"rename", "unlink"} => u[i].do = "unlink" /\ u[i].file \in HistoryLocks(c.name)
      BY <1>1, <1>4, <2>1 DEF CommitPays
    <3>2. ~Unlinks(u[i], n)
      BY <2>4, <3>1 DEF Unlinks, HistoryLocks, Canonical, Legacy
    <3>3. u[i].do # "rename"
      BY <3>1
    <3> HIDE DEF u
    <3> QED BY <3>2, <3>3 DEF StepPays, Renames
  <2> QED BY <2>3, <2>4
<1> HIDE DEF u
<1>6. PlanPays(u, c, ok, o2, h2, v2, d2)
  BY <1>3, <1>5 DEF PlanPays
<1> QED BY <1>6 DEF u

\* The plan of a process still pays when another one has taken a step.
LEMMA PlanStillPays ==
    ASSUME NEW c \in Commands, Begun(c), NEW t \in Seq(StepsOf(c)), NEW ok,
           NEW o, NEW o2, NEW h, NEW h2, NEW v, NEW v2, NEW d, NEW d2,
           \A n \in Names : Canonical(n) \in Needs(c) =>
               o2[n] \subseteq o[n] /\ h2[n] \subseteq h[n] /\ v2[n] = v[n] /\ d2[n] \in {d[n], v[n]},
           PlanPays(t, c, ok, o, h, v, d)
    PROVE  PlanPays(t, c, ok, o2, h2, v2, d2)
<1>1. ASSUME NEW i \in 1 .. Len(t), NEW n \in Names PROVE StepPays(t, i, n, c, o2, h2, v2, d2)
  <2>1. t[i] \in StepsOf(c) /\ t[i].file \in Needs(c)
    BY DEF StepsOf
  <2>2. StepPays(t, i, n, c, o, h, v, d)
    BY DEF PlanPays
  <2>3. CASE t[i].file \in HistoryLocks(n)
    <3>1. Canonical(n) \in Needs(c)
      BY <2>1, <2>3 DEF Needs, HistoryLocks, Canonical, Legacy, ConfigFile
    <3>2. o2[n] \subseteq o[n] /\ h2[n] \subseteq h[n] /\ v2[n] = v[n] /\ d2[n] \in {d[n], v[n]}
      BY <3>1
    <3>3. \A es : Pays(o[n], es) => Pays(o2[n], es)
      BY <3>2 DEF Pays
    <3>4. Ready(t, i, n, o[n], v[n], d[n]) => Ready(t, i, n, o2[n], v2[n], d2[n])
      BY <3>2, ReadyKept
    <3>5. Settled(t, i, o[n], h[n]) => Settled(t, i, o2[n], h2[n])
      BY <3>2 DEF Settled
    <3> QED BY <2>2, <3>2, <3>3, <3>4, <3>5 DEF StepPays
  <2>4. CASE t[i].file \notin HistoryLocks(n)
    BY <2>4 DEF StepPays, Renames, Unlinks, HistoryLocks
  <2> QED BY <2>3, <2>4
<1>2. ASSUME c.op = "rename", NEW i \in 1 .. Len(t), Commits(t[i]) PROVE CommitPays(t, i, c, o2, h2, v2, d2)
  <2>1. /\ Canonical(c.to) \in Needs(c) /\ Canonical(c.name) \in Needs(c)
        /\ c.name \in Names /\ c.to \in Names
    BY <1>2 DEF Needs, HistoryLocks, Begun
  <2>2. CommitPays(t, i, c, o, h, v, d)
    BY <1>2 DEF PlanPays
  <2>3. Ready(t, i, c.to, h2[c.name], v2[c.to], d2[c.to])
    BY <2>1, <2>2, ReadyKept DEF CommitPays
  <2> QED BY <2>1, <2>2, <2>3 DEF CommitPays
<1>3. ASSUME c.op = "upsert", ok PROVE Ready(t, Len(t) + 1, c.name, {c.entry}, v2[c.name], d2[c.name])
  <2>1. Canonical(c.name) \in Needs(c) /\ c.name \in Names
    BY <1>3 DEF Needs, HistoryLocks, Begun
  <2>2. Ready(t, Len(t) + 1, c.name, {c.entry}, v[c.name], d[c.name])
    BY <1>3 DEF PlanPays
  <2>3. {c.entry} \in SUBSET {c.entry}
    OBVIOUS
  <2> QED BY <2>1, <2>2, <2>3, ReadyKept
<1>4. \A i \in 1 .. Len(t) : ErrorsOK(t[i])
  BY DEF PlanPays
<1> QED BY <1>1, <1>2, <1>3, <1>4 DEF PlanPays

-----------------------------------------------------------------------------
(* What is owed, and what the files hold.                                  *)

\* What a disk can hold.
LEMMA DiskTypes ==
    ASSUME NEW disk \in Disks
    PROVE  /\ ConfigFile \in Files /\ disk[ConfigFile] \in Configs \cup {Absent}
           /\ ConfigOf(disk[ConfigFile]) \in Configs
           /\ \A n \in Names : /\ Canonical(n) \in Files /\ Legacy(n) \in Files
                               /\ Canonical(n) # ConfigFile /\ Legacy(n) # ConfigFile
                               /\ Held(disk[Canonical(n)]) \in Histories /\ Held(disk[Legacy(n)]) \in Histories
<1>1. ConfigFile \in Files /\ DefaultConfig \in Configs
  BY StoreAssumption DEF Files, DefaultConfig, Config, Configs, Formats, Transports, NoDefault, NoSecret
<1>2. disk[ConfigFile] \in Configs \cup {Absent}
  BY <1>1 DEF Disks, Fits
<1>3. ASSUME NEW n \in Names PROVE /\ Canonical(n) \in Files /\ Legacy(n) \in Files
                                   /\ Canonical(n) # ConfigFile /\ Legacy(n) # ConfigFile
  BY DEF Files, HistoryFiles, Canonical, Legacy, ConfigFile
<1>4. {} \in Histories
  BY DEF Histories
<1>5. ASSUME NEW f \in Files, f # ConfigFile PROVE Held(disk[f]) \in Histories
  <2>1. disk[f] = Absent \/ disk[f] \in Histories
    BY <1>5 DEF Disks, Fits, Retained
  <2> QED BY <1>4, <2>1 DEF Held
<1> QED BY <1>1, <1>2, <1>3, <1>5 DEF ConfigOf

\* What a configuration owes under a name.
LEMMA OwedTypes ==
    ASSUME NEW content \in Configs \cup {Absent}, NEW due \in [Devices -> SUBSET Entries], NEW n \in Names
    PROVE  /\ OwedBy(content, due)[n] \in SUBSET Entries
           /\ Configured(ConfigOf(content), n) =>
                 /\ ConfigOf(content).profiles[n] \in Devices
                 /\ OwedBy(content, due)[n] = due[ConfigOf(content).profiles[n]]
           /\ ~Configured(ConfigOf(content), n) => OwedBy(content, due)[n] = {}
<1>1. ConfigOf(content) \in Configs
  BY StoreAssumption DEF ConfigOf, DefaultConfig, Config, Configs, Formats, Transports, NoDefault, NoSecret
<1>2. ConfigOf(content).profiles[n] \in Devices \cup {NoDevice}
  BY <1>1 DEF Configs
<1>3. Configured(ConfigOf(content), n) => ConfigOf(content).profiles[n] \in Devices
  BY <1>2 DEF Configured
<1>4. OwedBy(content, due)[n] = IF Configured(ConfigOf(content), n) THEN due[ConfigOf(content).profiles[n]] ELSE {}
  BY DEF OwedBy
<1> QED BY <1>3, <1>4

\* When less is due, less is owed.
LEMMA LessIsOwed ==
    ASSUME NEW content \in Configs \cup {Absent}, NEW due \in [Devices -> SUBSET Entries],
           NEW less \in [Devices -> SUBSET Entries], \A dev \in Devices : less[dev] \subseteq due[dev], NEW n \in Names
    PROVE  OwedBy(content, less)[n] \subseteq OwedBy(content, due)[n]
  BY OwedTypes

\* The value of what is owed, and what is held, at a name.
LEMMA OwedAt ==
    ASSUME NEW n \in Names
    PROVE  /\ OwedNow[n] = OwedBy(visible[ConfigFile], promised)[n]
           /\ Owed[n] = OwedBy(visible[ConfigFile], promised)[n] \cup OwedBy(durable[ConfigFile], promised)[n]
           /\ InMemory[n] = Held(visible[Canonical(n)]) /\ OnDisk[n] = Held(durable[Canonical(n)])
           /\ OwedNow'[n] = OwedBy(visible'[ConfigFile], promised')[n]
           /\ Owed'[n] = OwedBy(visible'[ConfigFile], promised')[n] \cup OwedBy(durable'[ConfigFile], promised')[n]
           /\ InMemory'[n] = Held(visible'[Canonical(n)]) /\ OnDisk'[n] = Held(durable'[Canonical(n)])
  BY DEF OwedNow, Owed, InMemory, OnDisk

\* Their types.
LEMMA OwedIsTyped ==
    ASSUME TypeInv, NEW n \in Names
    PROVE  /\ Owed[n] \in SUBSET Entries /\ OwedNow[n] \in SUBSET Owed[n]
           /\ InMemory[n] \in Histories /\ OnDisk[n] \in Histories
           /\ \A l \in LegacyCopies(n) : l \in Histories
           /\ OwedBy(visible[ConfigFile], promised)[n] \in SUBSET Entries
           /\ OwedBy(durable[ConfigFile], promised)[n] \in SUBSET Entries
<1>1. visible \in Disks /\ durable \in Disks /\ promised \in [Devices -> SUBSET Entries]
  BY DEF TypeInv
<1>2. visible[ConfigFile] \in Configs \cup {Absent} /\ durable[ConfigFile] \in Configs \cup {Absent}
  BY <1>1, DiskTypes
<1>3. OwedBy(visible[ConfigFile], promised)[n] \in SUBSET Entries /\ OwedBy(durable[ConfigFile], promised)[n] \in SUBSET Entries
  BY <1>1, <1>2, OwedTypes
<1>4. InMemory[n] \in Histories /\ OnDisk[n] \in Histories
  BY <1>1, DiskTypes, OwedAt
<1>5. \A l \in LegacyCopies(n) : l \in Histories
  BY <1>1, DiskTypes DEF LegacyCopies
<1> QED BY <1>3, <1>4, <1>5, OwedAt

\* The same of the next state.
LEMMA OwedIsTypedNext ==
    ASSUME TypeInv', NEW n \in Names
    PROVE  /\ Owed'[n] \in SUBSET Entries /\ OwedNow'[n] \in SUBSET Owed'[n]
           /\ InMemory'[n] \in Histories /\ OnDisk'[n] \in Histories
           /\ \A l \in LegacyCopies(n)' : l \in Histories
<1>1. visible' \in Disks /\ durable' \in Disks /\ promised' \in [Devices -> SUBSET Entries]
  BY DEF TypeInv
<1>2. visible'[ConfigFile] \in Configs \cup {Absent} /\ durable'[ConfigFile] \in Configs \cup {Absent}
  BY <1>1, DiskTypes
<1>3. OwedBy(visible'[ConfigFile], promised')[n] \in SUBSET Entries /\ OwedBy(durable'[ConfigFile], promised')[n] \in SUBSET Entries
  BY <1>1, <1>2, OwedTypes
<1>4. InMemory'[n] \in Histories /\ OnDisk'[n] \in Histories
  BY <1>1, DiskTypes, OwedAt
<1>5. \A l \in LegacyCopies(n)' : l \in Histories
  BY <1>1, DiskTypes DEF LegacyCopies
<1> QED BY <1>3, <1>4, <1>5, OwedAt

\* The files of a name still pay: each canonical one by itself, or because nothing has changed.
LEMMA ViewsStillPay ==
    ASSUME TypeInv', NEW n \in Names, ViewsPay(n),
           \A c \in {InMemory'[n], OnDisk'[n]} :
               \/ Pays(Owed'[n], c)
               \/ /\ c \in {InMemory[n], OnDisk[n]} /\ LegacyCopies(n)' \subseteq LegacyCopies(n)
                  /\ Owed'[n] \subseteq Owed[n]
    PROVE  ViewsPay(n)'
<1>1. ASSUME NEW l \in LegacyCopies(n)', NEW c \in {InMemory'[n], OnDisk'[n]}
      PROVE  Pays(Owed'[n], MergeEntries(l, c))
  <2>1. CASE Pays(Owed'[n], c)
    BY <2>1, OwedIsTypedNext, MergePays
  <2>2. CASE c \in {InMemory[n], OnDisk[n]} /\ LegacyCopies(n)' \subseteq LegacyCopies(n) /\ Owed'[n] \subseteq Owed[n]
    <3>1. Pays(Owed[n], MergeEntries(l, c))
      BY <2>2 DEF ViewsPay
    <3> QED BY <2>2, <3>1 DEF Pays
  <2> QED BY <2>1, <2>2
<1> QED BY <1>1 DEF ViewsPay

\* No two processes that work need one file.
LEMMA NeedsApart ==
    ASSUME LockInv, NEW p \in Processes, NEW q \in Processes, p # q, proc[p].at = "working",
           proc[q].at = "working", NEW f \in Files, f \in Needs(proc[p].cmd)
    PROVE  f \notin Needs(proc[q].cmd)
<1>1. LocksOK(p) /\ LocksOK(q) /\ ProcOK(p) /\ ProcOK(q)
  BY DEF LockInv
<1>2. proc[p].wants = {} /\ proc[q].wants = {}
  BY <1>1 DEF ProcOK
<1>3. locks[f] = p
  BY <1>1, <1>2 DEF LocksOK
<1> QED BY <1>1, <1>2, <1>3 DEF LocksOK

\* What a working process is about.
LEMMA WorkingTypes ==
    ASSUME LockInv, NEW q \in Processes, proc[q].at = "working"
    PROVE  /\ proc[q].cmd \in Commands /\ Begun(proc[q].cmd) /\ proc[q].todo \in Seq(StepsOf(proc[q].cmd))
           /\ Needs(proc[q].cmd) \subseteq Files
<1>1. proc[q].cmd \in Commands /\ Begun(proc[q].cmd) /\ proc[q].todo \in Seq(StepsOf(proc[q].cmd))
  BY DEF LockInv, TypeInv, Procs, ProcOK, PlanOK
<1> QED BY <1>1, NeedsAreFiles

\* The names that a step leaves alone, or owes less, or brings to the disk.
Spared(n) == /\ Owed'[n] \subseteq Owed[n] /\ OwedNow'[n] \subseteq OwedNow[n]
             /\ InMemory'[n] = InMemory[n] /\ OnDisk'[n] \in {OnDisk[n], InMemory[n]}

\* A process that a step does not touch.
LEMMA OthersStillPay ==
    ASSUME LockInv, PlansPay, NEW q \in Processes, proc'[q] = proc[q], proc[q].at = "working",
           \A n \in Names : Canonical(n) \in Needs(proc[q].cmd) => Spared(n)
    PROVE  PlanPays(proc[q].todo, proc[q].cmd, proc[q].ok, Owed, OwedNow, InMemory, OnDisk)'
<1>1. PlanPays(proc[q].todo, proc[q].cmd, proc[q].ok, Owed, OwedNow, InMemory, OnDisk)
  BY DEF PlansPay
<1>2. PlanPays(proc[q].todo, proc[q].cmd, proc[q].ok, Owed', OwedNow', InMemory', OnDisk')
  BY <1>1, WorkingTypes, PlanStillPays DEF Spared
<1> QED BY <1>2

\* No step but a process's own touches the names it works on, if those of the acting process are all it changes.
LEMMA OnlyOwnChange ==
    ASSUME LockInv, PlansPay, NEW p \in Processes, proc[p].at = "working",
           \A q \in Processes \ {p} : proc'[q] = proc[q],
           \A n \in Names : Spared(n) \/ Canonical(n) \in Needs(proc[p].cmd),
           proc'[p].at = "working" =>
               PlanPays(proc[p].todo, proc[p].cmd, proc[p].ok, Owed, OwedNow, InMemory, OnDisk)'
    PROVE  PlansPay'
<1>1. ASSUME NEW q \in Processes, proc'[q].at = "working"
      PROVE  PlanPays(proc[q].todo, proc[q].cmd, proc[q].ok, Owed, OwedNow, InMemory, OnDisk)'
  <2>1. CASE q = p
    BY <1>1, <2>1
  <2>2. CASE q # p
    <3>1. proc'[q] = proc[q] /\ proc[q].at = "working"
      BY <1>1, <2>2
    <3>2. ASSUME NEW n \in Names, Canonical(n) \in Needs(proc[q].cmd) PROVE Spared(n)
      <4>1. Canonical(n) \in Files
        BY <3>1, <3>2, WorkingTypes
      <4>2. Canonical(n) \notin Needs(proc[p].cmd)
        BY <2>2, <3>1, <3>2, <4>1, NeedsApart
      <4> QED BY <4>2
    <3> QED BY <3>1, <3>2, OthersStillPay
  <2> QED BY <2>1, <2>2
<1> QED BY <1>1 DEF PlansPay

-----------------------------------------------------------------------------
(* Each action keeps PayInv.                                               *)

\* A step that changes no file and promises nothing, after which no other process works.
LEMMA QuietPays ==
    ASSUME LockInv, LockInv', PayInv, visible' = visible, durable' = durable, promised' = promised,
           \A q \in Processes : proc'[q] = proc[q] \/ proc'[q].at # "working"
    PROVE  PayInv'
<1>1. Owed' = Owed /\ OwedNow' = OwedNow /\ InMemory' = InMemory /\ OnDisk' = OnDisk
      /\ \A n \in Names : LegacyCopies(n)' = LegacyCopies(n)
  BY DEF Owed, OwedNow, InMemory, OnDisk, LegacyCopies
<1>2. OwedOK'
  BY DEF PayInv, OwedOK
<1>3. \A n \in Names : ViewsPay(n)'
  BY <1>1 DEF PayInv, ViewsPay
<1>4. ASSUME NEW q \in Processes, proc'[q].at = "working"
      PROVE  PlanPays(proc[q].todo, proc[q].cmd, proc[q].ok, Owed, OwedNow, InMemory, OnDisk)'
  BY <1>1, <1>4 DEF PayInv, PlansPay
<1> QED BY <1>2, <1>3, <1>4 DEF PayInv, PlansPay

\* The actions that are such steps.
LEMMA QuietActionsPay ==
    ASSUME LockInv, LockInv', PayInv, NEW p \in Processes,
           \/ BeginConfig(p) \/ BeginMqttConfigure(p) \/ SelectProfile(p) \/ BeginInsert(p) \/ BeginUpdate(p)
           \/ BeginHistory(p) \/ AcquireLock(p) \/ LockTimesOut(p) \/ RefuseCommand(p)
           \/ CleanupCredential(p) \/ Kill(p)
    PROVE  PayInv'
<1>1. promised' = promised
  <2>1. CASE BeginConfig(p) \/ BeginMqttConfigure(p) \/ BeginInsert(p) \/ BeginUpdate(p) \/ BeginHistory(p)
    <3>1. \E c, w : Begin(p, c, w)
      BY <2>1 DEF BeginConfig, BeginMqttConfigure, BeginInsert, BeginUpdate, BeginHistory
    <3> QED BY <3>1, BeginEffect
  <2>2. CASE SelectProfile(p) \/ AcquireLock(p) \/ LockTimesOut(p) \/ RefuseCommand(p) \/ CleanupCredential(p) \/ Kill(p)
    BY <2>2 DEF SelectProfile, AcquireLock, LockTimesOut, RefuseCommand, CleanupCredential, Kill
  <2> QED BY <2>1, <2>2
<1> QED BY <1>1, QuietActions, QuietPays

\* A process that leaves works no more.
LEMMA LeaveStops ==
    ASSUME LockInv, NEW p \in Processes, NEW ok, Leave(p, ok)
    PROVE  proc'[p].at # "working"
<1> DEFINE r == [proc[p] EXCEPT !.at = "cleaning", !.ok = ok, !.todo = <<>>, !.wants = {}]
           over == IF Garbage(p, ok) = {} THEN Idle ELSE r
<1>1. proc \in [Processes -> Procs] /\ proc[p] \in Procs /\ Idle.at = "idle"
  BY DEF LockInv, TypeInv, Idle
<1>2. r.at = "cleaning"
  BY <1>1 DEF Procs
<1>3. proc' = [proc EXCEPT ![p] = over]
  BY DEF Leave
<1> HIDE DEF r
<1>4. over.at # "working"
  BY <1>1, <1>2
<1> HIDE DEF over
<1> QED BY <1>1, <1>3, <1>4

\* Return: the record that an upsert has stored is owed from now on.
LEMMA ReturnPays ==
    ASSUME LockInv, LockInv', PayInv, NEW p \in Processes, Return(p)
    PROVE  PayInv'
<1> DEFINE c == proc[p].cmd
           dev == selected[p].device
           now == ConfigOf(visible[ConfigFile])
           settled == Present(ConfigFile) /\ durable[ConfigFile] = visible[ConfigFile]
           paid == {e \in promised[dev] : e.id # c.entry.id} \cup IF settled THEN {c.entry} ELSE {}
<1>1. /\ visible' = visible /\ durable' = durable
      /\ \A q \in Processes : proc'[q] = proc[q] \/ proc'[q].at # "working"
  BY QuietActions
<1>2. TypeInv /\ TypeInv' /\ promised \in [Devices -> SUBSET Entries] /\ promised' \in [Devices -> SUBSET Entries]
  BY DEF LockInv, TypeInv
<1>3. Loaded = now
  BY DEF Loaded, Present, ConfigOf
<1>4. /\ Working(p) /\ proc[p].todo = <<>>
      /\ promised' = IF c.op = "upsert" /\ proc[p].ok /\ now.profiles[c.name] = dev
                     THEN [promised EXCEPT ![dev] = paid] ELSE promised
  BY <1>3 DEF Return
<1>5. CASE promised' = promised
  BY <1>1, <1>5, QuietPays
<1>6. CASE promised' # promised
  <2>1. c.op = "upsert" /\ proc[p].ok /\ now.profiles[c.name] = dev /\ promised' = [promised EXCEPT ![dev] = paid]
    BY <1>4, <1>6
  <2> HIDE DEF paid
  <2>2. dev \in Devices
    BY <1>2, <1>6, <2>1
  <2>3. PICK m \in Names : m = c.name /\ Canonical(m) \in Needs(c) /\ c.entry \in Entries
    BY <1>4, <2>1, WorkingTypes DEF Working, Begun, Needs, HistoryLocks
  <2>4. promised'[dev] = paid /\ \A d \in Devices \ {dev} : promised'[d] = promised[d]
    BY <1>2, <2>1, <2>2
  <2>5. ASSUME ~settled, NEW d \in Devices PROVE promised'[d] \subseteq promised[d]
    BY <2>4, <2>5 DEF paid
  <2>6. promised'[dev] \subseteq promised[dev] \cup {c.entry}
    BY <2>4 DEF paid
  <2>7. visible[ConfigFile] \in Configs \cup {Absent} /\ durable[ConfigFile] \in Configs \cup {Absent}
    BY <1>2, DiskTypes DEF TypeInv
  <2>8. Configured(now, m) /\ now.profiles[m] = dev
    BY <2>1, <2>2, <2>3, StoreAssumption DEF Configured
  <2>9. OwedOK
    BY DEF PayInv
  <2>10. ASSUME NEW n \in Names, n # m
         PROVE  /\ OwedBy(visible[ConfigFile], promised')[n] \subseteq OwedBy(visible[ConfigFile], promised)[n]
                /\ OwedBy(durable[ConfigFile], promised')[n] \subseteq OwedBy(durable[ConfigFile], promised)[n]
    <3>1. CASE ~settled
      BY <1>2, <2>5, <2>7, <3>1, LessIsOwed
    <3>2. CASE settled
      <4>1. now.profiles[n] # dev
        BY <2>8, <2>9, <2>10 DEF OwedOK, Distinct
      <4>2. OwedBy(visible[ConfigFile], promised')[n] \subseteq OwedBy(visible[ConfigFile], promised)[n]
        BY <1>2, <2>4, <2>7, <4>1, OwedTypes
      <4> QED BY <3>2, <4>2
    <3> QED BY <3>1, <3>2
  <2>11. ASSUME NEW n \in Names, n # m PROVE Spared(n) /\ LegacyCopies(n)' = LegacyCopies(n)
    BY <1>1, <2>10, <2>11, OwedAt DEF Spared, LegacyCopies
  <2>12. Owed'[m] \subseteq Owed[m] \cup {c.entry}
    <3>1. ASSUME NEW content \in Configs \cup {Absent}
          PROVE  OwedBy(content, promised')[m] \subseteq OwedBy(content, promised)[m] \cup {c.entry}
      BY <1>2, <2>3, <2>4, <2>6, OwedTypes
    <3> QED BY <1>1, <2>3, <2>7, <3>1, OwedAt
  <2>13. Pays({c.entry}, InMemory[m]) /\ Pays({c.entry}, OnDisk[m])
    <3>1. PlanPays(<<>>, c, proc[p].ok, Owed, OwedNow, InMemory, OnDisk)
      BY <1>4 DEF PayInv, PlansPay, Working
    <3>2. Ready(<<>>, Len(<<>>) + 1, m, {c.entry}, InMemory[m], OnDisk[m])
      BY <2>1, <2>3, <3>1 DEF PlanPays
    <3>3. Len(<<>>) + 1 - 1 = 0
      OBVIOUS
    <3> QED BY <3>2, <3>3 DEF Ready
  <2>14. ViewsPay(m)'
    <3>1. ASSUME NEW l \in LegacyCopies(m)', NEW x \in {InMemory'[m], OnDisk'[m]}
          PROVE  Pays(Owed'[m], MergeEntries(l, x))
      <4>1. l \in LegacyCopies(m) /\ x \in {InMemory[m], OnDisk[m]}
        BY <1>1, <2>3, OwedAt DEF LegacyCopies
      <4>2. Pays(Owed[m], MergeEntries(l, x))
        BY <2>3, <4>1 DEF PayInv, ViewsPay
      <4>3. l \in Histories /\ x \in Histories /\ {c.entry} \in SUBSET Entries
        BY <1>2, <2>3, <4>1, OwedIsTyped
      <4>4. Pays({c.entry}, MergeEntries(l, x))
        BY <2>13, <4>1, <4>3, MergePays
      <4> QED BY <2>12, <4>2, <4>4 DEF Pays
    <3> QED BY <3>1 DEF ViewsPay
  <2>15. ASSUME NEW n \in Names PROVE ViewsPay(n)'
    <3>1. CASE n = m
      BY <2>14, <3>1
    <3>2. CASE n # m
      <4>1. ViewsPay(n)
        BY DEF PayInv
      <4> QED BY <1>2, <2>11, <3>2, <4>1, ViewsStillPay DEF Spared
    <3> QED BY <3>1, <3>2
  <2>16. OwedOK'
    <3>1. ASSUME NEW d \in Devices, promised'[d] # {} PROVE \E n \in Names : now.profiles[n] = d
      <4>1. CASE d = dev
        BY <2>8, <4>1
      <4>2. CASE d # dev
        BY <2>4, <2>9, <3>1, <4>2 DEF OwedOK
      <4> QED BY <4>1, <4>2
    <3> QED BY <1>1, <2>9, <3>1 DEF OwedOK
  <2>17. PlansPay'
    <3>1. ASSUME NEW q \in Processes, proc'[q].at = "working"
          PROVE  PlanPays(proc[q].todo, proc[q].cmd, proc[q].ok, Owed, OwedNow, InMemory, OnDisk)'
      <4>1. proc'[q] = proc[q] /\ proc[q].at = "working"
        BY <1>1, <3>1
      <4>2. q # p
        <5>1. proc'[p].at # "working"
          BY LeaveStops DEF Return
        <5> QED BY <3>1, <5>1
      <4>3. ASSUME NEW n \in Names, Canonical(n) \in Needs(proc[q].cmd) PROVE Spared(n)
        <5>1. Canonical(n) \in Files
          BY <4>1, <4>3, WorkingTypes
        <5>2. n # m
          BY <1>4, <2>3, <4>1, <4>2, <4>3, <5>1, NeedsApart DEF Working
        <5> QED BY <2>11, <5>2
      <4>4. PlansPay
        BY DEF PayInv
      <4> QED BY <4>1, <4>3, <4>4, OthersStillPay
    <3> QED BY <3>1 DEF PlansPay
  <2> QED BY <2>15, <2>16, <2>17 DEF PayInv
<1> QED BY <1>5, <1>6

\* What is known of the first step of a plan.
LEMMA FirstStep ==
    ASSUME LockInv, PayInv, NEW p \in Processes, Working(p), proc[p].todo # <<>>
    PROVE  /\ proc[p].at = "working" /\ proc[p].cmd \in Commands /\ Begun(proc[p].cmd)
           /\ proc[p].todo \in Seq(StepsOf(proc[p].cmd)) /\ Head(proc[p].todo) = proc[p].todo[1]
           /\ proc[p].todo[1] \in StepsOf(proc[p].cmd) /\ proc[p].todo[1] \in Steps
           /\ proc[p].todo[1].file \in Needs(proc[p].cmd) /\ Len(proc[p].todo) >= 1 /\ Len(proc[p].todo) \in Nat
           /\ PlanPays(proc[p].todo, proc[p].cmd, proc[p].ok, Owed, OwedNow, InMemory, OnDisk)
           /\ ErrorsOK(proc[p].todo[1])
           /\ \A n \in Names : StepPays(proc[p].todo, 1, n, proc[p].cmd, Owed, OwedNow, InMemory, OnDisk)
<1> DEFINE t == proc[p].todo
           c == proc[p].cmd
<1>1. proc[p].at = "working" /\ c \in Commands /\ Begun(c) /\ t \in Seq(StepsOf(c))
  BY WorkingTypes DEF Working
<1>2. Head(t) = t[1] /\ Len(t) >= 1 /\ Len(t) \in Nat /\ 1 \in 1 .. Len(t)
  BY <1>1, TailSteps
<1>3. t[1] \in StepsOf(c) /\ t[1] \in Steps /\ t[1].file \in Needs(c)
  BY <1>1, <1>2 DEF StepsOf
<1>4. PlanPays(t, c, proc[p].ok, Owed, OwedNow, InMemory, OnDisk)
  BY <1>1 DEF PayInv, PlansPay
<1> QED BY <1>1, <1>2, <1>3, <1>4 DEF PlanPays

\* The first step of a plan, which is no commit, is done or skipped.
LEMMA StepStillPays ==
    ASSUME LockInv, LockInv', PayInv, NEW p \in Processes, Working(p), proc[p].todo # <<>>,
           proc'[p].cmd = proc[p].cmd, proc'[p].todo = Tail(proc[p].todo), proc'[p].ok => proc[p].ok,
           \A q \in Processes \ {p} : proc'[q] = proc[q], ~Commits(proc[p].todo[1]),
           \A n \in Names : /\ Owed'[n] \subseteq Owed[n] /\ OwedNow'[n] \subseteq OwedNow[n]
                            /\ Effect(proc[p].todo[1], n, InMemory[n], OnDisk[n], InMemory'[n], OnDisk'[n])
                            /\ Syncs(proc[p].todo[1], "config") => Owed'[n] \subseteq OwedNow'[n]
                            /\ Spared(n) \/ Canonical(n) \in Needs(proc[p].cmd)
    PROVE  PlansPay'
<1> DEFINE t == proc[p].todo
           c == proc[p].cmd
<1>1. /\ proc[p].at = "working" /\ Begun(c) /\ t \in Seq(StepsOf(c)) /\ t # <<>>
      /\ PlanPays(t, c, proc[p].ok, Owed, OwedNow, InMemory, OnDisk)
  BY FirstStep
<1>2. c.op \in {"rename", "upsert"} => c.name \in Names /\ c.to \in Names
  BY <1>1 DEF Begun
<1>3. PlanPays(Tail(t), c, proc'[p].ok, Owed', OwedNow', InMemory', OnDisk')
  <2> HIDE DEF t, c
  <2>1. ~Commits(t[1]) /\ (proc'[p].ok => proc[p].ok)
    BY DEF t
  <2>2. \A n \in Names : /\ Owed'[n] \subseteq Owed[n] /\ OwedNow'[n] \subseteq OwedNow[n]
                         /\ Effect(t[1], n, InMemory[n], OnDisk[n], InMemory'[n], OnDisk'[n])
                         /\ Syncs(t[1], "config") => Owed'[n] \subseteq OwedNow'[n]
    BY DEF t
  <2>3. Effects(t[1], Owed, Owed', OwedNow, OwedNow', InMemory, InMemory', OnDisk, OnDisk')
    BY <2>2 DEF Effects
  <2>4. proc[p].ok \in BOOLEAN /\ proc'[p].ok \in BOOLEAN
    BY DEF LockInv, TypeInv, Procs
  <2> QED BY <1>1, <1>2, <2>1, <2>3, <2>4, TailPays
<1>4. PlanPays(proc[p].todo, proc[p].cmd, proc[p].ok, Owed, OwedNow, InMemory, OnDisk)'
  BY <1>3
<1>5. PlansPay
  BY DEF PayInv
<1> QED BY <1>1, <1>4, <1>5, OnlyOwnChange

\* RenameOver of a history.
LEMMA RenameHistoryPays ==
    ASSUME LockInv, LockInv', PayInv, NEW p \in Processes, RenameOver(p), Target(p) # ConfigFile
    PROVE  PayInv'
<1> DEFINE t == proc[p].todo
           c == proc[p].cmd
           s == t[1]
<1>1. Working(p) /\ t # <<>> /\ Head(t).do = "rename" /\ StepDone(p)
  BY DEF RenameOver, Doing
<1>2. /\ Head(t) = s /\ s \in Steps /\ s.file \in Needs(c)
      /\ \A n \in Names : StepPays(t, 1, n, c, Owed, OwedNow, InMemory, OnDisk)
  BY <1>1, FirstStep
<1>3. /\ visible' = [visible EXCEPT ![s.file] = s.content] /\ durable' = durable /\ promised' = promised
      /\ s.file # ConfigFile /\ s.do = "rename"
  BY <1>1, <1>2 DEF RenameOver, Target
<1>4. TypeInv /\ TypeInv' /\ visible \in [Files -> FileContents] /\ s.file \in HistoryFiles /\ Fits(s.file, s.content)
  BY <1>2, <1>3 DEF LockInv, TypeInv, Disks, Steps, Files
<1>5. PICK m \in Names : s.file = Canonical(m)
  <2>1. \A n \in Names : s.file # Legacy(n)
    BY <1>2, <1>3 DEF StepPays
  <2> QED BY <1>4, <2>1 DEF HistoryFiles
<1>6. s.content \in Histories /\ s.content # Absent
  BY <1>3, <1>4, AbsentAssumption DEF Fits, Retained, Histories
<1>7. Pays(Owed[m], s.content)
  BY <1>2, <1>3, <1>5 DEF StepPays, Renames
<1>8. visible'[ConfigFile] = visible[ConfigFile]
  BY <1>3, <1>4 DEF Files
<1>9. ASSUME NEW n \in Names
      PROVE  /\ Owed'[n] = Owed[n] /\ OwedNow'[n] = OwedNow[n] /\ OnDisk'[n] = OnDisk[n]
             /\ LegacyCopies(n)' = LegacyCopies(n)
             /\ InMemory'[n] = IF n = m THEN s.content ELSE InMemory[n]
  <2>1. Canonical(n) \in Files /\ Legacy(n) \in Files /\ Legacy(n) # Canonical(m) /\ (Canonical(n) = Canonical(m) => n = m)
    BY DEF Files, HistoryFiles, Canonical, Legacy
  <2>2. visible'[Legacy(n)] = visible[Legacy(n)]
    BY <1>3, <1>4, <1>5, <2>1
  <2>3. visible'[Canonical(n)] = IF n = m THEN s.content ELSE visible[Canonical(n)]
    BY <1>3, <1>4, <1>5, <2>1
  <2>4. InMemory'[n] = IF n = m THEN s.content ELSE InMemory[n]
    BY <1>6, <2>3, OwedAt DEF Held
  <2>5. LegacyCopies(n)' = LegacyCopies(n)
    BY <1>3, <2>2 DEF LegacyCopies
  <2>6. Owed'[n] = Owed[n] /\ OwedNow'[n] = OwedNow[n] /\ OnDisk'[n] = OnDisk[n]
    BY <1>3, <1>8, OwedAt
  <2> QED BY <2>4, <2>5, <2>6
<1>10. OwedOK'
  BY <1>3, <1>8 DEF PayInv, OwedOK
<1>11. ASSUME NEW n \in Names PROVE ViewsPay(n)'
  <2>1. ViewsPay(n)
    BY DEF PayInv
  <2> QED BY <1>4, <1>7, <1>9, <2>1, ViewsStillPay
<1>12. ASSUME NEW n \in Names
       PROVE  /\ Effect(s, n, InMemory[n], OnDisk[n], InMemory'[n], OnDisk'[n])
              /\ Spared(n) \/ Canonical(n) \in Needs(c)
  <2>1. Touches(s, n) => n = m
    BY <1>5 DEF Touches, Canonical
  <2>2. ~Syncs(s, "canonical") /\ (Renames(s, n) => Touches(s, n)) /\ Touches(s, m)
    BY <1>3, <1>5 DEF Syncs, Renames, Touches
  <2>3. Effect(s, n, InMemory[n], OnDisk[n], InMemory'[n], OnDisk'[n])
    BY <1>9, <2>1, <2>2 DEF Effect
  <2>4. CASE n = m
    BY <1>2, <1>5, <2>3, <2>4
  <2>5. CASE n # m
    BY <1>9, <2>3, <2>5 DEF Spared
  <2> QED BY <2>4, <2>5
<1>13. ~Commits(s) /\ ~Syncs(s, "config")
  BY <1>3 DEF Commits, Syncs
<1>14. PlansPay'
  BY <1>1, <1>9, <1>12, <1>13, StepDoneEffect, StepStillPays
<1> QED BY <1>10, <1>11, <1>14 DEF PayInv

\* SyncDirectory
LEMMA SyncPays ==
    ASSUME LockInv, LockInv', PayInv, NEW p \in Processes, SyncDirectory(p)
    PROVE  PayInv'
<1> DEFINE t == proc[p].todo
           c == proc[p].cmd
           s == t[1]
<1>1. Working(p) /\ t # <<>> /\ Head(t).do = "sync" /\ StepDone(p)
  BY DEF SyncDirectory, Doing
<1>2. Head(t) = s /\ s \in Steps
  BY <1>1, FirstStep
<1>3. /\ durable' = [f \in Files |-> IF Directory(f) = Directory(s.file) THEN visible[f] ELSE durable[f]]
      /\ visible' = visible /\ promised' = promised /\ s.do = "sync"
  BY <1>1, <1>2 DEF SyncDirectory, Target
<1>4. TypeInv /\ TypeInv' /\ ConfigFile \in Files
  BY DEF LockInv, Files
<1> DEFINE dir == Directory(s.file)
<1>5. durable'[ConfigFile] = IF dir = "config" THEN visible[ConfigFile] ELSE durable[ConfigFile]
  BY <1>3, <1>4 DEF Directory, ConfigFile
<1>6. ASSUME NEW n \in Names
      PROVE  /\ durable'[Canonical(n)] = IF dir = "canonical" THEN visible[Canonical(n)] ELSE durable[Canonical(n)]
             /\ durable'[Legacy(n)] \in {visible[Legacy(n)], durable[Legacy(n)]}
  <2>1. Canonical(n) \in Files /\ Legacy(n) \in Files /\ Directory(Canonical(n)) = "canonical"
    BY DEF Files, HistoryFiles, Canonical, Legacy, Directory
  <2>2. durable'[Canonical(n)] = IF dir = "canonical" THEN visible[Canonical(n)] ELSE durable[Canonical(n)]
    BY <1>3, <2>1
  <2> QED BY <1>3, <2>1, <2>2
<1> HIDE DEF dir
<1>7. ASSUME NEW n \in Names
      PROVE  /\ Owed'[n] \subseteq Owed[n] /\ OwedNow'[n] = OwedNow[n] /\ InMemory'[n] = InMemory[n]
             /\ OnDisk'[n] = IF dir = "canonical" THEN InMemory[n] ELSE OnDisk[n]
             /\ LegacyCopies(n)' \subseteq LegacyCopies(n)
             /\ dir = "config" => Owed'[n] \subseteq OwedNow'[n]
  <2>1. OnDisk'[n] = IF dir = "canonical" THEN InMemory[n] ELSE OnDisk[n]
    BY <1>6, OwedAt
  <2>2. LegacyCopies(n)' \subseteq LegacyCopies(n)
    BY <1>3, <1>6 DEF LegacyCopies
  <2> QED BY <1>3, <1>5, <2>1, <2>2, OwedAt
<1>8. OwedOK'
  BY <1>3, <1>5 DEF PayInv, OwedOK
<1>9. ASSUME NEW n \in Names PROVE ViewsPay(n)'
  <2>1. ViewsPay(n)
    BY DEF PayInv
  <2>2. \A x \in {InMemory'[n], OnDisk'[n]} : x \in {InMemory[n], OnDisk[n]}
    BY <1>7
  <2> QED BY <1>4, <1>7, <2>1, <2>2, ViewsStillPay
<1>10. ASSUME NEW n \in Names
       PROVE  Effect(s, n, InMemory[n], OnDisk[n], InMemory'[n], OnDisk'[n]) /\ Spared(n)
  <2>1. ~Touches(s, n) /\ ~Renames(s, n) /\ (Syncs(s, "canonical") <=> dir = "canonical")
    BY <1>3 DEF Touches, Renames, Syncs, dir
  <2> QED BY <1>7, <2>1 DEF Effect, Spared
<1>11. ~Commits(s) /\ (Syncs(s, "config") => dir = "config")
  BY <1>3 DEF Commits, Syncs, dir
<1>12. PlansPay'
  BY <1>1, <1>7, <1>10, <1>11, StepDoneEffect, StepStillPays
<1> QED BY <1>8, <1>9, <1>12 DEF PayInv

\* CreateBackup
LEMMA BackupPays ==
    ASSUME LockInv, LockInv', PayInv, NEW p \in Processes, CreateBackup(p)
    PROVE  PayInv'
<1> DEFINE t == proc[p].todo
           s == t[1]
<1>1. Working(p) /\ t # <<>> /\ Head(t).do = "backup" /\ StepDone(p) /\ UNCHANGED <<visible, durable, promised>>
  BY DEF CreateBackup, Doing
<1>2. s.do = "backup"
  BY <1>1, FirstStep
<1>3. Owed' = Owed /\ OwedNow' = OwedNow /\ InMemory' = InMemory /\ OnDisk' = OnDisk
      /\ \A n \in Names : LegacyCopies(n)' = LegacyCopies(n)
  BY <1>1 DEF Owed, OwedNow, InMemory, OnDisk, LegacyCopies
<1>4. OwedOK' /\ \A n \in Names : ViewsPay(n)'
  BY <1>1, <1>3 DEF PayInv, OwedOK, ViewsPay
<1>5. ASSUME NEW n \in Names
      PROVE  Effect(s, n, InMemory[n], OnDisk[n], InMemory'[n], OnDisk'[n]) /\ Spared(n)
  BY <1>2, <1>3 DEF Effect, Spared, Renames, Touches, Syncs
<1>6. ~Commits(s) /\ ~Syncs(s, "config")
  BY <1>2 DEF Commits, Syncs
<1>7. PlansPay'
  BY <1>1, <1>3, <1>5, <1>6, StepDoneEffect, StepStillPays
<1> QED BY <1>4, <1>7 DEF PayInv

\* Nothing owed is paid by anything.
LEMMA NothingOwed ==
    ASSUME NEW es
    PROVE  Pays({}, es)
  BY DEF Pays

\* RemoveFile takes promises back, if any.
LEMMA RemovePromises ==
    ASSUME LockInv, NEW p \in Processes, RemoveFile(p)
    PROVE  /\ \A dev \in Devices : promised'[dev] \subseteq promised[dev]
           /\ proc[p].cmd.op = "clear" /\ proc[p].cmd.name \in Names =>
                 /\ OwedBy(visible[ConfigFile], promised')[proc[p].cmd.name] = {}
                 /\ OwedBy(durable[ConfigFile], promised')[proc[p].cmd.name] = {}
<1> DEFINE c == proc[p].cmd
           gone(dev) == \E file \in {visible, durable} :
                            file[ConfigFile] # Absent /\ file[ConfigFile].profiles[c.name] = dev
<1>1. promised' = IF c.op = "clear" THEN [dev \in Devices |-> IF gone(dev) THEN {} ELSE promised[dev]] ELSE promised
  BY DEF RemoveFile
<1>2. promised \in [Devices -> SUBSET Entries] /\ visible \in Disks /\ durable \in Disks
  BY DEF LockInv, TypeInv
<1>3. \A dev \in Devices : promised'[dev] \subseteq promised[dev]
  <2> HIDE DEF gone
  <2> QED BY <1>1, <1>2
<1>4. ASSUME c.op = "clear", c.name \in Names, NEW file \in {visible, durable}
      PROVE  OwedBy(file[ConfigFile], promised')[c.name] = {}
  <2>1. file[ConfigFile] \in Configs \cup {Absent}
    BY <1>2, DiskTypes
  <2> DEFINE config == ConfigOf(file[ConfigFile])
  <2>2. OwedBy(file[ConfigFile], promised')[c.name] = IF Configured(config, c.name) THEN promised'[config.profiles[c.name]] ELSE {}
    BY <1>4 DEF OwedBy
  <2>3. CASE Configured(config, c.name)
    <3>1. file[ConfigFile] # Absent
      BY <1>4, <2>3 DEF ConfigOf, DefaultConfig, Config, Configured
    <3>2. config = file[ConfigFile] /\ config \in Configs
      BY <2>1, <3>1 DEF ConfigOf
    <3>3. config.profiles[c.name] \in Devices
      BY <1>4, <2>3, <3>2 DEF Configs, Configured
    <3>4. gone(config.profiles[c.name])
      BY <1>4, <3>1, <3>2
    <3>5. promised'[config.profiles[c.name]] = {}
      <4> HIDE DEF gone, config
      <4> QED BY <1>1, <1>4, <3>3, <3>4
    <3> QED BY <2>2, <2>3, <3>5
  <2>4. CASE ~Configured(config, c.name)
    BY <2>2, <2>4
  <2> QED BY <2>3, <2>4
<1> QED BY <1>3, <1>4

\* RemoveFile
LEMMA RemovePays ==
    ASSUME LockInv, LockInv', PayInv, NEW p \in Processes, RemoveFile(p)
    PROVE  PayInv'
<1> DEFINE t == proc[p].todo
           c == proc[p].cmd
           s == t[1]
<1>1. Working(p) /\ t # <<>> /\ Head(t).do = "unlink" /\ StepDone(p)
  BY DEF RemoveFile, Doing
<1>2. /\ Head(t) = s /\ s \in Steps /\ s.file \in Needs(c) /\ Begun(c)
      /\ \A n \in Names : StepPays(t, 1, n, c, Owed, OwedNow, InMemory, OnDisk)
  BY <1>1, FirstStep
<1>3. /\ visible' = [visible EXCEPT ![s.file] = Absent] /\ durable' = durable /\ s.do = "unlink"
  BY <1>1, <1>2 DEF RemoveFile, Target
<1>4. /\ TypeInv /\ TypeInv' /\ visible \in [Files -> FileContents] /\ s.file \in HistoryFiles
      /\ s.file # ConfigFile /\ promised \in [Devices -> SUBSET Entries] /\ promised' \in [Devices -> SUBSET Entries]
  BY <1>2, <1>3 DEF LockInv, TypeInv, Disks, Steps, Files
<1>5. PICK m \in Names : s.file \in HistoryLocks(m)
  BY <1>4 DEF HistoryFiles, HistoryLocks
<1>6. visible'[ConfigFile] = visible[ConfigFile]
  BY <1>3, <1>4 DEF Files
<1>7. visible[ConfigFile] \in Configs \cup {Absent} /\ durable[ConfigFile] \in Configs \cup {Absent}
  BY <1>4, DiskTypes DEF TypeInv
<1>8. \A dev \in Devices : promised'[dev] \subseteq promised[dev]
  BY RemovePromises
<1>9. ASSUME NEW n \in Names
      PROVE  Owed'[n] \subseteq Owed[n] /\ OwedNow'[n] \subseteq OwedNow[n] /\ OnDisk'[n] = OnDisk[n]
  <2>1. /\ OwedBy(visible[ConfigFile], promised')[n] \subseteq OwedBy(visible[ConfigFile], promised)[n]
        /\ OwedBy(durable[ConfigFile], promised')[n] \subseteq OwedBy(durable[ConfigFile], promised)[n]
    BY <1>4, <1>7, <1>8, LessIsOwed
  <2> QED BY <1>3, <1>6, <2>1, OwedAt
<1>10. ASSUME NEW n \in Names
       PROVE  /\ n # m => LegacyCopies(n)' = LegacyCopies(n)
              /\ s.file # Canonical(n) => InMemory'[n] = InMemory[n]
              /\ n # m => s.file # Canonical(n)
  <2>1. /\ Canonical(n) \in Files /\ Legacy(n) \in Files
        /\ n # m => s.file # Canonical(n) /\ s.file # Legacy(n)
    BY <1>5 DEF Files, HistoryFiles, HistoryLocks, Canonical, Legacy
  <2>2. s.file # Canonical(n) => visible'[Canonical(n)] = visible[Canonical(n)]
    BY <1>3, <1>4, <2>1
  <2>3. n # m => visible'[Legacy(n)] = visible[Legacy(n)]
    BY <1>3, <1>4, <2>1
  <2>4. n # m => LegacyCopies(n)' = LegacyCopies(n)
    BY <1>3, <2>3 DEF LegacyCopies
  <2> QED BY <2>1, <2>2, <2>4, OwedAt
<1>11. OwedOK'
  <2>1. OwedOK
    BY DEF PayInv
  <2> QED BY <1>3, <1>6, <1>8, <2>1 DEF OwedOK
<1>12. ViewsPay(m)'
  <2>1. ViewsPay(m) /\ Unlinks(s, m) /\ StepPays(t, 1, m, c, Owed, OwedNow, InMemory, OnDisk)
    BY <1>2, <1>3, <1>5 DEF PayInv, Unlinks
  <2>2. CASE Owed'[m] = {}
    BY <1>4, <2>1, <2>2, NothingOwed, ViewsStillPay
  <2>3. CASE c.op = "clear"
    <3>1. c.name = m
      BY <1>2, <1>5, <2>3 DEF Needs, HistoryLocks, ConfigOps, Canonical, Legacy
    <3>2. OwedBy(visible[ConfigFile], promised')[m] = {} /\ OwedBy(durable[ConfigFile], promised')[m] = {}
      BY <2>3, <3>1, RemovePromises
    <3>3. Owed'[m] = {}
      BY <1>3, <1>6, <3>2, OwedAt
    <3> QED BY <2>2, <3>3
  <2>4. CASE s.file = Legacy(m) /\ Ready(t, 1, m, Owed[m], InMemory[m], OnDisk[m])
    <3>1. Pays(Owed[m], InMemory[m]) /\ Pays(Owed[m], OnDisk[m])
      BY <2>4 DEF Ready
    <3>2. s.file # Canonical(m)
      BY <2>4 DEF Canonical, Legacy
    <3>3. InMemory'[m] = InMemory[m] /\ OnDisk'[m] = OnDisk[m] /\ Owed'[m] \subseteq Owed[m]
      BY <1>9, <1>10, <3>2
    <3>4. \A x \in {InMemory'[m], OnDisk'[m]} : Pays(Owed'[m], x)
      BY <3>1, <3>3 DEF Pays
    <3> QED BY <1>4, <2>1, <3>4, ViewsStillPay
  <2>5. CASE Owed[m] = {}
    BY <1>9, <2>2, <2>5
  <2>6. CASE Settled(t, 1, Owed[m], OwedNow[m])
    BY <2>5, <2>6 DEF Settled
  <2> QED BY <2>1, <2>3, <2>4, <2>5, <2>6 DEF StepPays
<1>13. ASSUME NEW n \in Names PROVE ViewsPay(n)'
  <2>1. CASE n = m
    BY <1>12, <2>1
  <2>2. CASE n # m
    <3>1. ViewsPay(n)
      BY DEF PayInv
    <3> QED BY <1>4, <1>9, <1>10, <2>2, <3>1, ViewsStillPay
  <2> QED BY <2>1, <2>2
<1>14. ASSUME NEW n \in Names
       PROVE  /\ Effect(s, n, InMemory[n], OnDisk[n], InMemory'[n], OnDisk'[n])
              /\ Spared(n) \/ Canonical(n) \in Needs(c)
  <2>1. ~Renames(s, n) /\ ~Syncs(s, "canonical") /\ (~Touches(s, n) => s.file # Canonical(n))
    BY <1>3 DEF Renames, Syncs, Touches
  <2>2. Effect(s, n, InMemory[n], OnDisk[n], InMemory'[n], OnDisk'[n])
    BY <1>9, <1>10, <2>1 DEF Effect
  <2>3. CASE n = m
    <3>1. Canonical(n) \in Needs(c)
      BY <1>2, <1>5, <2>3 DEF Needs, HistoryLocks, Canonical, Legacy, ConfigFile
    <3> QED BY <2>2, <3>1
  <2>4. CASE n # m
    BY <1>9, <1>10, <2>2, <2>4 DEF Spared
  <2> QED BY <2>3, <2>4
<1>15. ~Commits(s) /\ ~Syncs(s, "config")
  BY <1>3 DEF Commits, Syncs
<1>16. PlansPay'
  BY <1>1, <1>9, <1>14, <1>15, StepDoneEffect, StepStillPays
<1> QED BY <1>11, <1>13, <1>16 DEF PayInv

\* A plan that is over.
LEMMA OverPays ==
    ASSUME NEW c, NEW o, NEW h, NEW v, NEW d
    PROVE  PlanPays(<<>>, c, FALSE, o, h, v, d)
<1>1. \A i \in 1 .. Len(<<>>) : FALSE
  OBVIOUS
<1> QED BY <1>1 DEF PlanPays

\* The plan that undoes the copy of a history.
LEMMA UndoPays ==
    ASSUME NEW c, c.op = "rename", NEW m \in Names, NEW o, NEW h, NEW v, NEW d, o[m] = {}
    PROVE  PlanPays(ClearPlan(m), c, FALSE, o, h, v, d)
<1> DEFINE t == ClearPlan(m)
<1>1. /\ Len(t) = 2 /\ t[1] = Step("unlink", Canonical(m), Absent, "next")
      /\ t[2] = Step("unlink", Legacy(m), Absent, "next")
  BY DEF ClearPlan, Unlink
<1>2. ASSUME NEW i \in 1 .. Len(t)
      PROVE  t[i].do = "unlink" /\ t[i].onError = "next" /\ t[i].file \in HistoryLocks(m)
  <2>1. i = 1 \/ i = 2
    BY <1>1
  <2> QED BY <1>1, <2>1 DEF Step, HistoryLocks
<1> HIDE DEF t
<1>3. ASSUME NEW i \in 1 .. Len(t), NEW n \in Names PROVE StepPays(t, i, n, c, o, h, v, d)
  <2>1. Unlinks(t[i], n) => n = m
    BY <1>2 DEF Unlinks, HistoryLocks, Canonical, Legacy
  <2> QED BY <1>2, <2>1 DEF StepPays, Renames
<1>4. \A i \in 1 .. Len(t) : ErrorsOK(t[i]) /\ ~Commits(t[i])
  BY <1>2 DEF ErrorsOK, Commits
<1>5. PlanPays(t, c, FALSE, o, h, v, d)
  BY <1>3, <1>4 DEF PlanPays
<1> QED BY <1>5 DEF t

\* StepFails
LEMMA FailurePays ==
    ASSUME LockInv, LockInv', PayInv, NEW p \in Processes, StepFails(p), "sync" \notin Faults
    PROVE  PayInv'
<1> DEFINE t == proc[p].todo
           c == proc[p].cmd
           s == t[1]
<1>1. /\ Working(p) /\ t # <<>> /\ proc'[p].at = "working" /\ proc'[p].cmd = c /\ proc'[p].ok = FALSE
      /\ \/ Head(t).onError = "abort" /\ proc'[p].todo = <<>>
         \/ Head(t).onError = "next" /\ proc'[p].todo = Tail(t)
         \/ Head(t).onError = "undo" /\ proc'[p].todo = ClearPlan(c.to)
      /\ \A q \in Processes \ {p} : proc'[q] = proc[q]
      /\ visible' = visible /\ durable' = durable /\ Head(t).do # "sync"
  BY StepFailsEffect
<1>2. promised' = promised
  BY DEF StepFails
<1>3. /\ proc[p].at = "working" /\ Head(t) = s /\ s \in StepsOf(c) /\ ErrorsOK(s) /\ Begun(c) /\ 1 \in 1 .. Len(t)
      /\ PlanPays(t, c, proc[p].ok, Owed, OwedNow, InMemory, OnDisk)
  BY <1>1, FirstStep
<1>4. Owed' = Owed /\ OwedNow' = OwedNow /\ InMemory' = InMemory /\ OnDisk' = OnDisk
      /\ \A n \in Names : LegacyCopies(n)' = LegacyCopies(n)
  BY <1>1, <1>2 DEF Owed, OwedNow, InMemory, OnDisk, LegacyCopies
<1>5. OwedOK' /\ \A n \in Names : ViewsPay(n)'
  BY <1>1, <1>2, <1>4 DEF PayInv, OwedOK, ViewsPay
<1>6. \A n \in Names : Spared(n)
  BY <1>4 DEF Spared
<1>7. PlansPay
  BY DEF PayInv
<1>8. CASE s.onError = "next"
  <2>1. s.do = "unlink" /\ proc'[p].todo = Tail(t)
    BY <1>1, <1>3, <1>8 DEF ErrorsOK
  <2>2. ASSUME NEW n \in Names PROVE Effect(s, n, InMemory[n], OnDisk[n], InMemory'[n], OnDisk'[n])
    BY <1>4, <2>1 DEF Effect, Renames, Touches, Syncs
  <2>3. ~Commits(s) /\ ~Syncs(s, "config")
    BY <2>1 DEF Commits, Syncs
  <2>4. PlansPay'
    BY <1>1, <1>4, <1>6, <2>1, <2>2, <2>3, StepStillPays
  <2> QED BY <1>5, <2>4 DEF PayInv
<1>9. CASE s.onError # "next"
  <2>1. PlanPays(proc'[p].todo, c, FALSE, Owed, OwedNow, InMemory, OnDisk)
    <3>1. CASE s.onError = "abort"
      <4>1. proc'[p].todo = <<>>
        BY <1>1, <1>3, <3>1
      <4> QED BY <4>1, OverPays
    <3>2. CASE s.onError = "undo"
      <4>1. proc'[p].todo = ClearPlan(c.to) /\ Commits(s) /\ c.op = "rename"
        BY <1>1, <1>3, <3>2 DEF ErrorsOK, StepsOf
      <4>2. CommitPays(t, 1, c, Owed, OwedNow, InMemory, OnDisk) /\ c.to \in Names
        BY <1>3, <4>1 DEF PlanPays, Begun
      <4>3. Owed[c.to] = {}
        BY <4>2 DEF CommitPays
      <4> QED BY <4>1, <4>2, <4>3, UndoPays
    <3> QED BY <1>1, <1>3, <1>9, <3>1, <3>2
  <2>2. PlanPays(proc'[p].todo, proc'[p].cmd, proc'[p].ok, Owed', OwedNow', InMemory', OnDisk')
    BY <1>1, <1>4, <2>1
  <2>3. PlansPay'
    BY <1>1, <1>3, <1>6, <1>7, <2>2, OnlyOwnChange
  <2> QED BY <1>5, <2>3 DEF PayInv
<1> QED BY <1>8, <1>9

\* PowerLoss
LEMMA PowerLossPays ==
    ASSUME LockInv, LockInv', PayInv, PowerLoss
    PROVE  PayInv'
<1>1. PICK kept \in SUBSET Unsynced :
        visible' = [f \in Files |-> IF f \in kept THEN visible[f] ELSE durable[f]]
  BY DEF PowerLoss
<1>2. /\ durable' = visible' /\ proc' = [q \in Processes |-> Idle]
      /\ intended' = ConfigOf(visible'[ConfigFile]) /\ promised' = StillPromised(intended')
  BY DEF PowerLoss, ConfigOf
<1>3. /\ TypeInv /\ TypeInv' /\ promised \in [Devices -> SUBSET Entries] /\ promised' \in [Devices -> SUBSET Entries]
      /\ visible' \in Disks
  BY DEF LockInv, TypeInv
<1>4. ConfigFile \in Files /\ visible'[ConfigFile] \in {visible[ConfigFile], durable[ConfigFile]}
  BY <1>1 DEF Files
<1>5. visible'[ConfigFile] \in Configs \cup {Absent}
  BY <1>3, DiskTypes
<1>6. \A dev \in Devices : /\ promised'[dev] \subseteq promised[dev]
                           /\ promised'[dev] # {} => \E n \in Names : ConfigOf(visible'[ConfigFile]).profiles[n] = dev
  BY <1>2 DEF StillPromised
<1>7. OwedOK'
  <2>1. OwedOK
    BY DEF PayInv
  <2> QED BY <1>2, <1>4, <1>6, <2>1 DEF OwedOK
<1>8. PlansPay'
  <2>1. Idle.at = "idle"
    BY DEF Idle
  <2> QED BY <1>2, <2>1 DEF PlansPay
<1>9. ASSUME NEW n \in Names PROVE ViewsPay(n)'
  <2>1. Canonical(n) \in Files /\ Legacy(n) \in Files
    BY DEF Files, HistoryFiles
  <2>2. /\ visible'[Canonical(n)] \in {visible[Canonical(n)], durable[Canonical(n)]}
        /\ visible'[Legacy(n)] \in {visible[Legacy(n)], durable[Legacy(n)]}
    BY <1>1, <2>1
  <2>3. LegacyCopies(n)' \subseteq LegacyCopies(n)
    BY <1>2, <2>2 DEF LegacyCopies
  <2>4. InMemory'[n] \in {InMemory[n], OnDisk[n]} /\ OnDisk'[n] = InMemory'[n]
    BY <1>2, <2>2, OwedAt
  <2>5. OwedBy(visible'[ConfigFile], promised')[n] \subseteq OwedBy(visible'[ConfigFile], promised)[n]
    BY <1>3, <1>5, <1>6, LessIsOwed
  <2>6. Owed'[n] \subseteq Owed[n]
    BY <1>2, <1>4, <2>5, OwedAt
  <2>7. ViewsPay(n)
    BY DEF PayInv
  <2> QED BY <1>3, <2>3, <2>4, <2>6, <2>7, ViewsStillPay
<1> QED BY <1>7, <1>8, <1>9 DEF PayInv

\* What a command makes of the profiles.
LEMMA UpdatedProfiles ==
    ASSUME NEW config \in Configs, NEW c \in Commands, Begun(c), c.op \in ConfigOps, NEW n \in Names
    PROVE  /\ c.op # "rename" =>
                 \/ Updated(config, c).profiles[n] \in {config.profiles[n], NoDevice}
                 \/ /\ c.op \in {"init", "import"} /\ n = c.name
                    /\ Updated(config, c).profiles[n] = Unused(config)
           /\ c.op = "rename" /\ c.name # c.to =>
                 Updated(config, c).profiles[n] = IF n = c.name THEN NoDevice
                                                  ELSE IF n = c.to THEN config.profiles[c.name]
                                                  ELSE config.profiles[n]
<1> DEFINE P == config.profiles
<1>1. P \in [Names -> Devices \cup {NoDevice}]
  BY DEF Configs
<1>2. c.op # "mqtt" => c.name \in Names /\ c.to \in Names
  BY DEF Begun
<1>3. ASSUME NEW m \in Names, NEW dev, NEW t, NEW k
      PROVE  /\ With(config, m, dev, t).profiles = [P EXCEPT ![m] = dev]
             /\ [With(config, m, dev, t) EXCEPT !.default = k].profiles = [P EXCEPT ![m] = dev]
  BY DEF With, Configs
<1>4. CASE c.op \in {"init", "import"}
  <2>1. c.name \in Names
    BY <1>2, <1>4
  <2>2. Updated(config, c).profiles = [P EXCEPT ![c.name] = Unused(config)]
    BY <1>3, <1>4, <2>1 DEF Updated, Initialized, Imported
  <2> QED BY <1>1, <1>4, <2>1, <2>2
<1>5. CASE c.op = "delete"
  <2>1. c.name \in Names
    BY <1>2, <1>5
  <2> DEFINE w == With(config, c.name, NoDevice, 0)
             k == IF w.default = c.name THEN NoDefault ELSE w.default
  <2>2. Updated(config, c) = [w EXCEPT !.default = k]
    BY <1>5 DEF Updated, Deleted
  <2>3. Updated(config, c).profiles = [P EXCEPT ![c.name] = NoDevice]
    <3> HIDE DEF k
    <3> QED BY <1>3, <2>1, <2>2
  <2> QED BY <1>1, <1>5, <2>1, <2>3
<1>6. CASE c.op = "rename" /\ c.name # c.to
  <2>1. c.name \in Names /\ c.to \in Names
    BY <1>2, <1>6
  <2> DEFINE w == With(config, c.to, P[c.name], config.transport[c.name])
             y == With(w, c.name, NoDevice, 0)
             k == IF y.default = c.name THEN c.to ELSE y.default
  <2>2. w.profiles = [P EXCEPT ![c.to] = P[c.name]] /\ w \in Configs
    <3>1. config.transport[c.name] \in Transports
      BY <2>1 DEF Configs
    <3> QED BY <1>1, <1>3, <2>1, <3>1, WithIsConfig
  <2> HIDE DEF w
  <2>3. y.profiles = [w.profiles EXCEPT ![c.name] = NoDevice] /\ y \in Configs
    BY <2>1, <2>2, WithIsConfig DEF With, Configs, Transports
  <2> HIDE DEF y
  <2>4. [y EXCEPT !.default = k].profiles = y.profiles
    BY <2>3 DEF Configs
  <2>5. Updated(config, c) = [y EXCEPT !.default = k]
    BY <1>6 DEF Updated, Renamed, w, y
  <2>6. Updated(config, c).profiles = [[P EXCEPT ![c.to] = P[c.name]] EXCEPT ![c.name] = NoDevice]
    BY <2>2, <2>3, <2>4, <2>5
  <2> QED BY <1>1, <1>6, <2>1, <2>6
<1>7. CASE c.op \in {"set_default", "reconfigure", "migrate", "mqtt", "mqtt_keep"}
  <2>1. Updated(config, c).profiles = P
    BY <1>7 DEF Updated, DefaultSet, Reconfigured, Migrated, MqttConfigured, Configs
  <2> QED BY <1>7, <2>1
<1>8. CASE c.op = "repair"
  <2>1. Updated(config, c).profiles = [m \in Names |-> NoDevice]
    BY <1>8 DEF Updated, DefaultConfig, Config
  <2> QED BY <1>8, <2>1
<1> QED BY <1>4, <1>5, <1>6, <1>7, <1>8 DEF ConfigOps

\* A plan for the configuration alone touches no history.
LEMMA ConfigOnlyPays ==
    ASSUME NEW c \in Commands, c.op \in ConfigOps \ {"rename"}, NEW t \in Seq(StepsOf(c)), NEW ok,
           \A i \in 1 .. Len(t) : ErrorsOK(t[i]), NEW o, NEW h, NEW v, NEW d
    PROVE  PlanPays(t, c, ok, o, h, v, d)
<1>1. Needs(c) = {ConfigFile}
  BY DEF Needs, ConfigOps
<1>2. ASSUME NEW i \in 1 .. Len(t) PROVE t[i].file = ConfigFile
  BY <1>1 DEF StepsOf
<1>3. ASSUME NEW i \in 1 .. Len(t), NEW n \in Names PROVE StepPays(t, i, n, c, o, h, v, d)
  <2>1. t[i].file # Legacy(n) /\ t[i].file # Canonical(n) /\ t[i].file \notin HistoryLocks(n)
    BY <1>2 DEF ConfigFile, Legacy, Canonical, HistoryLocks
  <2> QED BY <2>1 DEF StepPays, Renames, Unlinks
<1> QED BY <1>3 DEF PlanPays, ConfigOps

\* RenameOver of the configuration: what it leaves of the promises.
LEMMA CommitPromises ==
    ASSUME LockInv, LockInv', ConfigInv, NEW p \in Processes, RenameOver(p), Target(p) = ConfigFile
    PROVE  /\ Working(p) /\ proc[p].todo # <<>> /\ StepDone(p) /\ Commits(proc[p].todo[1])
           /\ durable' = durable /\ \A f \in Files \ {ConfigFile} : visible'[f] = visible[f]
           /\ promised' = StillPromised(visible'[ConfigFile])
           /\ \A dev \in Devices : /\ promised'[dev] \subseteq promised[dev]
                                   /\ promised'[dev] # {} => \E n \in Names : visible'[ConfigFile].profiles[n] = dev
<1> DEFINE s == Head(proc[p].todo)
<1>1. /\ Working(p) /\ proc[p].todo # <<>> /\ StepDone(p) /\ s.do = "rename" /\ s.file = ConfigFile
      /\ visible' = [visible EXCEPT ![ConfigFile] = s.content] /\ durable' = durable
      /\ promised' = StillPromised(s.content)
  BY DEF RenameOver, Doing, Target
<1>2. visible \in [Files -> FileContents] /\ ConfigFile \in Files
  BY DEF LockInv, TypeInv, Disks, Files
<1>3. visible'[ConfigFile] = s.content /\ \A f \in Files \ {ConfigFile} : visible'[f] = visible[f]
  <2> HIDE DEF s
  <2> QED BY <1>1, <1>2
<1>4. s = proc[p].todo[1]
  <2>1. proc[p].todo \in Seq(StepsOf(proc[p].cmd))
    BY <1>1, WorkingTypes DEF Working
  <2> QED BY <1>1, <2>1, TailSteps
<1>5. Commits(proc[p].todo[1])
  BY <1>1, <1>4 DEF Commits
<1> HIDE DEF s
<1>6. ASSUME NEW dev \in Devices
      PROVE  /\ promised'[dev] \subseteq promised[dev]
             /\ promised'[dev] # {} => \E n \in Names : visible'[ConfigFile].profiles[n] = dev
  BY <1>1, <1>3 DEF StillPromised
<1> QED BY <1>1, <1>3, <1>5, <1>6

\* ... and what it changes.
LEMMA CommitEffect ==
    ASSUME LockInv, LockInv', ConfigInv, PayInv, NEW p \in Processes, RenameOver(p), Target(p) = ConfigFile,
           NEW n \in Names
    PROVE  /\ InMemory'[n] = InMemory[n] /\ OnDisk'[n] = OnDisk[n] /\ LegacyCopies(n)' = LegacyCopies(n)
           /\ OwedBy(durable'[ConfigFile], promised')[n] \subseteq OwedBy(durable[ConfigFile], promised)[n]
           /\ Effect(proc[p].todo[1], n, InMemory[n], OnDisk[n], InMemory'[n], OnDisk'[n])
<1>1. /\ durable' = durable /\ \A f \in Files \ {ConfigFile} : visible'[f] = visible[f]
      /\ \A dev \in Devices : promised'[dev] \subseteq promised[dev]
      /\ Commits(proc[p].todo[1])
  BY CommitPromises
<1>2. /\ Canonical(n) \in Files \ {ConfigFile} /\ Legacy(n) \in Files \ {ConfigFile}
  BY DEF Files, HistoryFiles, Canonical, Legacy, ConfigFile
<1>3. InMemory'[n] = InMemory[n] /\ OnDisk'[n] = OnDisk[n]
  BY <1>1, <1>2, OwedAt
<1>4. LegacyCopies(n)' = LegacyCopies(n)
  BY <1>1, <1>2 DEF LegacyCopies
<1>5. /\ promised \in [Devices -> SUBSET Entries] /\ promised' \in [Devices -> SUBSET Entries]
      /\ durable \in Disks
  BY DEF LockInv, TypeInv
<1>6. durable[ConfigFile] \in Configs \cup {Absent}
  BY <1>5, DiskTypes
<1>7. OwedBy(durable'[ConfigFile], promised')[n] \subseteq OwedBy(durable[ConfigFile], promised)[n]
  BY <1>1, <1>5, <1>6, LessIsOwed
<1>8. Effect(proc[p].todo[1], n, InMemory[n], OnDisk[n], InMemory'[n], OnDisk'[n])
  BY <1>1, <1>2, <1>3 DEF Effect, Commits, Renames, Touches, Syncs
<1> QED BY <1>3, <1>4, <1>7, <1>8

\* The configuration before and after it.
LEMMA CommitConfigs ==
    ASSUME LockInv, LockInv', ConfigInv, PayInv, NEW p \in Processes, RenameOver(p), Target(p) = ConfigFile
    PROVE  /\ Loaded = ConfigOf(visible[ConfigFile]) /\ Loaded \in Configs
           /\ visible'[ConfigFile] = Updated(Loaded, proc[p].cmd) /\ visible'[ConfigFile] \in Configs
           /\ ConfigOf(visible'[ConfigFile]) = visible'[ConfigFile]
           /\ proc[p].cmd \in Commands /\ Begun(proc[p].cmd) /\ proc[p].cmd.op \in ConfigOps
           /\ proc[p].cmd.op \in {"init", "import"} => ~Configured(Loaded, proc[p].cmd.name)
           /\ \A dev \in Devices : promised[dev] # {} => \E n \in Names : Loaded.profiles[n] = dev
           /\ Distinct(Loaded) /\ Distinct(ConfigOf(durable[ConfigFile]))
<1>1. /\ visible'[ConfigFile] = Updated(Loaded, proc[p].cmd) /\ visible'[ConfigFile] \in Configs
      /\ proc[p].cmd.op \in {"init", "import"} => ~Configured(Loaded, proc[p].cmd.name)
  BY CommitIsCurrent
<1>2. Loaded = ConfigOf(visible[ConfigFile])
  BY DEF Loaded, Present, ConfigOf
<1>3. Loaded \in Configs
  BY ConfigTypes DEF LockInv
<1>4. ConfigOf(visible'[ConfigFile]) = visible'[ConfigFile]
  BY <1>1, AbsentAssumption DEF ConfigOf
<1>5. Working(p) /\ proc[p].todo # <<>> /\ Commits(proc[p].todo[1])
  BY CommitPromises
<1>6. proc[p].cmd \in Commands /\ Begun(proc[p].cmd) /\ proc[p].todo[1].file \in Needs(proc[p].cmd)
  BY <1>5, FirstStep
<1>7. proc[p].cmd.op \in ConfigOps
  BY <1>5, <1>6 DEF Commits, Needs, HistoryLocks, Canonical, Legacy, ConfigFile
<1>8. OwedOK
  BY DEF PayInv
<1> QED BY <1>1, <1>2, <1>3, <1>4, <1>6, <1>7, <1>8 DEF OwedOK

\* A command other than a rename.
LEMMA PlainCommitPays ==
    ASSUME LockInv, LockInv', ConfigInv, PayInv, NEW p \in Processes, RenameOver(p), Target(p) = ConfigFile,
           proc[p].cmd.op # "rename"
    PROVE  PayInv'
<1> DEFINE c == proc[p].cmd
           old == Loaded
           new == visible'[ConfigFile]
           t == proc[p].todo
<1>1. /\ old = ConfigOf(visible[ConfigFile]) /\ old \in Configs /\ new = Updated(old, c) /\ new \in Configs
      /\ ConfigOf(new) = new /\ c \in Commands /\ Begun(c) /\ c.op \in ConfigOps
      /\ c.op \in {"init", "import"} => ~Configured(old, c.name)
      /\ \A dev \in Devices : promised[dev] # {} => \E n \in Names : old.profiles[n] = dev
      /\ Distinct(old) /\ Distinct(ConfigOf(durable[ConfigFile]))
  BY CommitConfigs
<1>2. /\ Working(p) /\ t # <<>> /\ StepDone(p) /\ durable' = durable
      /\ \A dev \in Devices : /\ promised'[dev] \subseteq promised[dev]
                              /\ promised'[dev] # {} => \E n \in Names : new.profiles[n] = dev
  BY CommitPromises
<1>3. /\ TypeInv' /\ promised \in [Devices -> SUBSET Entries] /\ promised' \in [Devices -> SUBSET Entries]
      /\ visible[ConfigFile] \in Configs \cup {Absent} /\ NoDevice \notin Devices
  BY DiskTypes, StoreAssumption DEF LockInv, TypeInv
<1>4. ASSUME NEW n \in Names
      PROVE  \/ new.profiles[n] \in {old.profiles[n], NoDevice}
             \/ /\ n = c.name /\ new.profiles[n] \in Devices
                /\ \A m \in Names : old.profiles[m] # new.profiles[n]
  <2>1. \/ new.profiles[n] \in {old.profiles[n], NoDevice}
        \/ c.op \in {"init", "import"} /\ n = c.name /\ new.profiles[n] = Unused(old)
    BY <1>1, UpdatedProfiles
  <2>2. CASE c.op \in {"init", "import"} /\ n = c.name /\ new.profiles[n] = Unused(old)
    <3>1. Unused(old) \in Devices /\ \A m \in Names : old.profiles[m] # Unused(old)
      BY <1>1, <2>2, UnusedIsDevice
    <3> QED BY <2>2, <3>1
  <2> QED BY <2>1, <2>2
<1> HIDE DEF new, old, c, t
<1>5. Distinct(new)
  <2>1. ASSUME NEW m \in Names, NEW n \in Names, Configured(new, n), new.profiles[m] = new.profiles[n] PROVE m = n
    <3>1. new.profiles[n] # NoDevice /\ new.profiles[m] # NoDevice
      BY <2>1 DEF Configured
    <3>2. CASE new.profiles[n] = old.profiles[n] /\ new.profiles[m] = old.profiles[m]
      BY <1>1, <2>1, <3>1, <3>2 DEF Distinct, Configured
    <3> QED BY <1>4, <2>1, <3>1, <3>2
  <2> QED BY <2>1 DEF Distinct
<1>6. OwedOK'
  BY <1>1, <1>2, <1>5 DEF OwedOK, new
<1>7. ASSUME NEW n \in Names PROVE OwedBy(new, promised')[n] \subseteq OwedBy(visible[ConfigFile], promised)[n]
  <2>1. CASE ~Configured(new, n)
    BY <1>1, <1>3, <2>1, OwedTypes
  <2>2. CASE Configured(new, n)
    <3>1. OwedBy(new, promised')[n] = promised'[new.profiles[n]] /\ new.profiles[n] \in Devices
      BY <1>1, <1>3, <2>2, OwedTypes
    <3>2. CASE new.profiles[n] = old.profiles[n]
      <4>1. Configured(old, n)
        BY <2>2, <3>2 DEF Configured
      <4>2. OwedBy(visible[ConfigFile], promised)[n] = promised[old.profiles[n]]
        BY <1>1, <1>3, <4>1, OwedTypes
      <4> QED BY <1>2, <3>1, <3>2, <4>2
    <3>3. CASE \A m \in Names : old.profiles[m] # new.profiles[n]
      <4>1. promised[new.profiles[n]] = {}
        BY <1>1, <3>1, <3>3
      <4> QED BY <1>2, <3>1, <4>1
    <3>4. new.profiles[n] # NoDevice
      BY <2>2 DEF Configured
    <3> QED BY <1>4, <3>2, <3>3, <3>4
  <2> QED BY <2>1, <2>2
<1>8. ASSUME NEW n \in Names PROVE Spared(n) /\ LegacyCopies(n)' = LegacyCopies(n)
  <2>1. /\ InMemory'[n] = InMemory[n] /\ OnDisk'[n] = OnDisk[n] /\ LegacyCopies(n)' = LegacyCopies(n)
        /\ OwedBy(durable'[ConfigFile], promised')[n] \subseteq OwedBy(durable[ConfigFile], promised)[n]
    BY CommitEffect
  <2>2. OwedBy(visible'[ConfigFile], promised')[n] \subseteq OwedBy(visible[ConfigFile], promised)[n]
    BY <1>7 DEF new
  <2> QED BY <2>1, <2>2, OwedAt DEF Spared
<1>9. ASSUME NEW n \in Names PROVE ViewsPay(n)'
  <2>1. ViewsPay(n)
    BY DEF PayInv
  <2> QED BY <1>3, <1>8, <2>1, ViewsStillPay DEF Spared
<1>10. PlansPay'
  <2>1. /\ proc'[p].at = "working" /\ proc'[p].cmd = c /\ proc'[p].todo = Tail(t)
        /\ \A q \in Processes \ {p} : proc'[q] = proc[q]
    BY <1>2, StepDoneEffect DEF c, t
  <2>2. t \in Seq(StepsOf(c)) /\ PlanPays(t, c, proc[p].ok, Owed, OwedNow, InMemory, OnDisk) /\ proc[p].at = "working"
    BY <1>2, FirstStep DEF c, t
  <2>3. Tail(t) \in Seq(StepsOf(c)) /\ Len(Tail(t)) = Len(t) - 1 /\ \A k \in 1 .. Len(t) - 1 : Tail(t)[k] = t[k + 1]
        /\ Len(t) \in Nat
    BY <1>2, <2>2, TailSteps
  <2>4. \A i \in 1 .. Len(Tail(t)) : ErrorsOK(Tail(t)[i])
    <3>1. \A i \in 1 .. Len(t) : ErrorsOK(t[i])
      BY <2>2 DEF PlanPays
    <3>2. \A i \in 1 .. Len(t) - 1 : i + 1 \in 1 .. Len(t)
      BY <2>3
    <3> QED BY <2>3, <3>1, <3>2
  <2>5. PlanPays(proc'[p].todo, proc'[p].cmd, proc'[p].ok, Owed', OwedNow', InMemory', OnDisk')
    BY <1>1, <2>1, <2>3, <2>4, ConfigOnlyPays DEF c
  <2>6. PlansPay
    BY DEF PayInv
  <2> QED BY <1>8, <2>1, <2>2, <2>5, <2>6, OnlyOwnChange
<1> QED BY <1>6, <1>9, <1>10 DEF PayInv

\* A rename: what was owed under the old name is owed under the new one, whose files are ready.
LEMMA RenameCommitPays ==
    ASSUME LockInv, LockInv', ConfigInv, PayInv, NEW p \in Processes, RenameOver(p), Target(p) = ConfigFile,
           proc[p].cmd.op = "rename"
    PROVE  PayInv'
<1> DEFINE c == proc[p].cmd
           old == Loaded
           new == visible'[ConfigFile]
           t == proc[p].todo
<1>1. /\ old = ConfigOf(visible[ConfigFile]) /\ old \in Configs /\ new = Updated(old, c) /\ new \in Configs
      /\ ConfigOf(new) = new /\ c \in Commands /\ Begun(c) /\ c.op \in ConfigOps
      /\ Distinct(old) /\ Distinct(ConfigOf(durable[ConfigFile]))
  BY CommitConfigs
<1>2. /\ Working(p) /\ t # <<>> /\ StepDone(p) /\ durable' = durable /\ Commits(t[1])
      /\ \A dev \in Devices : /\ promised'[dev] \subseteq promised[dev]
                              /\ promised'[dev] # {} => \E n \in Names : new.profiles[n] = dev
  BY CommitPromises
<1>3. /\ TypeInv' /\ TypeInv /\ promised \in [Devices -> SUBSET Entries] /\ promised' \in [Devices -> SUBSET Entries]
      /\ visible[ConfigFile] \in Configs \cup {Absent} /\ durable[ConfigFile] \in Configs \cup {Absent}
      /\ NoDevice \notin Devices
  BY DiskTypes, StoreAssumption DEF LockInv, TypeInv
<1>4. /\ t \in Seq(StepsOf(c)) /\ PlanPays(t, c, proc[p].ok, Owed, OwedNow, InMemory, OnDisk)
      /\ proc[p].at = "working" /\ Len(t) \in Nat /\ Len(t) >= 1
  BY <1>2, FirstStep
<1>5. CommitPays(t, 1, c, Owed, OwedNow, InMemory, OnDisk)
  BY <1>2, <1>4 DEF PlanPays
<1>6. PICK a, b \in Names : a = c.name /\ b = c.to
  BY <1>1 DEF Begun
<1>7. a # b /\ Owed[b] = {} /\ Pays(OwedNow[a], InMemory[b]) /\ Pays(OwedNow[a], OnDisk[b])
  BY <1>5, <1>6 DEF CommitPays, Ready
<1>8. ASSUME NEW n \in Names
      PROVE  new.profiles[n] = IF n = a THEN NoDevice ELSE IF n = b THEN old.profiles[a] ELSE old.profiles[n]
  BY <1>1, <1>6, <1>7, UpdatedProfiles
<1>9. \A j \in 1 .. Len(t) : Commits(t[j]) => j = 1
  BY CommitIsCurrent
<1> HIDE DEF new, old, c, t
<1>10. Distinct(new)
  <2>1. ASSUME NEW m \in Names, NEW n \in Names, Configured(new, n), new.profiles[m] = new.profiles[n] PROVE m = n
    <3>1. new.profiles[n] # NoDevice /\ new.profiles[m] # NoDevice
      BY <2>1 DEF Configured
    <3>2. n # a /\ m # a
      BY <1>8, <3>1
    <3> DEFINE x == IF n = b THEN a ELSE n
               y == IF m = b THEN a ELSE m
    <3>3. old.profiles[x] = new.profiles[n] /\ old.profiles[y] = new.profiles[m]
      BY <1>8, <3>2
    <3>4. x = y
      BY <1>1, <2>1, <3>1, <3>3 DEF Distinct, Configured
    <3> QED BY <3>2, <3>4
  <2> QED BY <2>1 DEF Distinct
<1>11. OwedOK'
  BY <1>1, <1>2, <1>10 DEF OwedOK, new
<1>12. ASSUME NEW n \in Names, NEW m \in Names, new.profiles[n] = old.profiles[m]
       PROVE  OwedBy(new, promised')[n] \subseteq OwedBy(visible[ConfigFile], promised)[m]
  <2>1. Configured(new, n) <=> Configured(old, m)
    BY <1>12 DEF Configured
  <2>2. CASE Configured(new, n)
    <3>1. OwedBy(new, promised')[n] = promised'[new.profiles[n]] /\ new.profiles[n] \in Devices
      BY <1>1, <1>3, <2>2, OwedTypes
    <3>2. OwedBy(visible[ConfigFile], promised)[m] = promised[old.profiles[m]]
      BY <1>1, <1>3, <2>1, <2>2, OwedTypes
    <3> QED BY <1>2, <1>12, <3>1, <3>2
  <2>3. CASE ~Configured(new, n)
    BY <1>1, <1>3, <2>3, OwedTypes
  <2> QED BY <2>2, <2>3
<1>13. OwedBy(new, promised')[a] = {}
  <2>1. ~Configured(new, a)
    BY <1>8 DEF Configured
  <2> QED BY <1>1, <1>3, <2>1, OwedTypes
<1>14. ASSUME NEW n \in Names
       PROVE  /\ InMemory'[n] = InMemory[n] /\ OnDisk'[n] = OnDisk[n] /\ LegacyCopies(n)' = LegacyCopies(n)
              /\ OwedBy(durable'[ConfigFile], promised')[n] \subseteq OwedBy(durable[ConfigFile], promised)[n]
              /\ Effect(t[1], n, InMemory[n], OnDisk[n], InMemory'[n], OnDisk'[n])
  BY CommitEffect DEF t
<1>15. ASSUME NEW n \in Names, n # b PROVE Spared(n)
  <2>1. OwedBy(visible'[ConfigFile], promised')[n] \subseteq OwedBy(visible[ConfigFile], promised)[n]
    <3>1. CASE n = a
      BY <1>13, <3>1 DEF new
    <3>2. CASE n # a
      BY <1>8, <1>12, <1>15, <3>2 DEF new
    <3> QED BY <3>1, <3>2
  <2> QED BY <1>14, <2>1, OwedAt DEF Spared
<1>16. Owed'[b] \subseteq OwedNow[a]
  <2>1. OwedBy(visible'[ConfigFile], promised')[b] \subseteq OwedBy(visible[ConfigFile], promised)[a]
    BY <1>7, <1>8, <1>12 DEF new
  <2>2. OwedBy(durable[ConfigFile], promised)[b] = {}
    BY <1>7, OwedAt
  <2> QED BY <1>14, <2>1, <2>2, OwedAt
<1>17. OwedNow'[a] = {}
  BY <1>13, OwedAt DEF new
<1>18. ASSUME NEW n \in Names PROVE ViewsPay(n)'
  <2>1. ViewsPay(n)
    BY DEF PayInv
  <2>2. CASE n # b
    BY <1>3, <1>14, <1>15, <2>1, <2>2, ViewsStillPay DEF Spared
  <2>3. CASE n = b
    <3>1. \A x \in {InMemory'[b], OnDisk'[b]} : Pays(Owed'[b], x)
      BY <1>7, <1>14, <1>16 DEF Pays
    <3> QED BY <1>3, <2>1, <2>3, <3>1, ViewsStillPay
  <2> QED BY <2>2, <2>3
<1>19. PlanPays(Tail(t), c, proc[p].ok, Owed', OwedNow', InMemory', OnDisk')
  <2>1. \A k \in 2 .. Len(t) : ~Commits(t[k])
    BY <1>4, <1>9
  <2>2. \A n \in Names \ {c.to} : Owed'[n] \subseteq Owed[n] /\ OwedNow'[n] \subseteq OwedNow[n]
    BY <1>6, <1>15 DEF Spared
  <2>3. c.op = "rename" /\ c.name \in Names /\ c.to \in Names /\ c.name # c.to /\ OwedNow'[c.name] = {}
    BY <1>6, <1>7, <1>17 DEF c
  <2> QED BY <1>2, <1>4, <1>14, <2>1, <2>2, <2>3, CommitTailPays
<1>20. PlansPay'
  <2>1. /\ proc'[p].at = "working" /\ proc'[p].cmd = c /\ proc'[p].todo = Tail(t) /\ proc'[p].ok = proc[p].ok
        /\ \A q \in Processes \ {p} : proc'[q] = proc[q]
    BY <1>2, StepDoneEffect DEF c, t
  <2>2. PlanPays(proc'[p].todo, proc'[p].cmd, proc'[p].ok, Owed', OwedNow', InMemory', OnDisk')
    BY <1>19, <2>1
  <2>3. PlansPay /\ Canonical(b) \in Needs(proc[p].cmd)
    BY <1>6 DEF PayInv, Needs, HistoryLocks, c
  <2> QED BY <1>4, <1>15, <2>1, <2>2, <2>3, OnlyOwnChange
<1> QED BY <1>11, <1>18, <1>20 DEF PayInv

-----------------------------------------------------------------------------
(* Plans pay when they are made.                                           *)

\* After k steps a plan replaces the canonical file of n with V; a plan begins with k steps that
\* bring the history of n, which is V, up to date.
Replaces(t, k, n, V) == /\ t[k + 1] = Step("rename", Canonical(n), V, "abort")
                        /\ t[k + 2] = Step("sync", Canonical(n), Absent, "abort")
Loads(t, k, n, V) == /\ k \in {0, 2, 3}
                     /\ k # 0 => Replaces(t, 0, n, V)
                     /\ k = 3 => t[3] = Step("unlink", Legacy(n), Absent, "abort")

\* A step that is no danger to any file.
Pure(t, i, c, o, h, v, d) ==
    ErrorsOK(t[i]) /\ ~Commits(t[i]) /\ \A m \in Names : StepPays(t, i, m, c, o, h, v, d)

\* The new file pays.
LEMMA ReplacePays ==
    ASSUME NEW t, NEW k \in Nat, NEW n \in Names, NEW V, Replaces(t, k, n, V), NEW c, NEW o, NEW h, NEW v, NEW d,
           Pays(o[n], V)
    PROVE  Pure(t, k + 1, c, o, h, v, d) /\ Pure(t, k + 2, c, o, h, v, d)
<1>1. /\ t[k + 1].do = "rename" /\ t[k + 1].file = Canonical(n) /\ t[k + 1].content = V /\ t[k + 1].onError = "abort"
      /\ t[k + 2].do = "sync" /\ t[k + 2].onError = "abort"
  BY DEF Replaces, Step
<1>2. ErrorsOK(t[k + 1]) /\ ErrorsOK(t[k + 2]) /\ ~Commits(t[k + 1]) /\ ~Commits(t[k + 2])
  BY <1>1 DEF ErrorsOK, Commits, Canonical, ConfigFile
<1>3. ASSUME NEW m \in Names PROVE StepPays(t, k + 1, m, c, o, h, v, d)
  <2>1. t[k + 1].file # Legacy(m) /\ (t[k + 1].file = Canonical(m) => m = n)
    BY <1>1 DEF Canonical, Legacy
  <2> QED BY <1>1, <2>1 DEF StepPays, Renames, Unlinks
<1>4. ASSUME NEW m \in Names PROVE StepPays(t, k + 2, m, c, o, h, v, d)
  BY <1>1 DEF StepPays, Renames, Unlinks
<1> QED BY <1>2, <1>3, <1>4 DEF Pure

\* ... and is ready afterwards.
LEMMA ReadyAfterReplace ==
    ASSUME NEW t, NEW k \in Nat, NEW n, NEW V, Replaces(t, k, n, V), NEW x, NEW v, NEW d, Pays(x, V)
    PROVE  Ready(t, k + 3, n, x, v, d)
<1>1. Renames(t[k + 1], n) /\ t[k + 1].content = V /\ Syncs(t[k + 2], "canonical")
  BY DEF Replaces, Step, Renames, Syncs, Directory, Canonical
<1> DEFINE j == k + 2
           l == k + 1
<1>2. /\ j \in 1 .. (k + 3) - 1 /\ \A y \in j + 1 .. (k + 3) - 1 : FALSE
      /\ l \in 1 .. j - 1 /\ \A y \in l + 1 .. j - 1 : FALSE
  OBVIOUS
<1> HIDE DEF j, l
<1>3. \E y \in 1 .. j - 1 : /\ Renames(t[y], n) /\ Pays(x, t[y].content)
                            /\ \A m \in y + 1 .. j - 1 : ~Touches(t[m], n)
  BY <1>1, <1>2 DEF l
<1>4. Syncs(t[j], "canonical") /\ \A y \in j + 1 .. (k + 3) - 1 : ~Touches(t[y], n)
  BY <1>1, <1>2 DEF j
<1> QED BY <1>2, <1>3, <1>4 DEF Ready

\* The steps of load_unlocked.
LEMMA LoadsPay ==
    ASSUME NEW t, NEW k, NEW n \in Names, NEW V, Loads(t, k, n, V), NEW c, NEW o, NEW h, NEW v, NEW d,
           Pays(o[n], V), NEW i \in 1 .. k
    PROVE  Pure(t, i, c, o, h, v, d)
<1>1. k \in {2, 3} /\ Replaces(t, 0, n, V) /\ (i = 1 \/ i = 2 \/ (i = 3 /\ k = 3))
  BY DEF Loads
<1>2. CASE i = 1 \/ i = 2
  <2>1. Pure(t, 0 + 1, c, o, h, v, d) /\ Pure(t, 0 + 2, c, o, h, v, d)
    BY <1>1, ReplacePays
  <2> QED BY <1>2, <2>1
<1>3. CASE i = 3 /\ k = 3
  <2>1. t[3].do = "unlink" /\ t[3].file = Legacy(n) /\ t[3].onError = "abort"
    BY <1>3 DEF Loads, Step
  <2>2. Ready(t, 3, n, o[n], v[n], d[n])
    <3>1. Ready(t, 0 + 3, n, o[n], v[n], d[n])
      BY <1>1, ReadyAfterReplace
    <3> QED BY <3>1
  <2>3. ErrorsOK(t[3]) /\ ~Commits(t[3])
    BY <2>1 DEF ErrorsOK, Commits
  <2>4. ASSUME NEW m \in Names PROVE StepPays(t, 3, m, c, o, h, v, d)
    <3>1. Unlinks(t[3], m) => m = n
      BY <2>1 DEF Unlinks, HistoryLocks, Canonical, Legacy
    <3> QED BY <2>1, <2>2, <3>1 DEF StepPays, Renames
  <2> QED BY <1>3, <2>3, <2>4 DEF Pure
<1> QED BY <1>1, <1>2, <1>3

\* t is a and then b; what this means.
Joins(t, a, b) == t = a \o b
Parts(t, a, b) == /\ Len(a) \in Nat /\ Len(b) \in Nat /\ Len(t) = Len(a) + Len(b)
                  /\ \A k \in 1 .. Len(a) : t[k] = a[k]
                  /\ \A k \in 1 .. Len(b) : t[Len(a) + k] = b[k]
Begins(t, L, Q) == /\ Len(L) \in Nat /\ \A k \in 1 .. Len(L) : t[k] = L[k]
                   /\ t[Len(L) + 1] = Q[1] /\ t[Len(L) + 2] = Q[2]

\* The steps of two parts of a plan.
LEMMA JoinedTwo ==
    ASSUME NEW S, NEW a \in Seq(S), NEW b \in Seq(S), NEW t, Joins(t, a, b)
    PROVE  t \in Seq(S) /\ Parts(t, a, b)
<1>1. t \in Seq(S) /\ Len(a) \in Nat /\ Len(b) \in Nat /\ Len(t) = Len(a) + Len(b)
  BY DEF Joins
<1>2. \A k \in 1 .. Len(a) : t[k] = a[k]
  BY DEF Joins
<1>3. \A k \in 1 .. Len(b) : t[Len(a) + k] = b[k]
  BY DEF Joins
<1> QED BY <1>1, <1>2, <1>3 DEF Parts

\* The second one may be two steps.
LEMMA JoinedPair ==
    ASSUME NEW t, NEW a, NEW b, Parts(t, a, b), Len(b) = 2
    PROVE  Begins(t, a, b) /\ Len(t) = Len(a) + 2
  BY DEF Parts, Begins

\* ... and others may follow.
LEMMA JoinedThree ==
    ASSUME NEW w, NEW t, NEW L, NEW Q, NEW R, Parts(w, L, Q), Parts(t, w, R), Len(Q) = 2
    PROVE  /\ Begins(t, L, Q) /\ Len(t) = Len(L) + 2 + Len(R) /\ Len(R) \in Nat
           /\ \A k \in 1 .. Len(R) : t[Len(L) + 2 + k] = R[k]
<1>1. /\ Len(L) \in Nat /\ Len(w) = Len(L) + 2 /\ \A k \in 1 .. Len(L) : w[k] = L[k]
  BY DEF Parts
<1>2. w[Len(L) + 1] = Q[1] /\ w[Len(L) + 2] = Q[2]
  BY DEF Parts
<1>3. Len(L) + 1 \in 1 .. Len(w) /\ Len(L) + 2 \in 1 .. Len(w) /\ \A k \in 1 .. Len(L) : k \in 1 .. Len(w)
  BY <1>1
<1>4. /\ Len(R) \in Nat /\ Len(t) = Len(w) + Len(R) /\ \A k \in 1 .. Len(w) : t[k] = w[k]
      /\ \A k \in 1 .. Len(R) : t[Len(w) + k] = R[k]
  BY DEF Parts
<1> QED BY <1>1, <1>2, <1>3, <1>4 DEF Begins

\* What load_unlocked plans, and what a plan that begins with it does.
LEMMA PlanLoads ==
    ASSUME NEW n, NEW t, NEW L, L = LoadPlan(n), \A k \in 1 .. Len(L) : t[k] = L[k]
    PROVE  Len(L) \in Nat /\ Loads(t, Len(L), n, View(n))
<1> DEFINE a == Step("rename", Canonical(n), View(n), "abort")
           b == Step("sync", Canonical(n), Absent, "abort")
           u == Step("unlink", Legacy(n), Absent, "abort")
<1>1. L = <<a, b>> \o <<u>> \/ L = <<a, b>> \/ L = <<>>
  BY DEF LoadPlan, Replace, Unlink
<1> HIDE DEF a, b, u
<1>2. \/ Len(L) = 3 /\ L[1] = a /\ L[2] = b /\ L[3] = u
      \/ Len(L) = 2 /\ L[1] = a /\ L[2] = b
      \/ Len(L) = 0
  BY <1>1
<1>3. Len(L) # 0 => t[0 + 1] = a /\ t[0 + 2] = b
  BY <1>2
<1>4. Len(L) = 3 => t[3] = u
  BY <1>2
<1>5. Len(L) \in {0, 2, 3}
  BY <1>2
<1>6. Loads(t, Len(L), n, View(n))
  BY <1>3, <1>4, <1>5 DEF Loads, Replaces, a, b, u
<1> QED BY <1>5, <1>6

\* A plan that begins with it and replaces a file.
LEMMA LoadAndReplace ==
    ASSUME NEW n, NEW m, NEW V, NEW L, NEW Q, L = LoadPlan(n), Q = Replace(Canonical(m), V, "abort"), NEW t,
           Begins(t, L, Q)
    PROVE  Len(L) \in Nat /\ Loads(t, Len(L), n, View(n)) /\ Replaces(t, Len(L), m, V)
<1>1. Len(L) \in Nat /\ Loads(t, Len(L), n, View(n))
  BY PlanLoads DEF Begins
<1>2. Q[1] = Step("rename", Canonical(m), V, "abort") /\ Q[2] = Step("sync", Canonical(m), Absent, "abort")
  BY DEF Replace
<1>3. Replaces(t, Len(L), m, V)
  BY <1>2 DEF Begins, Replaces
<1> QED BY <1>1, <1>3

\* The steps of both.
LEMMA LoadAndReplacePays ==
    ASSUME NEW t, NEW k \in Nat, NEW n \in Names, NEW m \in Names, NEW V, NEW W, Loads(t, k, n, V), Replaces(t, k, m, W),
           NEW c, NEW o, NEW h, NEW v, NEW d, Pays(o[n], V), Pays(o[m], W), NEW i \in 1 .. k + 2
    PROVE  Pure(t, i, c, o, h, v, d)
<1>1. CASE i \in 1 .. k
  BY <1>1, LoadsPay
<1>2. CASE i = k + 1 \/ i = k + 2
  BY <1>2, ReplacePays
<1>3. i \in 1 .. k \/ i = k + 1 \/ i = k + 2
  OBVIOUS
<1> QED BY <1>1, <1>2, <1>3

\* A plan all of whose steps are such.
LEMMA PurePays ==
    ASSUME NEW t, NEW c, NEW ok, NEW o, NEW h, NEW v, NEW d, \A i \in 1 .. Len(t) : Pure(t, i, c, o, h, v, d),
           c.op = "upsert" /\ ok => Ready(t, Len(t) + 1, c.name, {c.entry}, v[c.name], d[c.name])
    PROVE  PlanPays(t, c, ok, o, h, v, d)
  BY DEF PlanPays, Pure

\* What load() returns pays.
LEMMA ViewPays ==
    ASSUME TypeInv, NEW n \in Names, ViewsPay(n)
    PROVE  /\ Pays(Owed[n], View(n)) /\ View(n) \in Histories /\ View(n) \in Retained
           /\ Owed[n] \in SUBSET Entries /\ OwedNow[n] \in SUBSET Owed[n]
<1>1. View(n) = MergeEntries(Held(visible[Legacy(n)]), Held(visible[Canonical(n)]))
  BY ViewHolds
<1>2. Held(visible[Legacy(n)]) \in LegacyCopies(n) /\ InMemory[n] = Held(visible[Canonical(n)])
  BY OwedAt DEF LegacyCopies
<1>3. View(n) \in Retained
  BY HistoryTypes
<1> QED BY <1>1, <1>2, <1>3, OwedIsTyped DEF ViewsPay, Retained

\* Where there is no file, nothing is owed and there is nothing to bring up to date.
LEMMA NoFileNothingOwed ==
    ASSUME TypeInv, NEW n \in Names, ViewsPay(n), ~AnyPathExists(n)
    PROVE  Owed[n] = {} /\ LoadPlan(n) = <<>>
<1>1. Content(Canonical(n)) = {} /\ Content(Legacy(n)) = {} /\ ~Present(Legacy(n))
  BY DEF AnyPathExists, Content
<1>2. View(n) = {}
  BY <1>1 DEF View, MergeEntries, Newest
<1>3. Owed[n] = {}
  BY <1>2, ViewPays, NothingPays
<1>4. LoadPlan(n) = <<>>
  BY <1>1, <1>2 DEF LoadPlan
<1> QED BY <1>3, <1>4

\* load
LEMMA LoadPlanPays ==
    ASSUME TypeInv, NEW c, NEW n \in Names, c.op # "upsert", ViewsPay(n), NEW ok, NEW t, t = LoadPlan(n)
    PROVE  PlanPays(t, c, ok, Owed, OwedNow, InMemory, OnDisk)
<1>1. Len(t) \in Nat /\ Loads(t, Len(t), n, View(n))
  BY PlanLoads
<1>2. Pays(Owed[n], View(n))
  BY ViewPays
<1>3. \A i \in 1 .. Len(t) : Pure(t, i, c, Owed, OwedNow, InMemory, OnDisk)
  BY <1>1, <1>2, LoadsPay
<1> QED BY <1>3, PurePays

\* upsert
LEMMA UpsertPlanPays ==
    ASSUME TypeInv, NEW c \in Commands, Begun(c), c.op = "upsert", ViewsPay(c.name), NEW ok,
           c.entry.status = "final" \/ c.entry.id \notin Ids(View(c.name))
    PROVE  PlanPays(UpsertPlan(c.name, c.entry), c, ok, Owed, OwedNow, InMemory, OnDisk)
<1> DEFINE n == c.name
           e == c.entry
           V == Newest({x \in View(n) : x.id # e.id} \cup {e})
           S == StepsOf(c)
           t == UpsertPlan(n, e)
<1>1. n \in Names /\ HistoryLocks(n) \subseteq Needs(c) /\ e \in Entries
  BY DEF Begun, Needs
<1>2. Pays(Owed[n], View(n)) /\ View(n) \in Histories /\ Owed[n] \in SUBSET Entries
  BY <1>1, ViewPays
<1>3. V \in Retained
  BY <1>1, <1>2, UpsertedIsRetained
<1>4. Pays(Owed[n], V) /\ Pays({e}, V)
  BY <1>1, <1>2, UpsertPays, UpsertStores
<1>5. PICK L, Q : L = LoadPlan(n) /\ Q = Replace(Canonical(n), V, "abort")
  OBVIOUS
<1>6. Joins(t, L, Q)
  BY <1>5 DEF UpsertPlan, Joins
<1>7. L \in Seq(S)
  BY <1>1, <1>5, HistoryPlans
<1>8. Q \in Seq(S)
  <2>1. Canonical(n) \in Needs(c) /\ Fits(Canonical(n), V)
    BY <1>1, <1>3 DEF HistoryLocks, Fits, Directory, Canonical, ConfigFile
  <2> QED BY <1>5, <2>1, ReplaceSteps
<1>9. Len(Q) = 2
  BY <1>5 DEF Replace
<1> HIDE DEF V, S, t
<1>10. Begins(t, L, Q) /\ Len(t) = Len(L) + 2
  BY <1>6, <1>7, <1>8, <1>9, JoinedTwo, JoinedPair
<1>11. Len(L) \in Nat /\ Loads(t, Len(L), n, View(n)) /\ Replaces(t, Len(L), n, V)
  BY <1>5, <1>10, LoadAndReplace
<1>12. Ready(t, Len(t) + 1, n, {e}, InMemory[n], OnDisk[n])
  <2>1. Ready(t, Len(L) + 3, n, {e}, InMemory[n], OnDisk[n])
    BY <1>4, <1>11, ReadyAfterReplace
  <2>2. Len(t) + 1 = Len(L) + 3
    BY <1>10, <1>11
  <2> QED BY <2>1, <2>2
<1>13. \A i \in 1 .. Len(t) : Pure(t, i, c, Owed, OwedNow, InMemory, OnDisk)
  BY <1>1, <1>2, <1>4, <1>10, <1>11, LoadAndReplacePays
<1>14. PlanPays(t, c, ok, Owed, OwedNow, InMemory, OnDisk)
  BY <1>12, <1>13, PurePays
<1> QED BY <1>14 DEF t

\* clear
LEMMA ClearPlanPays ==
    ASSUME NEW c, c.op = "clear", NEW n, NEW ok, NEW o, NEW h, NEW v, NEW d
    PROVE  PlanPays(ClearPlan(n), c, ok, o, h, v, d)
<1> DEFINE t == ClearPlan(n)
<1>1. /\ Len(t) = 2 /\ t[1] = Step("unlink", Canonical(n), Absent, "next")
      /\ t[2] = Step("unlink", Legacy(n), Absent, "next")
  BY DEF ClearPlan, Unlink
<1> HIDE DEF t
<1>2. ASSUME NEW i \in 1 .. Len(t) PROVE t[i].do = "unlink" /\ t[i].onError = "next"
  <2>1. i = 1 \/ i = 2
    BY <1>1
  <2> QED BY <1>1, <2>1 DEF Step
<1>3. \A i \in 1 .. Len(t) : Pure(t, i, c, o, h, v, d)
  BY <1>2 DEF Pure, ErrorsOK, Commits, StepPays, Renames
<1>4. PlanPays(t, c, ok, o, h, v, d)
  BY <1>3, PurePays
<1> QED BY <1>4 DEF t

\* copy_to: nothing is owed where there is no file.
LEMMA CopyPlanPays ==
    ASSUME TypeInv, NEW c \in Commands, Begun(c), c.op = "copy", ViewsPay(c.name), ViewsPay(c.to), NEW ok,
           ~AnyPathExists(c.to)
    PROVE  PlanPays(CopyPlan(c.name, c.to), c, ok, Owed, OwedNow, InMemory, OnDisk)
<1> DEFINE n == c.name
           m == c.to
           S == StepsOf(c)
           t == CopyPlan(n, m)
<1>1. /\ n \in Names /\ m \in Names /\ HistoryLocks(n) \subseteq Needs(c) /\ HistoryLocks(m) \subseteq Needs(c)
  BY DEF Begun, Needs
<1>2. Pays(Owed[n], View(n)) /\ View(n) \in Retained /\ Owed[m] = {}
  BY <1>1, ViewPays, NoFileNothingOwed
<1>3. PICK L, Q : L = LoadPlan(n) /\ Q = Replace(Canonical(m), View(n), "abort")
  OBVIOUS
<1>4. L \in Seq(S)
  BY <1>1, <1>3, HistoryPlans
<1>5. CASE AnyPathExists(n)
  <2>1. Joins(t, L, Q)
    BY <1>3, <1>5 DEF CopyPlan, Joins
  <2>2. Q \in Seq(S)
    <3>1. Canonical(m) \in Needs(c) /\ Fits(Canonical(m), View(n))
      BY <1>1, <1>2 DEF HistoryLocks, Fits, Directory, Canonical, ConfigFile
    <3> QED BY <1>3, <3>1, ReplaceSteps
  <2>3. Len(Q) = 2
    BY <1>3 DEF Replace
  <2> HIDE DEF S, t
  <2>4. Begins(t, L, Q) /\ Len(t) = Len(L) + 2
    BY <1>4, <2>1, <2>2, <2>3, JoinedTwo, JoinedPair
  <2>5. Len(L) \in Nat /\ Loads(t, Len(L), n, View(n)) /\ Replaces(t, Len(L), m, View(n))
    BY <1>3, <2>4, LoadAndReplace
  <2>6. Pays(Owed[m], View(n))
    BY <1>2, NothingOwed
  <2>7. \A i \in 1 .. Len(t) : Pure(t, i, c, Owed, OwedNow, InMemory, OnDisk)
    BY <1>1, <1>2, <2>4, <2>5, <2>6, LoadAndReplacePays
  <2>8. PlanPays(t, c, ok, Owed, OwedNow, InMemory, OnDisk)
    BY <2>7, PurePays
  <2> QED BY <2>8 DEF t
<1>6. CASE ~AnyPathExists(n)
  <2>1. L = <<>>
    BY <1>1, <1>3, <1>6, NoFileNothingOwed
  <2>2. t = L
    <3>1. t = L \o <<>>
      BY <1>3, <1>6 DEF CopyPlan
    <3> QED BY <2>1, <3>1
  <2> QED BY <1>1, <1>3, <2>2, LoadPlanPays
<1> QED BY <1>5, <1>6

\* After K steps a plan commits the configuration, syncs it and clears the files of n.
Moves(t, K, n) ==
    /\ Len(t) = K + 4 /\ Commits(t[K + 1]) /\ t[K + 1].onError # "next"
    /\ Syncs(t[K + 2], "config") /\ t[K + 2].onError # "next"
    /\ t[K + 3] = Step("unlink", Canonical(n), Absent, "next")
    /\ t[K + 4] = Step("unlink", Legacy(n), Absent, "next")

\* Such a plan pays if its first steps do and leave the new name ready.
LEMMA MovesPay ==
    ASSUME NEW t, NEW K \in Nat, NEW c, c.op = "rename", c.name \in Names, c.to # c.name, Moves(t, K, c.name),
           NEW ok, NEW o, NEW h, NEW v, NEW d, \A i \in 1 .. K : Pure(t, i, c, o, h, v, d),
           o[c.to] = {}, Ready(t, K + 1, c.to, h[c.name], v[c.to], d[c.to])
    PROVE  PlanPays(t, c, ok, o, h, v, d)
<1> DEFINE n == c.name
<1>1. /\ Len(t) = K + 4 /\ t[K + 1].do = "rename" /\ t[K + 1].file = ConfigFile /\ t[K + 1].onError # "next"
      /\ t[K + 2].do = "sync" /\ t[K + 2].onError # "next"
      /\ t[K + 3].do = "unlink" /\ t[K + 3].onError = "next" /\ t[K + 3].file \in HistoryLocks(n)
      /\ t[K + 4].do = "unlink" /\ t[K + 4].onError = "next" /\ t[K + 4].file \in HistoryLocks(n)
  BY DEF Moves, Commits, Syncs, Step, HistoryLocks
<1>2. \A i \in 1 .. Len(t) : i \in 1 .. K \/ i = K + 1 \/ i = K + 2 \/ i = K + 3 \/ i = K + 4
  BY <1>1
<1>3. ASSUME NEW i \in 1 .. Len(t) PROVE ErrorsOK(t[i])
  BY <1>1, <1>2 DEF Pure, ErrorsOK, Commits
<1>4. ASSUME NEW i \in {K + 3, K + 4}, NEW x, NEW y PROVE Settled(t, i, x, y)
  <2>1. K + 2 \in 1 .. i - 1 /\ K + 1 \in 1 .. (K + 2) - 1
    OBVIOUS
  <2>2. Syncs(t[K + 2], "config") /\ Commits(t[K + 1])
    BY DEF Moves
  <2> DEFINE j == K + 2
             l == K + 1
  <2> HIDE DEF j, l
  <2>3. j \in 1 .. i - 1 /\ l \in 1 .. j - 1 /\ Syncs(t[j], "config") /\ Commits(t[l])
    BY <2>1, <2>2 DEF j, l
  <2> QED BY <2>3 DEF Settled
<1>5. ASSUME NEW i \in 1 .. Len(t), NEW m \in Names PROVE StepPays(t, i, m, c, o, h, v, d)
  <2>1. CASE i \in 1 .. K
    BY <2>1 DEF Pure
  <2>2. CASE i = K + 1
    <3>1. ConfigFile # Legacy(m) /\ ConfigFile # Canonical(m)
      BY DEF ConfigFile, Legacy, Canonical
    <3> QED BY <1>1, <2>2, <3>1 DEF StepPays, Renames, Unlinks
  <2>3. CASE i = K + 2
    BY <1>1, <2>3 DEF StepPays, Renames, Unlinks
  <2>4. CASE i = K + 3 \/ i = K + 4
    <3>1. t[i].do = "unlink" /\ t[i].onError = "next" /\ t[i].file \in HistoryLocks(n)
      BY <1>1, <2>4
    <3>2. Unlinks(t[i], m) => m = n
      BY <3>1 DEF Unlinks, HistoryLocks, Canonical, Legacy
    <3>3. Settled(t, i, o[m], h[m])
      BY <1>4, <2>4
    <3> QED BY <3>1, <3>2, <3>3 DEF StepPays, Renames
  <2> QED BY <1>2, <2>1, <2>2, <2>3, <2>4
<1>6. ASSUME NEW i \in 1 .. Len(t), Commits(t[i]) PROVE CommitPays(t, i, c, o, h, v, d)
  <2>1. i = K + 1
    BY <1>1, <1>2, <1>6 DEF Pure, Commits
  <2>2. ASSUME NEW j \in i + 1 .. Len(t), t[j].do \in {"rename", "unlink"}
        PROVE  t[j].do = "unlink" /\ t[j].onError = "next" /\ t[j].file \in HistoryLocks(n)
    <3>1. j = K + 2 \/ j = K + 3 \/ j = K + 4
      BY <1>1, <2>1
    <3> QED BY <1>1, <2>2, <3>1
  <2> QED BY <2>1, <2>2 DEF CommitPays
<1> QED BY <1>3, <1>5, <1>6 DEF PlanPays

\* rename
LEMMA MovePlanPays ==
    ASSUME TypeInv, NEW c \in Commands, Begun(c), c.op = "rename", ~Refused(c), ViewsPay(c.name), ViewsPay(c.to), NEW ok
    PROVE  PlanPays(ConfigPlan(c), c, ok, Owed, OwedNow, InMemory, OnDisk)
<1> DEFINE n == c.name
           m == c.to
           S == StepsOf(c)
           undo == IF AnyPathExists(n) THEN "undo" ELSE "abort"
           new == Renamed(Loaded, c)
           t == ConfigPlan(c)
<1>1. /\ n \in Names /\ m \in Names /\ HistoryLocks(n) \subseteq Needs(c) /\ HistoryLocks(m) \subseteq Needs(c)
      /\ ConfigFile \in Needs(c)
  BY DEF Begun, Needs, ConfigOps
<1>2. ~AnyPathExists(m) /\ n # m
  BY DEF Refused
<1>3. Pays(Owed[n], View(n)) /\ View(n) \in Retained /\ Owed[m] = {} /\ OwedNow[n] \in SUBSET Owed[n]
  BY <1>1, <1>2, ViewPays, NoFileNothingOwed
<1>4. new \in Configs
  BY UpdatedIsConfig DEF Updated, ConfigOps
<1>5. PICK A, B, R : A = CopyPlan(n, m) /\ B = Replace(ConfigFile, new, undo) /\ R = ClearPlan(n)
  OBVIOUS
<1>6. PICK w : Joins(w, A, B)
  BY DEF Joins
<1>7. Joins(t, w, R)
  BY <1>5, <1>6 DEF ConfigPlan, MovePlan, Joins
<1>8. A \in Seq(S) /\ R \in Seq(S)
  BY <1>1, <1>5, CopySteps, HistoryPlans
<1>9. B \in Seq(S) /\ Len(B) = 2 /\ B[1] = Step("rename", ConfigFile, new, undo) /\ B[2] = Step("sync", ConfigFile, Absent, undo)
  <2>1. Fits(ConfigFile, new)
    BY <1>4 DEF Fits
  <2>2. B \in Seq(S)
    BY <1>1, <1>5, <2>1, ReplaceSteps
  <2> QED BY <1>5, <2>2 DEF Replace
<1>10. /\ Len(R) = 2 /\ R[1] = Step("unlink", Canonical(n), Absent, "next")
       /\ R[2] = Step("unlink", Legacy(n), Absent, "next")
  BY <1>5 DEF ClearPlan, Unlink
<1> HIDE DEF t, S, new
<1>11. w \in Seq(S) /\ Parts(w, A, B)
  BY <1>6, <1>8, <1>9, JoinedTwo
<1>12. Parts(t, w, R)
  BY <1>7, <1>8, <1>11, JoinedTwo
<1>13. /\ Begins(t, A, B) /\ Len(t) = Len(A) + 2 + Len(R) /\ \A k \in 1 .. Len(R) : t[Len(A) + 2 + k] = R[k]
  BY <1>9, <1>11, <1>12, JoinedThree
<1>14. PICK K : K = Len(A)
  OBVIOUS
<1>15. /\ K \in Nat /\ Len(t) = K + 4 /\ t[K + 1] = B[1] /\ t[K + 2] = B[2] /\ t[K + 3] = R[1] /\ t[K + 4] = R[2]
       /\ \A k \in 1 .. K : t[k] = A[k]
  <2>1. K \in Nat /\ Len(t) = K + 4 /\ t[K + 1] = B[1] /\ t[K + 2] = B[2] /\ \A k \in 1 .. K : t[k] = A[k]
    BY <1>10, <1>13, <1>14 DEF Begins
  <2>2. t[K + 2 + 1] = R[1] /\ t[K + 2 + 2] = R[2]
    BY <1>10, <1>13, <1>14
  <2>3. K + 2 + 1 = K + 3 /\ K + 2 + 2 = K + 4
    BY <2>1
  <2> QED BY <2>1, <2>2, <2>3
<1>16. Moves(t, K, n)
  <2>1. Commits(B[1]) /\ B[1].onError # "next" /\ Syncs(B[2], "config") /\ B[2].onError # "next"
    BY <1>9 DEF Commits, Syncs, Step, Directory, ConfigFile
  <2> QED BY <1>10, <1>15, <2>1 DEF Moves
<1>17. /\ \A i \in 1 .. K : Pure(t, i, c, Owed, OwedNow, InMemory, OnDisk)
       /\ Ready(t, K + 1, m, OwedNow[n], InMemory[m], OnDisk[m])
  <2>1. CASE AnyPathExists(n)
    <3>1. PICK L, Q : L = LoadPlan(n) /\ Q = Replace(Canonical(m), View(n), "abort")
      OBVIOUS
    <3>2. Joins(A, L, Q)
      BY <1>5, <2>1, <3>1 DEF CopyPlan, Joins
    <3>3. L \in Seq(S)
      BY <1>1, <3>1, HistoryPlans DEF S
    <3>4. Q \in Seq(S)
      <4>1. Canonical(m) \in Needs(c) /\ Fits(Canonical(m), View(n))
        BY <1>1, <1>3 DEF HistoryLocks, Fits, Directory, Canonical, ConfigFile
      <4> QED BY <3>1, <4>1, ReplaceSteps DEF S
    <3>5. Len(Q) = 2
      BY <3>1 DEF Replace
    <3>6. Begins(A, L, Q) /\ K = Len(L) + 2
      BY <1>14, <3>2, <3>3, <3>4, <3>5, JoinedTwo, JoinedPair
    <3>7. Begins(t, L, Q)
      <4>1. Len(L) \in Nat /\ \A k \in 1 .. Len(L) : k \in 1 .. K
        BY <3>6 DEF Begins
      <4>2. Len(L) + 1 \in 1 .. K /\ Len(L) + 2 \in 1 .. K
        BY <3>6, <4>1
      <4> QED BY <1>15, <3>6, <4>1, <4>2 DEF Begins
    <3>8. Len(L) \in Nat /\ Loads(t, Len(L), n, View(n)) /\ Replaces(t, Len(L), m, View(n))
      BY <3>1, <3>7, LoadAndReplace
    <3>9. Pays(Owed[m], View(n)) /\ Pays(OwedNow[n], View(n))
      BY <1>3 DEF Pays
    <3>10. \A i \in 1 .. Len(L) + 2 : Pure(t, i, c, Owed, OwedNow, InMemory, OnDisk)
      BY <1>1, <1>3, <3>8, <3>9, LoadAndReplacePays
    <3>11. Ready(t, Len(L) + 3, m, OwedNow[n], InMemory[m], OnDisk[m])
      BY <3>8, <3>9, ReadyAfterReplace
    <3>12. K + 1 = Len(L) + 3
      BY <3>6, <3>8
    <3> QED BY <3>6, <3>10, <3>11, <3>12
  <2>2. CASE ~AnyPathExists(n)
    <3>1. LoadPlan(n) = <<>> /\ Owed[n] = {}
      BY <1>1, <2>2, NoFileNothingOwed
    <3>2. A = <<>> \o <<>>
      BY <1>5, <2>2, <3>1 DEF CopyPlan
    <3>3. K = 0
      BY <1>14, <3>2
    <3>4. Pays(OwedNow[n], InMemory[m]) /\ Pays(OwedNow[n], OnDisk[m])
      BY <1>3, <3>1 DEF Pays
    <3>5. \A i \in 1 .. K : FALSE
      BY <3>3
    <3>6. Ready(t, K + 1, m, OwedNow[n], InMemory[m], OnDisk[m])
      BY <3>3, <3>4 DEF Ready
    <3> QED BY <3>5, <3>6
  <2> QED BY <2>1, <2>2
<1>18. PlanPays(t, c, ok, Owed, OwedNow, InMemory, OnDisk)
  BY <1>1, <1>2, <1>3, <1>15, <1>16, <1>17, MovesPay
<1> QED BY <1>18 DEF t

\* The other commands on the configuration.
LEMMA ConfigPlanPays ==
    ASSUME TypeInv, NEW c \in Commands, Begun(c), c.op \in ConfigOps \ {"rename"}, ~RefusedHere(c), NEW ok
    PROVE  PlanPays(Plan(c), c, ok, Owed, OwedNow, InMemory, OnDisk)
<1> DEFINE t == Plan(c)
           b == Step("backup", ConfigFile, visible[ConfigFile], "abort")
           r == Step("rename", ConfigFile, Updated(Loaded, c), "abort")
           y == Step("sync", ConfigFile, Absent, "abort")
<1>1. t \in Seq(StepsOf(c))
  BY PlanSteps
<1>2. t = ConfigPlan(c)
  BY DEF Plan, ConfigOps
<1>3. t = <<b>> \o <<r, y>> \/ t = <<>> \o <<r, y>> \/ t = <<r, y>>
  BY <1>2 DEF ConfigPlan, BackupPlan, Replace
<1>4. b.onError = "abort" /\ r.onError = "abort" /\ y.onError = "abort"
  BY DEF Step
<1> HIDE DEF t, b, r, y
<1>5. \/ Len(t) = 3 /\ t[1] = b /\ t[2] = r /\ t[3] = y
      \/ Len(t) = 2 /\ t[1] = r /\ t[2] = y
  BY <1>3
<1>6. ASSUME NEW i \in 1 .. Len(t) PROVE ErrorsOK(t[i])
  <2>1. t[i].onError = "abort"
    BY <1>4, <1>5
  <2> QED BY <2>1 DEF ErrorsOK
<1>7. PlanPays(t, c, ok, Owed, OwedNow, InMemory, OnDisk)
  BY <1>1, <1>6, ConfigOnlyPays
<1> QED BY <1>7 DEF t

\* ReadAndPlan
LEMMA ReadAndPlanPays ==
    ASSUME LockInv, LockInv', IdsInv, PayInv, NEW p \in Processes, ReadAndPlan(p)
    PROVE  PayInv'
<1> DEFINE c == proc[p].cmd
<1>1. /\ proc'[p].cmd = c /\ proc'[p].todo = Plan(c)
      /\ \A q \in Processes \ {p} : proc'[q] = proc[q]
      /\ proc[p].at = "locking" /\ c \in Commands /\ Begun(c) /\ ~RefusedHere(c)
      /\ UNCHANGED <<visible, durable>>
  BY ReadAndPlanEffect
<1>2. promised' = promised
  BY DEF ReadAndPlan
<1>3. TypeInv /\ \A n \in Names : ViewsPay(n)
  BY DEF LockInv, PayInv
<1>4. c.op # "mqtt" => c.name \in Names /\ c.to \in Names
  BY <1>1 DEF Begun
<1>5. ASSUME NEW ok PROVE PlanPays(Plan(c), c, ok, Owed, OwedNow, InMemory, OnDisk)
  <2>1. CASE c.op = "load"
    <3>1. Plan(c) = LoadPlan(c.name)
      BY <2>1 DEF Plan
    <3> QED BY <1>3, <1>4, <2>1, <3>1, LoadPlanPays
  <2>2. CASE c.op = "upsert"
    <3>1. Plan(c) = UpsertPlan(c.name, c.entry) /\ c.name \in Names /\ c.entry \in Entries
      BY <1>1, <1>4, <2>2 DEF Plan, Begun
    <3>2. c.entry.status = "final" \/ c.entry.id \notin Ids(View(c.name))
      <4>1. CASE c.entry.status = "pending"
        <5>1. ~Used(c.entry.id)
          BY <1>1, <4>1 DEF IdsInv, Fresh
        <5>2. Canonical(c.name) \in HistoryFiles /\ Legacy(c.name) \in HistoryFiles
          BY <3>1 DEF HistoryFiles
        <5>3. /\ c.entry.id \notin Ids(Held(visible[Canonical(c.name)]))
              /\ c.entry.id \notin Ids(Held(visible[Legacy(c.name)]))
          BY <5>1, <5>2 DEF Used
        <5>4. \A x \in View(c.name) : x \in Held(visible[Legacy(c.name)]) \/ x \in Held(visible[Canonical(c.name)])
          BY <1>3, <3>1, ViewHolds
        <5> QED BY <5>3, <5>4 DEF Ids
      <4>2. c.entry.status \in {"pending", "final"}
        BY <3>1 DEF Entries
      <4> QED BY <4>1, <4>2
    <3> QED BY <1>1, <1>3, <2>2, <3>1, <3>2, UpsertPlanPays
  <2>3. CASE c.op = "clear"
    <3>1. Plan(c) = ClearPlan(c.name)
      BY <2>3 DEF Plan
    <3> QED BY <2>3, <3>1, ClearPlanPays
  <2>4. CASE c.op = "copy"
    <3>1. Plan(c) = CopyPlan(c.name, c.to) /\ ~AnyPathExists(c.to) /\ c.name \in Names /\ c.to \in Names
      BY <1>1, <1>4, <2>4 DEF Plan, RefusedHere
    <3> QED BY <1>1, <1>3, <2>4, <3>1, CopyPlanPays
  <2>5. CASE c.op = "rename"
    <3>1. Plan(c) = ConfigPlan(c) /\ ~Refused(c) /\ c.name \in Names /\ c.to \in Names
      BY <1>1, <1>4, <2>5 DEF Plan, RefusedHere, ConfigOps
    <3> QED BY <1>1, <1>3, <2>5, <3>1, MovePlanPays
  <2>6. CASE c.op \in ConfigOps \ {"rename"}
    BY <1>1, <1>3, <2>6, ConfigPlanPays
  <2>7. c.op \in Ops /\ c.op # "none"
    BY <1>1 DEF Begun, Commands
  <2> QED BY <2>1, <2>2, <2>3, <2>4, <2>5, <2>6, <2>7 DEF Ops
<1>6. Owed' = Owed /\ OwedNow' = OwedNow /\ InMemory' = InMemory /\ OnDisk' = OnDisk
      /\ \A n \in Names : LegacyCopies(n)' = LegacyCopies(n)
  BY <1>1, <1>2 DEF Owed, OwedNow, InMemory, OnDisk, LegacyCopies
<1>7. OwedOK' /\ \A n \in Names : ViewsPay(n)'
  BY <1>1, <1>2, <1>6 DEF PayInv, OwedOK, ViewsPay
<1> HIDE DEF c
<1>8. PlanPays(proc'[p].todo, proc'[p].cmd, proc'[p].ok, Owed', OwedNow', InMemory', OnDisk')
  BY <1>1, <1>5, <1>6
<1>9. ASSUME NEW q \in Processes, proc'[q].at = "working"
      PROVE  PlanPays(proc[q].todo, proc[q].cmd, proc[q].ok, Owed, OwedNow, InMemory, OnDisk)'
  <2>1. CASE q = p
    BY <1>8, <2>1
  <2>2. CASE q # p
    <3>1. proc'[q] = proc[q]
      BY <1>1, <2>2
    <3>2. PlanPays(proc[q].todo, proc[q].cmd, proc[q].ok, Owed, OwedNow, InMemory, OnDisk)
      BY <1>9, <3>1 DEF PayInv, PlansPay
    <3> QED BY <1>6, <3>1, <3>2
  <2> QED BY <2>1, <2>2
<1> QED BY <1>7, <1>9 DEF PayInv, PlansPay

-----------------------------------------------------------------------------
(* The histories in every behaviour.                                       *)

\* An initial configuration file names no device twice.
LEMMA InitialIsDistinct ==
    ASSUME NEW config \in InitialConfigs
    PROVE  Distinct(ConfigOf(config))
<1>1. 1 \in Names
  BY StoreAssumption
<1>2. CASE config = Absent
  <2>1. \A n \in Names : ~Configured(DefaultConfig, n)
    BY DEF DefaultConfig, Config, Configured
  <2> QED BY <1>2, <2>1 DEF ConfigOf, Distinct
<1>3. CASE config # Absent
  <2> DEFINE dev == Unused(DefaultConfig)
             profiles == [n \in Names |-> IF n = 1 THEN dev ELSE NoDevice]
  <2>1. PICK f \in Formats : config = Config(f, profiles, 1)
    BY <1>3 DEF InitialConfigs
  <2>2. config.profiles = profiles
    BY <2>1 DEF Config
  <2>3. \A n \in Names : n # 1 => config.profiles[n] = NoDevice
    BY <2>2
  <2>4. ASSUME NEW m \in Names, NEW n \in Names, Configured(config, n), config.profiles[m] = config.profiles[n]
        PROVE  m = n
    BY <2>3, <2>4 DEF Configured
  <2> QED BY <1>3, <2>4 DEF ConfigOf, Distinct
<1> QED BY <1>2, <1>3

\* What is owed at the start is what the history under a name holds.
LEMMA InitPays ==
    ASSUME Init
    PROVE  PayInv
<1>1. TypeInv
  BY InitLockInv DEF LockInv
<1>2. PICK config \in InitialConfigs, old \in {Absent, InitialHistory} :
        visible = [f \in Files |-> CASE f = ConfigFile -> config
                                      [] Directory(f) = "legacy" -> old
                                      [] OTHER -> Absent]
  BY DEF Init
<1>3. visible[ConfigFile] = config
  <2>1. ConfigFile \in Files /\ Directory(ConfigFile) # "legacy"
    BY DEF Files, Directory, ConfigFile
  <2> QED BY <1>2, <2>1
<1>4. durable = visible
  BY DEF Init
<1>5. Loaded = ConfigOf(config)
  BY <1>3 DEF Loaded, Present, ConfigOf
<1>6. Distinct(ConfigOf(config))
  BY InitialIsDistinct
<1>7. \A d \in Devices : promised[d] = UNION {View(n) : n \in {m \in Names : Loaded.profiles[m] = d}}
  BY DEF Init
<1>8. OwedOK
  <2>1. ASSUME NEW d \in Devices, promised[d] # {} PROVE \E n \in Names : ConfigOf(config).profiles[n] = d
    BY <1>5, <1>7, <2>1
  <2> QED BY <1>3, <1>4, <1>6, <2>1 DEF OwedOK
<1>9. ASSUME NEW n \in Names PROVE ViewsPay(n)
  <2>1. Owed[n] = OwedBy(config, promised)[n]
    BY <1>3, <1>4, OwedAt
  <2>2. config \in Configs \cup {Absent} /\ promised \in [Devices -> SUBSET Entries]
    BY <1>1, <1>3, DiskTypes DEF TypeInv
  <2>3. Owed[n] \subseteq View(n)
    <3>1. CASE ~Configured(ConfigOf(config), n)
      BY <2>1, <2>2, <3>1, OwedTypes
    <3>2. CASE Configured(ConfigOf(config), n)
      <4>1. ConfigOf(config).profiles[n] \in Devices /\ Owed[n] = promised[ConfigOf(config).profiles[n]]
        BY <2>1, <2>2, <3>2, OwedTypes
      <4>2. \A m \in Names : Loaded.profiles[m] = ConfigOf(config).profiles[n] => m = n
        BY <1>5, <1>6, <3>2 DEF Distinct
      <4> QED BY <1>7, <4>1, <4>2
    <3> QED BY <3>1, <3>2
  <2>4. View(n) = MergeEntries(Held(visible[Legacy(n)]), Held(visible[Canonical(n)]))
    BY <1>1, ViewHolds
  <2>5. Pays(Owed[n], View(n))
    BY <2>3 DEF Pays, Covers
  <2>6. \A l \in LegacyCopies(n) : l = Held(visible[Legacy(n)])
    BY <1>4 DEF LegacyCopies
  <2>7. \A c \in {InMemory[n], OnDisk[n]} : c = Held(visible[Canonical(n)])
    BY <1>4, OwedAt
  <2> QED BY <2>4, <2>5, <2>6, <2>7 DEF ViewsPay
<1>10. PlansPay
  <2>1. \A p \in Processes : proc[p] = Idle
    BY DEF Init
  <2>2. Idle.at # "working"
    BY DEF Idle
  <2> QED BY <2>1, <2>2 DEF PlansPay
<1> QED BY <1>8, <1>9, <1>10 DEF PayInv

\* Every step keeps PayInv, while directories can be synced.
LEMMA PayInvKept ==
    ASSUME LockInv, LockInv', ConfigInv, IdsInv, PayInv, [Next]_vars, "sync" \notin Faults
    PROVE  PayInv'
<1>1. CASE Next
  <2>1. CASE PowerLoss
    BY <2>1, PowerLossPays
  <2>2. ASSUME NEW p \in Processes,
               \/ BeginConfig(p) \/ BeginMqttConfigure(p) \/ SelectProfile(p) \/ BeginInsert(p) \/ BeginUpdate(p)
               \/ BeginHistory(p) \/ AcquireLock(p) \/ LockTimesOut(p) \/ RefuseCommand(p)
               \/ CleanupCredential(p) \/ Kill(p)
        PROVE  PayInv'
    BY <2>2, QuietActionsPay
  <2>3. ASSUME NEW p \in Processes, RenameOver(p) PROVE PayInv'
    BY <2>3, RenameHistoryPays, PlainCommitPays, RenameCommitPays
  <2>4. ASSUME NEW p \in Processes,
               \/ ReadAndPlan(p) \/ SyncDirectory(p) \/ RemoveFile(p) \/ CreateBackup(p) \/ StepFails(p) \/ Return(p)
        PROVE  PayInv'
    BY <2>4, ReadAndPlanPays, SyncPays, RemovePays, BackupPays, FailurePays, ReturnPays
  <2> QED BY <1>1, <2>1, <2>2, <2>3, <2>4 DEF Next
<1>2. CASE UNCHANGED vars
  <2>1. visible' = visible /\ durable' = durable /\ promised' = promised /\ proc' = proc
    BY <1>2 DEF vars, fileVars
  <2> QED BY <2>1, QuietPays
<1> QED BY <1>1, <1>2

\* What pays is what the property asks for.
LEMMA PaidFollows ==
    ASSUME LockInv, PayInv
    PROVE  HistoryFollowsProfile
<1>1. ASSUME NEW n \in Names, Configured(Loaded, n), NEW e \in promised[Loaded.profiles[n]]
      PROVE  Covers(View(n), e)
  <2>1. TypeInv /\ ViewsPay(n)
    BY DEF LockInv, PayInv
  <2>2. Pays(Owed[n], View(n)) /\ OwedNow[n] \in SUBSET Owed[n]
    BY <2>1, ViewPays
  <2>3. Loaded = ConfigOf(visible[ConfigFile])
    BY DEF Loaded, Present, ConfigOf
  <2>4. visible[ConfigFile] \in Configs \cup {Absent} /\ promised \in [Devices -> SUBSET Entries]
    BY <2>1, DiskTypes DEF TypeInv
  <2>5. OwedNow[n] = promised[Loaded.profiles[n]]
    BY <1>1, <2>3, <2>4, OwedAt, OwedTypes
  <2> QED BY <1>1, <2>2, <2>5 DEF Pays
<1> QED BY <1>1 DEF HistoryFollowsProfile, Covers

\* While directories can be synced, the history under the name of a profile holds every record
\* whose upsert has returned for it, in that state or a later one, or enough newer ones: through
\* legacy migration, copies, renames of the profile, failed operations, dying processes and losses
\* of power (load_unlocked, upsert, copy_to, move_to_with and clear_unlocked, lib.rs).
THEOREM HistoryStaysWithProfile == ASSUME "sync" \notin Faults PROVE Spec => []HistoryFollowsProfile
<1>1. Init => LockInv /\ IdsInv /\ PayInv
  BY InitLockInv, InitIdsInv, InitPays
<1>2. LockInv /\ IdsInv /\ [Next]_vars => IdsInv'
  BY LockInvKept, IdsInvKept
<1>3. LockInv /\ ConfigInv /\ IdsInv /\ PayInv /\ [Next]_vars => PayInv'
  BY LockInvKept, PayInvKept
<1>4. LockInv /\ PayInv => HistoryFollowsProfile
  BY PaidFollows
<1> QED BY <1>1, <1>2, <1>3, <1>4, LockInvHolds, ConfigInvHolds, PTL DEF Spec

=============================================================================
