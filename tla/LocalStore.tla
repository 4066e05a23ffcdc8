----------------------------- MODULE LocalStore -----------------------------
(***************************************************************************)
(* meshquill-store (lib.rs) as the command line uses it: one configuration *)
(* file and, for each profile name, a canonical and a legacy history file. *)
(* Every process takes advisory locks on sidecar files, reads, and then    *)
(* replaces files by rename or removes them.  A process may die between    *)
(* any two file operations, and so may the machine.                        *)
(*                                                                         *)
(* All reads of a transaction come before its first write, so a            *)
(* transaction is a plan made from what was read and then carried out step *)
(* by step.                                                                *)
(***************************************************************************)
EXTENDS Integers, FiniteSets, Sequences

CONSTANTS Names,         \* profile names, numbered in path order
          Devices,       \* identities of profiles: what a name stands for
          ImportedProfile, \* IMPORTED_PROFILE, the name that config import-legacy uses
          NoDevice,      \* marks a name without profile
          Absent,        \* marks a file that does not exist
          MaxEntry,      \* bound: history records, numbered by (recorded time, id)
          OldEntries,    \* the records of a history that the predecessor left
          MaxMessages,   \* config.history.max_messages
          Processes,
          MaxCommands,   \* bound: commands in a behaviour
          Faults         \* subset of {"kill", "power", "io", "sync"}

ASSUME StoreAssumption ==
    /\ Names \subseteq Nat \ {0} /\ {1, ImportedProfile} \subseteq Names
    /\ MaxEntry \in Nat /\ OldEntries \in 0 .. MaxEntry
    /\ MaxMessages \in Nat \ {0} /\ MaxCommands \in Nat
    /\ NoDevice \notin Devices /\ Cardinality(Devices) >= Cardinality(Names)
    /\ Faults \subseteq {"kill", "power", "io", "sync"}
    /\ IsFiniteSet(Names) /\ IsFiniteSet(Devices) /\ IsFiniteSet(Processes)
    /\ "free" \notin Processes

VARIABLES
    visible,     \* [Files -> content]: what a process that opens the file reads
    durable,     \* [Files -> content]: what a machine that lost power finds
    locks,       \* [Files -> process that holds the sidecar lock, or "free"]
    proc,        \* [Processes -> the command it is in]
    selected,    \* [Processes -> SelectedProfile: name and what it stood for]
    known,       \* [Processes -> the record it has loaded to update, if any]
    left,        \* commands that may still begin
    newest,      \* the newest record made so far
    vault,       \* credentials in the keyring of the operating system
    backups,     \* [live, kept]: backups made, and those on the disk for certain
    promised,    \* history: [Devices -> records whose upsert has returned]
    intended     \* history: the configuration with all committed changes

fileVars == <<visible, durable, backups>>
vars == <<fileVars, vault, locks, proc, selected, known, left, newest, promised, intended>>

ConfigFile == <<"config", 0>>
Canonical(n) == <<"canonical", n>>
Legacy(n) == <<"legacy", n>>
HistoryFiles == {Canonical(n) : n \in Names} \cup {Legacy(n) : n \in Names}
Files == {ConfigFile} \cup HistoryFiles
Directory(f) == f[1]

Present(f) == visible[f] # Absent

\* Version 1, the version-less format of the predecessor, or not TOML at all.
Formats == {"current", "legacy", "malformed"}
NoSecret == 0
\* The transport a profile was created with, and the one it was reconfigured to.
Transports == {0, 1}
Config(f, p, d) == [format |-> f, profiles |-> p, transport |-> [n \in Names |-> 0], default |-> d,
                    secret |-> NoSecret]
NoDefault == 0
DefaultConfig == Config("current", [n \in Names |-> NoDevice], NoDefault)

\* ConfigFile: what the file can hold.
Configs == [format : Formats, profiles : [Names -> Devices \cup {NoDevice}],
            transport : [Names -> Transports], default : Names \cup {NoDefault}, secret : 0 .. MaxCommands]

\* A record keeps its ID; its status moves from pending to a final one.
Entries == [id : 1 .. MaxEntry, status : {"pending", "final"}]
NoEntry == [id |-> 0, status |-> "none"]

ASSUME AbsentAssumption == Absent \notin Configs /\ \A es \in SUBSET Entries : Absent # es

-----------------------------------------------------------------------------
(* Reading.                                                                *)

Content(f) == IF Present(f) THEN visible[f] ELSE {}
HasId(es, i) == \E e \in es : e.id = i

\* sort by time, then drain the excess from the front.
Newest(es) == {e \in es : Cardinality({x \in es : x.id > e.id}) < MaxMessages}

\* merge_entries: a record of higher priority replaces one with its ID.
MergeEntries(lower, higher) == Newest({e \in lower : ~HasId(higher, e.id)} \cup higher)

\* What load() returns for a name.
View(n) == MergeEntries(Content(Legacy(n)), Content(Canonical(n)))

-----------------------------------------------------------------------------
(* Plans: the file operations a transaction still has to do.               *)

Step(do, f, c, onError) == [do |-> do, file |-> f, content |-> c, onError |-> onError]

\* persist, save_unlocked: a synced temporary file is renamed over the target,
\* then the directory is synced.
Replace(f, c, onError) == <<Step("rename", f, c, onError), Step("sync", f, Absent, onError)>>

Unlink(f, onError) == <<Step("unlink", f, Absent, onError)>>

\* clear_unlocked tries the second file even if the first resists.
ClearPlan(n) == Unlink(Canonical(n), "next") \o Unlink(Legacy(n), "next")

\* Mutant: the legacy file goes first.
LoadPlanUnlinksFirst(n) ==
    IF Present(Legacy(n))
    THEN Unlink(Legacy(n), "abort") \o Replace(Canonical(n), View(n), "abort")
    ELSE <<>>

\* load_unlocked: merge a legacy file into the canonical one and remove it, or
\* write the canonical file back when retention has shrunk it.
LoadPlan(n) ==
    IF Present(Legacy(n))
    THEN Replace(Canonical(n), View(n), "abort") \o Unlink(Legacy(n), "abort")
    ELSE IF View(n) # Content(Canonical(n)) THEN Replace(Canonical(n), View(n), "abort")
    ELSE <<>>

\* upsert
UpsertPlan(n, e) ==
    LoadPlan(n) \o Replace(Canonical(n), Newest({x \in View(n) : x.id # e.id} \cup {e}), "abort")

AnyPathExists(n) == Present(Canonical(n)) \/ Present(Legacy(n))

\* copy_to, which refuses a destination in use and copies nothing for nothing.
CopyPlan(n, to) ==
    LoadPlan(n) \o IF AnyPathExists(n) THEN Replace(Canonical(to), View(n), "abort") ELSE <<>>

\* move_to_with around the save of the configuration: when the save fails the
\* destination is cleared again.
MovePlan(n, to, config) ==
    LET undo == IF AnyPathExists(n) THEN "undo" ELSE "abort"
    IN  CopyPlan(n, to) \o Replace(ConfigFile, config, undo) \o ClearPlan(n)

-----------------------------------------------------------------------------
(* Configuration commands: what each makes of the configuration it loads.  *)

ConfigOps == {"init", "import", "delete", "set_default", "reconfigure", "rename", "migrate",
              "repair", "mqtt", "mqtt_keep"}
With(config, n, d, t) == [config EXCEPT !.profiles[n] = d, !.transport[n] = t]

\* Each profile has an identity of its own.
Unused(config) == CHOOSE d \in Devices : \A n \in Names : config.profiles[n] # d

\* initialize: the first profile becomes the default.
Initialized(config, c) ==
    [With(config, c.name, Unused(config), 0) EXCEPT
        !.default = IF @ = NoDefault \/ c.flag THEN c.name ELSE @]

\* config_import_legacy, which is never told to change the default.
Imported(config, c) ==
    [With(config, c.name, Unused(config), 0) EXCEPT !.default = IF @ = NoDefault THEN c.name ELSE @]

Deleted(config, c) ==
    [With(config, c.name, NoDevice, 0) EXCEPT !.default = IF @ = c.name THEN NoDefault ELSE @]

Renamed(config, c) ==
    LET moved == With(With(config, c.to, config.profiles[c.name], config.transport[c.name]),
                      c.name, NoDevice, 0)
    IN  [moved EXCEPT !.default = IF @ = c.name THEN c.to ELSE @]

DefaultSet(config, c) == [config EXCEPT !.default = c.name]

\* reconfigure replaces the transport of a profile, whose identity stays.
Reconfigured(config, c) == [config EXCEPT !.transport[c.name] = 1]

Migrated(config) == [config EXCEPT !.format = "current"]

\* mqtt_configure with AuthenticationUpdate Replace or Clear: a new password reference, or none.
\* With Preserve or PreserveForUsername ("mqtt_keep") the reference stays; what else the command
\* sets of the broker is not modelled.
MqttConfigured(config, c) == [config EXCEPT !.secret = c.secret]

Configured(config, n) == config.profiles[n] # NoDevice

Updated(config, c) ==
    CASE c.op = "init" -> Initialized(config, c)
      [] c.op = "import" -> Imported(config, c)
      [] c.op = "delete" -> Deleted(config, c)
      [] c.op = "rename" -> Renamed(config, c)
      [] c.op = "set_default" -> DefaultSet(config, c)
      [] c.op = "reconfigure" -> Reconfigured(config, c)
      [] c.op = "migrate" -> Migrated(config)
      [] c.op = "repair" -> DefaultConfig
      [] c.op = "mqtt" -> MqttConfigured(config, c)
      [] c.op = "mqtt_keep" -> config

\* load_mutable_locked and the checks of each command.  The flag of mqtt_keep tells that the user
\* it names is not the one the configuration has.
Loaded == IF Present(ConfigFile) THEN visible[ConfigFile] ELSE DefaultConfig
Refused(c) ==
    CASE c.op = "repair" -> FALSE
      [] c.op \in {"init", "import"} -> Loaded.format # "current" \/ Configured(Loaded, c.name)
      [] c.op \in {"mqtt", "mqtt_keep"} -> Loaded.format # "current" \/ c.flag
      [] ~Present(ConfigFile) -> TRUE
      [] c.op = "migrate" -> Loaded.format # "legacy"
      [] Loaded.format # "current" -> TRUE
      [] c.op = "rename" -> \/ ~Configured(Loaded, c.name) \/ Configured(Loaded, c.to)
                            \/ AnyPathExists(c.to)
      [] OTHER -> ~Configured(Loaded, c.name)

\* Mutant: a failed backup does not stop the command.
BackupPlanOptional == IF Present(ConfigFile)
                      THEN <<Step("backup", ConfigFile, visible[ConfigFile], "next")>> ELSE <<>>

\* repair and migrate keep the file they replace.
BackupPlan == IF Present(ConfigFile)
              THEN <<Step("backup", ConfigFile, visible[ConfigFile], "abort")>> ELSE <<>>

ConfigPlan(c) ==
    CASE c.op = "rename" -> MovePlan(c.name, c.to, Renamed(Loaded, c))
      [] c.op \in {"migrate", "repair"} ->
            BackupPlan \o Replace(ConfigFile, Updated(Loaded, c), "abort")
      [] OTHER -> Replace(ConfigFile, Updated(Loaded, c), "abort")

-----------------------------------------------------------------------------
\* A command, the locks it still needs, and what it still has to do.
Command(op, n) == [op |-> op, name |-> n, to |-> n, flag |-> FALSE, entry |-> NoEntry,
                   secret |-> NoSecret]
Idle == [at |-> "idle", cmd |-> Command("none", 0), wants |-> {}, todo |-> <<>>, ok |-> TRUE,
         oldSecret |-> NoSecret]
NoSelection == [name |-> 0, device |-> NoDevice]

\* A machine on which an earlier version may have left files.
InitialConfigs ==
    {Absent} \cup {Config(f, [n \in Names |-> IF n = 1 THEN d ELSE NoDevice], 1) :
                       f \in Formats, d \in {Unused(DefaultConfig)}}
InitialHistory == {[id |-> i, status |-> "final"] : i \in 1 .. OldEntries}

Init ==
    /\ \E config \in InitialConfigs, old \in {Absent, InitialHistory} :
        visible = [f \in Files |-> CASE f = ConfigFile -> config
                                      [] Directory(f) = "legacy" -> old
                                      [] OTHER -> Absent]
    /\ durable = visible
    /\ locks = [f \in Files |-> "free"]
    /\ proc = [p \in Processes |-> Idle]
    /\ selected = [p \in Processes |-> NoSelection]
    /\ known = [p \in Processes |-> NoEntry]
    /\ left = MaxCommands
    /\ newest = OldEntries
    /\ backups = [live |-> {}, kept |-> {}]
    /\ vault = {}
    /\ promised = [d \in Devices |-> UNION {View(n) : n \in {m \in Names : Loaded.profiles[m] = d}}]
    /\ intended = Loaded

-----------------------------------------------------------------------------
(* Commands begin.                                                         *)

Free(p) == proc[p] = Idle /\ left > 0

Begin(p, c, wants) ==
    /\ proc' = [proc EXCEPT ![p] = [Idle EXCEPT !.at = "locking", !.cmd = c, !.wants = wants]]
    /\ left' = left - 1
    /\ vault' = vault \cup ({c.secret} \ {NoSecret})
    /\ UNCHANGED <<fileVars, locks, promised, intended>>

\* A configuration command is a program run of its own, which has selected nothing.
NewRun(p) ==
    /\ selected' = [selected EXCEPT ![p] = NoSelection]
    /\ known' = [known EXCEPT ![p] = NoEntry]

HistoryLocks(n) == {Canonical(n), Legacy(n)}

\* init, profiles delete / set-default / reconfigure / rename, config migrate,
\* repair and import-legacy, and mqtt configure without a password.
BeginConfig(p) ==
    /\ Free(p)
    /\ \E op \in ConfigOps \ {"mqtt"}, n, m \in Names, flag \in BOOLEAN :
          /\ op = "rename" <=> n # m
          /\ flag => op \in {"init", "mqtt_keep"}
          /\ op \in {"import", "migrate", "repair", "mqtt_keep"} => n = ImportedProfile
          /\ Begin(p, [Command(op, n) EXCEPT !.to = m, !.flag = flag],
                   {ConfigFile} \cup IF op = "rename" THEN HistoryLocks(n) \cup HistoryLocks(m) ELSE {})
    /\ NewRun(p) /\ UNCHANGED newest

\* prepare_authentication: a new password goes to the keyring, under an account
\* name of its own, before the configuration is locked.
BeginMqttConfigure(p) ==
    /\ Free(p)
    /\ \E secret \in {NoSecret, left} :
          Begin(p, [Command("mqtt", 0) EXCEPT !.secret = secret], {ConfigFile})
    /\ NewRun(p) /\ UNCHANGED newest

\* resolve_profile: the name given, else the default, else the only one.
ResolveProfile(config, explicit) ==
    LET configured == {n \in Names : Configured(config, n)}
    IN  CASE explicit # NoDefault -> configured \cap {explicit}
          [] config.default # NoDefault -> configured \cap {config.default}
          [] OTHER -> IF Cardinality(configured) = 1 THEN configured ELSE {}

\* select_profile reads the configuration without a lock; what it finds serves
\* the process for the rest of its life.
SelectProfile(p) ==
    /\ Free(p) /\ selected[p] = NoSelection
    /\ Present(ConfigFile) /\ Loaded.format # "malformed"
    /\ \E explicit \in Names \cup {NoDefault}, n \in Names :
          /\ n \in ResolveProfile(Loaded, explicit)
          /\ selected' = [selected EXCEPT ![p] = [name |-> n, device |-> Loaded.profiles[n]]]
    /\ UNCHANGED <<fileVars, vault, locks, proc, known, left, newest, promised, intended>>

HasSelection(p) == selected[p] # NoSelection

\* begin_outgoing, incoming: upsert of a new record.
BeginInsert(p) ==
    /\ Free(p) /\ HasSelection(p) /\ newest < MaxEntry
    /\ newest' = newest + 1
    /\ Begin(p, [Command("upsert", selected[p].name) EXCEPT
                    !.entry = [id |-> newest + 1, status |-> "pending"]],
             HistoryLocks(selected[p].name))
    /\ UNCHANGED <<selected, known>>

\* sent, acknowledged, timed_out, failed: load, and later upsert what was found.
BeginUpdate(p) ==
    /\ Free(p) /\ known[p] # NoEntry
    /\ known' = [known EXCEPT ![p] = NoEntry]
    /\ Begin(p, [Command("upsert", selected[p].name) EXCEPT
                    !.entry = [known[p] EXCEPT !.status = "final"]],
             HistoryLocks(selected[p].name))
    /\ UNCHANGED <<selected, newest>>

\* history list and clear, load_history_entry, and the library's copy_to.
BeginHistory(p) ==
    /\ Free(p) /\ HasSelection(p) /\ known[p] = NoEntry
    /\ LET n == selected[p].name
       IN  \/ \E op \in {"load", "clear"} : Begin(p, Command(op, n), HistoryLocks(n))
           \/ \E m \in Names \ {n} : Begin(p, [Command("copy", n) EXCEPT !.to = m],
                                           HistoryLocks(n) \cup HistoryLocks(m))
    /\ UNCHANGED <<selected, known, newest>>

-----------------------------------------------------------------------------
(* Locks.                                                                  *)

Rank(f) == CASE Directory(f) = "config" -> 0 [] Directory(f) = "legacy" -> 1 [] OTHER -> 2
InOrder == {pair \in Files \X Files :
               LET f == pair[1]
                   g == pair[2]
               IN  Rank(f) < Rank(g) \/ (Rank(f) = Rank(g) /\ f[2] <= g[2])}
Precedes(f, g) == <<f, g>> \in InOrder

\* Mutant: the locks of the source before those of the destination.
NextLockAsGiven(p) ==
    LET w == proc[p].wants
        own == {f \in w : f[2] = proc[p].cmd.name}
    IN  CHOOSE f \in IF own # {} THEN own ELSE w :
            \A g \in IF own # {} THEN own ELSE w : Precedes(f, g)

\* acquire_target_locks sorts the paths; rename takes the configuration first.
NextLock(p) == CHOOSE f \in proc[p].wants : \A g \in proc[p].wants : Precedes(f, g)

Waiting(p) == proc[p].at = "locking" /\ proc[p].wants # {}

\* Mutant: the lock is taken whoever holds it.
TryLockHeld(p) == Waiting(p)

\* try_lock succeeds
TryLock(p) == Waiting(p) /\ locks[NextLock(p)] = "free"

LastLock(p) == proc[p].wants = {NextLock(p)}
Locked(p) == [locks EXCEPT ![NextLock(p)] = p]

\* acquire_target_locks with more locks to come.
AcquireLock(p) ==
    /\ TryLock(p) /\ ~LastLock(p)
    /\ locks' = Locked(p)
    /\ proc' = [proc EXCEPT ![p].wants = @ \ {NextLock(p)}]
    /\ UNCHANGED <<fileVars, vault, selected, known, left, newest, promised, intended>>

ReleaseAll(p) == locks' = [f \in Files |-> IF locks[f] = p THEN "free" ELSE locks[f]]

\* The password that mqtt_configure has no more use for: the one it replaced,
\* or after an error the fresh one.
Garbage(p, ok) == (IF ok THEN {proc[p].oldSecret} \ {proc[p].cmd.secret}
                         ELSE {proc[p].cmd.secret}) \ {NoSecret}

\* The command is over, except that a password may have to be removed; its
\* locks are released.
Leave(p, ok) ==
    /\ ReleaseAll(p)
    /\ proc' = [proc EXCEPT ![p] = IF Garbage(p, ok) = {} THEN Idle
                                   ELSE [@ EXCEPT !.at = "cleaning", !.ok = ok, !.todo = <<>>,
                                                  !.wants = {}]]

\* ... or would block for FILE_LOCK_TIMEOUT: the command fails.
LockTimesOut(p) ==
    /\ Waiting(p) /\ locks[NextLock(p)] # "free"
    /\ Leave(p, FALSE)
    /\ UNCHANGED <<fileVars, vault, selected, known, left, newest, promised, intended>>

-----------------------------------------------------------------------------
(* Transactions.                                                           *)

RefusedHere(c) == \/ c.op \in ConfigOps /\ Refused(c)
                  \/ c.op = "copy" /\ AnyPathExists(c.to)

Plan(c) == CASE c.op = "load" -> LoadPlan(c.name)
             [] c.op = "upsert" -> UpsertPlan(c.name, c.entry)
             [] c.op = "clear" -> ClearPlan(c.name)
             [] c.op = "copy" -> CopyPlan(c.name, c.to)
             [] OTHER -> ConfigPlan(c)

\* With the last lock the files can be read, since nobody else may change them.  The command
\* may not do what it was told, and returns, ...
RefuseCommand(p) ==
    /\ TryLock(p) /\ LastLock(p) /\ RefusedHere(proc[p].cmd)
    /\ Leave(p, FALSE)
    /\ UNCHANGED <<fileVars, vault, selected, known, left, newest, promised, intended>>

\* ... or it reads, decides and plans.
ReadAndPlan(p) ==
    /\ TryLock(p) /\ LastLock(p) /\ ~RefusedHere(proc[p].cmd)
    /\ LET c == proc[p].cmd
       IN  /\ proc' = [proc EXCEPT ![p].at = "working", ![p].todo = Plan(c), ![p].wants = {},
                                   ![p].oldSecret = IF c.op = "mqtt" THEN Loaded.secret ELSE @]
           /\ IF c.op = "load"
              THEN \E e \in View(c.name) \cup {NoEntry} : known' = [known EXCEPT ![p] = e]
              ELSE UNCHANGED known
    /\ locks' = Locked(p)
    /\ UNCHANGED <<fileVars, vault, selected, left, newest, promised, intended>>

Working(p) == proc[p].at = "working"
Doing(p, do) == Working(p) /\ proc[p].todo # <<>> /\ Head(proc[p].todo).do = do
StepDone(p) == proc' = [proc EXCEPT ![p].todo = Tail(@)]
Target(p) == Head(proc[p].todo).file

\* What a profile that is no longer configured was promised is void.
StillPromised(config) ==
    [d \in Devices |-> IF \E n \in Names : config.profiles[n] = d THEN promised[d] ELSE {}]

\* temp.persist: the new content appears at once.
RenameOver(p) ==
    /\ Doing(p, "rename")
    /\ LET c == Head(proc[p].todo).content
       IN  /\ visible' = [visible EXCEPT ![Target(p)] = c]
           /\ IF Target(p) = ConfigFile
              THEN /\ intended' = Updated(intended, proc[p].cmd)
                   /\ promised' = StillPromised(c)
              ELSE UNCHANGED <<intended, promised>>
    /\ StepDone(p)
    /\ UNCHANGED <<durable, vault, backups, locks, selected, known, left, newest>>

\* directory.sync_all: everything that happened in the directory is on disk.
SyncDirectory(p) ==
    /\ Doing(p, "sync")
    /\ LET dir == Directory(Target(p))
       IN  /\ durable' = [f \in Files |-> IF Directory(f) = dir THEN visible[f] ELSE durable[f]]
           /\ backups' = IF dir = "config" THEN [backups EXCEPT !.kept = backups.live] ELSE backups
    /\ StepDone(p)
    /\ UNCHANGED <<visible, vault, locks, selected, known, left, newest, promised, intended>>

\* remove_file_if_exists
RemoveFile(p) ==
    /\ Doing(p, "unlink")
    /\ visible' = [visible EXCEPT ![Target(p)] = Absent]
    /\ promised' = IF proc[p].cmd.op = "clear"
                   THEN [d \in Devices |-> IF \E file \in {visible, durable} :
                                                 /\ file[ConfigFile] # Absent
                                                 /\ file[ConfigFile].profiles[proc[p].cmd.name] = d
                                           THEN {} ELSE promised[d]]
                   ELSE promised
    /\ StepDone(p)
    /\ UNCHANGED <<durable, vault, backups, locks, selected, known, left, newest, intended>>

\* create_backup
CreateBackup(p) ==
    /\ Doing(p, "backup")
    /\ backups' = [backups EXCEPT !.live = @ \cup {Head(proc[p].todo).content}]
    /\ StepDone(p)
    /\ UNCHANGED <<visible, vault, durable, locks, selected, known, left, newest, promised, intended>>

\* An operation fails without effect; only the sync of a directory comes after
\* the change it belongs to.
StepFails(p) ==
    /\ Working(p) /\ proc[p].todo # <<>>
    /\ LET s == Head(proc[p].todo)
       IN  /\ IF s.do = "sync" THEN "sync" \in Faults ELSE "io" \in Faults
           /\ proc' = [proc EXCEPT ![p].ok = FALSE,
                        ![p].todo = CASE s.onError = "abort" -> <<>>
                                      [] s.onError = "next" -> Tail(@)
                                      [] s.onError = "undo" -> ClearPlan(proc[p].cmd.to)]
    /\ UNCHANGED <<fileVars, vault, locks, selected, known, left, newest, promised, intended>>

\* The command returns and its locks are released.  From now on a record that
\* was stored under the name of its profile is owed to the user.
Return(p) ==
    /\ Working(p) /\ proc[p].todo = <<>>
    /\ LET c == proc[p].cmd
           d == selected[p].device
           owned == Loaded.profiles[c.name] = d
           settled == Present(ConfigFile) /\ durable[ConfigFile] = visible[ConfigFile]
       IN  promised' = IF c.op = "upsert" /\ proc[p].ok /\ owned
                       THEN [promised EXCEPT ![d] = {e \in @ : e.id # c.entry.id}
                                                     \cup IF settled THEN {c.entry} ELSE {}]
                       ELSE promised
    /\ Leave(p, proc[p].ok)
    /\ UNCHANGED <<fileVars, vault, selected, known, left, newest, intended>>

\* cleanup_credential, whose failure is ignored.
CleanupCredential(p) ==
    /\ proc[p].at = "cleaning"
    /\ \/ vault' = vault \ Garbage(p, proc[p].ok)
       \/ "io" \in Faults /\ UNCHANGED vault
    /\ proc' = [proc EXCEPT ![p] = Idle]
    /\ UNCHANGED <<fileVars, locks, selected, known, left, newest, promised, intended>>

-----------------------------------------------------------------------------
(* Faults.                                                                 *)

\* A process dies; the operating system drops its locks.
Kill(p) ==
    /\ "kill" \in Faults /\ proc[p] # Idle
    /\ ReleaseAll(p)
    /\ proc' = [proc EXCEPT ![p] = Idle]
    /\ selected' = [selected EXCEPT ![p] = NoSelection]
    /\ known' = [known EXCEPT ![p] = NoEntry]
    /\ UNCHANGED <<fileVars, vault, left, newest, promised, intended>>

Unsynced == {f \in Files : visible[f] # durable[f]}

\* The machine loses power: what changed since the last sync of a directory is kept or lost, each
\* file for itself.
PowerLoss ==
    /\ "power" \in Faults /\ (Unsynced # {} \/ backups.live # backups.kept)
    /\ \E kept \in SUBSET Unsynced :
          visible' = [f \in Files |-> IF f \in kept THEN visible[f] ELSE durable[f]]
    /\ \E more \in SUBSET (backups.live \ backups.kept) :
          backups' = [live |-> backups.kept \cup more, kept |-> backups.kept \cup more]
    /\ durable' = visible'
    /\ intended' = IF visible'[ConfigFile] = Absent THEN DefaultConfig ELSE visible'[ConfigFile]
    /\ promised' = StillPromised(intended')
    /\ locks' = [f \in Files |-> "free"]
    /\ proc' = [p \in Processes |-> Idle]
    /\ selected' = [p \in Processes |-> NoSelection]
    /\ known' = [p \in Processes |-> NoEntry]
    /\ UNCHANGED <<vault, left, newest>>

-----------------------------------------------------------------------------
Next == \/ \E p \in Processes :
              \/ BeginConfig(p) \/ BeginMqttConfigure(p) \/ SelectProfile(p) \/ BeginInsert(p) \/ BeginUpdate(p)
              \/ BeginHistory(p) \/ AcquireLock(p) \/ LockTimesOut(p) \/ RefuseCommand(p) \/ ReadAndPlan(p)
              \/ RenameOver(p) \/ SyncDirectory(p) \/ RemoveFile(p) \/ CreateBackup(p)
              \/ StepFails(p) \/ Return(p) \/ CleanupCredential(p) \/ Kill(p)
        \/ PowerLoss

Spec == Init /\ [][Next]_vars

-----------------------------------------------------------------------------
\* Every variable has its type, and no canonical history exceeds its bound.
TypeOK ==
    /\ \A n \in Names : Cardinality(Content(Canonical(n))) <= MaxMessages
    /\ \A f \in HistoryFiles : /\ visible[f] = Absent \/ visible[f] \subseteq Entries
                               /\ durable[f] = Absent \/ durable[f] \subseteq Entries
    /\ DOMAIN visible = Files /\ DOMAIN durable = Files
    /\ locks \in [Files -> Processes \cup {"free"}]
    /\ \A p \in Processes : proc[p].at \in {"idle", "locking", "working", "cleaning"}
    /\ known \in [Processes -> Entries \cup {NoEntry}]
    /\ left \in 0 .. MaxCommands /\ newest \in 0 .. MaxEntry
    /\ promised \in [Devices -> SUBSET Entries]

\* Whatever name the configuration gives a profile, the history under that name
\* holds every record that was stored for the profile, in its last stored
\* state or a later one, unless it was cleared or enough newer records displaced it.  This
\* goes on through concurrent writers, legacy migration, renames, failed
\* operations, dying processes and power failures.
HistoryFollowsProfile ==
    \A n \in Names : Configured(Loaded, n) =>
        \A e \in promised[Loaded.profiles[n]] :
            \/ \E x \in View(n) : x.id = e.id /\ x.status \in {e.status, "final"}
            \/ Cardinality({x \in View(n) : x.id > e.id}) >= MaxMessages

\* No configuration command loses the change of another: the file is what the
\* committed commands make of it one after the other.
ConfigUpdatesAreApplied == intended = Loaded

\* The password that the configuration refers to is in the keyring, whichever of
\* two concurrent or interrupted mqtt configure commands stored it last.
PasswordIsStored == Loaded.secret # NoSecret => Loaded.secret \in vault

\* No set of processes waits for locks that its own members hold: commands
\* that lock the files of two profiles cannot block each other until the
\* timeout.
NoLockCycle ==
    \A S \in (SUBSET Processes) \ {{}} :
        \E p \in S : ~(Waiting(p) /\ locks[NextLock(p)] \in S)

\* A configuration that migrate or repair replaces can be had back: there is a
\* backup of it, also when an operation before the replacement has failed.
ReplacedIsBackedUp ==
    [][(Present(ConfigFile) /\ visible'[ConfigFile] # visible[ConfigFile]) =>
          \A p \in Processes :
             proc[p].cmd.op \in {"migrate", "repair"} /\ proc'[p] \notin {proc[p], Idle} =>
                visible[ConfigFile] \in backups.live]_vars

\* The configuration keeps every change, and what it refers to is there.
ConfigurationIsKept == TypeOK /\ ConfigUpdatesAreApplied /\ PasswordIsStored
=============================================================================
