------------------------------ MODULE StateBackup ------------------------------
(***************************************************************************)
(* Backup bundles (persistence/backup.py), as close-session makes the      *)
(* complete ones (application/production_services.py) and the operator's   *)
(* backup command the legacy ones (application/operations.py): files are   *)
(* collected in a temporary directory, sealed by a manifest, verified as a *)
(* restore would, renamed into place and only then receipted.              *)
(*                                                                         *)
(* Nothing in between looks at the WriterLease.  A daemon that was         *)
(* suspended loses it, and another process may change the account while    *)
(* the daemon's backup is half done.  Any process may die at any step, the *)
(* operator may edit the configuration at any time, and a published bundle *)
(* may be damaged.  SHA-256 is injective: a digest is what it is taken of. *)
(***************************************************************************)
EXTENDS Integers, Sequences, Functions

CONSTANTS
    None,          \* an absent or unreadable file
    AccountIdHash, \* account_id_hash of the bound broker account
    Times,         \* readings of the wall clock: they name the bundles
    MaxSession,    \* sessions that are closed
    MaxSyncs,      \* account synchronisations by another process
    MaxEdits,      \* edits of the configuration
    MaxCrashes,    \* deaths of a process
    MaxRots        \* damaged files of published bundles

Process == {"daemon", "operator"}
Member == {"database", "account", "config", "calendar"}

\* Audit events, the copy of a database, the members of a bundle, and its records.
AuditEvent == {"decision", "closed", "sync"} \X Nat
DatabaseCopy == [chain : Seq(AuditEvent), decisions : SUBSET Nat]
Files == [Member -> {None} \cup Nat \cup DatabaseCopy]
DeploymentRecord == [decision : Nat, account : Nat, config : Nat, calendar : Nat]
Manifest == [digests : Files, deployment : DeploymentRecord \cup {None},
             chain : Seq(AuditEvent), id : Times]

BackupAssumption ==
    /\ MaxSession \in Nat \ {0} /\ {MaxSyncs, MaxEdits, MaxCrashes, MaxRots} \subseteq Nat
    /\ None \notin DeploymentRecord \cup Manifest

NoFiles == [m \in Member |-> None]
Idle == [at |-> "idle", id |-> None, files |-> NoFiles, decision |-> 0,
         account |-> None, config |-> None, manifest |-> None]

VARIABLES
    chain,      \* audit chain of the database
    decisions,  \* decision_snapshots
    receipts,   \* backup_receipts: the manifests
    account,    \* economic content of the AccountState file
    config,     \* content of the configuration file
    calendar,   \* content of trading-calendar.json
    loaded,     \* configuration the daemon was started with
    up,         \* the daemon runs
    session,    \* session the daemon closes
    closed,     \* sessions with the checkpoint BACKUP_VERIFIED
    holder,      \* holder of the WriterLease, None if free
    work,       \* process -> its backup in progress
    published,  \* id -> bundle in the backup directory
    sound,      \* history: bundles as they were published
    moments,    \* history: <<chain, account>> of every committed moment
    budget      \* syncs, edits, crashes and damages so far

disk == <<account, config, calendar>>
database == <<chain, decisions, receipts>>
daemon == <<loaded, up, session, closed>>
history == <<sound, moments>>
backupVars == <<disk, database, daemon, holder, work, published, history, budget>>

-----------------------------------------------------------------------------
\* Bundles.  A manifest of schema 1 (the operator's) has no deployment record.

Legacy(manifest) == manifest.deployment = None

\* Mutant: the account in a bundle need not be the one of the deployment record.
IdentitiesAgree_NoAccount(files, deployment) ==
    deployment.config = files["config"] /\ deployment.calendar = files["calendar"]
\* The deployment record names the files that lie beside it.
IdentitiesAgree(files, deployment) ==
    /\ deployment.account = files["account"]
    /\ deployment.config = files["config"]
    /\ deployment.calendar = files["calendar"]

DigestsAgree(files, digests) == \A m \in Member : files[m] = digests[m]

\* _verify_database: the restored copy holds the sealed audit chain and, for a
\* complete bundle, the frozen decision.
DatabaseAgrees(files, manifest) ==
    /\ files["database"] # None
    /\ files["database"].chain = manifest.chain
    /\ Legacy(manifest) \/ manifest.deployment.decision \in files["database"].decisions

\* verify_backup.
Verify(bundle) ==
    /\ bundle.manifest # None
    /\ DigestsAgree(bundle.files, bundle.manifest.digests)
    /\ \/ Legacy(bundle.manifest)
       \/ /\ None \notin Range(bundle.files)
          /\ IdentitiesAgree(bundle.files, bundle.manifest.deployment)
    /\ DatabaseAgrees(bundle.files, bundle.manifest)

-----------------------------------------------------------------------------
BackupInit ==
    /\ chain = <<>> /\ decisions = {} /\ receipts = {}
    /\ account = 1 /\ config = 1 /\ calendar = 1
    /\ loaded = 1 /\ up = TRUE /\ session = 1 /\ closed = {}
    /\ holder = "daemon"
    /\ work = [p \in Process |-> Idle]
    /\ published = [id \in {} |-> None]
    /\ sound = [id \in {} |-> None] /\ moments = {<<chain, account>>}
    /\ budget = [syncs |-> 0, edits |-> 0, crashes |-> 0, rots |-> 0]

Spend(what, bound) == budget[what] < bound /\ budget' = [budget EXCEPT ![what] = @ + 1]
Commit(event, newAccount) ==
    /\ chain' = Append(chain, event)
    /\ account' = newAccount
    /\ moments' = moments \cup {<<chain', newAccount>>}

At(p, step) == work[p].at = step
Go(p, step) == work' = [work EXCEPT ![p].at = step]
Done(p) == work' = [work EXCEPT ![p] = Idle]
\* An exception leaves backup_state; the temporary directory stays behind and
\* the caller does nothing more (the daemon is HALTED, the command has failed).
Raise(p) == work' = [work EXCEPT ![p] = [Idle EXCEPT !.at = "failed"]]

\* Decision and AccountState of the session are committed and the report is
\* published: CloseSession's subject, one step here.
Decide ==
    /\ up /\ holder = "daemon" /\ At("daemon", "idle")
    /\ session \notin decisions
    /\ decisions' = decisions \cup {session}
    /\ Commit(<<"decision", session>>, account + 1)
    /\ UNCHANGED <<receipts, config, calendar, daemon, holder, work, published, sound, budget>>

\* close-session reads the identities the bundle will be sealed with.
Inputs(p) ==
    IF p = "daemon"
    THEN [decision |-> session, account |-> account, config |-> loaded]
    ELSE [decision |-> 0, account |-> None, config |-> None]

MayBackUp(p) ==
    IF p = "daemon"
    THEN up /\ session \in decisions \ closed
    ELSE holder = "operator"

\* "refusing to overwrite an existing backup bundle"; a rename onto a directory
\* that is not empty fails as well.
Unused(id) == id \notin DOMAIN published

Begin(p, id) ==
    /\ At(p, "idle") /\ MayBackUp(p) /\ Unused(id)
    /\ work' = [work EXCEPT ![p] =
         [Idle EXCEPT !.at = "database", !.id = id, !.decision = Inputs(p).decision,
                      !.account = Inputs(p).account, !.config = Inputs(p).config]]
    /\ UNCHANGED <<disk, database, daemon, holder, published, history, budget>>

Put(p, m, content, next) ==
    work' = [work EXCEPT ![p].files[m] = content, ![p].at = next]

\* Database.backup_to: a consistent online backup.
CopyDatabase(p) ==
    /\ At(p, "database")
    /\ Put(p, "database", [chain |-> chain, decisions |-> decisions], "account")
    /\ UNCHANGED <<disk, database, daemon, holder, published, history, budget>>

CopyAccount(p) ==
    /\ At(p, "account")
    /\ Put(p, "account", account, IF p = "daemon" THEN "config" ELSE "check")
    /\ UNCHANGED <<disk, database, daemon, holder, published, history, budget>>

\* _validated_config_bytes: the bytes must be the ones the daemon runs with.
CopyConfig ==
    /\ At("daemon", "config")
    /\ IF config = work["daemon"].config
       THEN Put("daemon", "config", config, "calendar")
       ELSE Raise("daemon")
    /\ UNCHANGED <<disk, database, daemon, holder, published, history, budget>>

\* The safety, calendar and data manifests are copied as they are.
CopyCalendar ==
    /\ At("daemon", "calendar")
    /\ Put("daemon", "calendar", calendar, "check")
    /\ UNCHANGED <<disk, database, daemon, holder, published, history, budget>>

Deployment(p) ==
    IF p = "daemon"
    THEN [decision |-> work[p].decision, account |-> work[p].account,
          config |-> work[p].config, calendar |-> work[p].files["calendar"]]
    ELSE None

\* The copied database is opened and checked, the members are hashed and the
\* manifest is written.
Seal(p) ==
    /\ At(p, "check")
    /\ IF p = "daemon" /\ work[p].decision \notin work[p].files["database"].decisions
       THEN Raise(p)
       ELSE work' = [work EXCEPT ![p].at = "verify",
              ![p].manifest = [digests |-> work[p].files, deployment |-> Deployment(p),
                               chain |-> work[p].files["database"].chain, id |-> work[p].id]]
    /\ UNCHANGED <<disk, database, daemon, holder, published, history, budget>>

Bundle(p) == [files |-> work[p].files, manifest |-> work[p].manifest]

\* Only a bundle that a restore would accept is published.
VerifyBundle(p) ==
    /\ At(p, "verify")
    /\ IF Verify(Bundle(p)) THEN Go(p, "publish") ELSE Raise(p)
    /\ UNCHANGED <<disk, database, daemon, holder, published, history, budget>>

\* os.replace of the temporary directory.
Shelve(id, bundle, shelf) ==
    [i \in DOMAIN shelf \cup {id} |-> IF i = id THEN bundle ELSE shelf[i]]

Publish(p) ==
    /\ At(p, "publish")
    /\ IF Unused(work[p].id)
       THEN /\ Go(p, "receipt")
            /\ published' = Shelve(work[p].id, Bundle(p), published)
            /\ sound' = Shelve(work[p].id, Bundle(p), sound)
       ELSE Raise(p) /\ UNCHANGED <<published, sound>>
    /\ UNCHANGED <<disk, database, daemon, holder, moments, budget>>

\* The row of backup_receipts; the name of the bundle is its key.
Receipt(p) ==
    /\ At(p, "receipt")
    /\ receipts' = receipts \cup {work[p].manifest}
    /\ IF p = "daemon" THEN Go(p, "checkpoint") ELSE Done(p)
    /\ UNCHANGED <<disk, chain, decisions, daemon, holder, published, history, budget>>

\* BACKUP_VERIFIED and COMPLETED are appended to the audit chain.
Checkpoint ==
    /\ At("daemon", "checkpoint")
    /\ Commit(<<"closed", session>>, account)
    /\ closed' = closed \cup {session}
    /\ session' = IF session < MaxSession THEN session + 1 ELSE session
    /\ Done("daemon")
    /\ UNCHANGED <<decisions, receipts, config, calendar, loaded, up, holder, published, sound, budget>>

-----------------------------------------------------------------------------
\* The environment.

BackupCrash ==
    /\ up /\ Spend("crashes", MaxCrashes)
    /\ up' = FALSE /\ holder' = IF holder = "daemon" THEN None ELSE holder
    /\ Done("daemon")
    /\ UNCHANGED <<disk, database, loaded, session, closed, published, history>>

\* A halted daemon, or one that finds its lease lost after the close, stops.
Stop ==
    /\ up /\ (At("daemon", "failed") \/ (At("daemon", "idle") /\ holder # "daemon"))
    /\ up' = FALSE /\ holder' = IF holder = "daemon" THEN None ELSE holder
    /\ Done("daemon")
    /\ UNCHANGED <<disk, database, loaded, session, closed, published, history, budget>>

\* The next start loads the configuration and resumes the first missing step.
Restart ==
    /\ ~up /\ holder = None
    /\ up' = TRUE /\ loaded' = config /\ holder' = "daemon"
    /\ UNCHANGED <<disk, database, session, closed, work, published, history, budget>>

\* A suspended daemon lets its lease expire and goes on.
Expire ==
    /\ up /\ holder = "daemon" /\ Spend("crashes", MaxCrashes)
    /\ holder' = None
    /\ UNCHANGED <<disk, database, daemon, work, published, history>>

OperatorStarts ==
    /\ holder = None /\ holder' = "operator"
    /\ UNCHANGED <<disk, database, daemon, work, published, history, budget>>

OperatorStops ==
    /\ holder = "operator" /\ work["operator"].at \in {"idle", "failed"}
    /\ holder' = None /\ Done("operator")
    /\ UNCHANGED <<disk, database, daemon, published, history, budget>>

\* Another process synchronises the account under the lease.
Sync ==
    /\ holder = "operator" /\ At("operator", "idle") /\ Spend("syncs", MaxSyncs)
    /\ Commit(<<"sync", budget.syncs>>, account + 1)
    /\ UNCHANGED <<decisions, receipts, config, calendar, daemon, holder, work, published, sound>>

\* ... or publishes another trading calendar.
UpdateCalendar ==
    /\ holder = "operator" /\ At("operator", "idle") /\ Spend("edits", MaxEdits)
    /\ calendar' = calendar + 1
    /\ UNCHANGED <<account, config, database, daemon, holder, work, published, history>>

EditConfig ==
    /\ Spend("edits", MaxEdits) /\ config' = config + 1
    /\ UNCHANGED <<account, calendar, database, daemon, holder, work, published, history>>

\* A file of a published bundle is damaged or lost.
Rot(id, m) ==
    /\ Spend("rots", MaxRots)
    /\ published[id].files[m] # None
    /\ published' = [published EXCEPT ![id].files[m] = None]
    /\ UNCHANGED <<disk, database, daemon, holder, work, history>>

Work(p) ==
    \/ \E id \in Times : Begin(p, id)
    \/ CopyDatabase(p) \/ CopyAccount(p) \/ Seal(p) \/ VerifyBundle(p)
    \/ Publish(p) \/ Receipt(p)

BackupNext ==
    \/ Decide \/ Work("daemon") \/ CopyConfig \/ CopyCalendar \/ Checkpoint
    \/ BackupCrash \/ Stop \/ Restart \/ Expire
    \/ OperatorStarts \/ OperatorStops \/ Work("operator") \/ Sync \/ UpdateCalendar
    \/ EditConfig
    \/ \E id \in DOMAIN published, m \in Member : Rot(id, m)

BackupSpec == BackupInit /\ [][BackupNext]_backupVars

-----------------------------------------------------------------------------
BackupTypeOK ==
    /\ \A p \in Process :
         /\ work[p].at \in {"idle", "failed", "database", "account", "config", "calendar",
                           "check", "verify", "publish", "receipt", "checkpoint"}
         /\ p = "operator" => {work[p].files["config"], work[p].files["calendar"]} = {None}
         /\ work[p].at \in {"verify", "publish", "receipt", "checkpoint"}
              => work[p].manifest # None /\ work[p].manifest.id = work[p].id
    /\ closed \subseteq decisions /\ decisions \subseteq 1..MaxSession
    /\ holder \in Process \cup {None}

Complete == {id \in DOMAIN sound : ~Legacy(sound[id].manifest)}

\* A complete bundle is a restore point: it was published after a verification
\* that still succeeds on it, and its database and its account existed
\* together, although the process that made it may have lost its lease between
\* the two copies.
BundleIsOneMoment ==
    \A id \in Complete :
      /\ Verify(sound[id])
      /\ <<sound[id].files["database"].chain, sound[id].files["account"]>> \in moments

\* A bundle in the backup directory that verify_backup accepts is the bundle
\* that was published: a damaged file is found.
DamageIsFound == \A id \in DOMAIN published : Verify(published[id]) => published[id] = sound[id]

\* A receipt, and the closed session that names it, has its bundle on disk
\* whenever a process died: the directory is renamed before the row is written.
ReceiptHasBundle ==
    /\ \A r \in receipts : r.id \in DOMAIN sound /\ sound[r.id].manifest = r
    /\ \A s \in closed :
         \E r \in receipts : ~Legacy(r) /\ r.deployment.decision = s

\* No step replaces a bundle that was published, whatever the wall clock says.
BundlesAreKept == [][\A id \in DOMAIN sound : id \in DOMAIN sound' /\ sound'[id] = sound[id]]_backupVars

\* A bundle that verifies is the one that was published, its database and its account existed
\* together, and every receipt and closed session has its bundle, wherever the process died or
\* lost its lease; and no step replaces a published bundle (backup.py create_backup,
\* verify_backup).
BackupsAreRestorePoints ==
    /\ [](BackupTypeOK /\ BundleIsOneMoment /\ DamageIsFound /\ ReceiptHasBundle)
    /\ BundlesAreKept

\* A session has one final backup: a close-session that is resumed reuses it.
BackupIsReused ==
    \A q, r \in receipts :
      (~Legacy(q) /\ ~Legacy(r) /\ q.deployment.decision = r.deployment.decision) => q = r

-----------------------------------------------------------------------------
\* The backup gate of live-readiness (application/live_readiness_runtime.py).
\* The calendar in use is trading-calendar.json; the gate reads
\* trading_calendar.json of the same directory, and compares the bundle's
\* AccountState digest with the hash of the broker account's number.
DataFile(name) == IF name = "trading-calendar.json" THEN calendar ELSE None

BackupMatches ==
    LET observed == [config |-> config, account |-> AccountIdHash,
                     calendar |-> DataFile("trading_calendar.json")]
    IN \E r \in receipts :
         /\ ~Legacy(r)
         /\ \A key \in DOMAIN observed :
              observed[key] # None /\ r.deployment[key] = observed[key]

\* A verified complete backup of exactly the deployed configuration, account
\* and calendar satisfies the gate.
CurrentBackupIsAccepted ==
    (\E r \in receipts : /\ ~Legacy(r)
                         /\ r.deployment.config = config
                         /\ r.deployment.account = account
                         /\ r.deployment.calendar = DataFile("trading-calendar.json"))
    => BackupMatches

=============================================================================
