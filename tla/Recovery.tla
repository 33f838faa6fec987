------------------------------ MODULE Recovery ------------------------------
(***************************************************************************)
(* A database file as servers open, migrate and write it                   *)
(* (src/infrastructure/sqlite/database.ts), while recovery tools make a    *)
(* backup of it and restore that backup elsewhere (recovery.ts).           *)
(*                                                                         *)
(* Every statement of a migration is a transaction of its own; every call  *)
(* of a tool into the file system is an await.  Processes may die, and     *)
(* calls fail, at any of them.  A file is what is in it; temporary files   *)
(* have names of their own and matter only as their tool's copy.           *)
(***************************************************************************)
EXTENDS Integers, Sequences

CONSTANTS
  Server,     \* processes that open the database
  Tool,       \* processes that back it up or restore the backup
  NoFile,     \* in place of the contents of a file that does not exist
  MaxCommits  \* bound on the commits the servers make

SQLITE_SCHEMA_VERSION == 4

\* In the order of their creation.
Tables == <<"schema_migrations", "aggregates", "events", "operations", "outbox", "inbox">>

REQUIRED_TABLES == {Tables[i] : i \in DOMAIN Tables}

\* `aggregateVersion` is the column of the outbox that earlier releases did
\* not have, and its values in the rows there are.
Image == [tables: SUBSET REQUIRED_TABLES, aggregateVersion: {"absent", "unfilled", "filled"},
          versions: SUBSET (1 .. SQLITE_SCHEMA_VERSION + 1), commits: 0 .. MaxCommits]

File == Image \cup {NoFile}

ASSUME RecoveryAssumption == MaxCommits \in Nat /\ NoFile \notin Image

\* Of a tool: its next step, its copy, and the manifest it has read.
ToolState ==
  [at: {"idle", "requireAbsent", "copy", "link database", "link manifest", "undo",
        "find backup", "read manifest", "identify", "verify", "restore", "link restored"},
   copy: File, manifest: File]

VARIABLES
  file,       \* the database in use
  server,     \* where each server is in opening it
  database,   \* the file at the backup's destination
  manifest,   \* the contents that the manifest beside it describes
  restored,   \* the file at the restore's destination
  tool,       \* where each tool is in a backup or in a restore
  succeeded   \* history: the backup that a tool has reported as created

\* The names say whose they are, for the proofs put this module beside Inbox.
recoveryVars == <<file, server, database, manifest, restored, tool, succeeded>>

RecoveryTypeOK ==
  /\ file \in Image
  /\ server \in [Server -> {"closed", "migrating", "altering", "recording", "open"}]
  /\ database \in File /\ manifest \in File /\ restored \in File /\ succeeded \in File
  /\ tool \in [Tool -> ToolState]
  /\ \A t \in Tool :
       /\ tool[t].copy = NoFile <=>
            tool[t].at \notin {"link database", "link manifest", "undo", "link restored"}
       /\ tool[t].at \in {"identify", "verify", "restore"} => tool[t].manifest # NoFile

Idle == [at |-> "idle", copy |-> NoFile, manifest |-> NoFile]

Empty == [tables |-> {}, aggregateVersion |-> "absent", versions |-> {}, commits |-> 0]

\* A new file, one without migration history and one without version 4 (of
\* earlier releases), and one of a later release.
InitialFiles ==
  {Empty,
   [Empty EXCEPT !.tables = {"aggregates", "events", "outbox"}],
   [Empty EXCEPT !.tables = REQUIRED_TABLES, !.versions = 1 .. 3],
   [Empty EXCEPT !.tables = REQUIRED_TABLES, !.aggregateVersion = "filled",
                 !.versions = 1 .. SQLITE_SCHEMA_VERSION + 1]}

RecoveryInit ==
  /\ file \in InitialFiles
  /\ server = [s \in Server |-> "closed"]
  /\ database = NoFile /\ manifest = NoFile /\ restored = NoFile
  /\ tool = [t \in Tool |-> Idle]
  /\ succeeded = NoFile

-----------------------------------------------------------------------------
(* Servers *)

Moves(s, next) ==
  /\ server' = [server EXCEPT ![s] = next]
  /\ UNCHANGED <<database, manifest, restored, tool, succeeded>>

\* The constructor, up to the migration.
assertNoFutureSchema(s) ==
  /\ server[s] = "closed"
  /\ \A v \in file.versions : v <= SQLITE_SCHEMA_VERSION
  /\ Moves(s, "migrating") /\ UNCHANGED file

\* CREATE TABLE IF NOT EXISTS: the first one that is missing.
CreateTable(s) ==
  /\ server[s] = "migrating"
  /\ \E i \in DOMAIN Tables :
       /\ Tables[i] \notin file.tables
       /\ \A j \in 1 .. i - 1 : Tables[j] \in file.tables
       /\ file' = [file EXCEPT !.tables = @ \cup {Tables[i]},
                               !.aggregateVersion = IF Tables[i] = "outbox" THEN "filled" ELSE @]
  /\ Moves(s, "migrating")

\* INSERT OR IGNORE of the versions 1, 2, 3.
RecordVersion(s) ==
  /\ server[s] = "migrating"
  /\ REQUIRED_TABLES \subseteq file.tables
  /\ \E v \in 1 .. 3 :
       /\ v \notin file.versions
       /\ \A w \in 1 .. v - 1 : w \in file.versions
       /\ file' = [file EXCEPT !.versions = @ \cup {v}]
  /\ Moves(s, "migrating")

\* #migrateOutboxAggregateVersion() looks for the column outside any transaction.
FindColumn(s) ==
  /\ server[s] = "migrating"
  /\ REQUIRED_TABLES \subseteq file.tables
  /\ 1 .. 3 \subseteq file.versions
  /\ Moves(s, IF file.aggregateVersion = "absent" THEN "altering" ELSE "recording")
  /\ UNCHANGED file

\* Defect: the column is added in one transaction and filled in another.
AddColumnUnfilled(s) ==
  /\ server[s] = "altering"
  /\ file.aggregateVersion = "absent"
  /\ file' = [file EXCEPT !.aggregateVersion = "unfilled"]
  /\ Moves(s, "recording")

\* ALTER TABLE and UPDATE; if another server was faster the column is a
\* duplicate, and the constructor throws (Fail).
AddColumn(s) ==
  /\ server[s] = "altering"
  /\ file.aggregateVersion = "absent"
  /\ file' = [file EXCEPT !.aggregateVersion = "filled"]
  /\ Moves(s, "recording")

RecordLastVersion(s) ==
  /\ server[s] = "recording"
  /\ file' = [file EXCEPT !.versions = @ \cup {SQLITE_SCHEMA_VERSION}]
  /\ Moves(s, "open")

commit(s) ==
  /\ server[s] = "open"
  /\ file.commits < MaxCommits
  /\ file' = [file EXCEPT !.commits = @ + 1]
  /\ Moves(s, "open")

\* A statement throws and the file is closed; the process stops or dies.
Close(s) ==
  /\ server[s] # "closed"
  /\ Moves(s, "closed") /\ UNCHANGED file

-----------------------------------------------------------------------------
(* Backups *)

Step(t, next) ==
  /\ tool' = [tool EXCEPT ![t] = next]
  /\ UNCHANGED <<file, server>>

\* Defect: versions are not compared.
verifyTablesOnly(image) == REQUIRED_TABLES \subseteq image.tables

\* Schema versions and tables; integrity and foreign keys are SQLite's to
\* keep, and nothing here breaks them.
verifyDatabase(image) ==
  /\ REQUIRED_TABLES \subseteq image.tables
  /\ image.versions = 1 .. SQLITE_SCHEMA_VERSION

\* createVerifiedBackup(): both destinations must be free, which is looked up
\* one after the other ...
createVerifiedBackup(t) ==
  /\ tool[t].at = "idle"
  /\ database = NoFile
  /\ Step(t, [Idle EXCEPT !.at = "requireAbsent"])
  /\ UNCHANGED <<database, manifest, restored, succeeded>>

requireAbsent(t) ==
  /\ tool[t].at = "requireAbsent"
  /\ manifest = NoFile
  /\ Step(t, [Idle EXCEPT !.at = "copy"])
  /\ UNCHANGED <<database, manifest, restored, succeeded>>

\* ... an online backup is a snapshot of the source, whoever writes to it ...
backup(t) ==
  /\ tool[t].at = "copy"
  /\ verifyDatabase(file)
  /\ Step(t, [Idle EXCEPT !.at = "link database", !.copy = file])
  /\ UNCHANGED <<database, manifest, restored, succeeded>>

\* ... and publishExclusive() links it to its destination.  Removing the
\* temporary name may fail after that; publishedDatabase is not set then.
publishDatabase(t) ==
  /\ tool[t].at = "link database"
  /\ database = NoFile
  /\ database' = tool[t].copy
  /\ \/ Step(t, [tool[t] EXCEPT !.at = "link manifest"])
     \/ Step(t, Idle)
  /\ UNCHANGED <<manifest, restored, succeeded>>

\* The same for the manifest, and the backup is reported as created, or
\* undone if the temporary name could not be removed.
publishManifest(t) ==
  /\ tool[t].at = "link manifest"
  /\ manifest = NoFile
  /\ manifest' = tool[t].copy
  /\ \/ Step(t, Idle) /\ succeeded' = tool[t].copy
     \/ Step(t, [tool[t] EXCEPT !.at = "undo"]) /\ UNCHANGED succeeded
  /\ UNCHANGED <<database, restored>>

\* Defect: whatever throws, the destination is removed.
ThrowAndUndo(t) ==
  /\ tool[t].at \notin {"idle", "undo"}
  /\ Step(t, IF tool[t].at \in {"link database", "link manifest"}
             THEN [tool[t] EXCEPT !.at = "undo"] ELSE Idle)
  /\ UNCHANGED <<database, manifest, restored, succeeded>>

\* Something throws, a link for instance because the destination is taken:
\* the tool gives up, and has to remove a database that it has published.
Throw(t) ==
  /\ tool[t].at \notin {"idle", "undo"}
  /\ Step(t, IF tool[t].at = "link manifest" THEN [tool[t] EXCEPT !.at = "undo"] ELSE Idle)
  /\ UNCHANGED <<database, manifest, restored, succeeded>>

\* The removal may fail too, which is ignored.
undo(t) ==
  /\ tool[t].at = "undo"
  /\ database' \in {database, NoFile}
  /\ Step(t, Idle)
  /\ UNCHANGED <<manifest, restored, succeeded>>

\* The process dies.
Die(t) ==
  /\ tool[t].at # "idle"
  /\ Step(t, Idle)
  /\ UNCHANGED <<database, manifest, restored, succeeded>>

-----------------------------------------------------------------------------
(* Restores *)

Reads(t, next) ==
  /\ Step(t, next)
  /\ UNCHANGED <<database, manifest, restored, succeeded>>

\* restoreVerifiedBackup(): the destination must be free ...
restoreVerifiedBackup(t) ==
  /\ tool[t].at = "idle"
  /\ restored = NoFile
  /\ Reads(t, [Idle EXCEPT !.at = "find backup"])

\* ... verifyBackup() looks for the backup, reads the manifest,
requireExistingFile(t) ==
  /\ tool[t].at = "find backup"
  /\ database # NoFile
  /\ Reads(t, [Idle EXCEPT !.at = "read manifest"])

readManifest(t) ==
  /\ tool[t].at = "read manifest"
  /\ manifest # NoFile
  /\ Reads(t, [Idle EXCEPT !.at = "identify", !.manifest = manifest])

\* compares the digest of the backup,
fileIdentity(t) ==
  /\ tool[t].at = "identify"
  /\ database = tool[t].manifest
  /\ Reads(t, [tool[t] EXCEPT !.at = "verify"])

\* and looks into it ...
verifyBackup(t) ==
  /\ tool[t].at = "verify"
  /\ database # NoFile
  /\ verifyDatabase(database)
  /\ Reads(t, [tool[t] EXCEPT !.at = "restore"])

\* ... then it is opened once more to be copied; the copy is verified
restore(t) ==
  /\ tool[t].at = "restore"
  /\ database # NoFile
  /\ verifyDatabase(database)
  /\ Reads(t, [tool[t] EXCEPT !.at = "link restored", !.copy = database])

\* and linked to its destination.
publishRestored(t) ==
  /\ tool[t].at = "link restored"
  /\ restored = NoFile
  /\ restored' = tool[t].copy
  /\ Step(t, Idle)
  /\ UNCHANGED <<database, manifest, succeeded>>

-----------------------------------------------------------------------------

RecoveryNext ==
  \/ \E s \in Server :
       \/ assertNoFutureSchema(s)
       \/ CreateTable(s)
       \/ RecordVersion(s)
       \/ FindColumn(s)
       \/ AddColumn(s)
       \/ RecordLastVersion(s)
       \/ commit(s)
       \/ Close(s)
  \/ \E t \in Tool :
       \/ createVerifiedBackup(t)
       \/ requireAbsent(t)
       \/ backup(t)
       \/ publishDatabase(t)
       \/ publishManifest(t)
       \/ undo(t)
       \/ restoreVerifiedBackup(t)
       \/ requireExistingFile(t)
       \/ readManifest(t)
       \/ fileIdentity(t)
       \/ verifyBackup(t)
       \/ restore(t)
       \/ publishRestored(t)
       \/ Throw(t)
       \/ Die(t)

RecoverySpec == RecoveryInit /\ [][RecoveryNext]_recoveryVars

-----------------------------------------------------------------------------
(* Properties *)

\* What this release can work with.
CompleteSchema(image) ==
  /\ REQUIRED_TABLES \subseteq image.tables
  /\ image.aggregateVersion = "filled"
  /\ 1 .. SQLITE_SCHEMA_VERSION \subseteq image.versions

\* The last version is recorded only when everything is there that it stands
\* for, and a server that is open works on such a file, although a migration
\* is many transactions and others migrate at the same time or die in it.
VersionsTellTheSchema ==
  /\ SQLITE_SCHEMA_VERSION \in file.versions => CompleteSchema(file)
  /\ \A s \in Server : server[s] = "open" => CompleteSchema(file)

\* Backups and restored databases need no migration, whatever the state of
\* their source was: tools look at the recorded versions only.
PublishedIsComplete ==
  \A f \in {database, restored} \ {NoFile} : CompleteSchema(f)

\* A backup that was reported as created stays, with its own manifest, and is
\* what is restored: no tool that works on the same destination, fails and
\* cleans up takes anything of it away ("Existing destinations are never
\* overwritten", docs/disaster-recovery.md).
ReportedBackupStays ==
  succeeded # NoFile =>
    /\ database = succeeded /\ manifest = succeeded
    /\ restored \in {NoFile, succeeded}
=============================================================================
