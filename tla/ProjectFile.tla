----------------------------- MODULE ProjectFile -----------------------------
(***************************************************************************)
(* One path on disk and the processes that create, open and migrate the    *)
(* project file there: createProject, openProject, openValidated and       *)
(* migrateProjectFile of packages/project-store/src/store.ts, and          *)
(* backupBeforeMigration of backup.ts.                                     *)
(*                                                                         *)
(* Each call is synchronous inside its own process, and interleaves with   *)
(* the calls of other processes (a second machine on a shared folder: the  *)
(* desktop application's single-instance lock covers one user of one       *)
(* machine) at every access to the file system.  Content is who made the   *)
(* project; what its tables hold is ProjectStore's subject.                *)
(***************************************************************************)
EXTENDS Naturals

CONSTANTS
  Procs,      \* processes
  Nobody,     \* no process
  Current     \* PROJECT_SCHEMA_VERSION

Original == "original"                       \* a project from an earlier build

ASSUME FileAssumption ==
  /\ Nobody \notin Procs /\ Original \notin Procs
  /\ Current \in Nat \ {0}

VARIABLES
  file,    \* the file at the path
  backup,  \* the file at <path>.backup-<v>, for each version v
  lock,    \* the process holding SQLite's write lock
  pc,      \* where each process is in its call
  found,   \* the version openValidated read: the steps start there
  named    \* the version backupBeforeMigration read: the copy's name

vars == <<file, backup, lock, pc, found, named>>

Versions == 1 .. (Current + 1)               \* Current + 1: written by a newer build
Absent   == [kind |-> "absent"]
Empty    == [kind |-> "empty"]               \* created by SQLite, no schema yet
Partial  == [kind |-> "partial"]             \* a copy that has not finished
Projects == [kind : {"project"}, version : Versions, owner : Procs \cup {Original}]
Project(v, o) == [kind |-> "project", version |-> v, owner |-> o]

Init ==
  /\ file \in {Absent} \cup {Project(v, Original) : v \in Versions}
  /\ backup = [v \in Versions |-> Absent]
  /\ lock = Nobody
  /\ pc = [p \in Procs |-> "idle"]
  /\ found = [p \in Procs |-> 0]
  /\ named = [p \in Procs |-> 0]

Goes(p, from, to) == pc[p] = from /\ pc' = [pc EXCEPT ![p] = to]
IsProject == file.kind = "project"

(* new DatabaseSync(path) creates the file when it is not there.           *)
Opened == IF file = Absent THEN Empty ELSE file

(* Processes with the file open.                                           *)
Holders == {p \in Procs : pc[p] \in {"created", "writing", "open", "copying", "migrating"}}

Release(p) == lock' = IF lock = p THEN Nobody ELSE lock

-----------------------------------------------------------------------------
(* createProject: existsSync answers no.                                   *)
StartCreate(p) ==
  /\ file = Absent
  /\ Goes(p, "idle", "creating")
  /\ UNCHANGED <<file, backup, lock, found, named>>

CreateOpen(p) ==
  /\ Goes(p, "creating", "created")
  /\ file' = Opened
  /\ UNCHANGED <<backup, lock, found, named>>

(* BEGIN IMMEDIATE and the DDL, which needs a file without the tables.     *)
CreateWrite(p) ==
  /\ Goes(p, "created", "writing")
  /\ lock = Nobody
  /\ file = Empty
  /\ lock' = p
  /\ UNCHANGED <<file, backup, found, named>>

CreateCommit(p) ==
  /\ Goes(p, "writing", "open")
  /\ file' = Project(Current, p)
  /\ Release(p)
  /\ UNCHANGED <<backup, found, named>>

(* Faulty: the path is unlinked under a process that has it open.          *)
CreateFailsUnlinking(p) ==
  /\ \/ Goes(p, "created", "idle")
     \/ Goes(p, "writing", "idle")
  /\ file' = Absent
  /\ Release(p)
  /\ UNCHANGED <<backup, found, named>>

(* Anything failing (the lock is taken, the tables exist, the disk is      *)
(* full): roll back, close and unlink the path.  Unlinking fails, and is   *)
(* ignored, while another process has the file open.                       *)
CreateFails(p) ==
  /\ \/ Goes(p, "created", "idle")
     \/ Goes(p, "writing", "idle")
  /\ file' = IF Holders \ {p} = {} THEN Absent ELSE file
  /\ Release(p)
  /\ UNCHANGED <<backup, found, named>>

-----------------------------------------------------------------------------
(* openProject, with migrate: the path exists.                             *)
StartOpen(p) ==
  /\ file # Absent
  /\ Goes(p, "idle", "opening")
  /\ UNCHANGED <<file, backup, lock, found, named>>

(* openValidated, before a migration and after it.                         *)
OpenCurrent(p) ==
  /\ Goes(p, "opening", "open") \/ Goes(p, "reopening", "open")
  /\ IsProject /\ file.version = Current
  /\ UNCHANGED <<file, backup, lock, found, named>>

(* A project of a newer build, or a file that is not a project, is refused *)
(* (and a file that has gone meanwhile is left behind empty).              *)
OpenRefused(p) ==
  /\ Goes(p, "opening", "idle") \/ Goes(p, "reopening", "idle")
  /\ ~(IsProject /\ file.version <= Current)
  /\ file' = Opened
  /\ UNCHANGED <<backup, lock, found, named>>

(* Faulty: any other version is taken for an older one.                    *)
MigrationOfAnyVersion(p) ==
  /\ IsProject /\ file.version # Current
  /\ Goes(p, "opening", "backup")
  /\ found' = [found EXCEPT ![p] = file.version]
  /\ UNCHANGED <<file, backup, lock, named>>

(* An older project: the user is asked first, and may say no.              *)
MigrationNeeded(p) ==
  /\ IsProject /\ file.version < Current
  /\ \/ Goes(p, "opening", "idle") /\ UNCHANGED found
     \/ Goes(p, "reopening", "idle") /\ UNCHANGED found
     \/ /\ Goes(p, "opening", "backup")
        /\ found' = [found EXCEPT ![p] = file.version]
  /\ UNCHANGED <<file, backup, lock, named>>

-----------------------------------------------------------------------------
(* Faulty: the copy is named after the version the file will have.         *)
BackupTargetVersion(p) ==
  /\ IsProject
  /\ Goes(p, "backup", "copy")
  /\ named' = [named EXCEPT ![p] = Current]
  /\ UNCHANGED <<file, backup, lock, found>>

(* backupBeforeMigration: the version is read once more, and names the     *)
(* copy.                                                                   *)
BackupVersion(p) ==
  /\ IsProject
  /\ Goes(p, "backup", "copy")
  /\ named' = [named EXCEPT ![p] = file.version]
  /\ UNCHANGED <<file, backup, lock, found>>

(* Faulty: COPYFILE_EXCL is forgotten.                                     *)
CopyStartOver(p) ==
  /\ Goes(p, "copy", "copying")
  /\ backup' = [backup EXCEPT ![named[p]] = Partial]
  /\ UNCHANGED <<file, lock, found, named>>

(* copyFileSync with COPYFILE_EXCL: an existing backup is left alone.      *)
CopyStart(p) ==
  /\ Goes(p, "copy", "copying")
  /\ backup[named[p]] = Absent
  /\ backup' = [backup EXCEPT ![named[p]] = Partial]
  /\ UNCHANGED <<file, lock, found, named>>

CopyDone(p) ==
  /\ IsProject
  /\ Goes(p, "copying", "backedUp")
  /\ backup' = [backup EXCEPT ![named[p]] = file]
  /\ UNCHANGED <<file, lock, found, named>>

(* A copy that fails half-way is taken back by the file system call.       *)
CopyFails(p) ==
  /\ Goes(p, "copying", "idle")
  /\ backup' = [backup EXCEPT ![named[p]] = Absent]
  /\ UNCHANGED <<file, lock, found, named>>

(* The file is no longer a project, or the backup path is taken.           *)
BackupRefused(p) ==
  /\ \/ Goes(p, "backup", "idle") /\ ~IsProject
     \/ Goes(p, "copy", "idle") /\ backup[named[p]] # Absent
  /\ UNCHANGED <<file, backup, lock, found, named>>

(* Faulty: the migration starts without waiting for the copy.              *)
MigrateBeforeCopy(p) ==
  /\ Goes(p, "copy", "migrating")
  /\ lock = Nobody
  /\ IsProject /\ file.version = found[p]
  /\ lock' = p
  /\ UNCHANGED <<file, backup, found, named>>

(* The transaction: every step from the version this process found, their  *)
(* migrations rows and the new schema_version.  The steps do not run on a  *)
(* file that has had them (the tables exist, the rows are there).          *)
MigrateBegin(p) ==
  /\ Goes(p, "backedUp", "migrating")
  /\ lock = Nobody
  /\ IsProject /\ file.version = found[p]
  /\ lock' = p
  /\ UNCHANGED <<file, backup, found, named>>

MigrateCommit(p) ==
  /\ Goes(p, "migrating", "reopening")
  /\ file' = [file EXCEPT !.version = Current]
  /\ Release(p)
  /\ UNCHANGED <<backup, found, named>>

(* The lock is taken, a step fails, the disk is full: rolled back.         *)
MigrateFails(p) ==
  /\ \/ Goes(p, "backedUp", "idle") /\ file' = Opened
     \/ Goes(p, "migrating", "idle") /\ UNCHANGED file
  /\ Release(p)
  /\ UNCHANGED <<backup, found, named>>

-----------------------------------------------------------------------------
Close(p) ==
  /\ Goes(p, "open", "idle")
  /\ UNCHANGED <<file, backup, lock, found, named>>

(* The process dies: SQLite's journal takes back an open transaction, and  *)
(* a copy stays as far as it had come.                                     *)
Crash(p) ==
  /\ pc[p] # "idle"
  /\ pc' = [pc EXCEPT ![p] = "idle"]
  /\ Release(p)
  /\ UNCHANGED <<file, backup, found, named>>

(* The user moves a leftover backup away, as the refusal asks, while       *)
(* nothing is migrating.                                                   *)
SetAside(v) ==
  /\ backup[v] # Absent
  /\ \A p \in Procs : pc[p] \in {"idle", "open"}
  /\ backup' = [backup EXCEPT ![v] = Absent]
  /\ UNCHANGED <<file, lock, pc, found, named>>

Next ==
  \/ \E p \in Procs :
       \/ StartCreate(p)
       \/ CreateOpen(p)
       \/ CreateWrite(p)
       \/ CreateCommit(p)
       \/ CreateFails(p)
       \/ StartOpen(p)
       \/ OpenCurrent(p)
       \/ OpenRefused(p)
       \/ MigrationNeeded(p)
       \/ BackupVersion(p)
       \/ CopyStart(p)
       \/ CopyDone(p)
       \/ CopyFails(p)
       \/ BackupRefused(p)
       \/ MigrateBegin(p)
       \/ MigrateCommit(p)
       \/ MigrateFails(p)
       \/ Close(p)
       \/ Crash(p)
  \/ \E v \in Versions : SetAside(v)

Spec == Init /\ [][Next]_vars

-----------------------------------------------------------------------------
Points == {"idle", "creating", "created", "writing", "open", "opening", "reopening",
           "backup", "copy", "copying", "backedUp", "migrating"}

TypeOK ==
  /\ file \in {Absent, Empty} \cup Projects
  /\ backup \in [Versions -> {Absent, Partial} \cup Projects]
  /\ lock \in Procs \cup {Nobody}
  /\ pc \in [Procs -> Points]
  /\ found \in [Procs -> 0 .. Current]
  /\ named \in [Procs -> 0 .. (Current + 1)]

Complete(v) == backup[v] \notin {Absent, Partial}

(* backup.ts: "Dragon.matchline.backup-1 is unambiguously the v1 file,     *)
(* whatever the migration went on to do", although the version is read     *)
(* before the copy is made and another process may migrate in between.     *)
BackupNamesItsVersion == \A v \in Versions : Complete(v) => backup[v].version = v

(* Whenever the file's schema moves on, the whole file as it was is lying  *)
(* beside it: no interleaving of crashes, retries and second migrations    *)
(* upgrades the only copy.                                                 *)
MigrationIsRecoverable ==
  [][ (IsProject /\ file'.kind = "project" /\ file'.version # file.version)
        => backup[file.version] = file ]_vars

(* backup.ts: a previous backup is evidence and is never overwritten; only *)
(* the user moves it.                                                      *)
BackupNeverOverwritten ==
  [][ \A v \in Versions : Complete(v) => backup'[v] \in {backup[v], Absent}
                          /\ (backup'[v] = Absent => UNCHANGED <<file, pc>>) ]_vars

(* A project some process has open stays there, at the version the process *)
(* understands, whatever other processes create, refuse and unlink.        *)
OpenFileStays ==
  \A p \in Procs : pc[p] = "open" => IsProject /\ file.version = Current

(* store.ts, on unlinking after a failed create: "The file was ours to     *)
(* create, so it is ours to take back".                                    *)
CommittedProjectStays == [][IsProject => file'.kind = "project"]_vars
=============================================================================
