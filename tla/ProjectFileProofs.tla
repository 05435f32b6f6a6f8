-------------------------- MODULE ProjectFileProofs --------------------------
(***************************************************************************)
(* Theorems about ProjectFile for any number of processes and any schema   *)
(* version.                                                                *)
(*                                                                         *)
(* The argument: a file of an earlier build is never unlinked, since       *)
(* nobody could have started to create over it (Standing), so whoever is   *)
(* on the way to migrating it still finds it, at the version read or       *)
(* already migrated; and it can only have been migrated by somebody whose  *)
(* copy of it is lying under the name of that version (Staged).            *)
(***************************************************************************)
EXTENDS ProjectFile, TLAPS

Creation  == {"creating", "created", "writing"}
Migration == {"backup", "copy", "copying", "backedUp", "migrating"}

IsOriginal == IsProject /\ file.owner = Original

(* A file of an earlier build, and only such a file, is at another version *)
(* than this build's, and nobody is creating a project where it lies.      *)
Standing ==
  /\ IsProject /\ file.version # Current => file.owner = Original
  /\ IsOriginal => \A p \in Procs : pc[p] \notin Creation

(* What a process on its way to a migration can count on.                  *)
Staged(p) ==
  /\ pc[p] \in Migration => IsOriginal /\ file.version <= Current /\ found[p] \in 1 .. (Current - 1)
  /\ pc[p] \in {"copy", "copying"} => named[p] \in Versions
  /\ pc[p] = "copy" => file.version = named[p] \/ backup[named[p]] # Absent
  /\ pc[p] = "copying" => file.version = named[p] /\ backup[named[p]] = Partial
  /\ pc[p] = "backedUp" => file.version = Current \/ backup[file.version] = file
  /\ pc[p] = "migrating" => lock = p /\ file.version = found[p] /\ backup[file.version] = file

(* What a process that creates or has opened the file can count on.        *)
Held(p) ==
  /\ pc[p] = "writing" => lock = p /\ file = Empty
  /\ pc[p] = "open" => IsProject /\ file.version = Current

OneCopier ==
  \A p, q \in Procs : pc[p] = "copying" /\ pc[q] = "copying" => p = q

IInv ==
  /\ TypeOK
  /\ Standing
  /\ \A p \in Procs : Staged(p) /\ Held(p)
  /\ OneCopier
  /\ BackupNamesItsVersion

-----------------------------------------------------------------------------
(* The initial file may be an earlier build's, with nobody at work on it.  *)
LEMMA InitIInv == Init => IInv
BY FileAssumption DEF Init, IInv, TypeOK, Standing, Staged, Held, OneCopier, BackupNamesItsVersion,
  Complete,
  Points, Projects, Project, Versions, Absent, Empty, Partial, Original, Creation, Migration, IsOriginal, IsProject

(* IInv is inductive: one step per action.                                 *)
LEMMA NextIInv == IInv /\ [Next]_vars => IInv'
<1> SUFFICES ASSUME IInv, [Next]_vars PROVE IInv'
  OBVIOUS
<1> USE FileAssumption
<1> USE DEF IInv, TypeOK, Standing, Staged, Held, OneCopier, BackupNamesItsVersion, Complete,
            Points, Projects, Versions, Absent, Empty, Partial, Creation, Migration,
            IsOriginal, IsProject, Goes, Release, Opened, Project
<1>1. ASSUME NEW p \in Procs, StartCreate(p) PROVE IInv'
  BY <1>1 DEF StartCreate
<1>2. ASSUME NEW p \in Procs, CreateOpen(p) PROVE IInv'
  BY <1>2 DEF CreateOpen
<1>3. ASSUME NEW p \in Procs, CreateWrite(p) PROVE IInv'
  BY <1>3 DEF CreateWrite
<1>4. ASSUME NEW p \in Procs, CreateCommit(p) PROVE IInv'
  BY <1>4 DEF CreateCommit
<1>5. ASSUME NEW p \in Procs, CreateFails(p) PROVE IInv'
  <2>1. pc[p] \in {"created", "writing"} /\ pc' = [pc EXCEPT ![p] = "idle"]
    BY <1>5 DEF CreateFails
  <2>2. file' \in {Absent, file} /\ lock' \in {lock, Nobody} /\ UNCHANGED <<backup, found, named>>
    BY <1>5 DEF CreateFails
  <2>3. \A q \in Procs : q # p /\ lock = q => lock' = q
    BY <1>5 DEF CreateFails
  <2>4. (\E q \in Procs : q # p /\ pc[q] \in {"writing", "open"}) => file' = file
    BY <1>5 DEF CreateFails, Holders
  <2>5. ~IsOriginal
    BY <2>1
  <2> QED
    BY <2>1, <2>2, <2>3, <2>4, <2>5
<1>6. ASSUME NEW p \in Procs, StartOpen(p) PROVE IInv'
  BY <1>6 DEF StartOpen
<1>7. ASSUME NEW p \in Procs, OpenCurrent(p) PROVE IInv'
  <2>1. /\ pc[p] \in {"opening", "reopening"} /\ pc' = [pc EXCEPT ![p] = "open"]
        /\ IsProject /\ file.version = Current
        /\ UNCHANGED <<file, backup, lock, found, named>>
    BY <1>7 DEF OpenCurrent
  <2> QED
    BY <2>1
<1>8. ASSUME NEW p \in Procs, OpenRefused(p) PROVE IInv'
  <2>1. /\ pc[p] \in {"opening", "reopening"} /\ pc' = [pc EXCEPT ![p] = "idle"]
        /\ file' = IF file = Absent THEN Empty ELSE file
        /\ UNCHANGED <<backup, lock, found, named>>
    BY <1>8 DEF OpenRefused
  <2> QED
    BY <2>1
<1>9. ASSUME NEW p \in Procs, MigrationNeeded(p) PROVE IInv'
  <2>1. /\ IsProject /\ file.version < Current
        /\ pc[p] \in {"opening", "reopening"}
        /\ UNCHANGED <<file, backup, lock, named>>
        /\ \/ pc' = [pc EXCEPT ![p] = "idle"] /\ UNCHANGED found
           \/ /\ pc' = [pc EXCEPT ![p] = "backup"]
              /\ found' = [found EXCEPT ![p] = file.version]
    BY <1>9 DEF MigrationNeeded
  <2>2. CASE pc' = [pc EXCEPT ![p] = "idle"] /\ UNCHANGED found
    BY <2>1, <2>2
  <2>3. CASE pc' = [pc EXCEPT ![p] = "backup"] /\ found' = [found EXCEPT ![p] = file.version]
    BY <2>1, <2>3
  <2> QED
    BY <2>1, <2>2, <2>3
<1>10. ASSUME NEW p \in Procs, BackupVersion(p) PROVE IInv'
  BY <1>10 DEF BackupVersion
<1>11. ASSUME NEW p \in Procs, CopyStart(p) PROVE IInv'
  BY <1>11 DEF CopyStart
<1>12. ASSUME NEW p \in Procs, CopyDone(p) PROVE IInv'
  BY <1>12 DEF CopyDone
<1>13. ASSUME NEW p \in Procs, CopyFails(p) PROVE IInv'
  BY <1>13 DEF CopyFails
<1>14. ASSUME NEW p \in Procs, BackupRefused(p) PROVE IInv'
  <2>1. /\ pc[p] \in {"backup", "copy"} /\ pc' = [pc EXCEPT ![p] = "idle"]
        /\ UNCHANGED <<file, backup, lock, found, named>>
    BY <1>14 DEF BackupRefused
  <2> QED
    BY <2>1
<1>15. ASSUME NEW p \in Procs, MigrateBegin(p) PROVE IInv'
  BY <1>15 DEF MigrateBegin
<1>16. ASSUME NEW p \in Procs, MigrateCommit(p) PROVE IInv'
  <2>1. /\ pc[p] = "migrating" /\ pc' = [pc EXCEPT ![p] = "reopening"]
        /\ UNCHANGED <<backup, found, named>>
        /\ lock = p /\ lock' = Nobody
        /\ file \in Projects /\ file.owner = Original /\ file.version = found[p]
        /\ found[p] \in 1 .. (Current - 1) /\ backup[found[p]] = file
        /\ file' = Project(Current, Original)
    BY <1>16 DEF MigrateCommit
  <2>2. \A q \in Procs : pc'[q] \notin {"writing", "migrating", "copying"}
    BY <2>1
  <2>3. \A q \in Procs : pc'[q] = "copy" => backup'[named'[q]] # Absent
    BY <2>1
  <2>4. TypeOK'
    BY <2>1
  <2>5. Standing' /\ OneCopier' /\ BackupNamesItsVersion'
    BY <2>1, <2>2
  <2>6. \A q \in Procs : Staged(q)' /\ Held(q)'
    BY <2>1, <2>2, <2>3
  <2> QED
    BY <2>4, <2>5, <2>6
<1>17. ASSUME NEW p \in Procs, MigrateFails(p) PROVE IInv'
  <2>1. /\ pc[p] \in {"backedUp", "migrating"} /\ pc' = [pc EXCEPT ![p] = "idle"]
        /\ UNCHANGED <<file, backup, found, named>>
        /\ lock' \in {lock, Nobody}
        /\ \A q \in Procs : q # p /\ lock = q => lock' = q
    BY <1>17 DEF MigrateFails
  <2> QED
    BY <2>1
<1>18. ASSUME NEW p \in Procs, Close(p) PROVE IInv'
  BY <1>18 DEF Close
<1>19. ASSUME NEW p \in Procs, Crash(p) PROVE IInv'
  BY <1>19 DEF Crash
<1>20. ASSUME NEW v \in Versions, SetAside(v) PROVE IInv'
  BY <1>20 DEF SetAside
<1>21. CASE UNCHANGED vars
  BY <1>21 DEF vars
<1> QED
  BY <1>1, <1>2, <1>3, <1>4, <1>5, <1>6, <1>7, <1>8, <1>9, <1>10, <1>11, <1>12, <1>13, <1>14, <1>15,
    <1>16, <1>17, <1>18, <1>19, <1>20, <1>21 DEF Next

LEMMA Inductive == Spec => []IInv
BY InitIInv, NextIInv, PTL DEF Spec

(* Every variable of the file protocol stays within its type.              *)
THEOREM TypeCorrect == Spec => []TypeOK
BY Inductive, PTL DEF IInv

(* backupBeforeMigration: a complete backup holds the version its name     *)
(* says, although the name is decided before the copy is made.             *)
THEOREM BackupsAreNamedRight == Spec => []BackupNamesItsVersion
BY Inductive, PTL DEF IInv

(* openValidated and the unlink after a failed create: a project that is   *)
(* open stays, at the version its process understands.                     *)
THEOREM OpenProjectsStay == Spec => []OpenFileStays
<1>1. IInv => OpenFileStays
  BY DEF IInv, Held, OpenFileStays
<1> QED
  BY <1>1, Inductive, PTL

-----------------------------------------------------------------------------
(* migrateProjectFile: when a step changes the schema version of a         *)
(* project, the whole file as it was is lying under that version's name.   *)
(* Only the commit of a migration changes a version: a create commits over *)
(* an empty file.                                                          *)
THEOREM EveryMigrationIsRecoverable == Spec => MigrationIsRecoverable
<1> DEFINE Recoverable ==
      (IsProject /\ file'.kind = "project" /\ file'.version # file.version)
        => backup[file.version] = file
<1>1. IInv /\ [Next]_vars => [Recoverable]_vars
  <2> SUFFICES ASSUME IInv, [Next]_vars PROVE Recoverable
    OBVIOUS
  <2> SUFFICES ASSUME IsProject, file' # file, file' # Absent PROVE backup[file.version] = file
    BY DEF Absent
  <2>1. PICK p \in Procs : CreateCommit(p) \/ MigrateCommit(p)
    BY DEF Next, vars, StartCreate, CreateOpen, CreateWrite, CreateFails, StartOpen,
      OpenCurrent, OpenRefused, MigrationNeeded, BackupVersion, CopyStart, CopyDone, CopyFails,
      BackupRefused, MigrateBegin, MigrateFails, Close, Crash, SetAside, Opened, IsProject, Absent
  <2>2. ~CreateCommit(p)
    BY DEF IInv, Held, CreateCommit, Goes, IsProject, Empty
  <2> QED
    BY <2>1, <2>2 DEF IInv, Staged, MigrateCommit, Goes
<1> QED
  BY <1>1, Inductive, PTL DEF Spec, MigrationIsRecoverable

(* COPYFILE_EXCL: a complete backup is changed by nobody, and taken away   *)
(* only by the user, in a step that is nothing else.                       *)
THEOREM BackupsAreKept == Spec => BackupNeverOverwritten
<1> DEFINE Kept ==
      \A v \in Versions : Complete(v) => backup'[v] \in {backup[v], Absent}
                          /\ (backup'[v] = Absent => UNCHANGED <<file, pc>>)
<1>1. IInv /\ [Next]_vars => [Kept]_vars
  <2> SUFFICES ASSUME IInv, [Next]_vars PROVE Kept
    OBVIOUS
  <2>1. CASE UNCHANGED backup
    BY <2>1 DEF Complete
  <2>2. ASSUME NEW v \in Versions, SetAside(v) PROVE Kept
    BY <2>2 DEF IInv, TypeOK, SetAside
  <2>3. ASSUME NEW p \in Procs, CopyStart(p) \/ CopyDone(p) \/ CopyFails(p) PROVE Kept
    <3>1. \A v \in Versions : v # named[p] => backup'[v] = backup[v]
      BY <2>3 DEF IInv, TypeOK, CopyStart, CopyDone, CopyFails
    <3>2. ~Complete(named[p])
      BY <2>3 DEF IInv, Staged, Complete, CopyStart, CopyDone, CopyFails, Goes
    <3> QED
      BY <3>1, <3>2 DEF Complete
  <2> QED
    BY <2>1, <2>2, <2>3 DEF Next, vars, StartCreate, CreateOpen, CreateWrite, CreateCommit,
      CreateFails, StartOpen, OpenCurrent, OpenRefused, MigrationNeeded, BackupVersion,
      BackupRefused, MigrateBegin, MigrateCommit, MigrateFails, Close, Crash
<1> QED
  BY <1>1, Inductive, PTL DEF Spec, BackupNeverOverwritten

(* Of all projects, those of an earlier build are never unlinked, not even *)
(* by the create that may unlink another process's: nobody can have        *)
(* started to create where such a file lies.                               *)
THEOREM EarlierProjectsAreNeverLost == Spec => [][IsOriginal => IsOriginal']_vars
<1>1. IInv /\ [Next]_vars => [IsOriginal => IsOriginal']_vars
  <2> SUFFICES ASSUME IInv, [Next]_vars, IsOriginal PROVE IsOriginal'
    OBVIOUS
  <2>1. \A p \in Procs : pc[p] \notin Creation
    BY DEF IInv, Standing
  <2>2. file' = file \/ \E p \in Procs : MigrateCommit(p)
    BY <2>1 DEF Creation, Goes, Next, vars, StartCreate, CreateOpen, CreateWrite,
      CreateCommit, CreateFails, StartOpen, OpenCurrent, OpenRefused, MigrationNeeded,
      BackupVersion, CopyStart, CopyDone, CopyFails, BackupRefused, MigrateBegin, MigrateFails,
      Close, Crash, SetAside, Opened, IsOriginal, IsProject, Absent
  <2> QED
    BY <2>2 DEF IInv, TypeOK, MigrateCommit, IsOriginal, IsProject, Projects, Absent, Empty
<1> QED
  BY <1>1, Inductive, PTL DEF Spec
=============================================================================
