----------------------------- MODULE ProjectStore -----------------------------
(***************************************************************************)
(* One handle on one project file: class SqliteProjectStore of             *)
(* packages/project-store/src/store.ts over SQLite's transactions.         *)
(*                                                                         *)
(* Every mutator runs its statements between BEGIN IMMEDIATE and COMMIT;   *)
(* withTransaction lets a caller put several mutators behind one commit,   *)
(* and a mutator called inside it joins (depth 2 for the length of its     *)
(* body, which nothing can observe).  A call is therefore: a first action  *)
(* that begins and runs what it writes, further statements if it has more  *)
(* than one, and then COMMIT, or ROLLBACK after a throw.  JavaScript runs  *)
(* one call at a time; what comes between two statements is the death of   *)
(* the process, and what COMMIT meets is another process's lock.           *)
(***************************************************************************)
EXTENDS ProjectTables

CONSTANTS
  CommitMayFail,  \* whether COMMIT can fail with the transaction left open:
                  \* SQLITE_BUSY, when another process is reading the file
  MaxTouches      \* bound on the number of mutations

ASSUME BoundsAssumption == CommitMayFail \in BOOLEAN /\ MaxTouches \in Nat

VARIABLES
  disk,    \* the committed content of the file
  work,    \* what this handle's statements read: the open transaction's rows
  inTx,    \* SQLite has a transaction open on this handle
  call,    \* the call in progress: #depth > 0 unless "none"
  left,    \* the statements the call has still to run
  target,  \* the configuration or the revision the call was given
  handle   \* "open" or "closed" (#db null, or no process)

vars == <<disk, work, inTx, call, left, target, handle>>

CallKinds  == {"none", "row", "config", "compile"}
Statements == ConfigKeys \cup {"record", "snapshot"}

ASSUME StatementsDistinct == {"record", "snapshot"} \cap ConfigKeys = {}

Init ==
  /\ disk = NewProject
  /\ work = disk
  /\ inTx = FALSE
  /\ call = "none"
  /\ left = {}
  /\ target = None
  /\ handle = "open"

-----------------------------------------------------------------------------
(***************************************************************************)
(* BEGIN IMMEDIATE.  It throws when SQLite still has a transaction open;   *)
(* the call then fails having changed nothing, which is a stuttering step. *)
(***************************************************************************)
CanBegin == handle = "open" /\ call = "none" /\ ~inTx

Bounded == work.touches < MaxTouches

Begin(kind, statements, to) ==
  /\ CanBegin
  /\ Bounded
  /\ inTx' = TRUE
  /\ call' = kind
  /\ left' = statements
  /\ target' = to
  /\ UNCHANGED <<disk, handle>>

(* The mutators that are one statement.                                    *)
UpsertSource(k, h) ==
  Begin("row", {}, None) /\ work' = UpsertedSource(work, k, h)
RemoveSource(k) ==
  Begin("row", {}, None) /\ work' = RemovedSource(work, k)
(* Faulty: saving a profile edits the newest revision in place.            *)
SaveProfileInPlace(p) ==
  /\ Begin("row", {}, None)
  /\ work' = IF work.profile = << >> THEN AppendedProfile(work, p)
              ELSE Touched([work EXCEPT !.profile[Len(work.profile)] = p])
SaveProfile(p) ==
  Begin("row", {}, None) /\ work' = AppendedProfile(work, p)
(* Faulty: the rule set is inserted into the table next to its own.        *)
SaveRulesAsDecision(r) ==
  Begin("row", {}, None) /\ work' = AppendedDecision(work, r)
SaveLearnedRules(r) ==
  Begin("row", {}, None) /\ work' = AppendedLearned(work, r)
(* Faulty: the mutation does not touch modified_at.                        *)
SetOverrideUntouched(a, p) ==
  Begin("row", {}, None) /\ work' = [work EXCEPT !.overrides[a] = p]
SetOverride(a, p) ==
  Begin("row", {}, None) /\ work' = PutOverride(work, a, p)
RemoveOverride(a) ==
  Begin("row", {}, None) /\ work' = RemovedOverride(work, a)
RecordDecision(d) ==
  Begin("row", {}, None) /\ work' = AppendedDecision(work, d)

(* writeProjectConfig: withTransaction around one saveConfig per key.      *)
BeginConfig(v) == Begin("config", ConfigKeys, v) /\ UNCHANGED work

SaveConfig(k) ==
  /\ call = "config"
  /\ k \in left
  /\ work' = SavedConfigKey(work, k, target)
  /\ left' = left \ {k}
  /\ UNCHANGED <<disk, inTx, call, target, handle>>

(* Faulty: the snapshot is left out of the transaction.                    *)
BeginCompileAlone(rev) == Begin("compile", {"record"}, rev) /\ UNCHANGED work

(* compileNow: withTransaction around recordCompile and saveSnapshot.      *)
BeginCompile(rev) == Begin("compile", {"record", "snapshot"}, rev) /\ UNCHANGED work

(* Faulty: the profile revision is not looked up.                          *)
RecordCompileUnchecked ==
  /\ call = "compile"
  /\ "record" \in left
  /\ work' = RecordedCompile(work, target)
  /\ left' = left \ {"record"}
  /\ UNCHANGED <<disk, inTx, call, target, handle>>

(* recordCompile refuses a profile_revision the table does not hold; the   *)
(* throw is then the call's only way on.                                   *)
RecordCompile ==
  /\ call = "compile"
  /\ "record" \in left
  /\ KnownRevision(work, target)
  /\ work' = RecordedCompile(work, target)
  /\ left' = left \ {"record"}
  /\ UNCHANGED <<disk, inTx, call, target, handle>>

(* saveSnapshot is given the id recordCompile returned.                    *)
SaveSnapshot ==
  /\ call = "compile"
  /\ left = {"snapshot"}
  /\ KnownCompile(work, Len(work.compiles))
  /\ work' = SavedSnapshot(work, Len(work.compiles))
  /\ left' = {}
  /\ UNCHANGED <<disk, inTx, call, target, handle>>

(* No call, no transaction: what a handle reads is what is committed.      *)
Idle ==
  /\ inTx' = FALSE
  /\ call' = "none"
  /\ left' = {}
  /\ target' = None

(* Faulty: the transaction is committed whatever its body does.            *)
ThrowCommits ==
  /\ call # "none"
  /\ Idle
  /\ disk' = work
  /\ UNCHANGED <<work, handle>>

(* Any statement or the caller's own code may throw: #depth goes to 0 and  *)
(* ROLLBACK runs.                                                          *)
Throw ==
  /\ call # "none"
  /\ Idle
  /\ work' = disk
  /\ UNCHANGED <<disk, handle>>

Commit ==
  /\ call # "none"
  /\ left = {}
  /\ Idle
  /\ disk' = work
  /\ UNCHANGED <<work, handle>>

(* COMMIT throws after #depth was set to 0 and outside the try: nothing    *)
(* rolls back, and the transaction stays open on the handle.               *)
CommitFails ==
  /\ CommitMayFail
  /\ call # "none"
  /\ left = {}
  /\ call' = "none"
  /\ target' = None
  /\ UNCHANGED <<disk, work, inTx, left, handle>>

(* close() between calls: SQLite drops what an open transaction wrote.     *)
Close ==
  /\ handle = "open"
  /\ call = "none"
  /\ Idle
  /\ work' = disk
  /\ handle' = "closed"
  /\ UNCHANGED disk

(* The process dies; the rollback journal restores the file on reopening.  *)
Crash ==
  /\ handle = "open"
  /\ Idle
  /\ work' = disk
  /\ handle' = "closed"
  /\ UNCHANGED disk

Reopen ==
  /\ handle = "closed"
  /\ handle' = "open"
  /\ UNCHANGED <<disk, work, inTx, call, left, target>>

Next ==
  \/ \E k \in SourceKeys, h \in Hashes : UpsertSource(k, h)
  \/ \E k \in SourceKeys : RemoveSource(k)
  \/ \E p \in Profiles : SaveProfile(p)
  \/ \E r \in RuleSets : SaveLearnedRules(r)
  \/ \E a \in Assets, p \in Payloads : SetOverride(a, p)
  \/ \E a \in Assets : RemoveOverride(a)
  \/ \E d \in Decisions : RecordDecision(d)
  \/ \E v \in ConfigVersions : BeginConfig(v)
  \/ \E k \in ConfigKeys : SaveConfig(k)
  \/ \E rev \in 1 .. MaxTouches : BeginCompile(rev)
  \/ RecordCompile
  \/ SaveSnapshot
  \/ Throw
  \/ Commit
  \/ CommitFails
  \/ Close
  \/ Crash
  \/ Reopen

Spec == Init /\ [][Next]_vars

-----------------------------------------------------------------------------
TypeOK ==
  /\ disk \in Tables
  /\ work \in Tables
  /\ inTx \in BOOLEAN
  /\ call \in CallKinds
  /\ left \in SUBSET Statements
  /\ target \in ConfigVersions \cup Nat \cup {None}
  /\ handle \in {"open", "closed"}

(* Between calls, and from inside a call, every compile row points at a    *)
(* stored profile revision and the snapshot at a stored compile: a compile *)
(* can always be explained by the profile that produced it.                *)
ReferencesResolve == References(disk) /\ References(work)

(* Whatever throws or dies, the file never holds a configuration made of   *)
(* two versions, nor a snapshot that is not the newest compile's.          *)
NeverHalfWritten == ConfigWhole(disk) /\ SnapshotNewest(disk)

(* Profile revisions, learned rules, decisions and compiles are append     *)
(* only, across rollbacks, failed commits, crashes and reopening.          *)
HistoriesOnlyGrow == [][HistoryKept(disk, disk')]_vars

(* #mutate, removeSource, removeOverride: no row is committed, changed or  *)
(* deleted unless the same commit writes modified_at.  Which instant it    *)
(* then holds is up to the clock.                                          *)
ChangeIsTouched == [][~SameBut(disk, disk', {}) => disk'.touches > disk.touches]_vars

(* The contract: seen from the file alone, calls are atomic.               *)
Contract == INSTANCE AtomicProject WITH durable <- disk
ImplementsAtomicProject == Contract!Spec

(* store.ts: "Every mutator runs inside BEGIN IMMEDIATE/COMMIT and rolls   *)
(* back whole on any throw": once no call runs, the handle reads what the  *)
(* file holds.                                                             *)
RolledBackOnThrow == call = "none" => work = disk
=============================================================================
