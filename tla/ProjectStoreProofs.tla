-------------------------- MODULE ProjectStoreProofs --------------------------
(***************************************************************************)
(* Theorems about ProjectStore for every value of its constants.           *)
(*                                                                         *)
(* The argument: whatever an unfinished call has written so far is a       *)
(* prefix of that call (CallSound), so what COMMIT publishes is one whole  *)
(* call on top of what the file held (OneCall); and one whole call keeps   *)
(* everything the content of the file promises (OneCallKeeps).             *)
(***************************************************************************)
EXTENDS ProjectStore, ProjectTablesProofs

-----------------------------------------------------------------------------
(* What the call in progress has written on top of the committed content.  *)
ConfigProgress ==
  /\ target \in ConfigVersions
  /\ left \subseteq ConfigKeys
  /\ SameBut(disk, work, {"config"})
  /\ \A k \in ConfigKeys \ left : work.config[k] = target
  /\ left = ConfigKeys => work = disk
  /\ left # ConfigKeys => work.touches > disk.touches

CompileProgress ==
  \/ left = {"record", "snapshot"} /\ work = disk
  \/ /\ left = {"snapshot"}
     /\ SameBut(disk, work, {"compiles"})
     /\ target \in 1 .. Len(disk.profile)
     /\ work.compiles = Append(disk.compiles, target)
     /\ work.touches > disk.touches
  \/ left = {} /\ CompileWritten(disk, work) /\ work.touches > disk.touches

CallSound ==
  /\ call # "none" => inTx
  /\ ~inTx => work = disk
  /\ call \in {"none", "row"} => left = {}
  /\ call = "row" => RowWritten(disk, work)
  /\ call = "config" => ConfigProgress
  /\ call = "compile" => CompileProgress

IInv == TypeOK /\ Sound(disk) /\ References(work) /\ CallSound

LEMMA InitIInv == Init => IInv
<1> SUFFICES ASSUME Init PROVE IInv
  OBVIOUS
<1>1. NewProject \in Tables
  BY NewProjectSound
<1>2. Sound(NewProject)
  BY NewProjectSound
<1>3. TypeOK
  BY <1>1 DEF Init, TypeOK, CallKinds
<1> QED
  BY <1>2, <1>3 DEF Init, IInv, Sound, CallSound

(* A call that begins with nothing open starts from the committed content. *)
LEMMA RowCallIInv ==
  ASSUME IInv, Begin("row", {}, None), RowWritten(work, work')
  PROVE  IInv'
<1>1. work = disk /\ disk \in Tables
  BY DEF IInv, CallSound, Begin, CanBegin, TypeOK
<1>2. RowKept(disk, work')
  BY <1>1, RowWrittenKeeps
<1>3. TypeOK'
  BY <1>2 DEF IInv, TypeOK, Begin, CallKinds, RowKept
<1>4. References(work')
  BY <1>1, <1>2, FieldTypes
     DEF IInv, References, KnownRevision, KnownCompile, RowKept, HistoryKept, IsExtension
<1>5. CallSound'
  BY <1>1 DEF Begin, CallSound
<1> QED
  BY <1>3, <1>4, <1>5 DEF IInv, Sound, References, ConfigWhole, SnapshotNewest,
     KnownRevision, KnownCompile, Begin

LEMMA SaveConfigIInv ==
  ASSUME IInv, NEW k \in ConfigKeys, SaveConfig(k)
  PROVE  IInv'
<1> DEFINE x == [work.config EXCEPT ![k] = target]
<1>1. work \in Tables /\ disk \in Tables /\ ConfigProgress
  BY DEF IInv, TypeOK, CallSound, SaveConfig
<1>2. x \in [ConfigKeys -> ConfigVersions \cup {None}]
  BY <1>1, FieldTypes DEF ConfigProgress
<1>3. work' = Touched([work EXCEPT !.config = x])
  BY DEF SaveConfig, SavedConfigKey
<1>4. Wrote(work, work', "config") /\ work'.config = x
  BY <1>1, <1>2, <1>3, UpdateWrites, ZenonT(60)
<1> HIDE DEF x
<1>5. SameBut(disk, work', {"config"})
  BY <1>1, <1>4, FieldTypes DEF ConfigProgress, SameBut, Wrote
<1>6. \A j \in ConfigKeys \ left' : work'.config[j] = target
  BY <1>1, <1>4, FieldTypes DEF ConfigProgress, SaveConfig, x
<1>7. work'.touches > disk.touches
  <2>1. disk.touches \in Nat /\ work.touches \in Nat /\ work'.touches \in Nat
    BY <1>1, <1>4, FieldTypes DEF Wrote
  <2>2. work'.touches > work.touches
    BY <1>4 DEF Wrote
  <2>3. work.touches = disk.touches \/ work.touches > disk.touches
    BY <1>1 DEF ConfigProgress
  <2> QED BY <2>1, <2>2, <2>3
<1>8. ConfigProgress'
  BY <1>1, <1>5, <1>6, <1>7 DEF ConfigProgress, SaveConfig, SameBut
<1>9. CallSound'
  BY <1>8 DEF IInv, CallSound, SaveConfig
<1>10. References(work')
  <2>1. work'.profile = work.profile /\ work'.compiles = work.compiles /\ work'.snapshot = work.snapshot
    BY <1>1, <1>4, FieldTypes DEF Wrote
  <2> QED BY <2>1 DEF IInv, References, KnownRevision, KnownCompile
<1>11. TypeOK'
  BY <1>4 DEF IInv, TypeOK, SaveConfig, Wrote
<1> QED
  BY <1>9, <1>10, <1>11 DEF IInv, Sound, References, ConfigWhole, SnapshotNewest,
     KnownRevision, KnownCompile, SaveConfig

LEMMA RecordCompileIInv ==
  ASSUME IInv, RecordCompile
  PROVE  IInv'
<1> DEFINE x == Append(work.compiles, target)
<1>1. work = disk /\ work \in Tables /\ left = {"record", "snapshot"}
  BY DEF IInv, TypeOK, CallSound, CompileProgress, RecordCompile
<1>2. target \in 1 .. Len(work.profile) /\ target \in Nat
  BY <1>1, FieldTypes DEF RecordCompile, KnownRevision
<1>3. /\ x \in Seq(Nat)
      /\ IsExtension(work.compiles, x)
      /\ Len(x) = Len(work.compiles) + 1
      /\ x[Len(work.compiles) + 1] = target
  BY <1>1, <1>2, AppendIsExtension, FieldTypes
<1>4. work' = Touched([work EXCEPT !.compiles = x])
  BY DEF RecordCompile, RecordedCompile
<1>5. Wrote(work, work', "compiles") /\ work'.compiles = x
  BY <1>1, <1>3, <1>4, UpdateWrites, ZenonT(60)
<1>6. CallSound'
  <2>1. SameBut(disk, work', {"compiles"}) /\ work'.touches > disk.touches
    BY <1>1, <1>5, FieldTypes DEF Wrote, SameBut
  <2>2. left' = {"snapshot"}
    BY <1>1 DEF RecordCompile
  <2>3. CompileProgress'
    BY <1>1, <1>2, <1>5, <2>1, <2>2 DEF CompileProgress, RecordCompile, SameBut
  <2> QED BY <2>3 DEF IInv, CallSound, RecordCompile
<1> HIDE DEF x
<1>7. References(work')
  <2>1. work'.profile = work.profile /\ work'.snapshot = work.snapshot
    BY <1>1, <1>5, FieldTypes DEF Wrote
  <2>2. ASSUME NEW i \in 1 .. Len(x)
        PROVE  x[i] \in 1 .. Len(work.profile)
    <3>1. CASE i = Len(work.compiles) + 1
      BY <3>1, <1>2, <1>3
    <3>2. CASE i # Len(work.compiles) + 1
      <4>1. i \in 1 .. Len(work.compiles)
        BY <3>2, <1>1, <1>3, FieldTypes
      <4>2. x[i] = work.compiles[i]
        BY <4>1, <1>3 DEF IsExtension
      <4> QED BY <4>1, <4>2 DEF IInv, References, KnownRevision
    <3> QED BY <3>1, <3>2
  <2>3. work.snapshot # 0 => work.snapshot \in 1 .. Len(x)
    BY <1>1, <1>3, FieldTypes DEF IInv, References, KnownCompile
  <2> QED BY <1>5, <2>1, <2>2, <2>3 DEF References, KnownRevision, KnownCompile
<1>8. TypeOK'
  BY <1>5 DEF IInv, TypeOK, RecordCompile, Wrote
<1> QED
  BY <1>6, <1>7, <1>8 DEF IInv, Sound, References, ConfigWhole, SnapshotNewest,
     KnownRevision, KnownCompile, RecordCompile

LEMMA SaveSnapshotIInv ==
  ASSUME IInv, SaveSnapshot
  PROVE  IInv'
<1> DEFINE n == Len(work.compiles)
<1>1. /\ work \in Tables /\ disk \in Tables
      /\ SameBut(disk, work, {"compiles"})
      /\ target \in 1 .. Len(disk.profile)
      /\ work.compiles = Append(disk.compiles, target)
      /\ work.touches > disk.touches
  BY DEF IInv, TypeOK, CallSound, CompileProgress, SaveSnapshot
<1>2. n \in Nat /\ n \in 1 .. n
  BY <1>1, FieldTypes DEF SaveSnapshot, KnownCompile
<1>3. work' = Touched([work EXCEPT !.snapshot = n])
  BY DEF SaveSnapshot, SavedSnapshot
<1>4. Wrote(work, work', "snapshot") /\ work'.snapshot = n
  BY <1>1, <1>2, <1>3, UpdateWrites, ZenonT(60)
<1>5. /\ work'.profile = work.profile /\ work'.compiles = work.compiles
      /\ work'.touches > work.touches /\ work' \in Tables
  BY <1>1, <1>4, FieldTypes DEF Wrote
<1>6. CallSound'
  <2>0. work'.touches > disk.touches /\ DOMAIN disk = DOMAIN work
    <3>1. disk.touches \in Nat /\ work.touches \in Nat /\ work'.touches \in Nat
      BY <1>1, <1>5, FieldTypes
    <3>2. DOMAIN disk = DOMAIN work
      BY <1>1, FieldTypes
    <3> QED BY <1>1, <1>5, <3>1, <3>2
  <2>1. SameBut(disk, work', {"compiles", "snapshot"})
    <3>1. ASSUME NEW f \in DOMAIN disk \ {"compiles", "snapshot", "touches"}
          PROVE  work'[f] = disk[f]
      <4>1. work[f] = disk[f]
        BY <1>1 DEF SameBut
      <4>2. work'[f] = work[f]
        BY <1>4, <2>0 DEF Wrote
      <4> QED BY <4>1, <4>2
    <3> QED BY <3>1 DEF SameBut
  <2>2. CompileWritten(disk, work')
    BY <1>1, <1>4, <1>5, <2>1 DEF CompileWritten
  <2>3. CompileProgress'
    BY <2>0, <2>1, <2>2 DEF CompileProgress, SaveSnapshot, CompileWritten, SameBut
  <2> QED BY <2>3 DEF IInv, CallSound, SaveSnapshot
<1>7. References(work')
  BY <1>2, <1>4, <1>5 DEF IInv, References, KnownRevision, KnownCompile
<1>8. TypeOK'
  BY <1>5 DEF IInv, TypeOK, SaveSnapshot
<1> QED
  BY <1>6, <1>7, <1>8 DEF IInv, Sound, References, ConfigWhole, SnapshotNewest,
     KnownRevision, KnownCompile, SaveSnapshot

(* COMMIT publishes exactly one whole call.                                *)
LEMMA CommitIsOneCall ==
  ASSUME IInv, Commit
  PROVE  OneCall(disk, disk')
<1>1. CASE call = "row"
  BY <1>1 DEF IInv, CallSound, Commit, OneCall
<1>2. CASE call = "config"
  <2>1. ConfigProgress /\ left = {}
    BY <1>2 DEF IInv, CallSound, Commit
  <2>2. work \in Tables /\ target \in ConfigVersions /\ left # ConfigKeys
    BY <2>1, SomeConfigKey DEF IInv, TypeOK, ConfigProgress
  <2>3. work.config = [k \in ConfigKeys |-> target]
    BY <2>1, <2>2, FieldTypes DEF ConfigProgress
  <2> QED
    BY <2>1, <2>2, <2>3 DEF ConfigProgress, ConfigWritten, OneCall, Commit
<1>3. CASE call = "compile"
  BY <1>3 DEF IInv, CallSound, CompileProgress, Commit, OneCall
<1> QED
  BY <1>1, <1>2, <1>3 DEF IInv, TypeOK, CallKinds, Commit

LEMMA NextIInv == IInv /\ [Next]_vars => IInv'
<1> SUFFICES ASSUME IInv, [Next]_vars PROVE IInv'
  OBVIOUS
<1> USE DEF Sound
<1>1. ASSUME NEW k \in SourceKeys, NEW h \in Hashes, UpsertSource(k, h) PROVE IInv'
  BY <1>1, RowCallIInv DEF UpsertSource, RowWritten
<1>2. ASSUME NEW k \in SourceKeys, RemoveSource(k) PROVE IInv'
  BY <1>2, RowCallIInv DEF RemoveSource, RowWritten
<1>3. ASSUME NEW p \in Profiles, SaveProfile(p) PROVE IInv'
  BY <1>3, RowCallIInv DEF SaveProfile, RowWritten
<1>4. ASSUME NEW r \in RuleSets, SaveLearnedRules(r) PROVE IInv'
  BY <1>4, RowCallIInv DEF SaveLearnedRules, RowWritten
<1>5. ASSUME NEW a \in Assets, NEW p \in Payloads, SetOverride(a, p) PROVE IInv'
  BY <1>5, RowCallIInv DEF SetOverride, RowWritten
<1>6. ASSUME NEW a \in Assets, RemoveOverride(a) PROVE IInv'
  BY <1>6, RowCallIInv DEF RemoveOverride, RowWritten
<1>7. ASSUME NEW d \in Decisions, RecordDecision(d) PROVE IInv'
  BY <1>7, RowCallIInv DEF RecordDecision, RowWritten
<1>8. ASSUME NEW v \in ConfigVersions, BeginConfig(v) PROVE IInv'
  <2>1. ConfigProgress' /\ TypeOK'
    BY <1>8, FieldTypes, SomeConfigKey
       DEF IInv, TypeOK, CallSound, BeginConfig, Begin, CanBegin, ConfigProgress,
           SameBut, Statements, CallKinds
  <2> QED
    BY <1>8, <2>1 DEF IInv, CallSound, BeginConfig, Begin, References, ConfigWhole,
       SnapshotNewest, KnownRevision, KnownCompile
<1>9. ASSUME NEW k \in ConfigKeys, SaveConfig(k) PROVE IInv'
  BY <1>9, SaveConfigIInv
<1>10. ASSUME NEW rev \in 1 .. MaxTouches, BeginCompile(rev) PROVE IInv'
  <2>1. CompileProgress' /\ TypeOK'
    BY <1>10, BoundsAssumption
       DEF IInv, TypeOK, CallSound, BeginCompile, Begin, CanBegin, CompileProgress,
           Statements, CallKinds
  <2> QED
    BY <1>10, <2>1 DEF IInv, CallSound, BeginCompile, Begin, References, ConfigWhole,
       SnapshotNewest, KnownRevision, KnownCompile
<1>11. CASE RecordCompile
  BY <1>11, RecordCompileIInv
<1>12. CASE SaveSnapshot
  BY <1>12, SaveSnapshotIInv
<1>13. CASE Throw
  BY <1>13 DEF Throw, Idle, IInv, TypeOK, CallSound, CallKinds, References, ConfigWhole,
     SnapshotNewest, KnownRevision, KnownCompile
<1>14. CASE Commit
  <2>1. Sound(work) /\ work \in Tables
    BY <1>14, CommitIsOneCall, OneCallKeeps DEF IInv, TypeOK, Commit
  <2> QED
    BY <1>14, <2>1 DEF Commit, Idle, IInv, TypeOK, CallSound, CallKinds, References,
       ConfigWhole, SnapshotNewest, KnownRevision, KnownCompile
<1>15. CASE CommitFails
  BY <1>15 DEF CommitFails, IInv, TypeOK, CallSound, CallKinds, References, ConfigWhole,
     SnapshotNewest, KnownRevision, KnownCompile
<1>16. CASE Close
  BY <1>16 DEF Close, Idle, IInv, TypeOK, CallSound, CallKinds, References, ConfigWhole,
     SnapshotNewest, KnownRevision, KnownCompile
<1>17. CASE Crash
  BY <1>17 DEF Crash, Idle, IInv, TypeOK, CallSound, CallKinds, References, ConfigWhole,
     SnapshotNewest, KnownRevision, KnownCompile
<1>18. CASE Reopen
  BY <1>18 DEF Reopen, IInv, TypeOK, CallSound, CallKinds, References, ConfigWhole,
     SnapshotNewest, KnownRevision, KnownCompile, ConfigProgress, CompileProgress
<1>19. CASE UNCHANGED vars
  BY <1>19 DEF vars, IInv, TypeOK, CallSound, References, ConfigWhole,
     SnapshotNewest, KnownRevision, KnownCompile, ConfigProgress, CompileProgress
<1> QED
  BY <1>1, <1>2, <1>3, <1>4, <1>5, <1>6, <1>7, <1>8, <1>9, <1>10, <1>11, <1>12, <1>13,
     <1>14, <1>15, <1>16, <1>17, <1>18, <1>19 DEF Next

-----------------------------------------------------------------------------
THEOREM Invariance == Spec => []IInv
BY InitIInv, NextIInv, PTL DEF Spec

(* Every variable has its type.                                            *)
THEOREM TypeCorrect == Spec => []TypeOK
<1>1. IInv => TypeOK
  BY DEF IInv
<1> QED BY <1>1, Invariance, PTL

(* Compiles and the snapshot never dangle, committed or not.               *)
THEOREM ReferentialIntegrity == Spec => []ReferencesResolve
<1>1. IInv => ReferencesResolve
  BY DEF IInv, Sound, ReferencesResolve
<1> QED BY <1>1, Invariance, PTL

(* The file never holds half of a configuration or of a compile.           *)
THEOREM Atomicity == Spec => []NeverHalfWritten
<1>1. IInv => NeverHalfWritten
  BY DEF IInv, Sound, NeverHalfWritten
<1> QED BY <1>1, Invariance, PTL

(* A step of the handle is one whole call on the file, or leaves it alone. *)
LEMMA StepIsOneCall ==
  ASSUME IInv, [Next]_vars
  PROVE  OneCall(disk, disk') \/ disk' = disk
<1>1. CASE Commit
  BY <1>1, CommitIsOneCall
<1>2. CASE ~Commit
  BY <1>2
     DEF Next, vars, UpsertSource, RemoveSource, SaveProfile, SaveLearnedRules, SetOverride,
         RemoveOverride, RecordDecision, BeginConfig, SaveConfig, BeginCompile, Begin,
         RecordCompile, SaveSnapshot, Throw, CommitFails, Close, Crash, Reopen
<1> QED BY <1>1, <1>2

(* The contract's module defines one whole call as this one does.          *)
LEMMA ContractCall ==
  ASSUME NEW t, NEW u, OneCall(t, u)
  PROVE  Contract!OneCall(t, u)
BY DEF UpsertedSource, RemovedSource, AppendedProfile, PutOverride, RemovedOverride,
       AppendedLearned, AppendedDecision, Touched, SameBut, ConfigWritten,
       CompileWritten, RowWritten, OneCall, Contract!UpsertedSource,
       Contract!RemovedSource, Contract!AppendedProfile, Contract!PutOverride,
       Contract!RemovedOverride, Contract!AppendedLearned, Contract!AppendedDecision,
       Contract!Touched, Contract!SameBut, Contract!ConfigWritten,
       Contract!CompileWritten, Contract!RowWritten, Contract!OneCall

(* The store implements the contract its callers rely on.                  *)
THEOREM Implements == Spec => ImplementsAtomicProject
<1>1. Init => Contract!Init
  BY DEF Init, NewProject, Contract!Init, Contract!NewProject
<1>2. IInv /\ [Next]_vars => [Contract!Next]_disk
  BY StepIsOneCall, ContractCall DEF Contract!Next
<1> QED
  BY <1>1, <1>2, Invariance, PTL DEF Spec, ImplementsAtomicProject, Contract!Spec

(* No history is rewritten and every change touches modified_at: both are  *)
(* what one whole call keeps.                                              *)
LEMMA StepKeeps ==
  ASSUME IInv, [Next]_vars
  PROVE  /\ HistoryKept(disk, disk')
         /\ ~SameBut(disk, disk', {}) => disk'.touches > disk.touches
<1>1. disk \in Tables /\ Sound(disk)
  BY DEF IInv, TypeOK
<1>2. disk' \in Tables
  BY NextIInv DEF IInv, TypeOK
<1>3. CASE OneCall(disk, disk')
  BY <1>1, <1>2, <1>3, OneCallKeeps DEF SameBut
<1>4. CASE disk' = disk
  BY <1>1, <1>4, SameIsExtension, FieldTypes DEF HistoryKept, SameBut
<1> QED BY <1>3, <1>4, StepIsOneCall

(* Profile revisions, rule sets, decisions and compiles are append only.   *)
THEOREM AppendOnly == Spec => HistoriesOnlyGrow
<1>1. IInv /\ [Next]_vars => [HistoryKept(disk, disk')]_vars
  BY StepKeeps
<1> QED BY <1>1, Invariance, PTL DEF Spec, HistoriesOnlyGrow

(* Whatever throws, dies or is rolled back, rows are never committed       *)
(* without the write of modified_at that goes with them.                   *)
THEOREM EveryChangeTouched == Spec => ChangeIsTouched
<1>1. IInv /\ [Next]_vars => [~SameBut(disk, disk', {}) => disk'.touches > disk.touches]_vars
  BY StepKeeps
<1> QED BY <1>1, Invariance, PTL DEF Spec, ChangeIsTouched

(* While COMMIT cannot fail, a handle with no call running reads exactly   *)
(* what the file holds; with CommitMayFail it need not.                    *)
IdleHandleClean == ~CommitMayFail => RolledBackOnThrow /\ (call = "none" => ~inTx)

THEOREM CleanWithoutBusy == Spec => [](~CommitMayFail => RolledBackOnThrow)
<1>1. Init => IdleHandleClean
  BY DEF Init, IdleHandleClean, RolledBackOnThrow
<1>2. IdleHandleClean /\ [Next]_vars => IdleHandleClean'
  BY DEF IdleHandleClean, RolledBackOnThrow, Next, vars, UpsertSource, RemoveSource, SaveProfile,
         SaveLearnedRules, SetOverride, RemoveOverride, RecordDecision, BeginConfig, SaveConfig,
         BeginCompile, Begin, Idle, RecordCompile, SaveSnapshot, Throw, Commit, CommitFails,
         Close, Crash, Reopen
<1>3. IdleHandleClean => (~CommitMayFail => RolledBackOnThrow)
  BY DEF IdleHandleClean
<1> QED BY <1>1, <1>2, <1>3, PTL DEF Spec

=============================================================================
