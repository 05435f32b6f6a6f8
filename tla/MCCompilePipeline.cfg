SPECIFICATION CompileSpec
CONSTANTS
  None = None
  Assets <- MCAssets
  Keys = {"building", "discipline", "system"}
  Values = {"A", "a", "B", "b", "C"}
  Projects <- MCProjects
  Objects <- MCObjects
  Spellings <- MCSpellings
  NormalTag <- MCNormalTag
  AnatomyKey <- MCAnatomyKey
  Extends <- MCExtends
  Near <- MCNear
  NormalKey <- MCNormalKey
  Reads <- MCReads
  Trimmed <- MCTrimmed
  SegmentOf <- MCSegmentOf
  RoleOf <- MCRoleOf
  FamilyOf <- MCFamilyOf
  RoleClass <- MCRoleClass
  SharedRun <- MCSharedRun
  Extended <- MCExtended
  BodyLength <- MCBodyLength
  Pattern <- MCPattern
  Exports <- MCExports
  Folded <- MCFolded
  KeyRank <- MCKeyRank
  TagKey <- MCNormalTag
  FirstWord <- MCFirstWord
  UnitRank <- MCUnitRank
  Gear = {3}
  Electrical = {"A"}
  Placeholders = {4}
  Registries <- MCRegistries
  Revisions <- MCRevisions
INVARIANTS
  SsmTypeOK
  StrongerRungsSpent
  BoundariesAreHard
  EveryClaimKept
  DemotionsAreCounted
  LoopsAreCut
  EveryAssetShown
  UnresolvedIsExplained
  OrderIsImmaterial
  FlowIsShown
  NoGuessedMatch
  NothingSilent
  LearnedParentsAreEarned
  RegistersAreHonest
  PreviewsComeTrue
  StartupOrderHolds
  EveryAssetScheduled
PROPERTY ImplementsItsParts
