SPECIFICATION Spec
CONSTANTS
  Procs = {p1, p2}
  Nobody = Nobody
  Current = 3
INVARIANT TypeOK
INVARIANT BackupNamesItsVersion
INVARIANT OpenFileStays
PROPERTY MigrationIsRecoverable
PROPERTY BackupNeverOverwritten
