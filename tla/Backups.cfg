CONSTANTS
  Keep = 2
  PRE_MIGRATION_KEEP = 1
  Interval = 1
  Builds = {0, 1}
  MaxClock = 2
  MaxWork = 1
  MaxCommands = 1
  MaxTroubles = 1
SPECIFICATION FairSpec
INVARIANTS
  Recoverable
  OneInstallationPerDirectory
PROPERTIES
  UpgradesCanBeUndone
  CopyCatchesUp
