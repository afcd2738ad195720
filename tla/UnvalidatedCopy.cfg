CONSTANTS
  Keep = 2
  PRE_MIGRATION_KEEP = 1
  Interval = 1
  Builds = {0}
  MaxClock = 2
  MaxWork = 0
  MaxCommands = 0
  MaxTroubles = 1
SPECIFICATION Spec
INVARIANT CopiesAreWhole
