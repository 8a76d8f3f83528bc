SPECIFICATION Spec
CONSTANTS
  Workers = {g1, g2}
  Explored <- TwoEntries
  BatchSize = 2
  MaxOps = 3
  Before = 1
  Sizes <- SomeSizes
  TTLArguments <- SomeTTLs
  JitterArguments <- SomeJitters
  MaxDuration = 4
  defaultMaxEntries = 1
  defaultCleanupInterval = 1
  defaultCleanupBatchSize = 1
  defaultCleanupEntryBudget = 1
SYMMETRY Alike
INVARIANTS TypeOK SettingsServe SnapshotAccurate EverythingCountedOnce
CHECK_DEADLOCK FALSE
