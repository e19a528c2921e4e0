CONSTANTS
  Keys = {"a", "b"}
  Cols <- MCCols
  Scenarios <- MCScenarios
  COMMIT_SIZE = 2
  MaxRuns = 2
SPECIFICATION Spec
INVARIANTS TypeOK MigrationIsFaithful SourceMatchesMetadata NothingIsLost NoticedErrorsAreReported HealthyMigrationSucceeds
CHECK_DEADLOCK FALSE
