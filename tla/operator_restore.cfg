SPECIFICATION LiveSpec
CONSTANTS
  BackoffLimit = 1
  MaxEdits = 2
  MaxFaults = 1
INVARIANT TypeOK
INVARIANT CompletedHasSucceeded
INVARIANT CreatedOnce
INVARIANT ConditionsBounded
PROPERTY PhaseMovesForward
PROPERTY RestoreEnds
PROPERTY DeletionCleansUp
