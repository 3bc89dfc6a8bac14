CONSTANTS
  MaxBytes = 3
  ChunkSizes = {0, 1, 2}
SPECIFICATION BodyFairSpec
INVARIANTS StayingClientIsAnswered NoTaskSurvives
PROPERTIES DisconnectEnds
