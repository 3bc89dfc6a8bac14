CONSTANTS
  Batch = 2
  MaxOptions = 3
  ChunkSize = 2
  Scores <- MCScores
SPECIFICATION AssemblySpec
INVARIANTS AnswersAreTheEngines
