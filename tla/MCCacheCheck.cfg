CONSTANTS
  Question = 2
  Chunks <- MCChunks
  Answer <- MCAnswer
  Near <- MCNear
  Selects <- MCSelects
  Engines <- MCEngines
SPECIFICATION Spec
INVARIANTS VerdictIsRight
