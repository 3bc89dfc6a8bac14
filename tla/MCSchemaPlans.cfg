CONSTANTS
  Schemas <- MCSchemas
  Limits <- MCLimits
SPECIFICATION SchemaSpec
INVARIANTS RefusedIffIllegal ObjectFitsSchema ClientSeesThrough
