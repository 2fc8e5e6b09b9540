SPECIFICATION Spec
CONSTANTS
  Schemas <- MCSchemas
  None = None
INVARIANTS CyclesFound ErrorsAreStuck PoppedForGood
