CONSTANTS
  Written <- UpToSeven
  MaxFields = 1
SPECIFICATION Spec
INVARIANTS
  DueAsListed
