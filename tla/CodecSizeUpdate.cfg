SPECIFICATION Spec
CONSTANTS
    Representations <- LargeSizes
    Known <- KnownTexts
    Earlier = 0
    MaxLength = 2
    MaxCut = 0
INVARIANTS
    RoundsMatch
CHECK_DEADLOCK FALSE
