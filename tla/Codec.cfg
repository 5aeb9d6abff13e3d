SPECIFICATION Spec
CONSTANTS
    Representations <- SmallRepresentations
    Known <- KnownTexts
    Earlier = 200
    MaxLength = 2
    MaxCut = 4
INVARIANTS
    Hypotheses
    TablesAgree
    EndsAtPadding
    RoundsMatch
    FieldsAsSent
    ValidBlockRead
CHECK_DEADLOCK FALSE
