SPECIFICATION Spec
CONSTANT
    Null = Null
INVARIANTS
    TypeOK
    CardIsTruthful
    NoLeak
PROPERTIES
    CardIsFilled
    DeadFallsBack
    FallbackEnds
    RestsOnLast
CHECK_DEADLOCK FALSE
