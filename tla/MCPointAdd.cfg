SPECIFICATION Spec
CONSTANTS
    M = 3
    Requests <- SomePairs
    MaxResets = 1
INVARIANTS TypeOK GoldenAddition NoStaleNegation
PROPERTIES OperandsStable ImplementsUnit
