SPECIFICATION Spec
CONSTANTS
    M = 3
    Requests <- SomePairs
    MaxResets = 0
INVARIANT NegationDetected
