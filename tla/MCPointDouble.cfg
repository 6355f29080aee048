SPECIFICATION Spec
CONSTANTS
    M = 3
    Requests <- CurveRequests
    MaxResets = 1
INVARIANTS TypeOK GoldenDoubling
PROPERTIES OperandsStable ImplementsUnit
