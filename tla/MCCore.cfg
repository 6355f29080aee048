SPECIFICATION Spec
CONSTANTS
    M = 8
    Operands <- SomeOperands
    Polys <- OnePoly
INVARIANTS TypeOK Lockstep CleanStart FieldCorrect
PROPERTY ImplementsUnit
