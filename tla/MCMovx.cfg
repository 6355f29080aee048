SPECIFICATION Spec
CONSTANTS
    Range = 2
    Delay <- BothDelays
    Programs <- SomePrograms
INVARIANTS TypeOK
PROPERTIES ImplementsAtomicMovx AccessesEnd
