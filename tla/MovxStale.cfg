SPECIFICATION Spec
CONSTANTS
    Range = 2
    Delay <- BothDelays
    Programs <- TwoPointerPrograms
PROPERTIES ImplementsAtomicMovx
