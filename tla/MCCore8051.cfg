SPECIFICATION Spec
CONSTANTS
    Images <- Programs
    Pins <- ProgramPins
    RamSize = 80
    MaxInterrupts = 1
INVARIANTS TypeOK ProgramsCompute
PROPERTIES ReturnsToCaller ProgramsEnd FirmwareSendsFrame
