SPECIFICATION MonSpec
CONSTANTS
    Range = 4
    Frames <- SomeFrames
    Compute <- Mix
INVARIANTS TypeOK FrameReceived Rendezvous ValidBytes Report
PROPERTIES OperandsStable FrameAnswered Ends
\* The simulation stops when the monitor has seen the result.
CHECK_DEADLOCK FALSE
