SPECIFICATION Spec
CONSTANTS
    W = 8
    M = 3
    Points <- BothPoints
    Blank <- Origin
    Infinity <- BothInfinity
    Plus <- BothPlus
    Twice <- BothTwice
    Times <- BothTimes
    Same <- BothSame
    curve_a <- One
    curve_p <- P3
    PaEdges = 2
    PdEdges = 3
    Requests <- KeyOfAlice
INVARIANT ReturnsMultiple
