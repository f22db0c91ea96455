CONSTANTS
    OamScanCycles = 2
    DrawHBlankCycles = 3
    DrawLengths <- const_DrawLengths
    VisibleLines = 2
    Lines = 3
    CounterMod = 8
    MaxBlocks = 3
SPECIFICATION Spec
INVARIANTS BlocksLeft
PROPERTIES BlockLands HdmaEnds
