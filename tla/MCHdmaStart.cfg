CONSTANTS
    OamScanCycles = 2
    DrawHBlankCycles = 3
    DrawLengths <- const_DrawLengths
    VisibleLines = 2
    Lines = 3
    CounterMod = 8
    MaxBlocks = 2
SPECIFICATION Spec
PROPERTY BlockInHBlank
