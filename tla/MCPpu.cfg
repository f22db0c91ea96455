CONSTANTS
    OamScanCycles = 2
    DrawHBlankCycles = 3
    DrawLengths <- const_DrawLengths
    VisibleLines = 2
    Lines = 4
    CounterMod = 8
    LycValues <- const_LycValues
    WyValues <- const_WyValues
SPECIFICATION Spec
INVARIANTS CyclesInMode StatLineFresh WindowLineBound
PROPERTIES TimingSpec FrameComplete VBlankRecurs
