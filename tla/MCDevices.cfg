CONSTANTS
    DivMod = 128
    DivStep = 4
    DivInit = 76
    Half <- const_Half
    TimaMod = 4
    TmaValues <- const_TimerValues
    TimaValues <- const_TimerValues
    OamSize = 3
    WramBanks = {0}
    DmaPages <- const_Pages
    Values = {0, 1}
SPECIFICATION DevicesSpec
INVARIANTS EdgesOnce CountsAtRate ReloadedFromTma
PROPERTIES DmaExclusive LockedWhileDrawing
