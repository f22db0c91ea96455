CONSTANTS
    Roms = {r1}
    Left = left
    Right = right
    Buttons <- const_Buttons
    InputCap = 2
    FrameCap = 1
    SoundCap = 1
    MaxBatch = 2
    MaxRam = 1
SPECIFICATION Spec
\* a window whose emulator thread is dead may stop for good
CHECK_DEADLOCK FALSE
INVARIANTS NoCircularWait InputFaithful SavedAtClose
PROPERTIES SaveForward UiResponds
