SPECIFICATION Spec
CONSTANTS
    Models <- const_Models
    InitialCount = 2
    MaxFrequency = 3
    MaxPeriod = 1
    MaxShift = 1
    LowCodes = 2
    MaxVolume = 2
    MaxPace = 1
    LongBits = 15
    ShortBits = 7
INVARIANTS PlayingHasClocks SweepSafe NoiseMaximal
PROPERTIES NoteLasts NoteEnds EnvelopeSettles
