SPECIFICATION CartridgeSpec
CONSTANTS
    Headers <- const_Headers
    Data <- const_Data
    Values <- const_Values
    TimerData <- const_TimerData
    Seconds = 2
    SecondCodes = 3
    Minutes = 1
    MinuteCodes = 2
    Hours = 1
    HourCodes = 2
    DayCodes = 2
    ClocksPerSecond = 2
INVARIANTS RomMapped RamKept
PROPERTIES SecondAdded
CHECK_DEADLOCK FALSE
