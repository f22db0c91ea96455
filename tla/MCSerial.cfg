SPECIFICATION SerialSpec
CONSTANTS
    BytesPerLine = 4
    LinesPerTile = 2
    BytesPerPage = 16
    Fills <- const_Fills
    Strays = {0, 136}
    MaxRam = 8
INVARIANTS Aligned
PROPERTIES JobSpec PacketAnswered
