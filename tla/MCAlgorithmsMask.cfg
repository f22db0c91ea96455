SPECIFICATION AlgorithmsSpec
CONSTANTS
    Operands <- const_Operands
    Tile = 2
    Width = 3
    MaxSprites = 2
    DrawCycles = 4
    MapTiles = 3
    MapTile <- const_MapTile
    TileNumbers = 4
    Ink <- const_Ink
    VisibleLines = 2
    Scenes <- const_Scenes
    Changes <- const_Changes
INVARIANT SpritesMasked
