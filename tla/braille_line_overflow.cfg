SPECIFICATION Spec
CONSTANTS
    Letters <- MCLetters
    Cells <- MCCells
    Described <- MCDescribed
    Undescribed = "noNote"
    NoText = "none given"
    Missing = "no alt"
    Parts <- MCParts
    Repairs <- MCRepairs
    Titles = {"Plan", "ox"}
    CellsPerLine = 6
    LinesPerPage = 3
    ChunkSize = 12
    MaxConverted = 2
    MaxParts = 2
CHECK_DEADLOCK FALSE
INVARIANT LinesFit
