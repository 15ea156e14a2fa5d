SPECIFICATION CatchUpSpec
CONSTANTS
    MaxId = 4
    Bodies = {b1, b2}
    Absent = Absent
    Body <- MCBody
    NoMedia <- MCTextSecond
    Lapsing <- MCNone
    Options <- MCPairs
PROPERTIES CatchesUp
