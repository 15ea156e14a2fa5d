SPECIFICATION CatchUpSpec
CONSTANTS
    MaxId = 2
    Bodies = {b1, b2}
    Absent = Absent
    Body <- MCBody
    NoMedia <- MCFirst
    Lapsing <- MCNone
    Options <- MCSingles
PROPERTIES CatchesUp
