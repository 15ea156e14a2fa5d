SPECIFICATION Spec
CONSTANTS
    MaxId = 2
    Bodies = {b1, b2}
    Absent = Absent
    Body <- MCBody
    NoMedia <- MCNone
    Lapsing <- MCNone
    Options <- MCNewestFirst
INVARIANTS CheckpointCovers
