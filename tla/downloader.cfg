SPECIFICATION FairSpec
CONSTANTS
    MaxId = 4
    Bodies = {b1, b2}
    Absent = Absent
    Body <- MCBody
    NoMedia <- MCTextSecond
    Lapsing <- MCNone
    Options <- MCSoundSyncs
INVARIANTS TypeOK RecordedIntact CheckpointCovers JournalFollowsManifest
PROPERTIES CheckpointMonotonic DryRunTakesNothing IsMirror EveryRunEnds
