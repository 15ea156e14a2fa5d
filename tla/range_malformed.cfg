SPECIFICATION Spec
CONSTANTS
    MaxId = 4
    Media <- MCMedia
    Name <- MCName
    Size <- MCSize
    EffLimit = 2
    Ttl = 1
    MaxTickets = 2
    MaxMade = 3
    Asks <- MCHeaders
    MaxChunk = 2
    Max32 = 100
    Max16 = 3
INVARIANTS MalformedRefused
CHECK_DEADLOCK FALSE
