SPECIFICATION FairSpec
CONSTANTS
    Requests = {r1, r2, r3}
    Nobody = Nobody
PROPERTIES CancelledJobsClear
CHECK_DEADLOCK FALSE
