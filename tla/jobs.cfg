SPECIFICATION LiveSpec
CONSTANTS
    Requests = {r1, r2, r3}
    Nobody = Nobody
    Pages = {page}
    QueueSize = 2
INVARIANTS TypeOK OneJob BusyForAReason NoStrayCancel NoLeakedConnection EndIsShown
PROPERTIES AllAnswered
CHECK_DEADLOCK FALSE
