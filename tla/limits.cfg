SPECIFICATION FairSpec
CONSTANTS
    Ips = {a, b, c}
    Window = 4
    MaxFailures = 3
    MaxEntries = 2
    MaxGlobal = 5
    MaxPerIp = 3
INVARIANTS TypeOK TableBounded FailuresBounded NoFalseAlarm QuotasKept
PROPERTIES LimitIsLifted
