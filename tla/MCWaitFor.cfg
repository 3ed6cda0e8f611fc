\* One unit stands for the default interval's fraction; the interval is shorter
\* than the timeout, does not divide it, and a probe outlasts an interval.
CONSTANTS
    Delay = 1
    Interval = 2
    Timeout = 7
    ProbeTime = 3
SPECIFICATION FairSpec
INVARIANTS TypeOK SettledInTime PollingRate
PROPERTIES KeepsPromise
