\* fetchClusterRegistrationToken, in units of 5 s (the delay of 1 s rounded up): its
\* calculateDelay does not look at attemptCount.
CONSTANTS
    Delay = 1
    Interval = 1
    Timeout = 6
    RequestTime = 2
    RetryDelay = 1
    TokenRetries = 5
    ClientRetries = 2
    ProbeTime = 17
    Kinds = {"registrationToken"}
SPECIFICATION FairSpec
INVARIANTS EndsByItsTimeout
