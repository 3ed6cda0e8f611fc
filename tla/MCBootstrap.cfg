\* The retry limits are those of the code; three runs let the requests of two
\* earlier ones arrive late.
CONSTANTS
    Passwords = {p1, p2}
    Boot = Boot
    None = None
    NoCurrent = NoCurrent
    ChangeRetries = 3
    LoginRetries = 2
    MaxRuns = 3
    MaxGen = 1
SPECIFICATION FairSpec
INVARIANTS TypeOK SavedPasswordWorks
PROPERTIES LockoutIsPermanent ImplementsRotation EveryRunEnds
CHECK_DEADLOCK FALSE
