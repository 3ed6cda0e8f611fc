\* Whether Rancher refuses a second cluster of one name is chosen in Init.  Every fault
\* may be an attempt given up, so that one request uses all its retries and a rerun
\* follows.
CONSTANTS
    Retries = 2
    MaxRuns = 5
    MaxFaults = 4
SPECIFICATION FairSpec
INVARIANTS TypeOK CredentialWorks OrphansPerFault FailuresAreFaults
PROPERTIES StuckIsPermanent ImplementsImport ImportCompletes
CHECK_DEADLOCK FALSE
