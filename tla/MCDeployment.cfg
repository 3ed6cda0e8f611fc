SPECIFICATION FairSpec
CONSTANTS
    Configurations <- SomeOptions
    RepoOf <- TwoPlugins
    FleetSecrets = {"scc-suse-basicauth"}
    GitRepos = {"lab-setup-appco"}
    NotTakenOver = {"rancher"}
    MaxRuns = 2
    MaxFaults = 1
INVARIANTS
    TypeOK
    OnlyLizIsRejected
    NeverStuck
PROPERTIES
    DeploymentCompletes
CHECK_DEADLOCK FALSE
