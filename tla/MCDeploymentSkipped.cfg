SPECIFICATION Spec
CONSTANTS
    Configurations <- SkippedOnly
    RepoOf <- TwoPlugins
    FleetSecrets = {"scc-suse-basicauth"}
    GitRepos = {"lab-setup-appco"}
    NotTakenOver = {"rancher"}
    MaxRuns = 1
    MaxFaults = 0
INVARIANTS
    BootstrapIsSkipped
CHECK_DEADLOCK FALSE
