\* All callers but the registration token, whose retries have no end.  Five retries of
\* the bootstrap token are scaled to three.
CONSTANTS
    Delay = 1
    Interval = 2
    Timeout = 4
    RequestTime = 1
    RetryDelay = 1
    TokenRetries = 3
    ClientRetries = 2
    ProbeTime = 10
    Kinds = {"bootstrapToken", "kubeWait", "clusterId", "vmIp", "firstVmIp", "bridge",
             "remoteKubeconfig"}
SPECIFICATION FairSpec
INVARIANTS TypeOK RejectedForAReason ClusterIsAskedForOnce
PROPERTIES IsAWaitFor SettlesUnlessSilent
