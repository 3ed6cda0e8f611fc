\* Two values of what may change, lists of one or two GitRepos, and two changes and a
\* failing POST in any order between the runs.
CONSTANTS
    Names = {"lab", "edge"}
    Passwords = {"p1", "p2"}
    Versions = {"v1", "v2"}
    Repos = {"base", "platform"}
    Addresses = {1, 2}
    MaxChanges = 2
    MaxFaults = 1
SPECIFICATION InstalledSpec
INVARIANTS TypeOK ImportIsWhole FailsForAReason
PROPERTIES RebuiltIsLost Converges UpsSucceed
