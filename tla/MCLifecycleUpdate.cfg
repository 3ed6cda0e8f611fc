\* A plugin version that changes once.
CONSTANTS
    Names = {"lab"}
    Passwords = {"p1"}
    Versions = {"v1", "v2"}
    Repos = {"base"}
    Addresses = {1}
    MaxChanges = 1
    MaxFaults = 0
SPECIFICATION Spec
INVARIANT UpdatesApply
