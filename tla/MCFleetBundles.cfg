\* Six labels: the scanner and its operator, which two labels bring, both Longhorns, the
\* GPU and what wants it; the pull secret; three changes of the labels and a lapse.
CONSTANTS
    Names = {"application-collection", "sprouter", "storage-class", "suse-storage",
             "longhorn", "cloudnative-pg", "sbomscanner", "sbomscanner-config",
             "ollama", "nvidia-gpu-operator"}
    MaxChanges = 3
    MaxLapses = 1
SPECIFICATION FairSpec
INVARIANTS TypeOK DependenciesComeAlong RestIsAsAsked
PROPERTIES KeptWhileNeeded LabelsSuffice
CHECK_DEADLOCK FALSE
