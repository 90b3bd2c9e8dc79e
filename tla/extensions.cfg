SPECIFICATION Spec
CONSTANTS
    Dirs = {"a", "b"}
    ManifestText <- SomeManifests
    PolicyText <- SomePolicies
    RegistryText <- SomeRegistries
    BaseTools = {"read"}
    FirstPolicies = {"tool", "guard", "faulty"}
    MaxEdits = 1
    MaxRuns = 2
    MaxCalls = 1
INVARIANTS RunsAreGuarded SnapshotIsFresh
PROPERTIES SnapshotsAreWhole
CHECK_DEADLOCK FALSE
