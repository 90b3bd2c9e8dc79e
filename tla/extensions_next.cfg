SPECIFICATION Spec
CONSTANTS
    Dirs = {"a", "b"}
    ManifestText <- SomeManifests
    PolicyText <- SomePolicies
    RegistryText <- SomeRegistries
    BaseTools = {"read"}
    FirstPolicies = {"tool", "faulty"}
    MaxEdits = 0
    MaxRuns = 2
    MaxCalls = 1
PROPERTIES NextRunIsFresh
CHECK_DEADLOCK FALSE
