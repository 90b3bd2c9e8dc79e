SPECIFICATION FairSpec
CONSTANTS
    Records <- SomeRecords
    Requests <- SomeRequests
    MaxChecks = 5
    MaxHooks = 1
    Adapters = {"handler", "task"}
    Declared = "world"
    Bindings <- SomeBindings
    Grants <- SomeGrants
    Operations <- SomeOperations
    Asked <- SomeAsked
    MaxCalls = 2
    MaxTaskCalls = 3
INVARIANTS ModulesAreConsistent AnswersAreGranted
PROPERTIES CallsEnd
CHECK_DEADLOCK FALSE
