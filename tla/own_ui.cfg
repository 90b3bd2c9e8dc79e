SPECIFICATION FairSpec
CONSTANTS
    ui = ui
    worker = worker
    waiter = waiter
    Thread = {ui, worker, waiter}
    MaxRun = 2
    MaxWork = 0
    Calls <- UiCalls
INVARIANTS PhaseIsTrue CommitIsNotCancelled
PROPERTIES WaiterReturns CancelSettles
CHECK_DEADLOCK FALSE
