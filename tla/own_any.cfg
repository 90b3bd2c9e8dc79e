SPECIFICATION Spec
CONSTANTS
    ui = ui
    worker = worker
    waiter = waiter
    Thread = {ui, worker}
    MaxRun = 2
    MaxWork = 1
    Calls <- AnyCalls
INVARIANTS OwnerInv
PROPERTIES TerminalIsFinal
CHECK_DEADLOCK FALSE
