CONSTANTS
    w1 = w1
    w2 = w2
    Workers <- OneWorker
    Watcher = watcher
    Operator = operator
    MaxRepairs = 1
    MaxReopens = 1
    MaxCrashes = 2
    MaxQueued = 2
SPECIFICATION Spec
ACTION_CONSTRAINT WatchdogIsPrompt
CHECK_DEADLOCK FALSE
INVARIANTS DeliveredOnce SubmitsLastAcceptedWork ExecutionIsBounded
