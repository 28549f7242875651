CONSTANTS
    w1 = w1
    w2 = w2
    Workers <- OneWorker
    Watcher = watcher
    Operator = operator
    MaxRepairs = 1
    MaxReopens = 0
    MaxCrashes = 1
    MaxQueued = 1
SPECIFICATION Spec
ACTION_CONSTRAINT WatchdogIsPrompt
CHECK_DEADLOCK FALSE
INVARIANTS TakenPlanCanRun
