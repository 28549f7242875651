CONSTANTS
    N = 2
    Deps <- Chain
    StepRepairs <- OneRepair
    PlanRepairs = 2
    Limits = {4}
    MaxReopens = 0
    MaxCrashes = 1
    MaxQueued = 1
SPECIFICATION Spec
CHECK_DEADLOCK FALSE
INVARIANTS RecoveredPlanHasNoLostStep
