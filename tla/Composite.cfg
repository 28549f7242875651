CONSTANTS
    N = 3
    Deps <- Diamond
    StepRepairs <- OneRepair
    PlanRepairs = 2
    Limits = {3, 4}
    MaxReopens = 1
    MaxCrashes = 2
    MaxQueued = 2
SPECIFICATION FairSpec
CHECK_DEADLOCK FALSE
INVARIANTS PassedOnCurrentInputs
PROPERTIES ImplementsDagOrder TakenPlanEnds
