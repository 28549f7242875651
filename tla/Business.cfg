CONSTANTS
    k1 = k1
    k2 = k2
    k3 = k3
    k4 = k4
    p1 = p1
    p2 = p2
    p3 = p3
    item1 = item1
    item2 = item2
    actor1 = actor1
    actor2 = actor2
    body1 = body1
    body2 = body2
    Keys <- Steps
    RequestKeys <- Items
    Bodies <- Payloads
    Calls <- Actors
    NoKey = NoKey
    Quota = 1
    Jobs <- Items
    Watchers <- Actors
    None = None
    MaxClaims = 1
    MaxPosts = 2
    Products <- OneItem
    Cycles <- Actors
    Nothing = Nothing
    MaxActive = 1
    MaxRuns = 2
    MaxCalls = 3
    MaxSales = 2
    Workers <- Actors
    NoEvent = NoEvent
    MaxAttempts = 2
    MaxHandled = 4
    Procs <- Processes
    Nodes <- AllNodes
    Deployments <- BothDeployments
    Watchdogs = {"watchdog"}
    NoOwner = NoOwner
    MaxToken = 4
    MaxRows = 3
SPECIFICATION Spec
SYMMETRY BusinessSymmetry
CHECK_DEADLOCK FALSE
INVARIANTS
    OrderIsSound
    
    KeyIsOneRequest
    ReleasedWorkPassed
    OneRemoteAttempt
    PublishableIsProven
    OpenWorkHasNoMoney
    MoneyEventsAccounted
    LeaseIsExclusive
