CONSTANTS
    actor1 = actor1
    actor2 = actor2
    item1 = item1
    item2 = item2
    job1 = job1
    source1 = source1
    source2 = source2
    semantic = semantic
    model1 = model1
    model2 = model2
    Attempts <- Actors
    Caches <- Items
    NoCache = NoCache
    NoAttempt = NoAttempt
    MaxVolumes = 1
    Prompts <- Items
    Handlers <- Actors
    NoPrompt = NoPrompt
    Requests <- Actors
    Rails <- Items
    RoutedMarkets <- OneJob
    Unmapped = Unmapped
    Idle = Idle
    Testers <- Actors
    MaxSecrets = 2
    MaxFloor = 1
    CommercialMinimum = 1
    Billed <- Items
    Prices = {1}
    MaxSnapshots = 2
    Sources <- BothSources
    Criteria <- OneCriterion
    CriteriaOf <- OnlyTheSecond
    MaxAttempt = 2
    MaxRepairs = 1
    MaxChanges = 1
    Models <- BothModels
    Explicit <- OnlyTheFirst
    MaxModels = 2
    MaxErrandRepairs = 1
    MaxErrands = 2
    ProfitJobs <- OneJob
    CostedCalls <- Items
    ServedJob <- AllForOneJob
    Net = 2
    Targets <- OneADay
    MaxDay = 2
    Places = {1, 2, 3}
    SlotChoices = {2}
    MinuteChoices = {2, 3}
    SafetyAttempts <- OneJob
    Versions = {1, 2}
    NoVersion = NoVersion
    MaxReviews = 3
    MaxHash = 1
SPECIFICATION Spec
SYMMETRY OperationsSymmetry
CHECK_DEADLOCK FALSE
INVARIANTS
    CachesAreSound
    CompletionPaidOnce
    ProofsAreKept
    ArmedByOwner
    PublishedPriceIsKept
    CostIsOfThisCall
    PaidOncePerAttempt
    ProfitIsEarned
    SelectionIsGreedy
PROPERTIES
    OnlyJudgedWorkPasses
    
