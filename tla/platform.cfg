SPECIFICATION PlatformSpec
CONSTANTS
    Assessments = {a1, a2}
    Generators = {g1}
    MAX_VALIDATION_RETRIES = 1
    MaxChains = 2
    TaskTypes = {chain, rule}
    ApiProcesses = {api}
    PromptProcesses = {api, worker}
    MaxTemplates = 3
    MaxTests = 1
    MaxScores = 1
    Targets = {"model", "wildcard"}
    BenchmarkCases = 1
    N_SAMPLES = 2
    MAX_REPAIR_ATTEMPTS = 2
    Values = {v1, v2}
    Invalid = invalid
    EventProcesses = {api, worker}
    ApiServer = api
    Sockets = {socket}
    Tickets = {t1, t2}
    QUEUE_SIZE = 2
    MaxEvents = 2
    Pastes = {p1}
    Documents = {d1}
    Lengths = {1, 4, 6}
    CHUNK_SIZE_TOKENS = 3
    CHUNK_OVERLAP_TOKENS = 1
    MIN_CHUNK_TOKENS = 2
    MAX_TOTAL = 5
    EmbedWorkers = {w1, w2}
    ForceEmbed = api
    NoItem = none
    ConnectorNames = {c1}
    Operators = {o1}
    FAILURE_THRESHOLD = 2
    Users = {u1}
    Content = {e1}
    SourceLevels = {0, 1, 4}
    MaxTime = 3
    s1 = s1
    s2 = s2
    CommonsSources = {s1, s2}
    TrustLevels = {"community", "partner"}
    Priorities = {1}
    ImportTasks = {i1, i2}
    MaxChainVersion = 2
    COMMONS_ALLOW_MOCK_FALLBACK = TRUE
    MaxEdits = 3
    MaxImports = 2
    TargetNames = {t1, t2}
    k1 = k1
    RuleKinds = {k1}
    Conditions <- MCConditions
    MaxClauses = 1
    Approvers = {a1}
    NoTarget = none
    Evaluations = {e1, e2}
    ContributeSources = {s1, s2}
    Contributors = {c1}
    NoEvaluation = none
    ProfileNames = {n1, n2}
    BuiltinNames = {n1}
    DefaultEnabled = {n1}
    Bodies = {b1, b2}
    Shipped = b1
    Editors = {o1}
    GATING_SKIP_CLASSES <- MCSkipClasses
    Categories = 3
    GateMin = 2
    ListedTypes = {"sigma_rule", "analyst_research_task"}
    MaxRuns = 2
INVARIANTS
    ActiveIsLatest AlwaysResolves FreshUnlessOvertaken ScoresDescribeTemplate CostIsBilled
    DeliveredOnceInOrder EmbeddedIsRetrievable HealthyIsClean OperatorChoiceKept
    EmbargoHonoured UnambiguousRouting ContributedHasPR SeedKeepsChoice
    ClassifiedIsPlanned SigmaIsJustified GatedAgrees
PROPERTY WinnerNeverDowngraded
CHECK_DEADLOCK FALSE
