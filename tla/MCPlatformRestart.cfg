SPECIFICATION PlatformSpec
CONSTANTS
    Threads = {1, 2, 3}
    MaxRequests = 2
    Window = 2
    LastTick = 4
    NotReading = NotReading

    MaxAttempts = 2
    FailureWindow = 2
    Lockout = 1
    LastTime = 2
    Requests = {r1, r2}
    Sessions = {s1}

    Writers = {r1, r2}
    Readers = {"reader"}
    Keys <- MCKeys
    TypedNames <- MCTypedNames
    Documents <- MCDocuments
    StoredNames <- MCStoredNames
    Portfolios = {"pf1"}
    Programs = {"g1"}
    Foreign = "foreign"
    MaxAnalyses = 2
    Catalog <- MCCatalog
    Declaring <- MCDeclaring
    DeclaringProjects <- MCDeclaringProjects
    Chunks = {"c1"}
    Questions <- MCQuestions
    MaxActive = 2

    LastDay = 2
    PeriodDays = {1, 2}
    PlannedValues = {0, 10}
    Budgets = {0, 20}
    Costs = {0, 9, 10}
    Whole = 10
    Progress = {0, 5, 6, 10}

    Labels <- MCLabels
    SlugOf <- MCSlugOf
    Default = "main"
    Demo = "demo"
    Pilot = "other"
    Emails = {"admin", "viewer"}
    AdminEmail = "admin"
    DemoEmail = "viewer"
    ProjectKeys = {"seed", "extra"}
    Seeded = {"seed"}
    FreeTexts <- MCFreeTexts
    Records = {1}
    MaxProjects = 3
INVARIANT EveryBootServes
CHECK_DEADLOCK FALSE
