\* Two pushes, one of which may be forced, and two faults.
SPECIFICATION FairSpec
CONSTANTS
    timer = timer
    operator = operator
    installed = installed
    fine = fine
    sick = sick
    api = api
    web = web
    apiImage = apiImage
    webImage = webImage
    None = None
    Runs <- MCRuns
    Commits <- MCCommits
    Initial = installed
    Images <- MCImages
    Services <- MCServices
    ImageOf <- MCImageOf
    Good <- MCCommits
    Healthy <- MCHealthy
    MaxPushes = 2
    MaxForced = 1
    MaxFaults = 2
    MaxRetries = 1
INVARIANTS
    TypeOK
    ProductionIsTested
    MarkersAgree
PROPERTY WantedIsSettled
CHECK_DEADLOCK FALSE
