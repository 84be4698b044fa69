SPECIFICATION PlatformSafe
CHECK_DEADLOCK FALSE
CONSTANTS
    w1 = w1
    w2 = w2
    w3 = w3
    k1 = k1
    k2 = k2
    k3 = k3
    r1 = r1
    NoKey = NoKey
    Keys = {k1, k2, k3}
    Writers = {w1, w2, w3}
    Readers = {r1}
    Running = {"sessions"}
    Browsers = {"laptop"}
    Tabs = {"first", "second"}
    Threads = {"p1", "p2", "q1"}
    BrowserOf <- MCBrowserOf
    TabOf <- MCTabOf
    Accounts = {"ana"}
    Nobody = "nobody"
    Tokens = {"t1", "t2", "t3", "t4"}
    NoToken = "no token"
    NoThread = "no thread"
    InitialStatus <- MCInitialStatus
    MaxEvents = 2
    MaxVisits = 3
    MaxLost = 1
    Attempts = {"r1", "r2"}
    Limits <- MCLimits
    Rows = {1, 2, 3}
    Kinds = {"a", "b"}
    InitialRows <- MCInitialRows
    Found = {1}
    PageSize = 1
    TabSize = 1
    MaxActs = 3
    MaxLoads = 2
    Replies = {1, 2, 3}
    Forms = {"s1", "t1"}
    People = {"ana", "prof"}
    PersonOf <- MCPersonOf
    Moderators = {"prof"}
    MaxReplyDepth = 1
    MaxTexts = 2
    MaxRequests = 4
    Activities = {"a1"}
    Quizzes = {"q1"}
    Students = {"s1"}
    EssayWriters = {"s1"}
    MaxWorks = 2
    MaxMoves = 5
    MaxCalls = 2
    Notes = {1, 2}
    BellLimit = 1
    PanelLimit = 2
    MaxBellActs = 2
    MaxAsks = 2
    MaxFailures = 1
    Modules <- MCModules
    Playlist <- MCPlaylist
    Legacy = {"v2"}
    Processing = {"v1"}
    MaxPages = 2
    MaxFetches = 2
    MaxLosses = 1
    Units = {"u1", "u2"}
    QuizPapers = {"q1", "q2"}
    Tasks = {"t1"}
    MaxDeeds = 3
    MaxReads = 2
    MaxSlips = 1
INVARIANTS
    OwnSessionContinues
