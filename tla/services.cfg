SPECIFICATION Spec
CONSTANTS
    t1 = t1
    t2 = t2
    w1 = w1
    w2 = w2
    k1 = k1
    a1 = a1
    p1 = p1
    u1 = u1
    u2 = u2
    r1 = r1
    r2 = r2
    n1 = n1
    n2 = n2
    e1 = e1
    e2 = e2
    i1 = i1
    s1 = s1
    c1 = c1
    c2 = c2
    c3 = c3
    m1 = m1
    m2 = m2
    m3 = m3
    Tenants = {t1, t2}
    Plans = {"free", "pro"}
    StripeStatuses = {"active"}
    Amounts = {1}
    MaxSubscriptions = 2
    MaxInvoices = 2
    MaxUsage = 1
    MaxBalance = 2
    Words = {w1, w2}
    Stems <- OneWord
    Scores = {1, 2}
    Keys = {k1}
    MaxContacts = 2
    MaxScores = 2
    MaxActivities = 1
    MaxFields = 1
    MaxPipelines = 2
    MaxDeals = 1
    Addresses = {a1}
    MaxMessages = 2
    MaxCampaigns = 1
    MaxTemplates = 2
    Requests = {m1, m2, m3}
    Workers = {1, 2}
    WorkerOf <- Served
    Recipients <- Lists
    Limit = 2
    Minute = 2
    MaxClock = 3
    Listings = {p1}
    Kinds = {"campaign", "segment"}
    MaxPosts = 2
    MaxInstallations = 3
    MaxKeywords = 1
    MaxAssets = 2
    MaxTaken = 2
    TenancyCalls = {c1, c2, c3}
    Founder = Founder
    Emails = {e1, e2}
    FounderEmail = e1
    Identities = {i1}
    Slugs = {s1}
    AgentTypes = {"seo", "support"}
    HistoryLimit = 2
    MaxExecutions = 3
    MaxConversations = 1
    EventNames = {n1, n2}
    Visitors = {u1}
    MaxEvents = 2
    MaxTime = 3
    MaxDashboards = 1
    MaxReports = 2
    FlagTenants = {t1, t2}
    Switched = {"export_csv", "billing"}
    Readers = {u1, u2}
    Rooms = {r1, r2}
    MaxNotifications = 3
    MaxDocuments = 2
    MaxChunks = 2
    MaxVersions = 3
    Allowed <- TwoTypes
    SizeLimit <- Limits
    MaxMedia = 2
    MaxSize = 2
    MaxFiles = 3
SYMMETRY Symmetry
INVARIANTS
    TypeOK
    BillingConsistent
    CrmConsistent
    CampaignsAccount
    OvershootBounded
    OutreachOnce
    OnePerPlace
    AllOrNothing
    IndexedIsComplete
    FilesFollowRows
    ViewsAgree
PROPERTIES
    OutcomesStand
    MoreIsNotLess
CHECK_DEADLOCK FALSE
