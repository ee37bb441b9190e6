\* The search page alone, on the constants of Pages.cfg.
CONSTANTS
    Followed = {"search"}
    Sessions = {1, 2}
    Who <- MCWho
    CallSlots = {1, 2}
    MaxLoads = 1
    NoSession = NoSession
    Nobody = Nobody
    Readers = {"ana", "ben"}
    Keys = {"palette", "theme"}
    Settings = {"one", "two"}
    MaxChoices = 2
    Unset = Unset
    NoReader = NoReader
    Paths = {"all", "mine"}
    MaxRow = 4
    Matches <- MCMatches
    PageSize = 1
    MaxWalks = 2
    NoPath = NoPath
    NoRequest = NoRequest
    Searches = {"q", "r", "s"}
    Nowhere = "none"
    InList = {"q", "r"}
    LastPage <- MCLastPage
    MaxAsks = 3
    NoResults = NoResults
    NoMore = NoMore
    MaxDrafts = 3
    Writes = {"publish", "request"}
    Meets <- MCMeets
    FileOf <- MCFileOf
    MaxOpenings = 2
    NoWrite = "none"
    Events = {1, 2, 3}
    BlockSize = 1
    ReaderMax = 2
    MaxSaves = 2
    MaxOthers = 1
    Statuses = {"detected", "geolocated"}
    Kinds = {"site", "user"}
    Dims = {"author", "tags"}
    KindDims <- MCKindDims
    LinksIn <- MCLinksIn
    MaxMoves = 3
    NoVisit = NoVisit
    MaxSources = 2
    Frames = {1, 2}
    MaxPicks = 2
    MaxKeys = 3
    MaxReloads = 1
    NoPost = NoPost
    Viewports = {"city", "front", "hemisphere", "world"}
    BoxOf <- MCBoxOf
    Inside <- MCInside
    PointFilters = {"every", "some"}
    Days = {"then", "now"}
    NoBox = "none"
    NoView = "none"
    NothingRead = NothingRead
SPECIFICATION Spec
CHECK_DEADLOCK FALSE
INVARIANTS ListIsOneSearch
