SPECIFICATION PartSpec
SYMMETRY Symmetric
CHECK_DEADLOCK FALSE
CONSTANTS
    Users = {ana, ben}
    Bodies = {bare, clip, proved, revised}
    Sourced = {clip, proved, revised}
    Complete = {proved, revised}
    Copies = {noCopy, copy}
    proved = proved
    revised = revised
    NoCopy = noCopy
    MaxVersions = 3
    VersionCap = 4
    NoContent = NoContent
    NoUser = NoUser
    NoPage = NoPage
    NoVersion = NoVersion
    Blank = Blank
    Parts = {"writers", "ceiling", "files", "imports"}
    Events = {e1, e2}
    Files = {f1, f2}
    Images = {i1}
    Writers = {ana, ben}
    MaxFiled = 2
    NoEvent = NoEvent
    NoImage = NoImage
    Owners = {"ana", "ben"}
    Linked = {"ana"}
    Works <- MCWorks
    Importers = {ana, ben}
    Coordinates = {"square", "bridge"}
    Links = {"clip"}
    Nowhere = Nowhere
    NoLink = NoLink
    NoWork = NoWork
    MaxRow = 2
    MaxEdits = 2
INVARIANTS
    TypesOK
    VersionsAreNumbered
    VersionNamesContent
    PublishedMeetsFloor
    CeilingHolds
    UploadTakenOnce
    EvidenceStays
    DoublesAreRaces
PROPERTIES
    SaveSupersedesWhatItsAuthorRead
    IsCitable
