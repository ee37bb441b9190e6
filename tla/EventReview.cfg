\* Three analysts: an owner, a co-geolocator and a reviewer, in every order of invitation,
\* departure, request, approval, ban and erasure; or two of them and an organization.
CONSTANTS
    Users = {ana, ben, cleo}
    Orgs = {lab}
    MaxGeolocators = 2
    VersionCap = 2
    MaxRequests = 2
    NoUser = NoUser
SYMMETRY Symmetric
SPECIFICATION ReviewSpec
CHECK_DEADLOCK FALSE
INVARIANTS TypeOK OwnerIsGeolocator ApproverIndependent RequestsStand
PROPERTIES ApprovalLandsOnWhatWasSeen CreditIsNeverForgotten
