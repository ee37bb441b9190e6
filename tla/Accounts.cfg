\* Two admin requests on three analysts who may share two events; two registrations on two codes,
\* each confirmed twice; mints of one sponsor over two days. The parts share their model values,
\* so that one symmetry serves them all.
CONSTANTS
    Followed = {"moderation", "registration", "codes"}
    Users = {ana, ben, cleo}
    Events = {x, y}
    Admins = {one, two}
    MaxClock = 2
    NoUser = NoUser
    Emails = {x, y}
    Names = {x, y}
    Invites = {one, two}
    Clicks = {one, two}
    Visitors = {one, two}
    Sponsors = {sponsor}
    Desks = {one, two}
    DailyMintLimit = 1
    MaxToken = 2
    MaxDay = 1
    Nobody = Nobody
SYMMETRY Symmetric
SPECIFICATION AccountsSpec
CHECK_DEADLOCK FALSE
INVARIANTS TypeOK OwnerIsCredited HiddenWithTheBan InviteServesOnce
PROPERTIES DeletedApartStays SharedWorkPasses
