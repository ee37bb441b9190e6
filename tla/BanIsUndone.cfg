\* Two bans of one account at once, and its restore.
CONSTANTS
    Followed = {"moderation"}
    Users = {ana, ben, cleo}
    Events = {x, y}
    Admins = {one, two}
    MaxClock = 2
    NoUser = NoUser
    Emails = {x, y}
    Names = {x, y}
    Invites = {one, two}
    Clicks = {one, two}
    Visitors = {one, two}
    Sponsors = {sponsor}
    Desks = {one, two}
    DailyMintLimit = 1
    MaxToken = 2
    MaxDay = 1
    Nobody = Nobody
SYMMETRY Symmetric
SPECIFICATION AccountsSpec
CHECK_DEADLOCK FALSE
PROPERTY BanIsUndone
