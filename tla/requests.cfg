\* One browser, two users, every route, two starts of the process with any settings.
SPECIFICATION Spec
CONSTANTS
    Launches <- OneSetting
    MaxLaunches = 2
    DefaultHours = 2
    HighestHours = 1
    Clients = {c1}
    Users = {1, 2}
    Endpoints = {"register", "login", "upload", "orders", "balance", "withdraw", "withdrawals"}
    MaxTime = 2
CHECK_DEADLOCK FALSE
INVARIANTS
    TypeOK
    EncodingTellsBody
    CookieTellsLogin
    ServesAsAsked
PROPERTIES
    AuthorisedBySession
    SessionLasts
