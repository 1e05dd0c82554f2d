CONSTANTS
    Accounts = {a}
    Tenants = {t, u}
    Subscriptions = {s}
    Stores = {x}
    Containers = {c}
    Folders = {}
    PublicStores = {}
    Slots = {s1, s2}
    MaxPages = 2
    MaxChanges = 0
    Reopens = FALSE
    StaleClicks = TRUE
    None = None
    Anonymous = Anonymous
SPECIFICATION Spec
SYMMETRY MCNames
INVARIANT ListsNest FileUrlIsItsOwn
