CONSTANTS
    Accounts = {a, b}
    Tenants = {t}
    Subscriptions = {s}
    Stores = {x}
    Containers = {c}
    Folders = {}
    PublicStores = {}
    Slots = {s1, s2}
    MaxPages = 1
    MaxChanges = 1
    Reopens = FALSE
    StaleClicks = FALSE
    None = None
    Anonymous = Anonymous
SPECIFICATION Spec
SYMMETRY MCSymmetry
INVARIANT ListedByIdentity SignOutHonoured ViewIsUsable
PROPERTY PromptsAreWanted DisconnectHolds
