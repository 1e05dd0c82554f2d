CONSTANTS
    Accounts = {a}
    Tenants = {t}
    Subscriptions = {s}
    Stores = {}
    Containers = {c}
    Folders = {f}
    PublicStores = {p}
    Slots = {s1, s2}
    MaxPages = 1
    MaxChanges = 1
    Reopens = FALSE
    StaleClicks = FALSE
    None = None
    Anonymous = Anonymous
SPECIFICATION FairSpec
INVARIANT PublicIsAnonymous PublicFolderIsListed
PROPERTY RequestsEnd
