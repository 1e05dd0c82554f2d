---------------------------- MODULE AzureBrowser ----------------------------
(***************************************************************************)
(* The browser of Azure storage: src/azure/browser.ts (AzureBrowser) over  *)
(* src/azure/auth.ts (MicrosoftAuthentication).                            *)
(*                                                                         *)
(* A request is a chain of calls: discover goes on with selectTenant,      *)
(* which goes on with selectSubscription.  Each stage awaits a session     *)
(* (a silent lookup, then perhaps a prompt) and then a listing.  A chain   *)
(* lives in a slot until its promise settles.  The code stamps a stage     *)
(* with the generation it runs in, and any newer request makes a new one:  *)
(* here the stamp is the flag `cur' of the chain, cleared by the action    *)
(* that starts the newer request.  `lifecycle' is the flag `live' alike.   *)
(*                                                                         *)
(* Data: a list is who it was listed for, of what place, and its names; an *)
(* entry is known by the page that brought it.  Names are unique below     *)
(* their place.  The Microsoft provider is the set of accounts it has a    *)
(* session for.                                                            *)
(***************************************************************************)
EXTENDS Integers, Sequences, FiniteSets

CONSTANTS
    Accounts,          \* Microsoft accounts
    Tenants, Subscriptions, Stores, Containers, Folders,    \* names
    PublicStores,      \* storage accounts with a public container
    Slots,             \* bound: chains of calls whose promises are pending
    MaxPages,          \* bound: pages of a listing
    MaxChanges,        \* bound: changes of the provider's sessions
    Reopens,           \* may "Browse Azure" be chosen while the browser is open?
    StaleClicks,       \* may a click name what the browser no longer lists?
    None, Anonymous

ASSUME BoundAssumption == MaxPages \in Nat \ {0} /\ MaxChanges \in Nat

ASSUME SwitchAssumption == Reopens \in BOOLEAN /\ StaleClicks \in BOOLEAN

ASSUME NameAssumption ==
    /\ None \notin Accounts \cup Slots \cup {Anonymous}
    /\ None \notin Tenants \cup Subscriptions \cup Stores \cup PublicStores
    /\ None \notin Containers \cup Folders
    /\ Anonymous \notin Accounts
    /\ Stores \cap PublicStores = {}

-----------------------------------------------------------------------------
(* Values.                                                                 *)

OrNone(S) == S \cup {None}

\* A place in the hierarchy; what it is not in is None.
Place == [tenant : OrNone(Tenants), sub : OrNone(Subscriptions),
          store : OrNone(Stores \cup PublicStores),
          container : OrNone(Containers), folder : OrNone(Folders)]

Nowhere == [tenant |-> None, sub |-> None, store |-> None, container |-> None,
            folder |-> None]

\* A list, by whose session and of which place.
List(S) == [by : OrNone(Accounts), of : Place, names : SUBSET S]

NoList == [by |-> None, of |-> Nowhere, names |-> {}]

Page == [by : Accounts \cup {Anonymous}, of : Place, n : 1..MaxPages]

Phases == {"closed", "signedOut", "loading", "ready", "error"}

\* errorKind: "authorize" stands for the kinds a retry answers with a prompt.
Errors == {"none", "authorize", "disabled", "other"}

\* CLOSED_AZURE_BROWSER_STATE.
Closed ==
    [mode |-> "authenticated", open |-> FALSE, phase |-> "closed",
     error |-> "none", identity |-> None,
     tenants |-> NoList, tenant |-> None, subs |-> NoList, sub |-> None,
     stores |-> NoList, store |-> None, public |-> None,
     path |-> <<>>, entries |-> <<>>, picked |-> None]

SignedOut == [Closed EXCEPT !.open = TRUE, !.phase = "signedOut"]

\* What dropResourceState resets, with the time of the last refresh: never,
\* within the cache's time to live, or before it.
NoResources == [registry |-> {}, next |-> 0, container |-> None, folder |-> None,
                fresh |-> "never", retry |-> "discover"]

Stages == {"tenant", "subscription", "account", "location"}

\* A chain: the stage it is in, what it awaits, whether its generation is still
\* the browser's (and its lifecycle, for a reconciliation), whether it may
\* prompt, whether a discover above it will mark the refresh, the account of
\* its session (or the one it looks for), the place it lists, and the page it
\* appends (0: it lists anew).
Chain == [stage : {"idle", "discover", "containers", "reconcile"} \cup Stages,
          at : {"none", "session", "fallback", "prompt", "proved", "list"},
          cur : BOOLEAN, live : BOOLEAN, asks : BOOLEAN, marks : BOOLEAN,
          who : Accounts \cup {None, Anonymous}, of : Place, more : 0..MaxPages]

IdleChain == [stage |-> "idle", at |-> "none", cur |-> FALSE, live |-> FALSE,
              asks |-> FALSE, marks |-> FALSE, who |-> None, of |-> Nowhere,
              more |-> 0]

\* interactiveOperation: whose it is, and providerChangePending.
NoOp == [slot |-> None, changed |-> FALSE]

VARIABLES
    state,        \* the view
    account,      \* the account in use
    resources,    \* the registry, the continuation, the location, the cache's age
    chains,
    op,           \* interactiveOperation
    deferred,     \* pendingAuthenticationChangeLifecycle is this lifecycle
    reconciling,  \* reconcilingLifecycle is this lifecycle
    needsConnect, \* reconnectRequiresUserAction
    connecting,   \* connectPromise
    refreshing,   \* refreshPromise
    signedIn,     \* the provider: accounts with a session
    events,       \* its change events not yet delivered
    changes       \* how often its sessions changed

provider == <<signedIn, events, changes>>
promises == <<connecting, refreshing>>
auth     == <<op, deferred, reconciling, needsConnect>>
view     == <<state, account, resources>>
vars == <<view, chains, auth, promises, provider>>

-----------------------------------------------------------------------------
(* Helpers.                                                                *)

\* A continuation that forgets the generation.
IsCurrentUnchecked(s) == TRUE

IsCurrent(s) == chains[s].cur

Free(s) == chains[s] = IdleChain

Failed(shown, kind) == [shown EXCEPT !.open = TRUE, !.phase = "error", !.error = kind]

\* The storage account on display, and where its lists come from.
Target ==
    IF state.mode = "public"
    THEN IF state.public = None THEN Nowhere ELSE [Nowhere EXCEPT !.store = state.public]
    ELSE IF state.store \in state.stores.names
         THEN [state.stores.of EXCEPT !.store = state.store]
         ELSE Nowhere

\* locationPath.
Path(container, folder) ==
    IF container = None THEN <<>>
    ELSE IF folder = None THEN <<container>> ELSE <<container, folder>>

\* publicSelectionIsReady, and the same without a look at what failed.
PublicReadyLoosely == state.mode = "public" => state.phase # "loading"

PublicReady ==
    state.mode = "public" =>
        resources.fresh # "never" /\ state.phase # "loading" /\ state.error = "none"

\* selectedLocation, currentFolderLocation: the account, container and folder the
\* URL is put together from.
FolderUrl ==
    IF Target # Nowhere /\ resources.container # None /\ PublicReady
    THEN [Target EXCEPT !.container = resources.container, !.folder = resources.folder]
    ELSE Nowhere

\* cancel: every chain loses its generation.
Superseded == [s \in Slots |-> [chains[s] EXCEPT !.cur = FALSE]]

\* close and disconnect: and its lifecycle.
Ended == [s \in Slots |-> [chains[s] EXCEPT !.cur = FALSE, !.live = FALSE]]

\* An interrupted interactive operation leaves its provider change behind.
Inherited == deferred \/ (op.changed /\ state.open)

\* interactiveOwner: the operation the next stage of a chain preserves.
Kept(asks) == IF asks THEN op ELSE NoOp

\* The account is forgotten, what was listed with it is not.
RediscoverShallow(s, pinned, marks) ==
    /\ state' = [Closed EXCEPT !.open = TRUE, !.phase = "loading"]
    /\ account' = None
    /\ op' = NoOp /\ deferred' = FALSE
    /\ chains' = [Superseded EXCEPT ![s] =
          [IdleChain EXCEPT !.stage = "discover", !.at = "session", !.cur = TRUE,
                            !.marks = marks, !.who = pinned]]
    /\ UNCHANGED resources

\* revalidateAuthentication of an open browser: forget everything, then
\* discover without prompting, trying the account that was in use first.
Rediscover(s, pinned, marks) ==
    /\ state' = [Closed EXCEPT !.open = TRUE, !.phase = "loading"]
    /\ account' = None /\ resources' = NoResources
    /\ op' = NoOp /\ deferred' = FALSE
    /\ chains' = [Superseded EXCEPT ![s] =
          [IdleChain EXCEPT !.stage = "discover", !.at = "session", !.cur = TRUE,
                            !.marks = marks, !.who = pinned]]

\* loading, then reconcileSupersededAuthentication.
Load(s, chain, kept, pending, shown, held) ==
    IF pending /\ kept = NoOp /\ shown.mode = "authenticated"
    THEN Rediscover(s, account, chain.marks)
    ELSE /\ state' = [shown EXCEPT !.open = TRUE, !.phase = "loading", !.error = "none"]
         /\ resources' = held
         /\ chains' = [Superseded EXCEPT ![s] = [chain EXCEPT !.cur = TRUE]]
         /\ op' = kept /\ deferred' = pending
         /\ UNCHANGED account

\* authenticationChanged and runInteractive, reconcileDeferredAuthentication:
\* prove the account in use.  Nothing is superseded by asking.
Reconcile(s, shown, held, pending) ==
    IF account = None
    THEN Rediscover(s, None, FALSE) /\ UNCHANGED reconciling
    ELSE /\ chains' = [chains EXCEPT ![s] =
                [IdleChain EXCEPT !.stage = "reconcile", !.at = "session", !.cur = TRUE,
                                  !.live = TRUE, !.who = account]]
         /\ reconciling' = TRUE
         /\ state' = shown /\ resources' = held
         /\ op' = NoOp /\ deferred' = pending
         /\ UNCHANGED account

\* A promise clears its own claim only, also when its chain was overtaken.
ClearedIfCurrent(promise, s) == IF promise = s /\ IsCurrent(s) THEN None ELSE promise

Cleared(promise, s) == IF promise = s THEN None ELSE promise

\* A chain settles, leaving the view as given: discover marks the refresh, and
\* runInteractive applies the provider change that waited for it.
Settle(s, shown, held) ==
    LET marked == IF chains[s].marks /\ shown.phase = "ready"
                  THEN [held EXCEPT !.fresh = "fresh"] ELSE held
    IN  IF op.slot = s /\ op.changed
        THEN Reconcile(s, shown, marked, deferred) /\ UNCHANGED <<needsConnect, promises>>
        ELSE /\ state' = shown /\ resources' = marked
             /\ chains' = [chains EXCEPT ![s] = IdleChain]
             /\ op' = IF op.slot = s THEN NoOp ELSE op
             /\ connecting' = Cleared(connecting, s)
             /\ refreshing' = Cleared(refreshing, s)
             /\ UNCHANGED <<account, deferred, reconciling, needsConnect>>

\* signedOut, and the chain it ends.
SettleSignedOut(s, others) ==
    /\ state' = SignedOut /\ resources' = NoResources /\ account' = None
    /\ needsConnect' = TRUE
    /\ chains' = [others EXCEPT ![s] = IdleChain]
    /\ connecting' = Cleared(connecting, s)
    /\ refreshing' = Cleared(refreshing, s)

-----------------------------------------------------------------------------
(* The stages, from their start to their first await.                      *)

Ask(stage, asks, marks, who, of) ==
    [IdleChain EXCEPT !.stage = stage, !.at = "session", !.asks = asks,
                      !.marks = marks, !.who = who, !.of = of]

Discover(s, asks, pinned, kept, pending, shown, held) ==
    Load(s, Ask("discover", asks, FALSE, pinned, Nowhere), kept, pending, shown,
         [held EXCEPT !.retry = "discover"])

\* The lists below the new choice stay.
SelectTenantShallow(s, tenant, asks, marks, kept, pending, shown) ==
    Load(s, Ask("tenant", asks, marks, account, [Nowhere EXCEPT !.tenant = tenant]),
         kept, pending, [shown EXCEPT !.tenant = tenant],
         [resources EXCEPT !.retry = "tenant"])

SelectTenant(s, tenant, asks, marks, kept, pending, shown) ==
    Load(s, Ask("tenant", asks, marks, account, [Nowhere EXCEPT !.tenant = tenant]),
         kept, pending,
         [shown EXCEPT !.tenant = tenant, !.subs = NoList, !.sub = None,
                       !.stores = NoList, !.store = None,
                       !.path = <<>>, !.entries = <<>>],
         [resources EXCEPT !.retry = "tenant"])

SelectSubscription(s, sub, asks, marks, kept, pending, shown) ==
    Load(s, Ask("subscription", asks, marks, account,
                [shown.subs.of EXCEPT !.sub = sub]),
         kept, pending,
         [shown EXCEPT !.sub = sub, !.stores = NoList, !.store = None,
                       !.path = <<>>, !.entries = <<>>],
         [resources EXCEPT !.retry = "subscription"])

\* A choice of account that leaves the registry of the last one.
SelectAccountShallow(s, store, asks, kept, pending) ==
    Load(s, Ask("account", asks, FALSE, account,
                [state.stores.of EXCEPT !.store = store]),
         kept, pending, [state EXCEPT !.store = store],
         [resources EXCEPT !.retry = "account"])

SelectAccount(s, store, asks, kept, pending) ==
    Load(s, Ask("account", asks, FALSE, account,
                [state.stores.of EXCEPT !.store = store]),
         kept, pending,
         [state EXCEPT !.store = store, !.path = <<>>, !.entries = <<>>, !.picked = None],
         [resources EXCEPT !.retry = "account", !.registry = {}, !.next = 0,
                           !.container = None, !.folder = None])

\* loadLocation of a complete location.  Public listings await no session.
Complete(container) ==
    /\ Target # Nowhere /\ container # None
    /\ state.mode = "authenticated" => state.tenant # None

LoadLocation(s, container, folder, more, asks, kept, pending) ==
    LET public == state.mode = "public"
        shown == [state EXCEPT !.path = Path(container, folder)]
        held == [resources EXCEPT !.retry = "location", !.container = container,
                                  !.folder = folder]
    IN  Load(s, [Ask("location", asks, FALSE, IF public THEN Anonymous ELSE account,
                     [Target EXCEPT !.container = container, !.folder = folder])
                   EXCEPT !.at = IF public THEN "list" ELSE "session",
                          !.more = more],
             kept, pending,
             IF more # 0 THEN shown ELSE [shown EXCEPT !.entries = <<>>, !.picked = None],
             IF more # 0 THEN held
             ELSE [held EXCEPT !.registry = {}, !.next = 0,
                               !.fresh = IF public THEN "never" ELSE @])

-----------------------------------------------------------------------------
(* Requests of the user.  The page offers its selects and Refresh while    *)
(* nothing loads, and Retry beside an error.                               *)

Init ==
    /\ state = Closed /\ account = None /\ resources = NoResources
    /\ chains = [s \in Slots |-> IdleChain]
    /\ op = NoOp /\ deferred = FALSE /\ reconciling = FALSE /\ needsConnect = TRUE
    /\ connecting = None /\ refreshing = None
    /\ signedIn \in SUBSET Accounts /\ events = 0 /\ changes = 0

\* refresh, in either mode.
RefreshPublic(s) ==
    /\ refreshing = None
    /\ IF Complete(resources.container)
       THEN /\ LoadLocation(s, resources.container, resources.folder, 0, FALSE,
                            NoOp, Inherited)
            /\ refreshing' = s
       ELSE /\ state' = Failed(state, "other")
            /\ UNCHANGED <<account, resources, chains, op, deferred, refreshing>>
    /\ UNCHANGED <<connecting, reconciling, needsConnect>>

RefreshResources(s) ==
    /\ connecting = None /\ refreshing = None
    /\ IF needsConnect \/ account = None
       THEN /\ state' = SignedOut /\ account' = None /\ resources' = NoResources
            /\ needsConnect' = TRUE
            /\ UNCHANGED <<chains, op, deferred, refreshing>>
       ELSE /\ Discover(s, FALSE, account, NoOp, Inherited,
                        [Closed EXCEPT !.open = TRUE, !.identity = state.identity],
                        NoResources)
            /\ refreshing' = s
            /\ UNCHANGED needsConnect
    /\ UNCHANGED <<connecting, reconciling>>

Refresh(s) ==
    /\ state.open /\ state.phase # "loading" /\ Free(s)
    /\ IF state.mode = "public" THEN RefreshPublic(s) ELSE RefreshResources(s)
    /\ UNCHANGED provider

\* open: what is cached while it is fresh, else a refresh; authenticated
\* resources only while there is no need to connect again.
Open(s) ==
    /\ ~state.open \/ Reopens
    /\ Free(s)
    /\ \/ /\ state.mode = "public" /\ state.error # "none"
          /\ state' = [state EXCEPT !.open = TRUE, !.phase = "error"]
          /\ UNCHANGED <<account, resources, chains, auth, promises>>
       \/ /\ state.mode = "public" /\ state.error = "none"
          /\ resources.fresh # "fresh"
          /\ RefreshPublic(s)
       \/ /\ state.mode = "public" /\ state.error = "none"
          /\ resources.fresh = "fresh"
          /\ state' = [state EXCEPT !.open = TRUE, !.phase = "ready"]
          /\ UNCHANGED <<account, resources, chains, auth, promises>>
       \/ LET known == account # None /\ state.identity # None /\ resources.fresh # "never"
          IN  /\ state.mode = "authenticated"
              /\ \/ /\ needsConnect \/ ~known
                    /\ state' = SignedOut /\ account' = None /\ resources' = NoResources
                    /\ needsConnect' = TRUE
                    /\ UNCHANGED <<chains, op, deferred, reconciling, promises>>
                 \/ /\ ~needsConnect /\ known /\ resources.fresh = "fresh"
                    /\ state' = [state EXCEPT !.open = TRUE, !.phase = "ready",
                                              !.error = "none"]
                    /\ UNCHANGED <<account, resources, chains, auth, promises>>
                 \/ /\ ~needsConnect /\ known /\ resources.fresh = "stale"
                    /\ RefreshResources(s)
    /\ UNCHANGED provider

\* connect: one flow at a time; leaving public browsing disconnects first.
Connect(s) ==
    LET leaves == state.mode = "public"
        shown == IF leaves THEN SignedOut ELSE state
    IN  /\ state.open /\ Free(s)
        /\ leaves \/ connecting = None
        /\ needsConnect' = FALSE
        /\ connecting' = s
        /\ refreshing' = IF leaves THEN None ELSE refreshing
        /\ Discover(s, TRUE, account,
                    [slot |-> s, changed |-> op.changed \/ deferred], FALSE, shown,
                    IF leaves THEN NoResources ELSE resources)
        /\ UNCHANGED <<reconciling, provider>>

\* A disconnect that keeps the account.
ForgetLocally ==
    /\ needsConnect' = TRUE
    /\ op' = NoOp /\ deferred' = FALSE /\ reconciling' = FALSE
    /\ connecting' = None /\ refreshing' = None
    /\ UNCHANGED account

\* disconnect, up to the view it leaves.
Forget ==
    /\ account' = None /\ needsConnect' = TRUE
    /\ op' = NoOp /\ deferred' = FALSE /\ reconciling' = FALSE
    /\ connecting' = None /\ refreshing' = None

Disconnect ==
    /\ state.open
    /\ Forget
    /\ state' = SignedOut /\ resources' = NoResources
    /\ chains' = Ended
    /\ UNCHANGED provider

\* activateLocalSource: disconnect, then close.
BrowseLocal ==
    /\ state # Closed
    /\ Forget
    /\ state' = Closed /\ resources' = NoResources
    /\ chains' = Ended
    /\ UNCHANGED provider

\* openPublicContainer: a validated container, or what is no container's URL.
OpenPublic(s) ==
    /\ Free(s)
    /\ Forget
    /\ \/ /\ state' = Failed([Closed EXCEPT !.mode = "public"], "other")
          /\ resources' = [NoResources EXCEPT !.retry = "location"]
          /\ chains' = Ended
       \/ \E store \in PublicStores, container \in Containers, folder \in OrNone(Folders) :
          /\ state' = [Closed EXCEPT !.mode = "public", !.public = store, !.open = TRUE,
                                     !.phase = "loading", !.path = Path(container, folder)]
          /\ resources' = [NoResources EXCEPT !.retry = "location",
                                !.container = container, !.folder = folder]
          /\ chains' = [Ended EXCEPT ![s] =
                [Ask("location", FALSE, FALSE, Anonymous,
                     [Nowhere EXCEPT !.store = store, !.container = container,
                                     !.folder = folder])
                   EXCEPT !.at = "list", !.cur = TRUE]]
    /\ UNCHANGED provider

\* close, also when a selection is used.  What no proof covers is dropped.
Unproven == deferred \/ reconciling \/ op.changed

Close ==
    /\ state.open
    /\ chains' = Ended
    /\ op' = NoOp /\ deferred' = FALSE /\ reconciling' = FALSE
    /\ connecting' = None /\ refreshing' = None
    /\ IF Unproven
       THEN /\ state' = Closed /\ account' = None /\ resources' = NoResources
            /\ needsConnect' = TRUE
       ELSE /\ state' = [state EXCEPT !.open = FALSE, !.phase = "closed"]
            /\ UNCHANGED <<account, resources, needsConnect>>
    /\ UNCHANGED provider

\* What a choice of the user leaves alone.
Quietly == UNCHANGED <<reconciling, needsConnect, promises, provider>>

\* retry: of the stage that failed, prompting if its failure calls for it.
Interactive == resources.retry = "discover" \/ state.error = "authorize"

Retry(s) ==
    LET asks == state.mode = "authenticated" /\ Interactive
        kept == IF asks THEN [slot |-> s, changed |-> op.changed \/ deferred] ELSE NoOp
        pending == ~asks /\ Inherited
    IN  /\ state.open /\ state.phase = "error" /\ state.error # "disabled" /\ Free(s)
        /\ \/ /\ state.mode = "public" \/ resources.retry = "location"
              /\ Complete(resources.container)
              /\ LoadLocation(s, resources.container, resources.folder, 0, asks,
                              kept, pending)
           \/ /\ state.mode = "public" /\ ~Complete(resources.container)
              /\ UNCHANGED <<view, chains, op, deferred>>
           \/ /\ state.mode = "authenticated" /\ resources.retry = "discover"
              /\ Discover(s, asks, account, kept, pending, state, resources)
           \/ /\ state.mode = "authenticated" /\ resources.retry = "tenant"
              /\ state.tenant \in state.tenants.names
              /\ SelectTenant(s, state.tenant, asks, FALSE, kept, pending, state)
           \/ /\ state.mode = "authenticated" /\ resources.retry = "subscription"
              /\ state.sub \in state.subs.names
              /\ SelectSubscription(s, state.sub, asks, FALSE, kept, pending, state)
           \/ /\ state.mode = "authenticated" /\ resources.retry = "account"
              /\ Target # Nowhere /\ state.tenant # None
              /\ SelectAccount(s, state.store, asks, kept, pending)
        /\ Quietly

ChooseTenant(s, tenant) ==
    /\ state.open /\ state.phase # "loading" /\ Free(s)
    /\ state.mode = "authenticated" /\ tenant \in state.tenants.names
    /\ SelectTenant(s, tenant, FALSE, FALSE, NoOp, Inherited, state)
    /\ Quietly

ChooseSubscription(s, sub) ==
    /\ state.open /\ state.phase # "loading" /\ Free(s)
    /\ state.mode = "authenticated" /\ sub \in state.subs.names
    /\ SelectSubscription(s, sub, FALSE, FALSE, NoOp, Inherited, state)
    /\ Quietly

\* selectAccount: from its card, and from the root of the breadcrumbs.
ChooseAccount(s, store) ==
    /\ state.open /\ Free(s)
    /\ state.mode = "authenticated" /\ state.tenant # None
    /\ store \in state.stores.names
    /\ SelectAccount(s, store, FALSE, NoOp, Inherited)
    /\ Quietly

\* openEntry of what the registry holds: on display, or of a click that was
\* under way when the display changed.
Clickable(page) ==
    /\ state.open /\ page \in resources.registry
    /\ StaleClicks \/ \E i \in DOMAIN state.entries : state.entries[i] = page

OpenFile(page) ==
    /\ Clickable(page) /\ page.of.container # None
    /\ state' = [state EXCEPT !.picked = page]
    /\ UNCHANGED <<account, resources, chains, auth, promises, provider>>

\* A folder keeps the container the browser is in.
OpenFolder(s, page, container, folder) ==
    /\ Clickable(page) /\ Free(s)
    /\ \/ page.of.container = None /\ folder = None /\ state.mode = "authenticated"
       \/ /\ page.of.container # None /\ page.of.folder = None
          /\ folder # None /\ container = resources.container
    /\ IF Complete(container)
       THEN LoadLocation(s, container, folder, 0, FALSE, NoOp, Inherited)
       ELSE /\ state' = Failed(state, "other")
            /\ resources' = [resources EXCEPT !.container = container, !.folder = folder]
            /\ UNCHANGED <<account, chains, op, deferred>>
    /\ Quietly

\* navigate to the breadcrumb of the container, from a folder.
NavigateUp(s) ==
    /\ state.open /\ Free(s) /\ Len(state.path) = 2
    /\ Complete(state.path[1])
    /\ LoadLocation(s, state.path[1], None, 0, FALSE, NoOp, Inherited)
    /\ Quietly

\* loadMore, of blobs and of containers.  The continuation outlives a change of
\* tenant or subscription, though the page offers it no more (hasMore): a late
\* click may find the location incomplete, and loadLocation fails.
LoadMore(s) ==
    /\ state.open /\ Free(s) /\ resources.next # 0
    /\ \/ /\ resources.container # None /\ Complete(resources.container)
          /\ LoadLocation(s, resources.container, resources.folder, resources.next,
                          FALSE, NoOp, Inherited)
       \/ /\ StaleClicks
          /\ resources.container # None /\ ~Complete(resources.container)
          /\ state' = Failed(state, "other")
          /\ UNCHANGED <<account, resources, chains, op, deferred>>
       \/ /\ resources.container = None
          /\ Target # Nowhere /\ state.tenant # None
          /\ Load(s, [Ask("containers", FALSE, FALSE, account, Target)
                        EXCEPT !.more = resources.next],
                  NoOp, Inherited, state, resources)
    /\ Quietly

\* A click that names what the browser does not hold any more fails at once,
\* whatever runs.
StaleClick ==
    /\ StaleClicks /\ state.open
    /\ state.identity # None \/ state.public # None
    /\ state' = Failed(state, "other")
    /\ UNCHANGED <<account, resources, chains, auth, promises, provider>>

-----------------------------------------------------------------------------
(* The chains: sessions.                                                   *)

\* isCurrent fails, or the aborted signal ends the lookup: nothing is written.
Dropped(s) ==
    /\ chains[s].stage \notin {"idle", "reconcile"} /\ chains[s].at # "prompt"
    /\ ~IsCurrent(s)
    /\ Settle(s, state, resources)
    /\ UNCHANGED provider

\* Sessions the provider may offer silently to a chain.
Offered(s) == IF chains[s].who = None THEN signedIn ELSE signedIn \cap {chains[s].who}

\* A session was found: the stage lists with it.  discover adopts its account;
\* a location is read where the browser is by now.
Granted(s, a) ==
    /\ chains' = [chains EXCEPT ![s].at = "list", ![s].who = a,
          ![s].of = IF chains[s].stage = "location"
                    THEN [@ EXCEPT !.container = resources.container,
                                   !.folder = resources.folder]
                    ELSE @]
    /\ account' = IF chains[s].stage = "discover" THEN a ELSE account
    /\ UNCHANGED <<state, resources, auth, promises>>

SilentSession(s) ==
    /\ chains[s].at \in {"session", "fallback"} /\ chains[s].stage # "reconcile"
    /\ IsCurrent(s)
    /\ \E a \in Offered(s) : Granted(s, a)
    /\ UNCHANGED provider

\* discover looks for the session of the account in use first.
Pinned(s) == chains[s].stage = "discover" /\ chains[s].who # None

\* None is offered.  A tenant or storage session may be refused to an account
\* that is signed in.
NoSilentSession(s) ==
    /\ chains[s].at \in {"session", "fallback"} /\ chains[s].stage # "reconcile"
    /\ IsCurrent(s)
    /\ chains[s].stage = "discover" => Offered(s) = {}
    /\ \/ /\ chains[s].asks
          /\ chains' = [chains EXCEPT ![s].at = "prompt"]
          /\ UNCHANGED <<view, auth, promises>>
       \/ /\ ~chains[s].asks /\ Pinned(s)
          /\ chains' = [chains EXCEPT ![s].at = "fallback", ![s].who = None]
          /\ UNCHANGED <<view, auth, promises>>
       \/ /\ ~chains[s].asks /\ chains[s].stage = "discover" /\ ~Pinned(s)
          /\ SettleSignedOut(s, chains)
          /\ UNCHANGED <<op, deferred, reconciling>>
       \/ /\ ~chains[s].asks /\ chains[s].stage # "discover"
          /\ Settle(s, Failed(state, "authorize"), resources)
    /\ UNCHANGED provider

\* The user signs in, as the account asked for: the provider has a session
\* more, and says so.
PromptGranted(s) ==
    /\ chains[s].at = "prompt" /\ changes < MaxChanges
    /\ \E a \in IF chains[s].who = None THEN Accounts ELSE {chains[s].who} :
          /\ signedIn' = signedIn \cup {a}
          /\ events' = events + 1 /\ changes' = changes + 1
          /\ IF IsCurrent(s) THEN Granted(s, a) ELSE Settle(s, state, resources)

\* The prompt is dismissed.
PromptRejected(s) ==
    /\ chains[s].at = "prompt"
    /\ IF IsCurrent(s) THEN Settle(s, Failed(state, "other"), resources)
       ELSE Settle(s, state, resources)
    /\ UNCHANGED provider

\* How a lookup or a listing may be rejected.
Rejections(s) ==
    {"other"} \cup (IF chains[s].at = "list" THEN {"authorize"} ELSE {})
              \cup (IF chains[s].at = "list" /\ chains[s].of.store # None
                    THEN {"disabled"} ELSE {})

\* fail.
StageFailed(s) ==
    /\ chains[s].at \in {"session", "fallback", "list"}
    /\ chains[s].stage # "reconcile" /\ IsCurrent(s)
    /\ \E kind \in Rejections(s) : Settle(s, Failed(state, kind), resources)
    /\ UNCHANGED provider

-----------------------------------------------------------------------------
(* The chains: listings.                                                   *)

Listing(s, names) == [by |-> chains[s].who, of |-> chains[s].of, names |-> names]

Listed(s, stage) == chains[s].stage = stage /\ chains[s].at = "list" /\ IsCurrent(s)

\* What the next stage of a chain finds pending when it loads.
Pending(asks) == IF asks THEN deferred ELSE Inherited

\* Tenants: a new view of the account, and on to the first of them.
DiscoverListed(s) ==
    LET chain == chains[s]
        Shown(names) == [Closed EXCEPT !.open = state.open, !.mode = state.mode,
            !.public = state.public, !.phase = "ready", !.identity = chain.who,
            !.tenants = Listing(s, names)]
    IN  /\ Listed(s, "discover")
        /\ \/ Settle(s, Shown({}), [resources EXCEPT !.fresh = "fresh"])
           \/ /\ \E tenant \in Tenants :
                    SelectTenant(s, tenant, chain.asks, TRUE, Kept(chain.asks),
                                 Pending(chain.asks), Shown(Tenants))
              /\ UNCHANGED <<reconciling, needsConnect, promises>>
        /\ UNCHANGED provider

\* Subscriptions, and on to the first of them.
TenantListed(s) ==
    LET chain == chains[s]
        Shown(names) == [state EXCEPT !.phase = "ready", !.subs = Listing(s, names),
                                      !.sub = None]
    IN  /\ Listed(s, "tenant")
        /\ \/ Settle(s, Shown({}), resources)
           \/ /\ \E sub \in Subscriptions :
                    SelectSubscription(s, sub, chain.asks, chain.marks,
                                       Kept(chain.asks), Pending(chain.asks),
                                       Shown(Subscriptions))
              /\ UNCHANGED <<reconciling, needsConnect, promises>>
        /\ UNCHANGED provider

SubscriptionListed(s) ==
    /\ Listed(s, "subscription")
    /\ \E names \in {{}, Stores} :
          Settle(s, [state EXCEPT !.phase = "ready", !.stores = Listing(s, names)],
                 resources)
    /\ UNCHANGED provider

\* applyItems: a page of containers or of blobs, the first or one more.
PageListed(s) ==
    LET chain == chains[s]
        page == [by |-> chain.who, of |-> chain.of,
                 n |-> IF chain.more = 0 THEN 1 ELSE chain.more]
        entries == IF chain.more = 0 THEN <<page>> ELSE Append(state.entries, page)
    IN  /\ \E stage \in {"account", "containers", "location"} : Listed(s, stage)
        /\ chain.stage = "location" => chain.of.container # None
        /\ \E next \in {0} \cup ({page.n + 1} \cap 1..MaxPages) :
              Settle(s, [state EXCEPT !.phase = "ready", !.error = "none",
                             !.path = Path(resources.container, resources.folder),
                             !.entries = entries],
                     [resources EXCEPT !.next = next,
                         !.registry = IF chain.more = 0 THEN {page} ELSE @ \cup {page},
                         !.fresh = IF state.mode = "public" THEN "fresh" ELSE @])
        /\ UNCHANGED provider

-----------------------------------------------------------------------------
(* Changes of the provider's sessions.                                     *)

\* authenticationChanged: an interactive operation keeps it for its end, an
\* open browser proves its account, a closed one forgets it.
ProviderEvent(s) ==
    /\ events > 0 /\ Free(s)
    /\ events' = events - 1
    /\ \/ /\ state.mode = "public" \/ needsConnect
          /\ UNCHANGED <<view, chains, auth, promises>>
       \/ /\ state.mode = "authenticated" /\ ~needsConnect
          /\ state.open /\ op # NoOp
          /\ op' = [op EXCEPT !.changed = TRUE]
          /\ UNCHANGED <<view, chains, deferred, reconciling, needsConnect, promises>>
       \/ /\ state.mode = "authenticated" /\ ~needsConnect
          /\ state.open /\ op = NoOp
          /\ Reconcile(s, state, resources, FALSE)
          /\ UNCHANGED <<needsConnect, promises>>
       \/ /\ state.mode = "authenticated" /\ ~needsConnect
          /\ ~state.open
          /\ state' = Closed /\ account' = None /\ resources' = NoResources
          /\ chains' = Superseded
          /\ needsConnect' = TRUE
          /\ op' = NoOp /\ deferred' = FALSE
          /\ UNCHANGED <<reconciling, promises>>
    /\ UNCHANGED <<signedIn, changes>>

\* It takes the change with it.
DeferredByNone(chain) == deferred

\* What an overtaken reconciliation leaves pending.
DeferredBy(chain) == IF chain.live /\ state.open THEN TRUE ELSE deferred

\* The provider finds the session of the account in use.  Its answer is on its
\* way while the sessions may change again.
Proved(s) ==
    /\ chains[s].stage = "reconcile" /\ chains[s].at = "session"
    /\ chains[s].who \in signedIn
    /\ chains' = [chains EXCEPT ![s].at = "proved"]
    /\ UNCHANGED <<view, auth, promises, provider>>

\* reconcileDeferredAuthentication after its lookup.  Overtaken, it leaves the
\* change pending; a proof keeps the view; no session, or another account,
\* discovers again; a rejection signs out.
Reconciled(s) ==
    LET chain == chains[s]
        overtaken == ~IsCurrent(s) \/ ~chain.live \/ ~state.open
        Settled == /\ chains' = [chains EXCEPT ![s] = IdleChain]
                   /\ connecting' = Cleared(connecting, s)
                   /\ refreshing' = Cleared(refreshing, s)
    IN  /\ chain.stage = "reconcile"
        /\ reconciling' = IF chain.live THEN FALSE ELSE reconciling
        /\ \/ /\ overtaken
              /\ deferred' = DeferredBy(chain)
              /\ Settled
              /\ UNCHANGED <<view, op, needsConnect>>
           \/ /\ ~overtaken /\ chain.at = "proved"
              /\ state' = [state EXCEPT !.identity = chain.who]
              /\ account' = chain.who
              /\ Settled
              /\ UNCHANGED <<resources, op, deferred, needsConnect>>
           \/ /\ ~overtaken /\ chain.at = "session"
              /\ Rediscover(s, None, FALSE)
              /\ UNCHANGED <<needsConnect, promises>>
           \/ /\ ~overtaken /\ chain.at = "session"
              /\ SettleSignedOut(s, Superseded)
              /\ op' = NoOp /\ UNCHANGED deferred
        /\ UNCHANGED provider

\* The user signs in to or out of an account elsewhere.
SessionsChange(a) ==
    /\ changes < MaxChanges
    /\ signedIn' \in {signedIn \cup {a}, signedIn \ {a}} \ {signedIn}
    /\ events' = events + 1 /\ changes' = changes + 1
    /\ UNCHANGED <<view, chains, auth, promises>>

\* Two minutes pass since the last refresh.
CacheExpires ==
    /\ resources.fresh = "fresh"
    /\ resources' = [resources EXCEPT !.fresh = "stale"]
    /\ UNCHANGED <<state, account, chains, auth, promises, provider>>

-----------------------------------------------------------------------------
(* The specification.                                                      *)

UserStep(s) ==
    \/ Open(s) \/ Connect(s) \/ OpenPublic(s) \/ Refresh(s) \/ Retry(s)
    \/ NavigateUp(s) \/ LoadMore(s)
    \/ \E tenant \in Tenants : ChooseTenant(s, tenant)
    \/ \E sub \in Subscriptions : ChooseSubscription(s, sub)
    \/ \E store \in Stores : ChooseAccount(s, store)
    \/ \E page \in resources.registry, container \in Containers,
          folder \in OrNone(Folders) : OpenFolder(s, page, container, folder)

Instant ==
    \/ Disconnect \/ BrowseLocal \/ Close \/ StaleClick \/ CacheExpires
    \/ \E page \in resources.registry : OpenFile(page)

\* Lookups and listings answer.
Answer(s) ==
    \/ SilentSession(s) \/ NoSilentSession(s) \/ Dropped(s) \/ StageFailed(s)
    \/ DiscoverListed(s) \/ TenantListed(s) \/ SubscriptionListed(s)
    \/ PageListed(s) \/ Proved(s) \/ Reconciled(s)

Prompt(s) == PromptGranted(s) \/ PromptRejected(s)

Next ==
    \/ \E s \in Slots : UserStep(s) \/ Answer(s) \/ Prompt(s) \/ ProviderEvent(s)
    \/ Instant
    \/ \E a \in Accounts : SessionsChange(a)

Spec == Init /\ [][Next]_vars

\* Lookups, listings and the provider's events arrive: each request has a
\* timeout and the provider answers.  Nobody has to answer a prompt.
FairSpec ==
    /\ Spec
    /\ \A s \in Slots : WF_vars(Answer(s)) /\ WF_vars(ProviderEvent(s))

-----------------------------------------------------------------------------
(* Properties.                                                             *)

StateType ==
    /\ state.mode \in {"authenticated", "public"} /\ state.open \in BOOLEAN
    /\ state.phase \in Phases /\ state.error \in Errors
    /\ state.identity \in OrNone(Accounts)
    /\ state.tenants \in List(Tenants) /\ state.tenant \in OrNone(Tenants)
    /\ state.subs \in List(Subscriptions) /\ state.sub \in OrNone(Subscriptions)
    /\ state.stores \in List(Stores) /\ state.store \in OrNone(Stores)
    /\ state.public \in OrNone(PublicStores)
    /\ state.path \in Seq(Containers \cup Folders)
    /\ state.entries \in Seq(Page) /\ state.picked \in OrNone(Page)

ResourceType ==
    /\ resources.registry \subseteq Page /\ resources.next \in 0..MaxPages
    /\ resources.container \in OrNone(Containers)
    /\ resources.folder \in OrNone(Folders)
    /\ resources.fresh \in {"never", "fresh", "stale"}
    /\ resources.retry \in {"discover"} \cup Stages

\* The types of the variables.
TypeOK ==
    /\ StateType /\ ResourceType /\ account \in OrNone(Accounts)
    /\ chains \in [Slots -> Chain]
    /\ op \in [slot : OrNone(Slots), changed : BOOLEAN]
    /\ deferred \in BOOLEAN /\ reconciling \in BOOLEAN /\ needsConnect \in BOOLEAN
    /\ connecting \in OrNone(Slots) /\ refreshing \in OrNone(Slots)
    /\ signedIn \subseteq Accounts /\ events \in 0..MaxChanges /\ changes \in 0..MaxChanges

\* Everything listed was listed with the session of the account on display,
\* whichever requests, changes of accounts and late answers came between.
ListedByIdentity ==
    state.mode = "authenticated" =>
        /\ \A list \in {state.tenants, state.subs, state.stores} :
              list.names # {} => list.by = state.identity
        /\ \A i \in DOMAIN state.entries : state.entries[i].by = state.identity

\* What is listed belongs together: subscriptions are of the tenant on display,
\* storage accounts of its subscription, entries of the account and the path;
\* and the entries are the first pages of one listing, none missing, none twice.
Here == [tenant |-> state.tenant, sub |-> state.sub, store |-> state.store,
         container |-> resources.container, folder |-> resources.folder]

ListsNest ==
    /\ state.mode = "authenticated" =>
        /\ state.tenant \in OrNone(state.tenants.names)
        /\ state.sub \in OrNone(state.subs.names)
        /\ state.store \in OrNone(state.stores.names)
        /\ state.subs.names # {} => state.subs.of.tenant = state.tenant
        /\ state.stores.names # {} =>
              state.stores.of.tenant = state.tenant /\ state.stores.of.sub = state.sub
        /\ \A i \in DOMAIN state.entries : state.entries[i].of = Here
    /\ \A i \in DOMAIN state.entries :
        /\ state.entries[i].n = i
        /\ state.entries[i].of = state.entries[1].of
        /\ state.path = Path(state.entries[1].of.container, state.entries[1].of.folder)

\* A file's URL names the account and the container that listed the file,
\* whatever was opened or chosen between the listing and the click.  (Its blob
\* name is complete: the folder is no part of the URL.)
FileUrlIsItsOwn ==
    (FolderUrl # Nowhere /\ state.picked \in resources.registry) =>
        [state.picked.of EXCEPT !.folder = FolderUrl.folder] = FolderUrl

\* Public browsing is anonymous: nothing of an account is kept beside it, no
\* session is asked for, and its entries come from no session.
PublicIsAnonymous ==
    state.mode = "public" =>
        /\ account = None /\ state.identity = None /\ op = NoOp
        /\ \A list \in {state.tenants, state.subs, state.stores} : list = NoList
        /\ \A i \in DOMAIN state.entries : state.entries[i].by = Anonymous
        /\ \A s \in Slots : chains[s].cur => chains[s].at = "list"

\* A public folder is offered as a source only after its own listing succeeded.
PublicFolderIsListed ==
    (state.mode = "public" /\ FolderUrl # Nowhere) =>
        state.entries # <<>> /\ state.entries[1].of = FolderUrl

\* Signed out and with no request under way, as Disconnect leaves it, the
\* browser stays without an account until the user acts: no late answer of an
\* earlier connection brings one back.
DisconnectHolds ==
    [][(/\ needsConnect /\ state.identity = None /\ account = None
        /\ \A s \in Slots : ~chains[s].cur)
       => /\ state'.identity = None /\ account' = None
          /\ \A list \in {state'.tenants, state'.subs, state'.stores} : list = NoList
      ]_vars

\* When nothing is under way and every event was delivered, the identity on
\* display is still signed in, or the change waits for the next request, or
\* nothing but Connect is left to do.
Quiet == events = 0 /\ \A s \in Slots : ~chains[s].cur /\ chains[s].stage # "reconcile"

SignOutHonoured ==
    Quiet => state.identity \in OrNone(signedIn) \/ deferred \/ needsConnect

\* The view is never stuck: the spinner turns only while a current request will
\* stop it, and a retry finds the place it retries.
ViewIsUsable ==
    /\ state.phase = "loading" => \E s \in Slots : IsCurrent(s)
    /\ (state.open /\ state.phase = "error" /\ state.mode = "authenticated") =>
        CASE resources.retry = "discover" -> TRUE
          [] resources.retry = "tenant" -> state.tenant \in state.tenants.names
          [] resources.retry = "subscription" -> state.sub \in state.subs.names
          [] resources.retry = "account" -> Target # Nowhere
          [] resources.retry = "location" -> Complete(resources.container)

\* A prompt opens only for the operation the user started last, in an open
\* browser: none follows a close, a disconnect or a newer request.
PromptsAreWanted ==
    [][\A s \in Slots :
          (chains[s].at # "prompt" /\ chains'[s].at = "prompt") =>
              state.open /\ op.slot = s]_vars

\* Every request ends, or waits for the user in a prompt: a current chain
\* settles, and connectPromise and refreshPromise, which turn further requests
\* away, are cleared.
Owed(s) == IsCurrent(s) \/ connecting = s \/ refreshing = s

RequestsEnd ==
    \A s \in Slots : Owed(s) ~> (~Owed(s) \/ chains[s].at = "prompt")

=============================================================================
