# SQL File Detection: a verification project

TLA+ models, TLC runs and TLAPS proofs for the *SQL File Detection* extension
for VS Code, the Python tool it grew from, and the harness that certifies the
SQL both generate. The reference is the source: every definition that models
code is listed in `PROJECT.json` under `map` with the file, the lines and the
symbol it translates. Paths are given with the repository's root as `src/`.

This document says what the system is made of (1), which module models which
part (2), how each module's state and actions correspond to the code, with its
runs, bounds and proofs (3 to 8), where code and documents disagree (9), and
what is not covered (10).

## 1. The system

The tool looks at a data file (Parquet, Delta, CSV, JSON, ORC, ...), finds its
columns, and writes the T-SQL (`OPENROWSET`, external tables, loads,
credentials) that reads it from SQL Server, Azure SQL or Fabric. A file is
local, or an object found with a browser of Azure storage accounts. The
certification harness runs what is generated on live servers.

| Part | Source | State it keeps | Operations |
|---|---|---|---|
| UI controller | `src/src/ui/controller.ts`, `src/src/appState.ts` | the state on display, the registry of listed files, the newest *generation*, the source set aside while Azure is shown, the debounce timer | open, list, select, preview rows, edit, undo, cancel, export, copy, dispose |
| Settings history | `src/src/fileSettings.ts` | per canonical path: the settings and one undo step; least recently used are evicted | get, write, undo, canUndo |
| Import profiles | `src/src/ui/controller.ts`, `src/src/ui/extension.ts` | a stored list of named settings, a serial queue of writes | save, rename, delete, apply |
| Azure browser | `src/src/azure/browser.ts`, `src/src/azure/auth.ts` | session, pinned account, tenant, subscription, storage account, location, pages of entries, resource registry, generation and lifecycle, shared connect/refresh promises | open, connect, refresh, retry, select, navigate, load more, close, disconnect, provider events |
| Azure REST clients | `src/src/azure/armClient.ts`, `storageClient.ts`, `errors.ts`, `locations.ts` | none between calls | listing with pages, retries with backoff, ceilings, cancellation |
| Analysis service | `src/src/native/service.ts`, `metadataCache.ts`, `samplePreview.ts`, `cancellation.ts`, `streams.ts` | a cache of metadata by path and file signature | analyze (sample, then complete), preview |
| Detection, folder scan, format readers | `src/src/native/detector.ts`, `paths.ts`, `encoding.ts`, `src/src/native/analysis/*` | counters of one scan | detect a format, scan a folder, read a schema and rows |
| SQL generation (TypeScript) | `src/src/native/sql/*` | none | a port of the Python generator |
| Extension host, protocol and page | `src/src/ui/*`, `src/media/webview/main.js` | the live views | validate and route messages, post and render the state |
| Python SQL generation | `src/external_file_detection/sql_generator.py`, `external_file_detector.py` | none | pure functions from metadata, storage, platform and names to a T-SQL document; an export of several |
| Python detection | `src/external_file_detection/file_detector.py`, `storage_handlers.py`, `public_data.py`, `cli.py` | none between calls | the same questions, from a command line |
| Python web server | `src/external_file_detection/web_gui.py` | sessions with their files and directories, retired directories; shared by request threads | upload, fetch, analyze, find, expire |
| Python Azure connections | `src/external_file_detection/azure_auth.py` and the Azure routes of `web_gui.py` | brokered tokens, connections with their cached client, a registry with a TTL; shared by request threads | push tokens, connect, list, disconnect, sign out, expire |
| Certification: planning | `src/scripts/certification/matrix.py`, `manifest.py`, `public_fixtures.py` | none; builds a manifest | plan each cell of the matrix: its setup, its statements, its verdict |
| Certification: safety gate | `src/scripts/certification/safety.py`, `runid.py` | none | allow or refuse a batch of SQL for one run |
| Certification: execution | `src/scripts/certification/execute.py`, `adapters.py`, `evidence.py`, `__main__.py` | connections, the run's database, verdicts, cleanup evidence | connect with retry, run the cells, sweep, verify, drop, exit |
| Certification: native driver, batches, staging | the rest of `src/scripts/certification` | - | a second driver for the port; splitting text at GO; staging files |
| Build and design assets | `src/scripts/*.mjs`, `src/design/*` | - | - |

**How they interact.** The page posts messages to the host; the host validates
them and calls `UiController.handle`. The controller is the only writer of its
state; it awaits the service, the host (pickers, clipboard, save dialogs) and
the file system, and posts the state after each update. The Azure browser has
its own state and generations; the controller embeds its view. Everything in
the extension runs on one JavaScript thread, so what interleaves is the awaits.
The Python web server is a Flask application with threads: what interleaves are
the stretches between two of its locks. The harness is one process with two
connections to a server that others use too. Its plan is made by calling the
Python generator, passing what comes back through the gate, and storing it in a
manifest; a later run sends it, through the gate again.

**What is hard here.**

* *Late answers* (extension). A handful of operations are in flight, and each
  may find, when its promise settles, that the user has selected another file,
  listed another folder, switched to Azure and back, edited settings or
  cancelled. `begin()` hands out a generation and every continuation must ask
  `isCurrent` before it writes. The discipline is spread over about 40 awaits of
  `controller.ts` and 30 of `browser.ts`; a test exercises one interleaving.
* *Identity* (browser). Sign-ins and sign-outs arrive as events at any moment,
  while requests of the previous identity are answered.
* *Threads* (web server). The store, the token store, the registry and each
  connection have a lock of their own; no lock is held across two helpers.
* *Partial failure* (harness). Any statement may fail, or fail after the server
  has done it; a connection may be lost; Ctrl-C may come anywhere; and all that
  was created has to go, and nothing else.
* *Cut-off scripts* (generator). A user runs a document, it stops in the middle,
  he repairs something and runs it again from the top.

The hazards this leads to are in `PROJECT.json` under `hazards`, each at its
line, with the properties that would catch it going wrong.

**What makes each part correct.**

* Controller: what is on display belongs together and to the selected file;
  SQL is that of the metadata, settings and platform on display; a superseded
  operation writes nothing; user edits survive analyses; settings follow the
  file; the spinner goes on and off with the work.
* Azure browser: everything listed is of one account and one nesting of
  tenant, subscription, account and place; disconnecting forgets everything; a
  proven sign-out is honoured; a prompt is only ever the user's doing.
* Web server: what is listed can be opened, nothing on disk is forgotten.
* Azure connections: no authenticated mode is downgraded to an anonymous
  client; whatever is let go of is closed; sign-out disconnects.
* Generator: a script runs and runs again; each statement reads its own file's
  objects; columns hold the values that were seen; foreign rows stay.
* Gate: a batch it allows changes nothing outside the run, in the statements that
  its scanners read as the server does.
* Plan: a READY cell lacks no prerequisite; the run's objects carry its name.
* Execution: the run ends; it says it is clean only if it is; a cell passes only
  if all of it ran; a refused login is not repeated; nobody else's object is touched.

## 2. The modules

| Module | Models | Instantiated by | Proofs |
|---|---|---|---|
| `UiController` | analysis lifecycle, both sources, settings, exports | `MCUiController` | `UiControllerProofs` |
| `AzureBrowser` | the browser's requests, sessions, listings, provider events | `MCAzureBrowser` | `AzureBrowserProofs` |
| `AzureBrowserInvariants` | its inductive invariants, part by part | `MCAzureBrowser` | `AzureBrowserProofs` |
| `WebSessions` | the web server's file store and directories | `MCWebSessions` | `WebSessionsProofs` |
| `AzureConnections` | tokens, connections, clients, registry | `MCAzureConnections` | `AzureConnectionsProofs` |
| `SqlGenerator` | the Python generator, as operators from a request to statements | (used by `GeneratedScript` and `CertificationPlan`) | `SqlGeneratorProofs` |
| `Database` | the database a script runs on (external) | | - |
| `GeneratedScript` | `SqlGenerator` composed with `Database`: scripts run, cut off, run again | `MCGeneratedScript` | `GeneratedScriptProofs` |
| `SafetyGate` | the gate, as operators from a policy and a batch to violations | (used by `CertificationPlan` and `Certification`) | `CertificationProofs` |
| `CertificationPlan` | the matrix and `build_manifest`, composed with `SqlGenerator`, `SafetyGate` and `Database` | `MCCertificationPlan` | `CertificationPlanProofs` |
| `CertificationPromise` | abstract specification of a run | | - |
| `Certification` | one live run; implements `CertificationPromise` | `MCCertification` | `CertificationProofs` |

The MC modules hold instances and symmetry sets; a `.cfg` gives the bounds. No
module declares a RECURSIVE operator: the few recursions are folds.

## 3. `UiController`: the analysis lifecycle

One action is one stretch of code between two awaits. An operation is a record
`task[g]` under the generation `begin` gave it; `task[g].at` says which await it
is in. The operation of an older generation stays until its promise settles
(`TaskDropped`, `IdentifyDropped`), which is how late answers arrive.

| Model | Code |
|---|---|
| `files`, `listings`, `FileId` | `state.files` and the registry of `AppStateStore.setFiles`; ids are random in the code, so an id is the number of its listing and its path |
| `raw`, `shown`, `preview`, `sql` | the controller's own metadata, `state.metadata`, `state.preview`, `state.statements` |
| `mode`, `retained` | `state.sourceMode`, the snapshot of the local source taken by `activateAzureSource` |
| `overrides`, `canUndo`, `history`, `identity` | settings of the file on display, `FileSettingsHistory`, `settingsIdentity` per listed file |
| `generation`, `task` | `begin`, `cancelActive`, `isCurrent` and the calls that await |
| `exports`, `exporter`, `hostCalls` | `exportAllSql` behind the serial queue, `deliverExport`; copies awaiting the clipboard |
| `timer` | the debounced `regenerate` |
| `realOf` | what the file system resolves a path to; `Retarget` moves a link |

Actions by stretch: `BrowseLocal`, `DialogPicked`, `LoadDirectory`, `ScanDone`,
`LoadFiles`, `SelectFile`, `IdentifyDone`, `SamplePublished`, `AnalysisDone`,
`SetPreviewRows`, `ResampleDone`, `RereadDone`, `TaskFailed`; `OpenAzure` and
`ShowLocalSource` set the local source aside and bring it back; the settings
actions; `StartExport` to `ExportDelivered`; `Dispose`.

**Abstractions.** A schema is a set of columns; settings are the set of columns
with an overridden type (names, locales and delimiters behave alike: they are
adopted, remembered, undone and published by the same lines). SQL is the record
of what it was generated from, so two pieces of SQL are equal exactly when the
generator had the same inputs. The history is not bounded here. `loadFiles`
begins a generation and so does the `selectFile` it calls in the same stretch:
the model counts them as one, since nothing holds the generation in between. A
picker, a clipboard or a save dialog may never answer; with `HostRejects` it may
reject.

| Run | Instance | Question |
|---|---|---|
| `ui_core` | a text and a binary file, one column, 3 generations | `DisplayIsOneAnalysis`, `SqlFresh`, `SupersededTaskWritesNothing`, `AnalysisKeepsEdits`: up to three operations in flight, with edits, undo, profiles, cancellation and trips to Azure |
| `ui_export` | one file without preview, two listings, two platforms, an export and a copy, a host that rejects, unsupported files in a pick | `SourcesApart`, `SettingsRemembered`, `BusyMeansRunning`, `WorkIsListed`, `ExportOwnSettings` |
| `ui_live` | `FairSpec`, two files, 3 generations | `BusyEnds`, `SelectionSettles` |

**Bounds.** `MaxGeneration` operations are begun, `MaxListings` listings made of
at most `MaxListed` files, `MaxExports` exports and `MaxHostCalls` copies wait.
Three generations give every pair of a stale and a current operation a third one
to supersede both; two listings give stale ids; two files give a wrong file to
attribute an answer to; one column is enough for an edit to be lost or kept.
Links do not move in these instances (`LinkPaths` empty): settings on display
and the settings of a retargeted link part by design of the code, until the next
selection.

**Fairness.** `FairSpec` assumes that promises of the analysis service settle
(readers are bounded and poll their cancellation token), that `realpath` answers,
that an export goes on once it runs, and that timers fire. Nothing is assumed of
the user, of a picker, of a dialog, nor of an export's turn in the queue.

**Proofs** (`UiControllerProofs`), for all values of the constants that satisfy
`ConstantAssumption` and `NullAssumption` (the values that stand for null are
none of the values they stand beside): `TypeCorrect` (`[]TypeOK`),
`OneAnalysisOnDisplay` (`[]DisplayIsOneAnalysis`) and `LocalAndAzureApart`
(`[]SourcesApart`), each from `Invariance` (`[]IInv`). `DisplayIsOneAnalysis`
alone is not inductive, for two reasons. An answer is published under the guard
"current, and the selection is still the operation's file", so the proof must
know that a selected file is listed (`SelectedListed`), or the file an answer is
attributed to might have left the registry. And `ShowLocalSource` puts the
retained snapshot back on display, so the same has to hold of the snapshot
(`RetainedIsOneAnalysis`), and with it of the flag that says there is one
(`SourcesApart`). `IInv` is their conjunction with `TInv`, the types. The proof
has a type lemma and an invariant lemma for each action; `NextInv` splits `Next`
and cites them.

**Proved on top of it**, in the same module and from the same assumptions:

| Theorem | Says |
|---|---|
| `SqlIsFresh` | `Spec => []SqlFresh` |
| `BusyIsRunning` | `Spec => []BusyMeansRunning` |
| `WorkStaysListed` | `Spec => []WorkIsListed` |
| `OnlyRejectionsIntrude`, `LateAnswersWriteNothing` | a step of a superseded operation, other than a dialog that rejects, writes nothing the user sees; so `SupersededTaskWritesNothing` when `HostRejects` is FALSE |
| `FixedSettingsRemembered`, `SettingsAreRemembered` | the settings of a file of a fixed canonical path are those of the history; so `[]SettingsRemembered` when `LinkPaths` is empty |
| `FixedEditsAreKept`, `EditsAreKept` | the same pair for `AnalysisKeepsEdits` |
| `FixedFilesExportOwnSettings`, `ExportsOwnSettings` | the same pair for `ExportOwnSettings` |

The two hypotheses are the two places where the code itself makes an exception:
a dialog's rejection is reported by `handle` whatever runs by then, and a link
that is retargeted while its file is listed moves the file to another entry of
the history at the next `realpath`. So each of these results is first proved
without a hypothesis on the constants, of every other step or every other file.

The invariant `OInv` adds to `IInv`: a generation that has not begun holds no
operation (`LaterIdle`), the newest operation still has the file it works for
selected (`CurrentInPlace`: the selection and the mode change only under a new
generation), a selection under way has seen the identity the file on display
still has (`SeenFixed`), and an export nothing superseded runs alone,
over listed files, with the owners it read (`ExporterInv`). `WorkIsListed` joins
the invariant as it is: an operation keeps the id it was started with over every
await, and what makes that safe is that each replacement of the registry is made
by a newer operation; its part about the export needs that an exporter at rest
holds nothing (`ExporterIdle`). `BusyMeansRunning`
needs `CurrentInPlace`, since an answer that finds the operation current but out
of place would be dropped with the flag still on. TLC checked every conjunct
before it was proved, also with links that move and a host that rejects.

**Only model-checked:** the two liveness properties.

## 4. `AzureBrowser`: one request at a time, of one account

A request is a chain of calls: `discover` goes on with `selectTenant`, which goes
on with `selectSubscription`; each stage awaits a session and then a listing. The
chain lives in a *slot* until its promise settles. Where the code stamps a stage
with the generation it runs in, the chain has a flag `cur`, cleared by the action
that starts a newer generation; `live` does the same for `lifecycle`. Several
chains are in flight: superseded ones whose lookups or prompts have not ended,
and reconciliations, which supersede nothing.

| Model | Code |
|---|---|
| `state` | `AzureBrowserState` without messages; a list carries who it was listed for and of what place |
| `account`, `resources` | the account in use; the entry registry, continuation, container, prefix, `lastRefreshAt`, `retryOperation` |
| `chains` | the calls in flight, each at one await: the silent lookup, the lookup without the pinned account, the prompt, the listing |
| `op`, `deferred`, `reconciling`, `needsConnect` | `interactiveOperation`, `pendingAuthenticationChangeLifecycle`, `reconcilingLifecycle`, `reconnectRequiresUserAction` |
| `connecting`, `refreshing` | `connectPromise`, `refreshPromise` |
| `signedIn`, `events` | the Microsoft provider of VS Code (external): accounts with a session, change events on their way |

`Load` is `loading` with `reconcileSupersededAuthentication`, `Settle` the end of
a chain with what `runInteractive` does then, `Rediscover`
`revalidateAuthentication`, `Reconcile`, `Proved` and `Reconciled`
`reconcileDeferredAuthentication`. The user's requests are `Open`, `Connect`,
`Refresh`, `Retry`, `ChooseTenant`, `ChooseSubscription`, `ChooseAccount`,
`OpenFile`, `OpenFolder`, `NavigateUp`, `LoadMore`, `OpenPublic`, `Disconnect`,
`Close`, `BrowseLocal`.

**Abstractions.** A listing returns every name or none; an entry is known by the
page that brought it. A page may be the last for any reason, the item ceiling
included. The error kinds are those a retry treats alike. A silent lookup is
answered from the sessions at the moment it settles, except in a reconciliation,
whose answer may be overtaken (`Proved`). A lookup with an account and a
prompt with an account give that account's session. A chain whose signal is
aborted and one whose generation is old end alike. The page offers its selects
and Refresh only while nothing loads, and so do the guards; with `StaleClicks` a
click may name an entry of the previous listing, and one on Load more may come
when the tenant or subscription it belonged to is gone, which `loadLocation`
answers with an error (the second disjunct of `LoadMore`). `cancel` on its own is left out:
outside `close` and `disconnect` the controller reaches it from the Cancel
button, which is shown only while a local analysis runs, and from local
operations, which leave Azure mode first.

| Run | Instance | Question |
|---|---|---|
| `azure_hierarchy` | two tenants, a container with two pages, stale clicks | `ListsNest`, `FileUrlIsItsOwn` |
| `azure_accounts` | two accounts, one change of the sessions | `ListedByIdentity`, `SignOutHonoured`, `ViewIsUsable`, `PromptsAreWanted`, `DisconnectHolds` |
| `azure_public` | `FairSpec`, a public container with a folder beside signed-in browsing | `PublicIsAnonymous`, `PublicFolderIsListed`, `RequestsEnd` |

**Bounds.** Two slots: one chain overtaken by another, or a reconciliation beside
a chain, which is what every race here needs; a third would only overtake
again. Two accounts, tenants or pages give a wrong one to be taken for
the right one. `MaxChanges` bounds sign-ins and sign-outs, those of a prompt
included. Two bounds are part of what the passing runs say:

* *One change in `azure_accounts`.* With two, a reconciliation and a refresh can
  each hold a different account (section 9, *mixed identity*).
* *`Reopens` is FALSE*: nobody chooses "Browse Azure" or "Change Azure selection"
  while the browser is open. If somebody does during a discovery, `ListsNest`,
  `ListedByIdentity` and `DisconnectHolds` do not hold (*unwatched identity*).

**Fairness.** `FairSpec`: lookups and listings answer (the clients have timeouts)
and the provider's events are delivered. Nobody has to answer a prompt, so
`RequestsEnd` lets a request wait in one.

**Proved** (`AzureBrowserProofs`, the invariants in `AzureBrowserInvariants`), for
any names, accounts, pages, changes and number of slots, assuming
`NameAssumption`, and, unlike the runs' instances, with `Reopens` and
`StaleClicks` either way where no hypothesis is named:

| Theorem | Says |
|---|---|
| `PromptsHaveAnOwner` | `Spec => []PInv` |
| `NoUnwantedPrompt` | `Spec => PromptsAreWanted` |
| `PublicBrowsingIsAnonymous` | `Spec => []PublicIsAnonymous` |
| `ListingsCohere` | `Spec => []LInv` |
| `FileUrlsAreTheirOwn` | `Spec => []FileUrlIsItsOwn` |
| `PublicFoldersAreListed` | `Spec => []PublicFolderIsListed` |
| `ViewsAreUsable` | `Spec => []ViewIsUsable` |
| `PlacesNest` | `ActsOnWhatIsShown => (Spec => []NInv)` |
| `ListsAreNested` | `ActsOnWhatIsShown => (Spec => []ListsNest)` |
| `NoAccountComesBack` | `Spec => [][Out => OutGoal]_vars`: signed out with nothing under way stays without identity and account |
| `SignedOutStaysOut` | `ActsOnWhatIsShown => (Spec => DisconnectHolds)` |
| `AccountIsHonest` | `ActsOnWhatIsShown => (Spec => []IdInv)` |
| `ListedByOneIdentity` | `ActsOnWhatIsShown => (Spec => [](changes <= 1 => ListedByIdentity))` |
| `SignOutIsHonoured` | `ActsOnWhatIsShown => (Spec => [](changes <= 1 => SignOutHonoured))` |

*Prompts.* `PInv` is `Shapes` (which fields the records have; their types do not
matter) and `PromptsAreOwned`: a current chain that may prompt is the interactive
operation's and the browser is open. It is needed because the prompt opens stages
after the request: every stage hands the operation on or gives up prompting, and a
reconciliation, which drops the operation, starts only where no other chain may
prompt.

*Public browsing.* `PublicIsAnonymous` is not inductive: the page of a chain
carries the chain's identity. `PublicApart` adds that every chain that may still
write in public mode lists a location anonymously, and that no tenant is kept, so
that no list of containers is asked for.

*Listings.* What a click finds was written by an answer that was on its way, so
`LInv` ties the answers to the view. `Placed`: every page of the registry is of
the storage account on display and of the container the browser is in (`At`); a
public cache that counts as refreshed, a public view that is ready, and a public
continuation each have entries that start in the place on display. `Fits`: a
current chain that will bring pages lists the place on display, and one that lists
tenants or subscriptions runs only where no storage account is chosen; in public
mode it lists exactly the place on display, and if it continues a listing the
entries are that place's already. The last part is what keeps a discovery that was
overtaken from marking a public folder as refreshed when it ends late. The URL is
put together when the file is clicked, from a registry that outlives the
navigation: with `At` for every page both name one account and container.

*Retries.* `VInv` adds `Usable`: while the spinner turns some current chain other
than a reconciliation will stop it; what `retry` names is on display; and a
current chain that changes the lists a retry would look at is the one the retry
would repeat. The last part is why an answer cannot take away the tenant a failed
request is retried for.

*Nesting.* `ListsNest` and `DisconnectHolds` need that one request at most will
write, and this takes a hypothesis: `ActsOnWhatIsShown` says that `Reopens` and
`StaleClicks` are both FALSE, so that a request starts where nothing loads or
supersedes what does. Without it they fail. Reopening signs the view out under a
discovery in flight. So does a stale click, with two changes of the sessions: a
discovery that finds no session signs out, a reconciliation that was under way
discovers again, now with `needsConnect` set, and finds the session that came
back; the click ends its spinner in an error, Refresh finds the flag and signs
out without superseding the discovery, whose list then arrives in the signed-out
view. `NInv` has four parts. `OneRequest`: at most one current chain is no
reconciliation, and then the browser is open and its spinner turns. `Nest`: what is
chosen was listed, each list is of what is chosen above it, and nothing is listed
for nobody. `Shows`: the entries are the pages of the place on display in their
order, and the continuation is the next of them. `Brings`: a chain that may still
write brings what belongs below what is chosen, in particular the page that
follows the last entry. `OneRequest` is why the four survive an answer: what the
answer changes, nobody else has yet to write below. `NoAccountComesBack` needs
none of this and holds with reopening and stale clicks too. TLC checked `NInv`
with two changes of the sessions, and with two pages, two tenants and a public
container, before it was proved.

*Whose the lists are, and a change of sessions.* `ListedByIdentity` and
`SignOutHonoured` hold up to the first change of the provider's sessions and after
it, whatever `MaxChanges` is: `changes` counts the changes so far, and each theorem
speaks of the states with `changes <= 1`. The bound is part of what is true and
not of the proof: a second change breaks both, also without reopening and stale
clicks (*mixed identity*, *shared mark*). Neither is inductive, and each needs the
other, so that one invariant, `IdInv`, carries both, in two halves.

* `Honest`: whose things are. `HeldBy`: what the signed-in view lists was listed
  with the account in use, which is the one on display. `Serves`: a chain that may
  still write does so with the session of that account; a discovery that has found
  none yet has nothing on display to disagree with, or asks for the account in use
  (`Looks`). `Proves`: a reconciliation proves the account in use, or one without a
  session, so that its proof cannot bring another account to a view it did not
  list. `Idles`: once signed out there is no account to prove.
* `Accounted`: where the change is. `OnceOwed`: it is on its way as an event, with
  the interactive operation, deferred, or in a reconciliation, in one of these
  only, and in at most one reconciliation of this lifecycle. `Owned`: the operation
  is that of the request under way, so that it cannot be left behind with the
  change in it. Until the change is applied it is `Owing`, or else the account in
  use and the identity on display have a session. `Calm`: before the first change
  there is none to owe.

The two meet where a reconciliation ends: overtaken, it leaves the change deferred
(`DeferredBy`), and the next request takes it up; proved, it finds the account it
was asked about, because `Proves` and `OnceOwed` leave no second reconciliation
with another answer. With two changes `OnceOwed` is lost, which is where both
findings of section 9 begin. TLC checked `IdInv` with two accounts, a public
container and one change before it was proved; `MCAzureBrowser` extends
`AzureBrowserInvariants`, so that `INVARIANT IdInv` in `AzureAccounts.cfg` does
so again after a change of the code.

The proofs go by `Load` and `Settle`, which all requests and answers are made of.

**Only model-checked:** `RequestsEnd` (liveness).

## 5. `WebSessions` and `AzureConnections`: the web server under threads

In both modules an action is one stretch that a thread runs under a lock, or
between two locks; `req[r]` is the request a thread serves, `req[r].pc` the place
it has reached.

### `WebSessions`

| Model | Code |
|---|---|
| `sessions`, `retired`, `disk`, `made` | `_sessions`, `_retired_upload_dirs`, the batch directories that exist, the number ever made |
| `Begin`, `WorkDone`, `WorkFails` | `_new_upload_dir` and the analysis or download of a route, which may fail |
| `GetFiles`, `ReadUploadDirs`, `SetFiles` | `_get_files`, `_session_upload_dirs`, `_set_files`, each a critical section that also runs `_cleanup_expired_sessions` |
| `RemoveUploadDirs` | `_remove_upload_dirs`, after the lock, on what the section handed over |
| `ReadFound` | a preview or analysis opening the file it found |
| `Tick` | time, in ticks |

The five kinds of request are an upload (replaces the list), a fetch of a public
or Azure file (adds to it), an analysis of local paths (replaces it), the
analysis of a single listed file (writes it back), and a look-up. Directory and
downloaded file go by one number; a file analysed in place has none.

`web_sessions` (2 browser sessions, 2 threads, TTL 1, 3 ticks, 2 directories)
checks `DownloadsStay`, for the overlaps of `Overlapping`: uploads, path
analyses and look-ups. With overlapping fetches it does not hold (section 9,
*overlapping fetches*). It also checks `NoDirectoryIsLost`. Three ticks let a
directory be retired, outlive one TTL, and expire; two directories are one in use
and one replaced; two threads are the pair of every race, and a session beside
the one at work lets an expiry run in somebody else's request.

Proved (`WebSessionsProofs`): `NothingIsLeaked`, `Spec => []NoDirectoryIsLost`
for any sessions, threads, bounds and any `Overlapping`, assuming
`SessionsAssumption` and `BoundsAssumption`. `NoDirectoryIsLost` is not
inductive: a request that is about to answer would count as a holder and then
let go. `WInv` says which requests still will put their directory in the store
or remove it (`WillKeep`), and needs `KindsOfRequest` to know that an upload
never writes back a list it had read.

Proved in the same module: `ListedIsThere`, `Spec => []DownloadsStay` under the
hypothesis `ReadersAreAlone`: a request that writes back a list it has read (a
fetch, an added file) overlaps no other of its session. Uploads, path analyses
and look-ups may overlap in any way, and requests of different sessions always
may. The argument (`DInv`, on top of `WInv`): a new directory is known to its
request alone until that request writes it (`NumbersAreMade`, `HandsAreFull`); no
two sessions share a directory, none in the store is retired, and every listed
download has its own (`SoundStore`); nothing in the store is on a request's list
of directories to remove (`StoreStays`); a request that is alone finds the store as
it read it (`Alone`, `ReadsAreFresh`, `FetchReadsBoth`); and what a request has
found is in use or retired no earlier than the look-up (`Lasts`, `FoundStays`),
which expiry respects for one TTL (`CleanupKeeps`). TLC checked `DInv` before it
was proved.

### `AzureConnections`

| Model | Code |
|---|---|
| `store`, `held` | `VSCodeTokenStore`; the record inside each `StaticTokenCredential`, which open connections share |
| `conns`, `clients` | every `AzureConnection` and every blob service client ever made |
| `entries` | `ConnectionRegistry._entries` |
| `SetTokens`, `ClearTokens`, `ClearRegistry` | the editor's token push; sign-out, in its two halves |
| `BeginConnect`, `ReadCredential`, `ReadArmRecord`, `Register` | `connect` |
| `BeginGet`, `PurgeExpired`, `Get` | `ConnectionRegistry.require`, with `purge_expired` before it |
| `LookForClient`, `BuildClient`, `PublishClient`, `UseClient` | `blob_service_client`: lock, build without the lock, lock |
| `CloseConnection`, `CloseClients`, `AllClosed` | `AzureConnection.close`: under the lock and after it |

`azure_connections` (1 browser session, 2 threads, TTL 0, one tick, brokered and
anonymous sign-ins, 2 connections, clients, credentials and pushes) checks
`NoAnonymousDowngrade`, `UnreachableIsClosed`, `ClientsAreClosed`,
`SignOutDisconnects`. Two threads are a use of a connection beside whatever
closes it; two connections, the old and the new of a session; TTL 0 lets a
single tick expire them; the other two sign-in modes take the branches of the
brokered one after the credential is there.

Proved (`AzureConnectionsProofs`), for any sessions, threads, modes and bounds:
`NeverDowngraded`, `NoConnectionIsLeftOpen`, `NoClientIsLeftOpen` and
`SignOutIsComplete`, which together are all four invariants and `ClosedForgets`, from `ConnectionsInvariant` (`[]IInv`).
The invariant adds to the four what they depend on at the steps between the
locks: everything referred to exists (`RefersToMade`), only a request that is
closing holds something to close (`ClosingOnly`), a brokered sign-in always holds
a credential (`BrokeredHolds`), an open client is in a cache, in the hands of
the request that will publish it, or about to be closed (`ClientsAreHeld`), and a
forgotten credential belongs to a late sign-in or to a sign-out between its halves
(`ForgottenIsLate`). A client replaced by a simultaneous one is marked `replaced`
and excepted: the code leaves it open on purpose, for the request that still
uses it.

No fairness is assumed in either module: neither claims liveness.

## 6. `SqlGenerator`, `Database`, `GeneratedScript`: scripts that run

`SqlGenerator` is the Python generator as operators: from a request (platform,
file type, encoding, columns, storage URL, authentication, names, options) to
the statements of each section, in order and in GO batches. A statement is its
verb, the object it makes, what that object is, the objects it uses with the type
each must have, and whether it is guarded. Commented-out guidance runs nothing.
The length of a column is any number, or `NoLength` when it was not measured. Of
the text of a name one thing matters: with a blank in the schema's name
(`names.spaced`) `LoadsInto` recognises no load, and so no TRUNCATE is written.
Names are sequences of fragments, so a name the code derives from another can
be told from a given one. `GeneratedScript` composes the document of one file
(`generate_complete_ddl`), or the export of several (`export_results`, which
leaves out a prerequisite a previous file's script created), with a `Database`:
statements take effect or are refused (`RefuseStatement`: the batch ends or goes
on), a batch that the export has left out passes as a comment (`PassComment`),
and the script may be cut off anywhere and run again (`RunAgain`).

`generated_script`: every platform with every file type, nine kinds of storage
URL and two authentications, given names, columns at the lengths at which a type
changes, exports of two files; the target may exist with rows. It checks
`OnlyStagingIsRefused`, `RerunLoadsOnce`, `TheirRowsStay`, `UsesItsOwnObjects`,
`ColumnsHoldTheirValues`. `MaxRuns` is 2: a second run meets everything a first
can leave, and a third meets nothing new, since objects are only added. Two files
make the pair whose names may clash. `script_rerun` is the finding below.

Not every export keeps these promises (section 9), so the module says which do:
`HasItsSources` (an Excel file, or Fabric's public storage, is not read through a
source that no section creates), `Agreeing` (the files of an export do not give
one name to two things) and `Apart` (no file's target is another's, its staging
table or an external table). `MCDocumentsAssumption` makes TLC evaluate that the
requests of the run satisfy all three.

**Proved** (`GeneratedScriptProofs`), for any exports of any number of files
whose requests have the shape `DocumentsAssumption` says, and any number of runs:

| Theorem | Says |
|---|---|
| `ColumnsAreWideEnough` | `Spec => []ColumnsHoldTheirValues`, for every length and precision |
| `NothingOfOthersIsEmptied` | `Spec => TheirRowsStay`, whatever the names |
| `NothingElseIsRefused` | `Agreeing` and `Complete` give `Spec => []OnlyStagingIsRefused` |
| `ReadsItsOwn` | the same give `Spec => []UsesItsOwnObjects` |
| `OneFileIsRefusedNothing` | both, for exports of one file, without `Agreeing`: only an external table named like the target or its staging table can clash |
| `FinishedRunsLoadOnce` | `Apart` gives `Spec => []RerunLoadsOnce` |

Two things are shown of the generator first (`SqlGeneratorProofs`, which the plan
of section 7 rests on too), by cases over platform, file type and kind of storage:
every statement of a document finds what it uses, of the
type it needs, among those that come before it (`DocumentFits`); and a document
loads at most once, and a target that is to be emptied is emptied in a batch of
its own, after its creation and before its load (`DocumentIsPrepared`).
`ExportOf` says what leaving out shared prerequisites does to the script: only
batches of shared objects go, and an earlier script creates each of them.

The refusals rest on the invariant `SInv`: everything in the catalog is among
what the export makes (`CatalogInv`, so that by `Agreeing` an object that exists
is the one the statement means), and everything that this run's batches so far
create exists (`DoneInv`). The two need `OnlyStagingIsRefused` beside them, since
a batch whose statement was refused is passed with its objects missing. The
loads rest on `LInv`: an ordinary table has a row set (`TablesHaveRows`), the
name of a target is an ordinary table's (`TargetsHoldRows`), it is there once its
batch is passed (`TargetsAreThere`), and from its TRUNCATE to its load a target
is empty, after it holds the rows of that one load, or none if something was
refused (`LoadInv`).

## 7. `SafetyGate` and `CertificationPlan`: what a run may send

`SafetyGate` is `evaluate_batch` and `evaluate_script` layer by layer: allowed
heads, refused verbs, lists of targets, scope of each target, references to
protected names, policy, hosts. The lexer and the regular expressions are not
modelled; what they find is part of the input. A statement has the names it gives
to the server, and two fields for what the scanners see of it:

* `head`: it stands at the start of a batch or behind a semicolon, at the start of
  a line, or inside one. Only the first two are looked at for an allowed verb and
  kind, and an unknown verb at the start of a line is not refused.
* `readable`: the pattern for its verb reads the same names and finds behind them
  what it asks for. `SELECT 1 AS a INTO [sales].[victim];` is not readable, since
  the pattern for SELECT ... INTO wants FROM or a parenthesis, and so has no
  target; a list of DROP or TRUNCATE that is not readable is refused.

So the gate has blind spots, and the model has them too (section 9). Proved
(`CertificationProofs`), for every policy and batch, from no assumption on constants:

* `AllowedStaysInTheRun`: a statement of an allowed batch that the scanners see as
  the server does (`InSight`) changes nothing; or creates the master key or the
  run's database, as the policy lets it; or creates, drops, empties or fills
  objects of kinds the cleanup knows, all the run's own, and drops or empties one
  at most. This holds whatever the server resolves a name of up to three parts
  to and whatever its default schema is. The argument: such a statement has an allowed
  head (`AllowedHeads`), each verb among these that changes objects has target
  rules, and a name in scope resolves to an object of the run (`InScopeIsOwn`).

Of a statement out of sight nothing is claimed. `Resolve` and `ChangesObjects`
are the server's side, marked external.

`CertificationPlan` plans the whole matrix (`MATRIX`, `EntriesFor`) with
`SqlGenerator` and `SafetyGate`, one cell an action, and then runs what is READY,
a statement an action, on one `Database`.

| Model | Code |
|---|---|
| `plan` | the target, its platform, the staging document a run is planned for, and the fixtures missing from the repository |
| `planned`, `PlanNext`, `PlanCell` | `build_manifest` and `_plan_cell`: names, metadata (the fixture's, a public shape's, or an exact copy's), setup, own statements, verification, verdict |
| `at`, `TakeNextCell`, `TakeNextBlock` | `run_session` over the cells; `execute_cell` over setup, own statements and verification, batch by batch |
| `ExecuteStatement`, `RefuseStatement` | `connection.execute` in `_run_batches`: it takes effect, or its error ends the cell |

A predicted refusal lets the code go on to the cell's verification; no cell that
predicts one has a verification, so the model ends the cell at any refusal.

`certification_plan`: Azure and every version of SQL Server, with every staging
document the fields of `MCStagings` allow, on a database with other people's
objects. It checks `ReadyCellsRun`, `OnlyOwnObjects`, `OnlyTheControlIsBlocked`.
The bounds leave out differences between fixtures of one document; a fixture
is missing with the documents of an open list of hosts only, which is where
`cell_metadata` and the gate are least strict. What the generator writes is in
sight of the gate, so the gate's blind spots play no part here.

**Proved** (`CertificationPlanProofs`), for any number of plans of the shape that
`PlansAssumption` says (any hosts and any locations) and any database:

| Theorem | Says |
|---|---|
| `OnlyOwn` | `Spec => []OnlyOwnObjects`: what the planned cells add to the database is the run's, and its sources are at allowed hosts |
| `OnlyTheControl` | `Spec => []OnlyTheControlIsBlocked` |
| `ReadyCells` | if no object of others carries the run's prefix, `Spec => []ReadyCellsRun` |

The hypothesis of the last is what the run's identity is for: its id is random
(`runid.py:17`), and `MCProhibitedAssumption` makes TLC evaluate it for the run.
Without it an object of the run's name would be taken for one the run made.

All three rest on `PlaceInv`: what is planned for a cell is what the generator
and the gate give for it (`PlannedAsGenerated`), and the place the run has
reached is in a READY cell, at a statement of the batch it is in (`Placed`).
From that `OnlyOwn` follows by the gate: an allowed statement that makes an object
makes it under the prefix, and a source at an allowed host (`AllowedMakesOwn`).

`OnlyTheControl` follows from `PlannedAsGenerated` alone, by what the gate makes
of each section of the generator. A statement of a section has one of five verbs
the gate lets through, and what it makes, loads or empties is named by the request
(`OfRequest`); so with the run's own names no rule of the gate applies but those on
hosts and on the master key (`StatementPasses`). The negative control, with the
generator's default names, creates something out of scope (`ControlIsBlocked`).

`ReadyCells` needs `ReadyInv`, four things at once. `MadeInv`: what is in the
database and is not others' was made by a READY cell no later than the one that
runs, for that cell's request; if by the one that runs, by a statement it has sent.
`FoundInv`: what the cell that runs has created, if nothing of it was refused, is
there. `RefusedInv`: only cells that were begun were refused, and a refused one is
over. And `OnlyOwnObjects`, by which everything in the database is others' or
the run's. A statement can be refused for two reasons. What it uses is missing:
but every statement finds what it uses among those its cell sends before it
(`ReadyIsSupplied`; the setups come in the order of `requires`, and the cell's own
statements use what these and they themselves create), so `FoundInv` has it. Or
what it creates exists: but its cell creates nothing twice that is not guarded
(`CreatedOnce`, of which the planner's own check of duplicates is one part), and
cells agree on a name only where they agree on the object (`SameNamesSameCell`,
`CellObjectsAgree`: C29 takes C28's names, and both documents are guarded), so
`MadeInv` excludes it. TLC checked `ReadyInv` on the run's instance before it was
proved.

## 8. `Certification` implements `CertificationPromise`

`Certification` is one run from the first login to the exit status, an action
per call to the server. `phase` is where `run_session` and `cmd_execute` stand.

| Model | Code |
|---|---|
| `ConnectAdmin`, `ConnectWork`, `ConnectFails` | `SessionFactory.connect` with `connect_with_retry`; `IsTransientConnectError` and `WorthRetrying` decide on the errors the drivers report |
| `CreateRunDatabase`, `EnsureSchema`, `RunSession`, `DryRun` | the head of `run_session` |
| `RecordRefusedPlan`, `WithholdBatch`, `SendBatch`, `JudgeCell` | `execute_cell` with `_run_batches`, `_catalog_present` |
| `ReadInventory`, `DropObject`, `VerifyCleanup` | `run_cleanup` with `explicit_cleanup_statements` |
| `CloseWork`, `DropRunDatabase`, `CloseAdmin`, `CmdExecuteReturns` | the `finally`, `drop_run_database`, `cmd_execute` |
| `KeyboardInterrupt` | Ctrl-C in any call: `InFlight` is what the server may have done of it |

Every call may succeed, fail, fail after the server has done it, or lose the
connection; `MaxFaults` bounds how often. What a statement does and which
references keep a drop from succeeding (`Applied`, `Feasible`) is the server's
side, and so is what a batch makes and drops (`Makes`, `Drops`): that follows
from the names in its text. Whether it is sent is up to `SafetyGate`: every batch
of a cell and every DROP of the sweep passes `EvaluateBatch`, under the policy
`cmd_execute` builds. Objects of other databases and of kinds that no query of the
inventory lists are not represented, nor are names that a pattern reads in part.

A manifest edited by hand may contain text that the scanners do not see as the
server does. `Unseen` are the objects named by such text (`UnseenAssumption`). The
gate cannot answer for them, and neither does `ForeignUntouched`: it is about all
objects that are not the run's and not `Unseen`. What others own in `Unseen` the
refinement leaves out as well.

`CertificationPromise` is what the owner of the server is promised: the run
makes and drops only things of its own, ends, and claims "clean" only if nothing
it made is left. `KeepsPromise` is `Promise!Spec` under the refinement mapping
(`made`: the run's objects and its database on the server; `others`: the rest;
`claim`: the exit status). The run does not exist for the promise before it has
a connection to work in, and an ending with status 1 or 2, or by an interrupt,
claims nothing.

`certification`: six cells (a table with all its prerequisites; a predicted
refusal; two of a manifest edited by hand, of which one makes a table by an
unreadable `SELECT ... INTO` and then creates an unqualified one, and one drops a list
that ends with a user's table; the negative control; a redacted cell), both
targets, leftovers of an earlier run, two faults and one interrupt:
`VerdictsAreEarned`, `OrderAllowsEveryDrop`, `ForeignUntouched`,
`AuthErrorStops`, `KeepsPromise`. Four login rounds are the code's. Two faults
are a failing statement and a failing cleanup after it. The static assertions on
the text hold in every cell of the instance (`written`).

**Fairness** is `WF(Progress)`: the program is sequential and every call has a
timeout, so a step that can be taken is taken. It is needed only for "the run
ends" in `KeepsPromise`.

**Proved** (`CertificationProofs`), for any matrix, objects, servers, faults and
interrupts that satisfy the module's assumptions (the run's own database holds
only the run's objects; nothing of others refers to the run's names):

| Theorem | Says |
|---|---|
| `CertificationInvariant` | `Spec => []CInv` |
| `NothingForeignIsTouched` | `Spec => ForeignUntouched`: through the real gate, by `AllowedStaysInTheRun` |
| `RunKeepsPromise` | `Spec => Promise!Safety`: initial states and every step map to the promise's, or stutter |
| `NoVerdictIsGivenAway` | `Spec => []VerdictsAreEarned` |
| `RefusedLoginIsNotRepeated` | `FirstNumberTells` gives `Spec => AuthErrorStops` |
| `EveryDropIsAllowed` | `NeedsFollowTheOrder` gives `Spec => []OrderAllowsEveryDrop` |

`NothingForeignIsTouched` and the second part of the promise rest on
`AllowedStaysInTheRun`: a batch the gate lets through makes and drops what is the
run's or `Unseen`. The promise needs, at the step that returns status 0, that a verified cleanup is
still true after the `finally`: `DatabaseIsOwn` (in which phases the run has its
database, and that it holds nothing foreign), `VerifiedIsClean` (what a verified
cleanup left, per phase) and `ExitIsFinal`. The verdicts need that the batches
of the cell under way up to `at.k` have completed (`CellUnderWay`), that a
refusal with an unpredicted number stays on record until judged
(`RefusalsAreKept`), and that a missing connection means a fault
(`WorkIsOpen`). The last two theorems have a hypothesis about the constants:
`FirstNumberTells`, that the number kept of a driver's error names a refused
login (section 9, *several numbers*), and `NeedsFollowTheOrder`, that what
an object refers to is of a kind dropped later; their invariants are
`RefusedIsClosing` (a refused login only closes) and `SweepKnowsAll` (a sweep
that met no failure has all that is left on its list). Only model-checked: that
the run ends.

## 9. Where code and documents disagree, and what else was seen

`PROJECT.json` has one finding, with a run that shows it:

* `script_rerun`: the docstring of the complete document
  (`sql_generator.py:3651`) calls it rerunnable, with every CREATE guarded. The
  Fabric load patterns create their staging table by `SELECT ... INTO`
  (`sql_generator.py:1501`), neither guarded nor dropped first: the second
  run is refused. `OnlyStagingIsRefused` shows that nothing else is.

Met while modelling, and stated here, in hazards or in bounds rather than by a run:

* *Truncation notice.* A truncated scan that found files never says so:
  `loadDirectory` publishes the notice (`controller.ts:1103`) and calls
  `selectFile` in the same stretch, which clears it.
* *Export notice.* `deliverExport` writes its notice after the save dialog
  without `isCurrent` (`controller.ts:1933`), over a newer operation's state.
* *Catch of `handle`* (`controller.ts:262`): clears `busy` and `progress` for any
  rejected request, also while a newer operation runs. Hence `BusyMeansRunning`
  states one direction only.
* *Mixed identity.* A reconciliation asks for the account that was in use while
  a refresh adopts another; its late proof sets `this.account` back
  (`browser.ts:1094`) and the rest of the chain lists with the first account
  under the identity of the second.
* *Unwatched identity.* "Browse Azure" during the first sign-in runs `open`,
  whose `signedOut` (`browser.ts:190`) supersedes nothing; the identity that
  arrives is shown while `reconnectRequiresUserAction` makes
  `authenticationChanged` ignore removals.
* *Shared mark.* Two reconciliations share `reconcilingLifecycle`, the first to
  end clears it (`browser.ts:1079`), and `close` then keeps an account whose
  sign-out is still being proved.
* *Reopened while loading* (`browser.ts:176`): the browser reopens from its cache
  as ready, in a folder that was never listed, and offers it as a source.
* *Overlapping fetches* (`web_gui.py:1378`): two downloads of one session each add
  their file to the list they read before the other wrote; the second write drops
  the first.
* *Sign-out during a sign-in*: the docstring at `web_gui.py:562` says a sign-out
  closes every connection; a sign-in that had read its credential registers
  afterwards and stays (`late` in the model).
* *Several numbers*: the docstring of `is_transient_connect_error`
  (`adapters.py:485`) has a failure with several numbers permanent if one of them
  is an auth error, but `connect` keeps only the first number of each driver's
  error (`adapters.py:769`). When a driver names a transient error before the
  refusal, and another driver's failure is transient, the login is repeated.
* *Ctrl-C during CREATE DATABASE*: the comment at `execute.py:833` has the drop
  in the `finally` so that a Ctrl-C leaves no database behind; when the interrupt
  comes after the server has created it and before the call returns,
  `created_database` is not set and nothing drops it.
  `main` catches no KeyboardInterrupt (`__main__.py:301`), so the process ends with
  the interpreter's own status; the run claims nothing, and the promise holds.
* *Gate blind spots*: the pattern for the target of `SELECT ... INTO` wants FROM or a
  parenthesis behind it (`safety.py:372`), and heads are looked for only at the start
  of a batch, behind a semicolon and at the start of a line (`safety.py:832`). A
  table made by `SELECT 1 AS a INTO ...;`, or an object of an unmanaged kind created
  in the middle of a line, passes, although the docstring has the gate
  "deny-by-default at the statement level" (`safety.py:11`). Neither generator writes such text. `InSight` and
  `Unseen` are where the model says so.
* *Blank in a schema's name*: `_LOAD_RE` reads the target of a load up to the next
  blank (`sql_generator.py:4620`), so in a schema whose name has one no load is found
  and the TRUNCATE that was asked for is not written; a second run doubles the rows.
  Only callers of the Python API can give such a name. `RerunLoadsOnce` excepts it.
* *Requests that `HasItsSources` leaves out*: an Excel file in storage, or on a platform that
  reads no local files, is read through a data source that no section creates
  (`sql_generator.py:1898`); a Fabric
  source for public storage names a credential that no section creates
  (`sql_generator.py:2819`).
* *Prerequisites by name* (`sql_generator.py:4127`): an export leaves out a
  prerequisite whose name a previous file created, whatever its definition;
  `UsesItsOwnObjects` holds for exports that are `Agreeing`, such as files in one
  container with the same options.
* *Cells C07 and C11* (`matrix.py:312`) are planned READY although they insert
  into a table no setup creates: `LoadsNobodysTable` excepts them.
* *SQL Server 2019* (`safety.py:699`): the sources of a remote file take a secret
  there, and the secret a master key, which the gate refuses; the remote cells of
  such a target are BLOCKED. `OnlyTheControlIsBlocked` names the case.

## 10. Not modelled, and what stays with TLC

* Storage setup and view state of the controller; the limits of the settings
  history; saving, renaming and deleting import profiles.
* Azure REST clients, analysis service: modelled by what they answer. Revisions
  of a file during one analysis are therefore not covered.
* Folder scan, format readers and detectors, both in TypeScript and Python:
  sequential code over bytes, with its own unit tests.
* The TypeScript generator: held equal to the Python one by the repository's
  parity tests.
* The webview page (a rendering of the posted state), message validation, the
  gate's lexer, the splitting of text at GO, staging, the native driver, reports,
  build and release scripts, design assets.

Liveness under fairness and `ENABLED` are out of this prover's reach, and so is
what a recursively defined operator computes for every input. These stay with
TLC on the instances above: `BusyEnds`, `SelectionSettles`, `RequestsEnd`, and
that a certification run ends. `ListedByIdentity` and `SignOutHonoured` are proved
as far as they hold, which is up to one change of the sessions (section 4).

`PROJECT.json` lists the components with their status, the hazards with the
properties that cover them, and a mutant for every property of every passing
run: a plausible bug in the modelled code that makes TLC find the property
violated.
