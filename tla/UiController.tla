---------------------------- MODULE UiController ----------------------------
(***************************************************************************)
(* The analysis lifecycle of the VS Code extension: src/ui/controller.ts   *)
(* (UiController) over src/appState.ts (AppStateStore).                    *)
(*                                                                         *)
(* The extension host is one thread.  A handler runs without interruption  *)
(* from the message (or the settled promise) that woke it to its next      *)
(* await, so one action of this module is one such stretch, and the        *)
(* interleavings are those of the awaits.  An operation is named by the    *)
(* generation `begin' gave it; an operation of an older generation is      *)
(* superseded but still runs until its own awaits settle.                  *)
(*                                                                         *)
(* Data: a local file is a path; an id is a path in one listing (ids are   *)
(* random, so ids of two listings never meet); metadata is the path, how   *)
(* far it was analysed and its columns; the settings of a file are the     *)
(* columns whose SQL type the user overrides; SQL is what it was generated *)
(* from.  The Azure browser and the storage setup are left to other        *)
(* modules: "azure" is here only the mode that sets the local source aside.*)
(***************************************************************************)
EXTENDS Integers, Sequences, Functions

CONSTANTS
    Paths,          \* the local data files the user can open
    TextPaths,      \* those the service samples before the complete analysis
    OpaquePaths,    \* those recognised but not read (ORC, RCFile): no preview
    Identities,     \* canonical paths (settings identities) a path resolves to
    MaySkip,        \* may a pick hold files that are no SQL source?
    LinkPaths,      \* the paths whose canonical path may change while listed
    Columns,
    Schemas,        \* the column sets an analysis may find
    FinalStages,    \* how a finished analysis may end: "sampled", "exact"
    Platforms,
    HostRejects,    \* may the picker, the clipboard or the save dialog reject?
    MaxGeneration,  \* bound: operations begun
    MaxListings,    \* bound: listings made
    MaxListed,      \* bound: files in a listing
    MaxExports,     \* bound: exports waiting in the queue
    MaxHostCalls,   \* bound: copies waiting for the clipboard
    NoFile, NoIdentity, NoMetadata, NoPreview, NoSql, NoSnapshot, NoEntry

ASSUME ConstantAssumption ==
    /\ TextPaths \subseteq Paths
    /\ OpaquePaths \subseteq Paths \ TextPaths
    /\ MaySkip \in BOOLEAN
    /\ LinkPaths \subseteq Paths
    /\ Schemas \subseteq SUBSET Columns
    /\ FinalStages \subseteq {"sampled", "exact"}
    /\ HostRejects \in BOOLEAN
    /\ MaxGeneration \in Nat
    /\ MaxListings \in Nat
    /\ MaxListed \in Nat
    /\ MaxExports \in Nat
    /\ MaxHostCalls \in Nat

-----------------------------------------------------------------------------
(* Values.                                                                 *)

Generations == 1..MaxGeneration

FileId == [n : 1..MaxListings, path : Paths]

Stages == {"provisional"} \cup FinalStages

Metadata == [path : Paths, stage : Stages, cols : Schemas]

\* The rows on display: whose they are and the analysis they were read with.
Preview == [path : Paths, stage : Stages]

\* SQL remembers what it was generated from; NoMetadata is the setup template.
Sql == [from : Metadata \cup {NoMetadata}, overrides : SUBSET Columns,
        platform : Platforms]

Entry == [cur : SUBSET Columns, prev : (SUBSET Columns) \cup {NoEntry}]

\* The SQL sources in a pick or a folder: distinct paths, in order.
Distinct(S) == {s \in UNION {[1..k -> S] : k \in 0..MaxListed} :
                   \A i, j \in DOMAIN s : s[i] = s[j] => i = j}

Snapshot == [files : Seq(FileId), selected : FileId \cup {NoFile},
             raw : Metadata \cup {NoMetadata}, shown : Metadata \cup {NoMetadata},
             preview : Preview \cup {NoPreview},
             overrides : SUBSET Columns, canUndo : BOOLEAN]

\* The values that stand for null are none of the things.
ASSUME NullAssumption ==
    /\ NoFile \notin FileId /\ NoMetadata \notin Metadata
    /\ NoSnapshot \notin Snapshot /\ NoEntry \notin Entry

\* Where an operation waits: for the picker, the folder scan, realpath, the
\* sample, the complete analysis, a new sample, or rows of analysed metadata.
Waits == {"dialog", "scan", "identify", "sample", "analyze", "resample", "reread"}

Reading == {"scan", "sample", "analyze", "resample", "reread"}

\* `seen' is the identity of the file selected when the operation began;
\* `skipped', that the pick it loads held files that are no SQL source.
Task == [at : Waits \cup {"idle"}, id : FileId \cup {NoFile},
         seen : Identities \cup {NoIdentity}, skipped : BOOLEAN]

Exporter == [at : {"idle", "identify", "analyze", "save", "buffer"},
             gen : 0..MaxGeneration, rest : Seq(FileId),
             done : SUBSET [id : FileId, owner : Identities],
             script : SUBSET [id : FileId, overrides : SUBSET Columns]]

Notices == {"none", "canceled", "partial", "empty", "skipped", "missing",
            "settings", "sampleOnly", "delivered"}

IdleTask == [at |-> "idle", id |-> NoFile, seen |-> NoIdentity, skipped |-> FALSE]

IdleExporter == [at |-> "idle", gen |-> 0, rest |-> <<>>, done |-> {}, script |-> {}]

VARIABLES
    files,      \* state.files, and the registry that resolves their ids
    listings,   \* listings made so far: mints the ids
    withheld,   \* result.truncated of the scan that made the listing
    identity,   \* settingsIdentity of each registered file
    selected,   \* state.selectedFileId
    mode,       \* state.sourceMode
    retained,   \* localSourceSnapshot
    raw,        \* rawMetadata
    shown,      \* state.metadata
    preview,    \* state.preview
    sql,        \* state.statements
    overrides,  \* the settings in the state (columnOverrides)
    platform,   \* state.platform
    canUndo,    \* state.canUndoSettings
    history,    \* FileSettingsHistory, by identity
    busy,       \* state.busy
    notice,     \* state.notice
    error,      \* state.error is set
    generation, \* the newest operation
    task,       \* the operation begun as each generation
    exports,    \* exports waiting in the serial queue
    exporter,   \* the export that runs
    hostCalls,  \* copies that wait for the clipboard
    timer,      \* regenerateHandle is set
    disposed,
    realOf      \* the file system: what each path resolves to

chosen   == <<files, listings, withheld, selected>>
source   == <<mode, retained>>
result   == <<raw, shown, preview, sql>>
settings == <<overrides, canUndo, history>>
work     == <<generation, task>>
queued   == <<exports, exporter, hostCalls>>
aside    == <<platform, timer, disposed, realOf>>
display  == <<busy, notice, error>>
vars == <<chosen, identity, source, result, settings, display, work, queued,
          aside>>

-----------------------------------------------------------------------------
(* Helpers.                                                                *)

\* A registry that keeps the ids of earlier listings.
ListedEver(id) == id \in FileId /\ id.n <= listings

\* The registry is cleared with every list, so it resolves the ids on display.
Listed(id) == id \in Range(files)

IsProvisional(m) == m # NoMetadata /\ m.stage = "provisional"

Supports(p) == p \notin OpaquePaths

\* isCurrent.
Current(g) == ~disposed /\ g = generation

\* A continuation that forgets to compare generations.
InPlaceUnchecked(g) == ~disposed

\* current() of analyzeSelected, and the checks of the other continuations.
InPlace(g) ==
    /\ Current(g)
    /\ task[g].at \in {"sample", "analyze"} => selected = task[g].id /\ mode = "local"
    /\ task[g].at \in {"resample", "reread"} => selected = task[g].id

\* generateNow, from the values the state is about to have.
Generated(m, o, p) == [from |-> m, overrides |-> o, platform |-> p]

\* FileSettingsHistory.get with the default settings as the fallback.
Remembered(h, i) == IF h[i] = NoEntry THEN {} ELSE h[i].cur

\* FileSettingsHistory.write: equal settings leave the undo step alone.
Written(h, i, value, rememberUndo) ==
    IF h[i] # NoEntry /\ h[i].cur = value
    THEN h
    ELSE [h EXCEPT ![i] =
            [cur |-> value,
             prev |-> IF rememberUndo THEN Remembered(h, i)
                      ELSE IF h[i] = NoEntry THEN NoEntry ELSE h[i].prev]]

CanUndo(h, i) == h[i] # NoEntry /\ h[i].prev # NoEntry

\* A match that takes a sampled schema for a complete one.
MatchingSample(o, m) == IF m = NoMetadata THEN o ELSE o \cap m.cols

\* matchingSettings: only an exact, complete schema proves a column absent.
Matching(o, m) ==
    IF m = NoMetadata \/ m.stage # "exact" THEN o ELSE o \cap m.cols

\* The update alone: the history is not told.
AdoptUnremembered(value, rememberUndo) ==
    overrides' = value /\ UNCHANGED <<history, canUndo>>

\* rememberSettings followed by the update that publishes them.
Adopt(value, rememberUndo) ==
    /\ history' = Written(history, identity[selected], value, rememberUndo)
    /\ overrides' = value
    /\ canUndo' = CanUndo(history', identity[selected])

\* begin, cancelActive: the next generation, waiting as t.  Two advances in
\* one stretch (loadFiles, then its selectFile) count as one: nothing holds
\* the generation between them.
Begin(tasks, t) ==
    /\ generation < MaxGeneration
    /\ generation' = generation + 1
    /\ task' = [tasks EXCEPT ![generation + 1] = t]

Waiting(at, id) == [IdleTask EXCEPT !.at = at, !.id = id]

\* A selection that ends before its analysis.
MoveNowhere(g, at) == task' = [task EXCEPT ![g] = IdleTask]

Move(g, at) == task' = [task EXCEPT ![g].at = at]

Finish(g) == task' = [task EXCEPT ![g] = IdleTask]

Ids(n, listing) == [i \in DOMAIN listing |-> [n |-> n, path |-> listing[i]]]

Unidentified == [id \in FileId |-> NoIdentity]

\* Two resets that forget something: the display, the registry.
ClearSourceShown ==
    /\ files' = <<>> /\ selected' = NoFile
    /\ raw' = NoMetadata /\ UNCHANGED <<shown, preview>>
    /\ overrides' = {} /\ canUndo' = FALSE

ClearSourceFiles ==
    /\ UNCHANGED files /\ selected' = NoFile
    /\ raw' = NoMetadata /\ shown' = NoMetadata /\ preview' = NoPreview
    /\ overrides' = {} /\ canUndo' = FALSE

\* clearSelection with rawMetadata and the file list: no file, no result.
ClearSource ==
    /\ files' = <<>> /\ selected' = NoFile
    /\ raw' = NoMetadata /\ shown' = NoMetadata /\ preview' = NoPreview
    /\ overrides' = {} /\ canUndo' = FALSE

\* The first file of a listing, as selectFile meets it: nothing selected.
SelectFirst(tasks, n, listing, skipped) ==
    Begin(tasks, [IdleTask EXCEPT !.at = "identify", !.skipped = skipped,
                                  !.id = [n |-> n, path |-> listing[1]]])

-----------------------------------------------------------------------------
(* The source: local files or Azure, and what is listed.                   *)

Init ==
    /\ files = <<>> /\ listings = 0 /\ withheld = FALSE /\ selected = NoFile
    /\ identity = Unidentified
    /\ mode = "local" /\ retained = NoSnapshot
    /\ raw = NoMetadata /\ shown = NoMetadata /\ preview = NoPreview
    /\ platform \in Platforms
    /\ sql = Generated(NoMetadata, {}, platform)
    /\ overrides = {} /\ canUndo = FALSE
    /\ history = [i \in Identities |-> NoEntry]
    /\ busy = FALSE /\ notice = "none" /\ error = FALSE
    /\ generation = 0 /\ task = [g \in Generations |-> IdleTask]
    /\ exports = 0 /\ exporter = IdleExporter /\ hostCalls = 0
    /\ timer = FALSE /\ disposed = FALSE
    /\ realOf \in [Paths -> Identities]

\* activateLocalSource.
ActivateLocal ==
    /\ mode' = "local" /\ retained' = NoSnapshot
    /\ notice' = "none" /\ error' = FALSE
    /\ \/ /\ retained # NoSnapshot
          /\ files' = retained.files /\ selected' = retained.selected
          /\ raw' = retained.raw /\ shown' = retained.shown
          /\ preview' = retained.preview
          /\ overrides' = retained.overrides /\ canUndo' = retained.canUndo
       \/ retained = NoSnapshot /\ files = <<>> /\ ClearSource
       \/ /\ retained = NoSnapshot /\ files # <<>>
          /\ UNCHANGED <<files, selected, raw, shown, preview, overrides, canUndo>>
    /\ sql' = Generated(raw', overrides', platform)
    /\ UNCHANGED history

\* showLocalSource with something to show; else it is browseLocal.
ShowLocalSource ==
    /\ ~disposed
    /\ files # <<>> \/ retained # NoSnapshot
    /\ Begin(task, IdleTask)
    /\ ActivateLocal
    /\ busy' = FALSE
    /\ UNCHANGED <<listings, withheld, identity, queued, aside>>

\* browseLocal, from its button or from showLocalSource with nothing listed.
BrowseLocal ==
    /\ ~disposed
    /\ Begin(task, Waiting("dialog", NoFile))
    /\ ActivateLocal
    /\ busy' = FALSE
    /\ UNCHANGED <<listings, withheld, identity, queued, aside>>

\* loadDirectory up to the scan.
LoadDirectory(tasks) ==
    /\ Begin(tasks, Waiting("scan", NoFile))
    /\ ClearSource
    /\ sql' = NoSql
    /\ mode' = "local" /\ retained' = NoSnapshot
    /\ identity' = Unidentified /\ withheld' = FALSE
    /\ busy' = TRUE /\ notice' = "none" /\ error' = FALSE
    /\ UNCHANGED <<listings, history, queued, aside>>

\* loadFiles: the SQL sources among the picked files, and whether some others
\* were skipped.
LoadFiles(tasks, supported, skipped) ==
    /\ mode' = "local" /\ retained' = NoSnapshot
    /\ identity' = Unidentified /\ withheld' = FALSE
    /\ sql' = Generated(NoMetadata, {}, platform)
    /\ busy' = FALSE /\ notice' = "none"
    /\ \/ /\ supported = <<>> /\ skipped
          /\ ClearSource
          /\ Begin(tasks, IdleTask)
          /\ error' = TRUE
          /\ UNCHANGED listings
       \/ /\ supported # <<>> /\ listings < MaxListings
          /\ listings' = listings + 1
          /\ files' = Ids(listings', supported)
          /\ selected' = NoFile
          /\ raw' = NoMetadata /\ shown' = NoMetadata /\ preview' = NoPreview
          /\ overrides' = {} /\ canUndo' = FALSE
          /\ SelectFirst(tasks, listings', supported, skipped)
          /\ error' = FALSE
    /\ UNCHANGED <<history, queued, aside>>

\* What the user picks: one folder, or files.
Picked(tasks) ==
    \/ LoadDirectory(tasks)
    \/ \E supported \in Distinct(Paths), skipped \in {FALSE, MaySkip} :
          LoadFiles(tasks, supported, skipped)

\* analyzePath, the command of the Explorer.
AnalyzePath == ~disposed /\ Picked(task)

\* The picker answers.
DialogPicked(g) ==
    /\ task[g].at = "dialog" /\ InPlace(g)
    /\ Picked([task EXCEPT ![g] = IdleTask])

\* Nothing picked, or a folder together with something else (an error).
DialogDismissed(g) ==
    /\ task[g].at = "dialog" /\ InPlace(g)
    /\ Finish(g)
    /\ error' \in {error, TRUE}
    /\ UNCHANGED <<chosen, identity, source, result, settings, busy, notice,
                   generation, queued, aside>>

\* The picker rejects: handle reports it, whatever runs by now.
DialogRejected(g) ==
    /\ HostRejects /\ task[g].at = "dialog"
    /\ Finish(g)
    /\ busy' = FALSE /\ error' = TRUE
    /\ UNCHANGED <<chosen, identity, source, result, settings, notice,
                   generation, queued, aside>>

\* The notice of a truncated scan, and selectFile's activateLocalSource, which
\* replaces it in the same stretch.
ScanDone(g) ==
    /\ task[g].at = "scan" /\ InPlace(g)
    /\ listings < MaxListings
    /\ \E found \in Distinct(Paths), truncated \in BOOLEAN :
        /\ listings' = listings + 1
        /\ files' = Ids(listings', found)
        /\ withheld' = truncated
        /\ \/ /\ found # <<>>
              /\ SelectFirst([task EXCEPT ![g] = IdleTask], listings', found, FALSE)
              /\ notice' = "none" /\ error' = FALSE
           \/ /\ found = <<>>
              /\ Finish(g)
              /\ notice' = "empty"
              /\ UNCHANGED <<generation, error>>
    /\ busy' = FALSE
    /\ identity' = Unidentified
    /\ sql' = Generated(raw, overrides, platform)
    /\ UNCHANGED <<selected, source, raw, shown, preview, settings, queued, aside>>

\* activateAzureSource: set the local source aside.
OpenAzure ==
    /\ ~disposed /\ mode # "azure"
    /\ retained' = [files |-> files, selected |-> selected, raw |-> raw,
                    shown |-> shown, preview |-> preview,
                    overrides |-> overrides, canUndo |-> canUndo]
    /\ mode' = "azure"
    /\ Begin(task, IdleTask)
    /\ ClearSource
    /\ sql' = NoSql
    /\ busy' = FALSE /\ notice' = "none" /\ error' = FALSE
    /\ UNCHANGED <<listings, withheld, identity, history, queued, aside>>

\* A cancel that leaves the spinner on.
CancelBusy ==
    /\ ~disposed
    /\ Begin(task, IdleTask)
    /\ notice' = "canceled"
    /\ UNCHANGED <<chosen, identity, source, result, settings, busy, error, queued,
                   aside>>

\* The cancel message.
Cancel ==
    /\ ~disposed
    /\ Begin(task, IdleTask)
    /\ busy' = FALSE /\ notice' = "canceled"
    /\ UNCHANGED <<chosen, identity, source, result, settings, error, queued, aside>>

-----------------------------------------------------------------------------
(* Selecting a file: realpath, then its sample, then the complete analysis. *)

\* selectFile up to its await.  Only the local source has files listed, so
\* activateLocalSource finds no snapshot.
SelectFile(id) ==
    /\ ~disposed
    /\ \/ /\ Listed(id)
          /\ Begin(task, [at |-> "identify", id |-> id, skipped |-> FALSE,
                          seen |-> IF selected = NoFile THEN NoIdentity
                                   ELSE identity[selected]])
          /\ sql' = Generated(raw, overrides, platform)
          /\ busy' = FALSE /\ notice' = "none" /\ error' = FALSE
       \/ /\ ~Listed(id) /\ id.n <= listings
          /\ error' = TRUE
          /\ UNCHANGED <<work, sql, busy, notice>>
    /\ UNCHANGED <<chosen, identity, source, raw, shown, preview, settings,
                   queued, aside>>

\* identifyFile writes the identity of a file that is still listed, also for
\* an operation that is superseded.
Identified(id) ==
    identity' = IF Listed(id) THEN [identity EXCEPT ![id] = realOf[id.path]]
                ELSE identity

\* selectFile after identifyFile, and analyzeSelected up to its await.
IdentifyDone(g) ==
    LET id == task[g].id
        owner == realOf[id.path]
        changed == selected # id \/ task[g].seen # owner
    IN  /\ task[g].at = "identify" /\ InPlace(g) /\ Listed(id)
        /\ Identified(id)
        /\ selected' = id
        /\ overrides' = IF changed THEN Remembered(history, owner) ELSE overrides
        /\ history' = Written(history, owner, overrides', FALSE)
        /\ canUndo' = CanUndo(history', owner)
        /\ IF changed
           THEN raw' = NoMetadata /\ shown' = NoMetadata /\ sql' = NoSql
           ELSE UNCHANGED <<raw, shown, sql>>
        /\ preview' = NoPreview
        /\ busy' = TRUE /\ notice' = "none" /\ error' = FALSE
        /\ Move(g, IF id.path \in TextPaths THEN "sample" ELSE "analyze")
        /\ UNCHANGED <<files, listings, withheld, source, generation, queued, aside>>

\* A superseded selection: realpath has answered, the rest is dropped.
IdentifyDropped(g) ==
    /\ task[g].at = "identify" /\ ~InPlace(g)
    /\ Identified(task[g].id)
    /\ Finish(g)
    /\ UNCHANGED <<chosen, source, result, settings, display, generation,
                   queued, aside>>

\* applyMetadata with the settings it keeps.
Apply(m, kept) ==
    /\ raw' = m /\ shown' = m
    /\ Adopt(kept, FALSE)
    /\ sql' = Generated(m, kept, platform)

\* The rows that came with m, or the reader's reason for having none.
Rows(m) ==
    \/ preview' = [path |-> m.path, stage |-> m.stage] /\ error' = FALSE
    \/ preview' = NoPreview /\ error' = TRUE

Provisional(path, cols) == [path |-> path, stage |-> "provisional", cols |-> cols]

\* onPreview: the sample of a text file, published before the analysis.
SamplePublished(g) ==
    /\ task[g].at = "sample" /\ InPlace(g)
    /\ \E cols \in Schemas :
          LET m == Provisional(task[g].id.path, cols)
          IN  Apply(m, overrides) /\ Rows(m)
    /\ Move(g, "analyze")
    /\ UNCHANGED <<chosen, identity, source, busy, notice, generation, queued, aside>>

\* The complete analysis.  loadFiles adds the files it skipped to the notice
\* once its selection has settled.
AnalysisDone(g) ==
    /\ task[g].at = "analyze" /\ InPlace(g)
    /\ \E stage \in FinalStages, cols \in Schemas :
          LET m == [path |-> task[g].id.path, stage |-> stage, cols |-> cols]
              kept == Matching(overrides, m)
          IN  /\ Apply(m, kept)
              /\ IF Supports(m.path) THEN Rows(m)
                 ELSE preview' = NoPreview /\ error' = FALSE
              /\ notice' = IF task[g].skipped THEN "skipped"
                           ELSE IF kept # overrides THEN "missing" ELSE notice
    /\ busy' = FALSE
    /\ Finish(g)
    /\ UNCHANGED <<chosen, identity, source, generation, queued, aside>>

\* setPreviewRows, refreshPreview: rows for the metadata there is, another
\* sample while there is only a sample, or the analysis when there is nothing.
SetPreviewRows ==
    /\ ~disposed /\ selected # NoFile
    /\ raw # NoMetadata => Supports(raw.path)
    /\ LET at == IF raw = NoMetadata
                 THEN IF selected.path \in TextPaths THEN "resample" ELSE "analyze"
                 ELSE IF IsProvisional(raw) THEN "resample" ELSE "reread"
       IN  /\ Begin(task, Waiting(at, selected))
           /\ IF at = "analyze" THEN preview' = NoPreview /\ error' = FALSE
              ELSE UNCHANGED <<preview, error>>
    /\ busy' = TRUE
    /\ UNCHANGED <<chosen, identity, source, raw, shown, sql, settings, notice,
                   queued, aside>>

ResampleDone(g) ==
    /\ task[g].at = "resample" /\ InPlace(g)
    /\ \E cols \in Schemas :
          LET m == Provisional(task[g].id.path, cols)
          IN  Apply(m, overrides) /\ Rows(m)
    /\ busy' = FALSE /\ notice' = "sampleOnly"
    /\ Finish(g)
    /\ UNCHANGED <<chosen, identity, source, generation, queued, aside>>

RereadDone(g) ==
    /\ task[g].at = "reread" /\ InPlace(g)
    /\ Rows(raw)
    /\ busy' = FALSE
    /\ Finish(g)
    /\ UNCHANGED <<chosen, identity, source, raw, shown, sql, settings, notice,
                   generation, queued, aside>>

\* failIfCurrent.  A file that changed while it was read takes its result off
\* the display, unless that is a sample and says so.
TaskFailed(g) ==
    /\ task[g].at \in Waits \ {"dialog"} /\ Current(g)
    /\ \/ UNCHANGED result
       \/ /\ task[g].at \in Reading \ {"scan"}
          /\ ~IsProvisional(raw)
          /\ raw' = NoMetadata /\ shown' = NoMetadata
          /\ preview' = NoPreview /\ sql' = NoSql
    /\ busy' = FALSE /\ error' = TRUE
    /\ notice' = IF task[g].skipped THEN "skipped" ELSE notice
    /\ Finish(g)
    /\ UNCHANGED <<chosen, identity, source, settings, generation, queued, aside>>

\* Any other answer to an operation that has lost its place is dropped.
TaskDropped(g) ==
    /\ task[g].at \in Waits \ {"identify"} /\ ~InPlace(g)
    /\ Finish(g)
    /\ UNCHANGED <<chosen, identity, source, result, settings, display,
                   generation, queued, aside>>

-----------------------------------------------------------------------------
(* Settings.                                                               *)

\* currentSettingsFile.
Editable == ~disposed /\ mode = "local" /\ selected # NoFile

\* changeSettings; an edit in place waits for the timer.
Replace(value, rememberUndo) ==
    /\ Adopt(value, rememberUndo)
    /\ sql' = Generated(raw, value, platform)
    /\ error' = FALSE
    /\ UNCHANGED <<chosen, identity, source, raw, shown, preview, busy, work,
                   queued, aside>>

\* An edit that no regeneration follows.
SetColumnOverrideQuietly(c) ==
    /\ Editable /\ raw # NoMetadata /\ c \in raw.cols
    /\ \E value \in {overrides \cup {c}, overrides \ {c}} : Adopt(value, TRUE)
    /\ error' = FALSE
    /\ UNCHANGED <<chosen, identity, source, result, busy, notice, work, queued, aside>>

SetColumnOverride(c) ==
    /\ Editable /\ raw # NoMetadata /\ c \in raw.cols
    /\ \E value \in {overrides \cup {c}, overrides \ {c}} : Adopt(value, TRUE)
    /\ timer' = TRUE
    /\ error' = FALSE
    /\ UNCHANGED <<chosen, identity, source, result, busy, notice, work, queued,
                   platform, disposed, realOf>>

\* clearColumnOverrides, resetFileSettings.
ResetSettings == Editable /\ Replace({}, TRUE) /\ notice' \in {notice, "settings"}

UndoSettings ==
    LET owner == identity[selected]
        kept == Matching(history[owner].prev, raw)
    IN  /\ Editable /\ CanUndo(history, owner)
        /\ history' = Written([history EXCEPT ![owner] =
                                  [cur |-> history[owner].prev, prev |-> NoEntry]],
                              owner, kept, FALSE)
        /\ overrides' = kept
        /\ canUndo' = CanUndo(history', owner)
        /\ sql' = Generated(raw, kept, platform)
        /\ error' = FALSE
        /\ notice' = IF kept # history[owner].prev THEN "missing" ELSE "settings"
        /\ UNCHANGED <<chosen, identity, source, raw, shown, preview, busy, work,
                       queued, aside>>

ApplyImportProfile(profile) ==
    /\ Editable /\ raw # NoMetadata /\ ~IsProvisional(raw)
    /\ Replace(Matching(profile, raw), TRUE)
    /\ notice' = IF Matching(profile, raw) # profile THEN "missing" ELSE "settings"

\* A platform that no regeneration follows.
SetPlatformQuietly(p) ==
    /\ ~disposed
    /\ platform' = p
    /\ UNCHANGED <<chosen, identity, source, result, settings, display, work,
                   queued, timer, disposed, realOf>>

SetPlatform(p) ==
    /\ ~disposed
    /\ platform' = p
    /\ timer' = TRUE
    /\ UNCHANGED <<chosen, identity, source, result, settings, display, work,
                   queued, disposed, realOf>>

\* The debounced generateNow.
TimerFires ==
    /\ timer
    /\ timer' = FALSE
    /\ sql' = Generated(raw, overrides, platform)
    /\ UNCHANGED <<chosen, identity, source, raw, shown, preview, settings,
                   display, work, queued, platform, disposed, realOf>>

DismissNotice ==
    /\ ~disposed
    /\ notice' = "none" /\ error' = FALSE
    /\ UNCHANGED <<chosen, identity, source, result, settings, busy, work,
                   queued, aside>>

-----------------------------------------------------------------------------
(* Exports, copies, the end of the session, the file system.               *)

RequestExport ==
    /\ ~disposed /\ exports < MaxExports
    /\ exports' = exports + 1
    /\ UNCHANGED <<chosen, identity, source, result, settings, display, work,
                   exporter, hostCalls, aside>>

\* exportAllSql when its turn comes in the serial queue.  Nothing listed means
\* nothing analysed, so the script of a single file has no case here.
StartExport ==
    /\ exports > 0 /\ exporter.at = "idle"
    /\ exports' = exports - 1
    /\ \/ /\ files = <<>>
          /\ error' = TRUE
          /\ UNCHANGED <<work, busy, exporter>>
       \/ /\ files # <<>>
          /\ Begin(task, IdleTask)
          /\ exporter' = [IdleExporter EXCEPT !.at = "identify", !.rest = files,
                                              !.gen = generation + 1]
          /\ busy' = TRUE /\ error' = FALSE
    /\ UNCHANGED <<chosen, identity, source, result, settings, notice,
                   hostCalls, aside>>

\* identifyFile of the next file.  While the export is current its files stay
\* listed, so none is passed over.
ExportIdentified ==
    LET id == Head(exporter.rest)
    IN  /\ exporter.at = "identify" /\ exporter.rest # <<>>
        /\ Identified(id)
        /\ exporter' = IF ~Current(exporter.gen) THEN IdleExporter
                       ELSE [exporter EXCEPT !.at = "analyze", !.done = @ \cup
                               {[id |-> id, owner |-> realOf[id.path]]}]
        /\ UNCHANGED <<chosen, source, result, settings, display, work, exports,
                       hostCalls, aside>>

\* Every part written with the settings of the file on display.
PartActive(entry) == [id |-> entry.id, overrides |-> overrides]

\* What a file's part of the script is written with, before the columns its
\* schema lacks are left out.
Part(entry) == [id |-> entry.id, overrides |-> Remembered(history, entry.owner)]

\* The analysis of one file; the last one also assembles the script and asks
\* where to save it.
ExportAnalyzed ==
    /\ exporter.at = "analyze"
    /\ \/ /\ ~Current(exporter.gen)
          /\ exporter' = IdleExporter
          /\ UNCHANGED <<busy, notice>>
       \/ /\ Current(exporter.gen) /\ Len(exporter.rest) > 1
          /\ exporter' = [exporter EXCEPT !.at = "identify", !.rest = Tail(@)]
          /\ UNCHANGED <<busy, notice>>
       \/ /\ Current(exporter.gen) /\ Len(exporter.rest) = 1
          /\ exporter' = [exporter EXCEPT !.at = "save", !.rest = <<>>, !.done = {},
                                          !.script = {Part(e) : e \in exporter.done}]
          /\ busy' = FALSE
          /\ notice' \in {"none"} \cup
                (IF \E e \in exporter.done : Remembered(history, e.owner) # {}
                 THEN {"missing"} ELSE {})
    /\ UNCHANGED <<chosen, identity, source, result, settings, error, work,
                   exports, hostCalls, aside>>

\* failIfCurrent of exportAllSql.  A file of the export that changed while it
\* was analysed takes the result on display off it, whichever file that is of.
ExportFailed ==
    /\ \/ exporter.at \in {"identify", "analyze"}
       \/ HostRejects /\ exporter.at \in {"save", "buffer"}
    /\ exporter' = IdleExporter
    /\ IF Current(exporter.gen) THEN busy' = FALSE /\ error' = TRUE
       ELSE UNCHANGED <<busy, error>>
    /\ \/ UNCHANGED result
       \/ /\ exporter.at = "analyze" /\ Current(exporter.gen)
          /\ ~IsProvisional(raw)
          /\ raw' = NoMetadata /\ shown' = NoMetadata
          /\ preview' = NoPreview /\ sql' = NoSql
    /\ UNCHANGED <<chosen, identity, source, settings, notice, work,
                   exports, hostCalls, aside>>

\* deliverExport: saved, or dismissed and then opened in an untitled buffer.
ExportDelivered ==
    /\ exporter.at \in {"save", "buffer"}
    /\ exporter' = IdleExporter
    /\ notice' = "delivered"
    /\ UNCHANGED <<chosen, identity, source, result, settings, busy, error, work,
                   exports, hostCalls, aside>>

SaveDismissed ==
    /\ exporter.at = "save"
    /\ exporter' = [exporter EXCEPT !.at = "buffer"]
    /\ UNCHANGED <<chosen, identity, source, result, settings, display, work,
                   exports, hostCalls, aside>>

\* copyStatement and openStatementInEditor.
CopyStatement ==
    /\ ~disposed
    /\ \/ sql = NoSql /\ error' = TRUE /\ UNCHANGED hostCalls
       \/ /\ sql # NoSql /\ hostCalls < MaxHostCalls
          /\ hostCalls' = hostCalls + 1
          /\ UNCHANGED error
    /\ UNCHANGED <<chosen, identity, source, result, settings, busy, notice, work,
                   exports, exporter, aside>>

\* The host answers; a rejection is reported by handle, whatever runs by now.
CopyDone ==
    /\ hostCalls > 0
    /\ hostCalls' = hostCalls - 1
    /\ \/ notice' = "delivered" /\ UNCHANGED <<busy, error>>
       \/ HostRejects /\ busy' = FALSE /\ error' = TRUE /\ UNCHANGED notice
    /\ UNCHANGED <<chosen, identity, source, result, settings, work, exports,
                   exporter, aside>>

Dispose ==
    /\ ~disposed
    /\ disposed' = TRUE
    /\ Begin(task, IdleTask)
    /\ busy' = FALSE /\ timer' = FALSE
    /\ raw' = NoMetadata /\ retained' = NoSnapshot
    /\ UNCHANGED <<chosen, identity, mode, shown, preview, sql, settings, notice,
                   error, queued, platform, realOf>>

\* A link is pointed at another file.
Retarget(p) ==
    /\ realOf' \in {[realOf EXCEPT ![p] = i] : i \in Identities \ {realOf[p]}}
    /\ UNCHANGED <<chosen, identity, source, result, settings, display, work,
                   queued, platform, timer, disposed>>

-----------------------------------------------------------------------------
(* The specification.                                                      *)

\* The answers of the analysis service; pickers and dialogs may stay open.
TaskStep(g) ==
    \/ ScanDone(g) \/ IdentifyDone(g) \/ IdentifyDropped(g)
    \/ SamplePublished(g) \/ AnalysisDone(g)
    \/ ResampleDone(g) \/ RereadDone(g)
    \/ TaskFailed(g) \/ TaskDropped(g)

ExportStep ==
    \/ StartExport \/ ExportIdentified \/ ExportAnalyzed \/ ExportFailed

HostStep ==
    \/ \E g \in Generations : \/ DialogPicked(g) \/ DialogDismissed(g)
                              \/ DialogRejected(g)
    \/ ExportDelivered \/ SaveDismissed \/ CopyDone

UserStep ==
    \/ ShowLocalSource \/ BrowseLocal \/ AnalyzePath \/ OpenAzure \/ Cancel
    \/ SetPreviewRows \/ ResetSettings \/ UndoSettings \/ DismissNotice
    \/ RequestExport \/ CopyStatement \/ Dispose
    \/ \E id \in FileId : SelectFile(id)
    \/ \E c \in Columns : SetColumnOverride(c)
    \/ \E profile \in SUBSET Columns : ApplyImportProfile(profile)
    \/ \E p \in Platforms : SetPlatform(p)

Next ==
    \/ \E g \in Generations : TaskStep(g)
    \/ ExportStep \/ HostStep \/ UserStep \/ TimerFires
    \/ \E p \in LinkPaths : Retarget(p)

Spec == Init /\ [][Next]_vars

\* Promises of the analysis service settle (its readers are bounded and check
\* their token) and timers fire; nothing is assumed of the user or the host.
FairSpec ==
    /\ Spec
    /\ \A g \in Generations : WF_vars(TaskStep(g))
    /\ WF_vars(ExportIdentified \/ ExportAnalyzed \/ ExportFailed)
    /\ WF_vars(TimerFires)

-----------------------------------------------------------------------------
(* Properties.                                                             *)

\* The types of the variables, by the part of the state they belong to.
SourceType ==
    /\ files \in Seq(FileId) /\ listings \in 0..MaxListings
    /\ withheld \in BOOLEAN /\ selected \in FileId \cup {NoFile}
    /\ identity \in [FileId -> Identities \cup {NoIdentity}]
    /\ mode \in {"local", "azure"} /\ retained \in Snapshot \cup {NoSnapshot}

ResultType ==
    /\ raw \in Metadata \cup {NoMetadata} /\ shown \in Metadata \cup {NoMetadata}
    /\ preview \in Preview \cup {NoPreview} /\ sql \in Sql \cup {NoSql}

SettingsType ==
    /\ overrides \in SUBSET Columns /\ canUndo \in BOOLEAN
    /\ history \in [Identities -> Entry \cup {NoEntry}]

DisplayType == busy \in BOOLEAN /\ notice \in Notices /\ error \in BOOLEAN

WorkType ==
    /\ generation \in 0..MaxGeneration /\ task \in [Generations -> Task]

QueueType ==
    /\ exports \in 0..MaxExports /\ exporter \in Exporter
    /\ hostCalls \in 0..MaxHostCalls

AsideType ==
    /\ platform \in Platforms /\ timer \in BOOLEAN /\ disposed \in BOOLEAN
    /\ realOf \in [Paths -> Identities]

TypeOK ==
    /\ SourceType /\ ResultType /\ SettingsType /\ DisplayType
    /\ WorkType /\ QueueType /\ AsideType

\* What is on display is one analysis of the selected file: metadata, rows and
\* the host's own copy never come from two files or two analyses, however the
\* selections, cancellations and late answers interleave.
DisplayIsOneAnalysis ==
    ~disposed =>
        /\ shown = raw
        /\ raw # NoMetadata =>
              selected # NoFile /\ Listed(selected) /\ raw.path = selected.path
        /\ preview # NoPreview =>
              raw # NoMetadata /\ preview = [path |-> raw.path, stage |-> raw.stage]

\* SQL on display was generated from the metadata, settings and platform on
\* display, unless the debounce timer is about to regenerate it.
SqlFresh ==
    (~disposed /\ ~timer /\ sql # NoSql) => sql = Generated(raw, overrides, platform)

\* The settings on display, and those set aside with the local source, are the
\* ones the history holds for that file, with its undo step.
SettingsRemembered ==
    /\ selected # NoFile =>
          /\ overrides = Remembered(history, identity[selected])
          /\ canUndo = CanUndo(history, identity[selected])
    /\ (retained # NoSnapshot /\ retained.selected # NoFile) =>
          LET owner == identity[retained.selected]
          IN  /\ retained.overrides = Remembered(history, owner)
              /\ retained.canUndo = CanUndo(history, owner)

\* Azure mode shows nothing of the local source and keeps it to come back to;
\* local mode keeps none.
SourcesApart ==
    ~disposed =>
        /\ mode = "azure" <=> retained # NoSnapshot
        /\ mode = "azure" => files = <<>> /\ selected = NoFile /\ raw = NoMetadata

\* The newest operation, or the running export, reads.
Running ==
    \/ \E g \in Generations : Current(g) /\ task[g].at \in Reading
    \/ exporter.at \in {"identify", "analyze"} /\ Current(exporter.gen)

\* The busy flag is on only while it does: no answer, failure or cancellation,
\* and no rejected host call, leaves it behind.
BusyMeansRunning == (~disposed /\ busy) => Running

\* An operation that lost its place changes nothing the user sees, and no
\* settings, when its answer comes.
SupersededTask ==
    \A g \in Generations :
        (task[g].at # "idle" /\ ~Current(g) /\ task'[g] # task[g]) =>
            UNCHANGED <<chosen, source, result, settings, display, generation>>

SupersededTaskWritesNothing == [][SupersededTask]_vars

\* While a file stays selected an analysis takes away no column override but
\* those an exact schema shows to be of no column; edits made while it ran stay.
AnalysisKeepsEdits ==
    [][(selected' = selected /\ mode' = mode /\ raw' # raw /\ overrides' # overrides)
          => /\ raw' # NoMetadata /\ raw'.stage = "exact"
             /\ overrides' = overrides \cap raw'.cols]_vars

\* The operation under way, from its selection to its last answer, and the
\* export that runs work on files of the list on display, whatever is listed
\* anew, set aside for Azure or restored meanwhile.  A message posted for an
\* earlier listing (SelectFile takes every id minted so far) starts no work.
WorkIsListed ==
    ~disposed =>
        /\ selected # NoFile => selected \in Range(files)
        /\ \A g \in Generations :
              (Current(g) /\ task[g].at \notin {"idle", "dialog", "scan"})
                  => task[g].id \in Range(files)
        /\ (exporter.at \in {"identify", "analyze"} /\ Current(exporter.gen))
              => Range(exporter.rest) \subseteq Range(files)

\* Each part of an export is written with the settings of its own file; the
\* file on display with those on display.
ExportOwnSettings ==
    [][(exporter.script = {} /\ exporter'.script # {}) =>
          \A e \in exporter'.script :
              e.overrides = IF e.id = selected THEN overrides
                            ELSE Remembered(history, identity[e.id])]_vars

\* The spinner always stops.
BusyEnds == busy ~> (~busy \/ disposed)

\* A selection that nothing supersedes ends with the complete metadata of that
\* file on display, or with an error.
SelectionSettles ==
    \A g \in Generations :
        (task[g].at = "identify" /\ Current(g)) ~>
            \/ ~Current(g) \/ error
            \/ /\ raw # NoMetadata /\ raw.stage # "provisional"
               /\ selected # NoFile /\ raw.path = selected.path

=============================================================================
