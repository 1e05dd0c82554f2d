------------------------- MODULE UiControllerProofs -------------------------
(***************************************************************************)
(* Theorems about UiController, for every value of its constants.  First   *)
(* the types of its variables and the invariant that what is on display is *)
(* one analysis of the selected file, with the local and the Azure source  *)
(* kept apart; then, over that invariant, its operations: what the SQL,    *)
(* the busy flag and the settings on display are those of, what the answer *)
(* to a superseded operation may write, which edits an analysis keeps,     *)
(* which ids resolve and what the parts of an export are written with.     *)
(*                                                                         *)
(* A file whose link is pointed elsewhere while it is listed changes hands *)
(* in the settings history, so what is said of settings is said of files   *)
(* of a fixed canonical path (OfFixedPath); and a dialog that rejects is   *)
(* reported whatever runs by then, so what is said of late answers is said *)
(* of all others.                                                          *)
(***************************************************************************)
EXTENDS UiController, TLAPS

-----------------------------------------------------------------------------
(* Lemmas about the helpers.                                               *)

\* Writing a file's settings leaves a well-formed history.
LEMMA WrittenType ==
    ASSUME NEW h \in [Identities -> Entry \cup {NoEntry}], NEW i,
           NEW value \in SUBSET Columns, NEW rememberUndo \in BOOLEAN
    PROVE  Written(h, i, value, rememberUndo) \in [Identities -> Entry \cup {NoEntry}]
<1>1. CASE i \in Identities
  BY <1>1 DEF Written, Remembered, Entry
<1>2. CASE i \notin Identities
  BY <1>2 DEF Written
<1> QED
  BY <1>1, <1>2

\* What the history holds for a file is a set of columns.
LEMMA RememberedType ==
    ASSUME NEW h \in [Identities -> Entry \cup {NoEntry}], NEW i \in Identities
    PROVE  Remembered(h, i) \in SUBSET Columns
BY DEF Remembered, Entry

\* Whether a file has an undo step is a truth value.
LEMMA CanUndoType ==
    ASSUME NEW h, NEW i
    PROVE  CanUndo(h, i) \in BOOLEAN
BY DEF CanUndo

\* Matching only takes columns away.
LEMMA MatchingType ==
    ASSUME NEW o \in SUBSET Columns, NEW m
    PROVE  Matching(o, m) \in SUBSET Columns
BY DEF Matching

\* Generated SQL is SQL.
LEMMA GeneratedType ==
    ASSUME NEW m \in Metadata \cup {NoMetadata}, NEW o \in SUBSET Columns,
           NEW p \in Platforms
    PROVE  Generated(m, o, p) \in Sql
BY DEF Generated, Sql

\* A new operation keeps the operations well-formed.
LEMMA BeginType ==
    ASSUME ConstantAssumption, generation \in 0..MaxGeneration,
           NEW tasks \in [Generations -> Task], NEW t \in Task, Begin(tasks, t)
    PROVE  /\ generation' \in 0..MaxGeneration
           /\ task' \in [Generations -> Task]
BY DEF ConstantAssumption, Begin, Generations

\* The records an operation starts from.
LEMMA IdleTaskType == IdleTask \in Task
BY DEF IdleTask, Task

\* So is a waiting operation.
LEMMA WaitingType ==
    ASSUME NEW at \in Waits, NEW id \in FileId \cup {NoFile}
    PROVE  Waiting(at, id) \in Task
BY DEF Waiting, IdleTask, Task

\* And the selection of the first file of a listing.
LEMMA FirstTaskType ==
    ASSUME NEW n \in 1..MaxListings, NEW p \in Paths, NEW skipped \in BOOLEAN
    PROVE  [IdleTask EXCEPT !.at = "identify", !.skipped = skipped,
                            !.id = [n |-> n, path |-> p]] \in Task
BY DEF IdleTask, Task, Waits, FileId

\* An operation that finishes or moves on keeps them well-formed.
LEMMA FinishType ==
    ASSUME task \in [Generations -> Task], NEW g \in Generations
    PROVE  [task EXCEPT ![g] = IdleTask] \in [Generations -> Task]
BY IdleTaskType

\* No export runs.
LEMMA IdleExporterType ==
    ASSUME ConstantAssumption
    PROVE  IdleExporter \in Exporter
BY DEF ConstantAssumption, IdleExporter, Exporter

\* An export whose script is assembled.
LEMMA SavingType ==
    ASSUME NEW e \in Exporter, NEW s \in SUBSET [id : FileId, overrides : SUBSET Columns]
    PROVE  [e EXCEPT !.at = "save", !.rest = <<>>, !.done = {}, !.script = s]
              \in Exporter
<1>1. <<>> \in Seq(FileId) /\ {} \in SUBSET [id : FileId, owner : Identities]
  OBVIOUS
<1> QED
  BY <1>1 DEF Exporter

\* A registry without identities.
LEMMA UnidentifiedType == Unidentified \in [FileId -> Identities \cup {NoIdentity}]
BY DEF Unidentified

\* The ids of a listing.
LEMMA IdsType ==
    ASSUME ConstantAssumption, NEW n \in 1..MaxListings,
           NEW listing \in Distinct(Paths)
    PROVE  /\ Ids(n, listing) \in Seq(FileId)
           /\ listing # <<>> => listing[1] \in Paths
<1>1. PICK k \in 0..MaxListed : listing \in [1..k -> Paths]
  BY DEF Distinct
<1>2. k \in Nat /\ DOMAIN listing = 1..k
  BY <1>1 DEF ConstantAssumption
<1>3. Ids(n, listing) \in [1..k -> FileId]
  BY <1>1, <1>2 DEF Ids, FileId
<1>4. Ids(n, listing) \in Seq(FileId)
  BY <1>2, <1>3
<1>5. ASSUME listing # <<>> PROVE listing[1] \in Paths
  <2>1. k # 0
    BY <1>1, <1>2, <1>5
  <2> QED
    BY <1>1, <1>2, <2>1
<1> QED
  BY <1>4, <1>5

\* What is listed is a file of some listing.
LEMMA ListedIsFile ==
    ASSUME files \in Seq(FileId), NEW id, Listed(id)
    PROVE  id \in FileId
BY DEF Listed, Range

\* The first file of a listing starts a well-formed operation.
LEMMA SelectFirstType ==
    ASSUME ConstantAssumption, generation \in 0..MaxGeneration,
           NEW tasks \in [Generations -> Task], NEW n \in 1..MaxListings,
           NEW listing \in Distinct(Paths), listing # <<>>, NEW skipped \in BOOLEAN,
           SelectFirst(tasks, n, listing, skipped)
    PROVE  /\ generation' \in 0..MaxGeneration
           /\ task' \in [Generations -> Task]
<1>1. listing[1] \in Paths
  BY IdsType
<1>2. [IdleTask EXCEPT !.at = "identify", !.skipped = skipped,
                       !.id = [n |-> n, path |-> listing[1]]] \in Task
  BY <1>1, FirstTaskType
<1> QED
  BY <1>2, BeginType DEF SelectFirst

\* Sample metadata is metadata, and so is that of a finished analysis.
LEMMA MetadataType ==
    ASSUME NEW p \in Paths, NEW stage \in Stages, NEW cols \in Schemas
    PROVE  [path |-> p, stage |-> stage, cols |-> cols] \in Metadata
BY DEF Metadata

\* Publishing metadata and rows keeps the result and the settings well-formed.
LEMMA AdoptType ==
    ASSUME SettingsType, NEW value \in SUBSET Columns, NEW rememberUndo \in BOOLEAN,
           Adopt(value, rememberUndo)
    PROVE  SettingsType'
<1>1. history' \in [Identities -> Entry \cup {NoEntry}]
  BY WrittenType DEF SettingsType, Adopt
<1> QED
  BY <1>1, CanUndoType DEF SettingsType, Adopt

\* applyMetadata publishes a well-formed result and settings.
LEMMA ApplyType ==
    ASSUME SettingsType, platform \in Platforms, NEW m \in Metadata,
           NEW kept \in SUBSET Columns, Apply(m, kept)
    PROVE  /\ raw' \in Metadata /\ shown' \in Metadata /\ sql' \in Sql
           /\ SettingsType'
BY AdoptType, GeneratedType DEF Apply

\* Rows on display belong to a path and a stage.
LEMMA RowsType ==
    ASSUME NEW m \in Metadata, Rows(m)
    PROVE  preview' \in Preview \cup {NoPreview} /\ error' \in BOOLEAN
<1>1. m.path \in Paths /\ m.stage \in Stages
  BY DEF Metadata
<1>2. preview' \in Preview \cup {NoPreview}
  BY <1>1 DEF Rows, Preview
<1>3. error' \in BOOLEAN
  BY DEF Rows
<1> QED
  BY <1>2, <1>3

-----------------------------------------------------------------------------
(* Type correctness.  It rests on two facts about the file on display.     *)

\* The selected file has been validated: its settings have an owner.
SelectedKnown ==
    /\ selected # NoFile => identity[selected] \in Identities
    /\ (retained # NoSnapshot /\ retained.selected # NoFile) =>
          identity[retained.selected] \in Identities

\* While a folder is scanned nothing is selected or set aside.
ScanSelectsNothing ==
    \A g \in Generations : (task[g].at = "scan" /\ Current(g)) =>
        selected = NoFile /\ retained = NoSnapshot /\ raw = NoMetadata

\* An operation on a file knows which.
HaveFiles(tasks) ==
    \A g \in Generations :
        tasks[g].at \in {"identify", "sample", "analyze", "resample", "reread"} =>
            tasks[g].id \in FileId

TaskHasFile == HaveFiles(task)

\* Rows are read again only for metadata there is.
RereadHasResult ==
    \A g \in Generations : (task[g].at = "reread" /\ Current(g)) => raw # NoMetadata

TInv == TypeOK /\ SelectedKnown /\ ScanSelectsNothing /\ TaskHasFile /\ RereadHasResult

\* The constructor sets well-typed values.
LEMMA TypeInit == ASSUME ConstantAssumption, Init PROVE TypeOK
<1>1. SourceType
  <2>1. listings \in 0..MaxListings
    BY DEF Init, ConstantAssumption
  <2>2. identity \in [FileId -> Identities \cup {NoIdentity}]
    BY UnidentifiedType DEF Init
  <2>3. files \in Seq(FileId) /\ selected = NoFile
    BY DEF Init
  <2> QED
    BY <2>1, <2>2, <2>3 DEF Init, SourceType
<1>2. ResultType
  BY GeneratedType DEF Init, ResultType
<1>3. SettingsType
  BY DEF Init, SettingsType
<1>4. DisplayType
  BY DEF Init, DisplayType, Notices
<1>5. WorkType
  BY IdleTaskType DEF Init, WorkType, ConstantAssumption
<1>6. QueueType
  BY DEF Init, QueueType, ConstantAssumption, IdleExporter, Exporter
<1>7. AsideType
  BY DEF Init, AsideType
<1> QED
  BY <1>1, <1>2, <1>3, <1>4, <1>5, <1>6, <1>7 DEF TypeOK

\* ShowLocalSource keeps the types.
LEMMA ShowLocalSourceType ==
    ASSUME ConstantAssumption, TInv, ShowLocalSource
    PROVE  TypeOK'
<1> USE DEF TInv, TypeOK, ShowLocalSource
<1>1. SourceType'
  BY DEF SourceType, ActivateLocal, ClearSource, Snapshot
<1>2. ResultType'
  BY GeneratedType DEF ResultType, ActivateLocal, ClearSource, Snapshot, SettingsType, AsideType, aside, SourceType
<1>3. SettingsType'
  BY DEF SettingsType, ActivateLocal, ClearSource, Snapshot, SourceType
<1>4. DisplayType'
  BY DEF DisplayType, ActivateLocal, Notices
<1>5. WorkType'
  BY BeginType, IdleTaskType DEF WorkType
<1>6. QueueType' /\ AsideType'
  BY DEF QueueType, AsideType, queued, aside
<1> QED
  BY <1>1, <1>2, <1>3, <1>4, <1>5, <1>6

\* BrowseLocal keeps the types.
LEMMA BrowseLocalType ==
    ASSUME ConstantAssumption, TInv, BrowseLocal
    PROVE  TypeOK'
<1> USE DEF TInv, TypeOK, BrowseLocal
<1>1. SourceType'
  BY DEF SourceType, ActivateLocal, ClearSource, Snapshot
<1>2. ResultType'
  BY GeneratedType DEF ResultType, ActivateLocal, ClearSource, Snapshot, SettingsType, AsideType, aside, SourceType
<1>3. SettingsType'
  BY DEF SettingsType, ActivateLocal, ClearSource, Snapshot, SourceType
<1>4. DisplayType'
  BY DEF DisplayType, ActivateLocal, Notices
<1>5. WorkType'
  BY BeginType, WaitingType DEF WorkType, Waits
<1>6. QueueType' /\ AsideType'
  BY DEF QueueType, AsideType, queued, aside
<1> QED
  BY <1>1, <1>2, <1>3, <1>4, <1>5, <1>6

\* LoadDirectory keeps the types.
LEMMA LoadDirectoryType ==
    ASSUME ConstantAssumption, TInv, NEW tasks \in [Generations -> Task],
           LoadDirectory(tasks)
    PROVE  TypeOK'
<1> USE DEF TInv, TypeOK, LoadDirectory
<1>1. SourceType'
  <2>1. identity' \in [FileId -> Identities \cup {NoIdentity}]
    BY UnidentifiedType
  <2>2. files' \in Seq(FileId) /\ selected' = NoFile
    BY DEF ClearSource
  <2> QED
    BY <2>1, <2>2 DEF SourceType
<1>2. ResultType'
  BY DEF ResultType, ClearSource
<1>3. SettingsType'
  BY DEF SettingsType, ClearSource
<1>4. DisplayType'
  BY DEF DisplayType, Notices
<1>5. WorkType'
  BY BeginType, WaitingType DEF WorkType, Waits
<1>6. QueueType' /\ AsideType'
  BY DEF QueueType, AsideType, queued, aside
<1> QED
  BY <1>1, <1>2, <1>3, <1>4, <1>5, <1>6

\* LoadFiles keeps the types.
LEMMA LoadFilesType ==
    ASSUME ConstantAssumption, TInv, NEW tasks \in [Generations -> Task], NEW supported \in Distinct(Paths),
           NEW skipped \in BOOLEAN,
           LoadFiles(tasks, supported, skipped)
    PROVE  TypeOK'
<1> USE DEF TInv, TypeOK, LoadFiles
<1>1. SourceType'
  <2>1. identity' \in [FileId -> Identities \cup {NoIdentity}]
    BY UnidentifiedType
  <2>2. CASE supported = <<>>
    <3>1. files' \in Seq(FileId) /\ selected' = NoFile /\ UNCHANGED listings
      BY <2>2 DEF ClearSource
    <3>2. withheld' = FALSE /\ mode' = "local" /\ retained' = NoSnapshot
      OBVIOUS
    <3> QED
      BY <2>1, <3>1, <3>2 DEF SourceType
  <2>3. CASE supported # <<>>
    <3>1. listings' \in 1..MaxListings
      BY <2>3 DEF SourceType, ConstantAssumption
    <3>2. files' \in Seq(FileId) /\ selected' = NoFile
      BY <2>3, <3>1, IdsType
    <3>3. withheld' = FALSE /\ mode' = "local" /\ retained' = NoSnapshot
      OBVIOUS
    <3>4. listings' \in 0..MaxListings
      BY <3>1 DEF ConstantAssumption
    <3> QED
      BY <2>1, <3>2, <3>3, <3>4 DEF SourceType
  <2> QED
    BY <2>2, <2>3
<1>2. ResultType'
  BY GeneratedType DEF ResultType, ClearSource, AsideType, aside
<1>3. SettingsType'
  BY DEF SettingsType, ClearSource
<1>4. DisplayType'
  BY DEF DisplayType, Notices
<1>5. WorkType'
  BY BeginType, IdleTaskType, SelectFirstType DEF WorkType, ConstantAssumption, SourceType
<1>6. QueueType' /\ AsideType'
  BY DEF QueueType, AsideType, queued, aside
<1> QED
  BY <1>1, <1>2, <1>3, <1>4, <1>5, <1>6

\* DialogDismissed keeps the types.
LEMMA DialogDismissedType ==
    ASSUME ConstantAssumption, TInv, NEW g \in Generations,
           DialogDismissed(g)
    PROVE  TypeOK'
<1> USE DEF TInv, TypeOK, DialogDismissed
<1>1. DisplayType'
  BY DEF DisplayType, Notices
<1>2. WorkType'
  BY FinishType DEF WorkType, Finish
<1>3. SourceType' /\ ResultType' /\ SettingsType' /\ QueueType' /\ AsideType'
  BY DEF SourceType, ResultType, SettingsType, QueueType, AsideType, chosen, source, result, settings, queued, aside
<1> QED
  BY <1>1, <1>2, <1>3

\* DialogRejected keeps the types.
LEMMA DialogRejectedType ==
    ASSUME ConstantAssumption, TInv, NEW g \in Generations,
           DialogRejected(g)
    PROVE  TypeOK'
<1> USE DEF TInv, TypeOK, DialogRejected
<1>1. DisplayType'
  BY DEF DisplayType, Notices
<1>2. WorkType'
  BY FinishType DEF WorkType, Finish
<1>3. SourceType' /\ ResultType' /\ SettingsType' /\ QueueType' /\ AsideType'
  BY DEF SourceType, ResultType, SettingsType, QueueType, AsideType, chosen, source, result, settings, queued, aside
<1> QED
  BY <1>1, <1>2, <1>3

\* ScanDone keeps the types.
LEMMA ScanDoneType ==
    ASSUME ConstantAssumption, TInv, NEW g \in Generations,
           ScanDone(g)
    PROVE  TypeOK'
<1> USE DEF TInv, TypeOK, ScanDone
<1>1. SourceType'
  BY IdsType, UnidentifiedType DEF SourceType, ConstantAssumption, source
<1>2. ResultType'
  BY GeneratedType DEF ResultType, SettingsType, AsideType, aside
<1>3. DisplayType'
  BY DEF DisplayType, Notices
<1>4. WorkType'
  <2>1. listings' \in 1..MaxListings
    BY DEF SourceType, ConstantAssumption
  <2>2. PICK found \in Distinct(Paths) :
           \/ /\ found # <<>>
              /\ SelectFirst([task EXCEPT ![g] = IdleTask], listings', found, FALSE)
           \/ Finish(g) /\ UNCHANGED generation
    OBVIOUS
  <2>3. [task EXCEPT ![g] = IdleTask] \in [Generations -> Task]
    BY FinishType DEF WorkType
  <2> QED
    BY <2>1, <2>2, <2>3, SelectFirstType DEF WorkType, Finish
<1>5. SettingsType' /\ QueueType' /\ AsideType'
  BY DEF SettingsType, QueueType, AsideType, settings, queued, aside
<1> QED
  BY <1>1, <1>2, <1>3, <1>4, <1>5

\* OpenAzure keeps the types.
LEMMA OpenAzureType ==
    ASSUME ConstantAssumption, TInv, OpenAzure
    PROVE  TypeOK'
<1> USE DEF TInv, TypeOK, OpenAzure
<1>1. SourceType'
  BY DEF SourceType, ClearSource, Snapshot, ResultType, SettingsType
<1>2. ResultType'
  BY DEF ResultType, ClearSource
<1>3. SettingsType'
  BY DEF SettingsType, ClearSource
<1>4. DisplayType'
  BY DEF DisplayType, Notices
<1>5. WorkType'
  BY BeginType, IdleTaskType DEF WorkType
<1>6. QueueType' /\ AsideType'
  BY DEF QueueType, AsideType, queued, aside
<1> QED
  BY <1>1, <1>2, <1>3, <1>4, <1>5, <1>6

\* Cancel keeps the types.
LEMMA CancelType ==
    ASSUME ConstantAssumption, TInv, Cancel
    PROVE  TypeOK'
<1> USE DEF TInv, TypeOK, Cancel
<1>1. DisplayType'
  BY DEF DisplayType, Notices
<1>2. WorkType'
  BY BeginType, IdleTaskType DEF WorkType
<1>3. SourceType' /\ ResultType' /\ SettingsType' /\ QueueType' /\ AsideType'
  BY DEF SourceType, ResultType, SettingsType, QueueType, AsideType, chosen, source, result, settings, queued, aside
<1> QED
  BY <1>1, <1>2, <1>3

\* SelectFile keeps the types.
LEMMA SelectFileType ==
    ASSUME ConstantAssumption, TInv, NEW id \in FileId,
           SelectFile(id)
    PROVE  TypeOK'
<1> USE DEF TInv, TypeOK, SelectFile
<1>1. ResultType'
  BY GeneratedType DEF ResultType, SettingsType, AsideType, aside, work
<1>2. DisplayType'
  BY DEF DisplayType, Notices
<1>3. WorkType'
  BY BeginType DEF WorkType, SourceType, Task, Waits, work
<1>4. SourceType' /\ SettingsType' /\ QueueType' /\ AsideType'
  BY DEF SourceType, SettingsType, QueueType, AsideType, chosen, source, settings, queued, aside
<1> QED
  BY <1>1, <1>2, <1>3, <1>4

\* IdentifyDone keeps the types.
LEMMA IdentifyDoneType ==
    ASSUME ConstantAssumption, TInv, NEW g \in Generations,
           IdentifyDone(g)
    PROVE  TypeOK'
<1> USE DEF TInv, TypeOK, IdentifyDone
<1>1. task[g].id \in FileId /\ realOf[task[g].id.path] \in Identities
  BY DEF TaskHasFile, HaveFiles, AsideType, FileId, InPlace
<1>2. SourceType'
  BY <1>1 DEF SourceType, Identified, source
<1>3. ResultType'
  BY DEF ResultType
<1>4. SettingsType'
  <2>1. overrides' \in SUBSET Columns
    BY <1>1, RememberedType DEF SettingsType
  <2>2. history' \in [Identities -> Entry \cup {NoEntry}]
    BY <1>1, <2>1, WrittenType DEF SettingsType
  <2>3. canUndo' \in BOOLEAN
    BY CanUndoType
  <2> QED
    BY <2>1, <2>2, <2>3 DEF SettingsType
<1>5. DisplayType'
  BY DEF DisplayType, Notices
<1>6. WorkType'
  BY DEF WorkType, Move, Task, Waits
<1>7. QueueType' /\ AsideType'
  BY DEF QueueType, AsideType, queued, aside
<1> QED
  BY <1>2, <1>3, <1>4, <1>5, <1>6, <1>7

\* IdentifyDropped keeps the types.
LEMMA IdentifyDroppedType ==
    ASSUME ConstantAssumption, TInv, NEW g \in Generations,
           IdentifyDropped(g)
    PROVE  TypeOK'
<1> USE DEF TInv, TypeOK, IdentifyDropped
<1>1. task[g].id \in FileId /\ realOf[task[g].id.path] \in Identities
  BY DEF TaskHasFile, HaveFiles, AsideType, FileId, InPlace
<1>2. SourceType'
  BY <1>1 DEF SourceType, Identified, Listed, source, chosen
<1>3. WorkType'
  BY FinishType DEF WorkType, Finish
<1>4. ResultType' /\ SettingsType' /\ DisplayType' /\ QueueType' /\ AsideType'
  BY DEF ResultType, SettingsType, DisplayType, QueueType, AsideType, result, settings, display, queued, aside
<1> QED
  BY <1>2, <1>3, <1>4

\* SamplePublished keeps the types.
LEMMA SamplePublishedType ==
    ASSUME ConstantAssumption, TInv, NEW g \in Generations,
           SamplePublished(g)
    PROVE  TypeOK'
<1> USE DEF TInv, TypeOK, SamplePublished
<1>1. PICK m \in Metadata : Apply(m, overrides) /\ Rows(m)
  BY MetadataType DEF TaskHasFile, HaveFiles, FileId, Provisional, Stages
<1>2. /\ raw' \in Metadata /\ shown' \in Metadata /\ sql' \in Sql
      /\ SettingsType'
  <2>1. overrides \in SUBSET Columns /\ platform \in Platforms
    BY DEF SettingsType, AsideType
  <2> QED
    BY <1>1, <2>1, ApplyType DEF TInv, TypeOK
<1>3. preview' \in Preview \cup {NoPreview} /\ error' \in BOOLEAN
  BY <1>1, RowsType
<1>4. ResultType'
  BY <1>2, <1>3 DEF ResultType
<1>5. SettingsType'
  BY <1>2 DEF SettingsType
<1>6. DisplayType'
  BY <1>3 DEF DisplayType
<1>7. WorkType'
  BY DEF WorkType, Move, Task, Waits
<1>8. SourceType' /\ QueueType' /\ AsideType'
  BY DEF SourceType, QueueType, AsideType, chosen, source, queued, aside
<1> QED
  BY <1>4, <1>5, <1>6, <1>7, <1>8

\* AnalysisDone keeps the types.
LEMMA AnalysisDoneType ==
    ASSUME ConstantAssumption, TInv, NEW g \in Generations,
           AnalysisDone(g)
    PROVE  TypeOK'
<1> USE DEF TInv, TypeOK, AnalysisDone
<1>1. PICK stage \in FinalStages, cols \in Schemas :
          LET m == [path |-> task[g].id.path, stage |-> stage, cols |-> cols]
              kept == Matching(overrides, m)
          IN  /\ Apply(m, kept)
              /\ IF Supports(m.path) THEN Rows(m)
                 ELSE preview' = NoPreview /\ error' = FALSE
              /\ notice' = IF task[g].skipped THEN "skipped"
                           ELSE IF kept # overrides THEN "missing" ELSE notice
  OBVIOUS
<1> DEFINE m == [path |-> task[g].id.path, stage |-> stage, cols |-> cols]
           kept == Matching(overrides, m)
<1>a. m \in Metadata
  BY MetadataType DEF TaskHasFile, HaveFiles, FileId, Stages
<1>b. kept \in SUBSET Columns
  BY MatchingType DEF SettingsType
<1>2. /\ raw' \in Metadata /\ shown' \in Metadata /\ sql' \in Sql
      /\ SettingsType'
  <2>1. platform \in Platforms
    BY DEF AsideType
  <2>2. Apply(m, kept)
    BY <1>1
  <2> HIDE DEF m, kept
  <2> QED
    BY <1>a, <1>b, <2>1, <2>2, ApplyType DEF TInv, TypeOK
<1>3. ResultType'
  <2>1. preview' \in Preview \cup {NoPreview}
    BY <1>1, <1>a, RowsType
  <2> QED
    BY <1>2, <2>1 DEF ResultType
<1>4. error' \in BOOLEAN /\ notice' \in Notices
  <2>1. error' \in BOOLEAN
    BY <1>1, <1>a, RowsType
  <2>2. notice' \in Notices
    BY <1>1 DEF DisplayType, Notices
  <2> QED
    BY <2>1, <2>2
<1>8. ResultType'
  BY <1>3 DEF ResultType
<1>9. SettingsType'
  BY <1>2 DEF SettingsType
<1>10. DisplayType'
  BY <1>4 DEF DisplayType, Notices
<1>11. WorkType'
  BY FinishType DEF WorkType, Finish
<1>12. SourceType' /\ QueueType' /\ AsideType'
  BY DEF SourceType, QueueType, AsideType, chosen, source, queued, aside
<1> QED
  BY <1>8, <1>9, <1>10, <1>11, <1>12

\* SetPreviewRows keeps the types.
LEMMA SetPreviewRowsType ==
    ASSUME ConstantAssumption, TInv, SetPreviewRows
    PROVE  TypeOK'
<1> USE DEF TInv, TypeOK, SetPreviewRows
<1>1. PICK at \in Waits : Begin(task, Waiting(at, selected)) /\ Waiting(at, selected) \in Task
  BY WaitingType DEF SourceType, Waits
<1>2. ResultType'
  BY DEF ResultType
<1>3. DisplayType'
  BY DEF DisplayType, Notices
<1>4. WorkType'
  BY <1>1, BeginType DEF WorkType
<1>5. SourceType' /\ SettingsType' /\ QueueType' /\ AsideType'
  BY DEF SourceType, SettingsType, QueueType, AsideType, chosen, source, settings, queued, aside
<1> QED
  BY <1>2, <1>3, <1>4, <1>5

\* ResampleDone keeps the types.
LEMMA ResampleDoneType ==
    ASSUME ConstantAssumption, TInv, NEW g \in Generations,
           ResampleDone(g)
    PROVE  TypeOK'
<1> USE DEF TInv, TypeOK, ResampleDone
<1>1. PICK m \in Metadata : Apply(m, overrides) /\ Rows(m)
  BY MetadataType DEF TaskHasFile, HaveFiles, FileId, Provisional, Stages
<1>2. /\ raw' \in Metadata /\ shown' \in Metadata /\ sql' \in Sql
      /\ SettingsType'
  <2>1. overrides \in SUBSET Columns /\ platform \in Platforms
    BY DEF SettingsType, AsideType
  <2> QED
    BY <1>1, <2>1, ApplyType DEF TInv, TypeOK
<1>3. preview' \in Preview \cup {NoPreview} /\ error' \in BOOLEAN
  BY <1>1, RowsType
<1>4. ResultType'
  BY <1>2, <1>3 DEF ResultType
<1>5. SettingsType'
  BY <1>2 DEF SettingsType
<1>6. DisplayType'
  BY <1>3 DEF DisplayType, Notices
<1>7. WorkType'
  BY FinishType DEF WorkType, Finish
<1>8. SourceType' /\ QueueType' /\ AsideType'
  BY DEF SourceType, QueueType, AsideType, chosen, source, queued, aside
<1> QED
  BY <1>4, <1>5, <1>6, <1>7, <1>8

\* RereadDone keeps the types.
LEMMA RereadDoneType ==
    ASSUME ConstantAssumption, TInv, NEW g \in Generations,
           RereadDone(g)
    PROVE  TypeOK'
<1> USE DEF TInv, TypeOK, RereadDone
<1>1. raw \in Metadata
  BY DEF ResultType, RereadHasResult, InPlace
<1>2. ResultType'
  BY <1>1, RowsType DEF ResultType
<1>3. DisplayType'
  BY <1>1, RowsType DEF DisplayType
<1>4. WorkType'
  BY FinishType DEF WorkType, Finish
<1>5. SourceType' /\ SettingsType' /\ QueueType' /\ AsideType'
  BY DEF SourceType, SettingsType, QueueType, AsideType, chosen, source, settings, queued, aside
<1> QED
  BY <1>2, <1>3, <1>4, <1>5

\* TaskFailed keeps the types.
LEMMA TaskFailedType ==
    ASSUME ConstantAssumption, TInv, NEW g \in Generations,
           TaskFailed(g)
    PROVE  TypeOK'
<1> USE DEF TInv, TypeOK, TaskFailed
<1>1. ResultType'
  BY DEF ResultType, result
<1>2. DisplayType'
  BY DEF DisplayType, Notices
<1>3. WorkType'
  BY FinishType DEF WorkType, Finish
<1>4. SourceType' /\ SettingsType' /\ QueueType' /\ AsideType'
  BY DEF SourceType, SettingsType, QueueType, AsideType, chosen, source, settings, queued, aside
<1> QED
  BY <1>1, <1>2, <1>3, <1>4

\* TaskDropped keeps the types.
LEMMA TaskDroppedType ==
    ASSUME ConstantAssumption, TInv, NEW g \in Generations,
           TaskDropped(g)
    PROVE  TypeOK'
<1> USE DEF TInv, TypeOK, TaskDropped
<1>1. WorkType'
  BY FinishType DEF WorkType, Finish
<1>2. SourceType' /\ ResultType' /\ SettingsType' /\ DisplayType' /\ QueueType' /\ AsideType'
  BY DEF SourceType, ResultType, SettingsType, DisplayType, QueueType, AsideType, chosen, source, result, settings, display, queued, aside
<1> QED
  BY <1>1, <1>2

\* SetColumnOverride keeps the types.
LEMMA SetColumnOverrideType ==
    ASSUME ConstantAssumption, TInv, NEW c \in Columns,
           SetColumnOverride(c)
    PROVE  TypeOK'
<1> USE DEF TInv, TypeOK, SetColumnOverride
<1>1. SettingsType'
  <2>1. PICK value \in {overrides \cup {c}, overrides \ {c}} : Adopt(value, TRUE)
    OBVIOUS
  <2>2. value \in SUBSET Columns
    BY DEF SettingsType
  <2> QED
    BY <2>1, <2>2, AdoptType DEF TInv, TypeOK
<1>2. SettingsType'
  BY <1>1 DEF SettingsType
<1>3. DisplayType'
  BY DEF DisplayType
<1>4. AsideType'
  BY DEF AsideType
<1>5. SourceType' /\ ResultType' /\ WorkType' /\ QueueType'
  BY DEF SourceType, ResultType, WorkType, QueueType, chosen, source, result, work, queued
<1> QED
  BY <1>2, <1>3, <1>4, <1>5

\* Replace keeps the types.
LEMMA ReplaceType ==
    ASSUME ConstantAssumption, TInv, NEW value \in SUBSET Columns, NEW rememberUndo \in BOOLEAN, notice' \in Notices,
           Replace(value, rememberUndo)
    PROVE  TypeOK'
<1> USE DEF TInv, TypeOK, Replace
<1>1. ResultType'
  BY GeneratedType DEF ResultType, AsideType
<1>2. SettingsType'
  BY AdoptType DEF SettingsType, Replace, TInv, TypeOK
<1>3. DisplayType'
  BY DEF DisplayType
<1>4. SourceType' /\ WorkType' /\ QueueType' /\ AsideType'
  BY DEF SourceType, WorkType, QueueType, AsideType, chosen, source, work, queued, aside
<1> QED
  BY <1>1, <1>2, <1>3, <1>4

\* UndoSettings keeps the types.
LEMMA UndoSettingsType ==
    ASSUME ConstantAssumption, TInv, UndoSettings
    PROVE  TypeOK'
<1> USE DEF TInv, TypeOK, UndoSettings
<1>1. selected \in FileId /\ identity[selected] \in Identities
  BY DEF Editable, SelectedKnown, SourceType
<1>2. /\ history[identity[selected]].prev \in SUBSET Columns
      /\ overrides' \in SUBSET Columns
  <2>1. history[identity[selected]].prev \in SUBSET Columns
    BY <1>1 DEF SettingsType, CanUndo, Entry
  <2> QED
    BY <2>1, MatchingType
<1>3. history' \in [Identities -> Entry \cup {NoEntry}]
  <2> DEFINE h == [history EXCEPT ![identity[selected]] =
                      [cur |-> history[identity[selected]].prev, prev |-> NoEntry]]
  <2>1. h \in [Identities -> Entry \cup {NoEntry}]
    BY <1>1, <1>2 DEF SettingsType, Entry
  <2>2. history' = Written(h, identity[selected], overrides', FALSE)
    OBVIOUS
  <2>3. FALSE \in BOOLEAN
    OBVIOUS
  <2> HIDE DEF h, UndoSettings
  <2> QED
    BY <1>2, <2>1, <2>2, <2>3, WrittenType
<1>4. ResultType'
  BY <1>2, GeneratedType DEF ResultType, AsideType
<1>5. SettingsType'
  BY <1>2, <1>3, CanUndoType DEF SettingsType
<1>6. DisplayType'
  BY DEF DisplayType, Notices
<1>7. SourceType' /\ WorkType' /\ QueueType' /\ AsideType'
  BY DEF SourceType, WorkType, QueueType, AsideType, chosen, source, work, queued, aside
<1> QED
  BY <1>4, <1>5, <1>6, <1>7

\* SetPlatform keeps the types.
LEMMA SetPlatformType ==
    ASSUME ConstantAssumption, TInv, NEW p \in Platforms,
           SetPlatform(p)
    PROVE  TypeOK'
<1> USE DEF TInv, TypeOK, SetPlatform
<1>1. AsideType'
  BY DEF AsideType
<1>2. SourceType' /\ ResultType' /\ SettingsType' /\ DisplayType' /\ WorkType' /\ QueueType'
  BY DEF SourceType, ResultType, SettingsType, DisplayType, WorkType, QueueType, chosen, source, result, settings, display, work, queued
<1> QED
  BY <1>1, <1>2

\* TimerFires keeps the types.
LEMMA TimerFiresType ==
    ASSUME ConstantAssumption, TInv, TimerFires
    PROVE  TypeOK'
<1> USE DEF TInv, TypeOK, TimerFires
<1>1. ResultType'
  BY GeneratedType DEF ResultType, SettingsType, AsideType
<1>2. AsideType'
  BY DEF AsideType
<1>3. SourceType' /\ SettingsType' /\ DisplayType' /\ WorkType' /\ QueueType'
  BY DEF SourceType, SettingsType, DisplayType, WorkType, QueueType, chosen, source, settings, display, work, queued
<1> QED
  BY <1>1, <1>2, <1>3

\* DismissNotice keeps the types.
LEMMA DismissNoticeType ==
    ASSUME ConstantAssumption, TInv, DismissNotice
    PROVE  TypeOK'
<1> USE DEF TInv, TypeOK, DismissNotice
<1>1. DisplayType'
  BY DEF DisplayType, Notices
<1>2. SourceType' /\ ResultType' /\ SettingsType' /\ WorkType' /\ QueueType' /\ AsideType'
  BY DEF SourceType, ResultType, SettingsType, WorkType, QueueType, AsideType, chosen, source, result, settings, work, queued, aside
<1> QED
  BY <1>1, <1>2

\* RequestExport keeps the types.
LEMMA RequestExportType ==
    ASSUME ConstantAssumption, TInv, RequestExport
    PROVE  TypeOK'
<1> USE DEF TInv, TypeOK, RequestExport
<1>1. QueueType'
  BY DEF QueueType, ConstantAssumption
<1>2. SourceType' /\ ResultType' /\ SettingsType' /\ DisplayType' /\ WorkType' /\ AsideType'
  BY DEF SourceType, ResultType, SettingsType, DisplayType, WorkType, AsideType, chosen, source, result, settings, display, work, aside
<1> QED
  BY <1>1, <1>2

\* StartExport keeps the types.
LEMMA StartExportType ==
    ASSUME ConstantAssumption, TInv, StartExport
    PROVE  TypeOK'
<1> USE DEF TInv, TypeOK, StartExport
<1>1. exports' \in 0..MaxExports
  BY DEF QueueType, ConstantAssumption
<1>2. exporter' \in Exporter
  <2>1. CASE files = <<>>
    BY <2>1 DEF QueueType
  <2>2. CASE files # <<>>
    <3>1. generation + 1 \in 0..MaxGeneration
      BY <2>2 DEF WorkType, Begin, ConstantAssumption
    <3> QED
      BY <2>2, <3>1 DEF SourceType, IdleExporter, Exporter
  <2> QED
    BY <2>1, <2>2
<1>3. DisplayType'
  BY DEF DisplayType
<1>4. WorkType'
  BY BeginType, IdleTaskType DEF WorkType, work
<1>5. QueueType'
  BY <1>1, <1>2 DEF QueueType
<1>6. SourceType' /\ ResultType' /\ SettingsType' /\ AsideType'
  BY DEF SourceType, ResultType, SettingsType, AsideType, chosen, source, result, settings, aside
<1> QED
  BY <1>3, <1>4, <1>5, <1>6

\* ExportIdentified keeps the types.
LEMMA ExportIdentifiedType ==
    ASSUME ConstantAssumption, TInv, ExportIdentified
    PROVE  TypeOK'
<1> USE DEF TInv, TypeOK, ExportIdentified
<1>1. Head(exporter.rest) \in FileId /\ realOf[Head(exporter.rest).path] \in Identities
  <2>1. exporter.rest \in Seq(FileId) /\ exporter.rest # <<>>
    BY DEF QueueType, Exporter
  <2>2. Head(exporter.rest) \in FileId
    BY <2>1
  <2> QED
    BY <2>2 DEF AsideType, FileId
<1>2. exporter' \in Exporter
  <2>1. exporter.done \cup {[id |-> Head(exporter.rest), owner |-> realOf[Head(exporter.rest).path]]}
           \in SUBSET [id : FileId, owner : Identities]
    BY <1>1 DEF QueueType, Exporter
  <2> QED
    BY <2>1, IdleExporterType DEF QueueType, Exporter
<1>3. SourceType'
  BY <1>1 DEF SourceType, Identified, Listed, source, chosen, FileId
<1>4. QueueType'
  BY <1>2 DEF QueueType
<1>5. ResultType' /\ SettingsType' /\ DisplayType' /\ WorkType' /\ AsideType'
  BY DEF ResultType, SettingsType, DisplayType, WorkType, AsideType, result, settings, display, work, aside
<1> QED
  BY <1>3, <1>4, <1>5

\* ExportAnalyzed keeps the types.
LEMMA ExportAnalyzedType ==
    ASSUME ConstantAssumption, TInv, ExportAnalyzed
    PROVE  TypeOK'
<1> USE DEF TInv, TypeOK, ExportAnalyzed
<1>1. exporter' \in Exporter
  <2>1. {Part(e) : e \in exporter.done} \in SUBSET [id : FileId, overrides : SUBSET Columns]
    <3>1. ASSUME NEW e \in exporter.done
          PROVE  Part(e) \in [id : FileId, overrides : SUBSET Columns]
      BY <3>1, RememberedType DEF QueueType, Exporter, Part, SettingsType
    <3> QED
      BY <3>1
  <2>2. exporter.rest # <<>> => Tail(exporter.rest) \in Seq(FileId)
    BY DEF QueueType, Exporter
  <2>3. CASE exporter' = IdleExporter
    BY <2>3, IdleExporterType
  <2>a. exporter \in Exporter
    BY DEF QueueType
  <2> HIDE DEF ExportAnalyzed, TInv, TypeOK
  <2>4. CASE Len(exporter.rest) > 1 /\ exporter' = [exporter EXCEPT !.at = "identify", !.rest = Tail(@)]
    <3>1. exporter.rest # <<>>
      BY <2>4
    <3> QED
      BY <2>2, <2>4, <2>a, <3>1 DEF Exporter
  <2>5. CASE exporter' = [exporter EXCEPT !.at = "save", !.rest = <<>>, !.done = {},
                                          !.script = {Part(e) : e \in exporter.done}]
    BY <2>1, <2>5, <2>a, SavingType
  <2> QED
    BY <2>3, <2>4, <2>5 DEF ExportAnalyzed
<1>2. DisplayType'
  BY DEF DisplayType, Notices
<1>3. QueueType'
  BY <1>1 DEF QueueType
<1>4. SourceType' /\ ResultType' /\ SettingsType' /\ WorkType' /\ AsideType'
  BY DEF SourceType, ResultType, SettingsType, WorkType, AsideType, chosen, source, result, settings, work, aside
<1> QED
  BY <1>2, <1>3, <1>4

\* ExportFailed keeps the types.
LEMMA ExportFailedType ==
    ASSUME ConstantAssumption, TInv, ExportFailed
    PROVE  TypeOK'
<1> USE DEF TInv, TypeOK, ExportFailed
<1>1. DisplayType'
  BY DEF DisplayType
<1>2. QueueType'
  BY IdleExporterType DEF QueueType
<1>3. ResultType'
  BY DEF ResultType, result
<1>4. SourceType' /\ SettingsType' /\ WorkType' /\ AsideType'
  BY DEF SourceType, SettingsType, WorkType, AsideType, chosen, source, settings, work, aside
<1> QED
  BY <1>1, <1>2, <1>3, <1>4

\* ExportDelivered keeps the types.
LEMMA ExportDeliveredType ==
    ASSUME ConstantAssumption, TInv, ExportDelivered
    PROVE  TypeOK'
<1> USE DEF TInv, TypeOK, ExportDelivered
<1>1. DisplayType'
  BY DEF DisplayType, Notices
<1>2. QueueType'
  BY IdleExporterType DEF QueueType
<1>3. SourceType' /\ ResultType' /\ SettingsType' /\ WorkType' /\ AsideType'
  BY DEF SourceType, ResultType, SettingsType, WorkType, AsideType, chosen, source, result, settings, work, aside
<1> QED
  BY <1>1, <1>2, <1>3

\* SaveDismissed keeps the types.
LEMMA SaveDismissedType ==
    ASSUME ConstantAssumption, TInv, SaveDismissed
    PROVE  TypeOK'
<1> USE DEF TInv, TypeOK, SaveDismissed
<1>1. QueueType'
  BY DEF QueueType, Exporter
<1>2. SourceType' /\ ResultType' /\ SettingsType' /\ DisplayType' /\ WorkType' /\ AsideType'
  BY DEF SourceType, ResultType, SettingsType, DisplayType, WorkType, AsideType, chosen, source, result, settings, display, work, aside
<1> QED
  BY <1>1, <1>2

\* CopyStatement keeps the types.
LEMMA CopyStatementType ==
    ASSUME ConstantAssumption, TInv, CopyStatement
    PROVE  TypeOK'
<1> USE DEF TInv, TypeOK, CopyStatement
<1>1. DisplayType'
  BY DEF DisplayType, Notices
<1>2. QueueType'
  BY DEF QueueType, ConstantAssumption
<1>3. SourceType' /\ ResultType' /\ SettingsType' /\ WorkType' /\ AsideType'
  BY DEF SourceType, ResultType, SettingsType, WorkType, AsideType, chosen, source, result, settings, work, aside
<1> QED
  BY <1>1, <1>2, <1>3

\* CopyDone keeps the types.
LEMMA CopyDoneType ==
    ASSUME ConstantAssumption, TInv, CopyDone
    PROVE  TypeOK'
<1> USE DEF TInv, TypeOK, CopyDone
<1>1. DisplayType'
  BY DEF DisplayType, Notices
<1>2. QueueType'
  BY DEF QueueType, ConstantAssumption
<1>3. SourceType' /\ ResultType' /\ SettingsType' /\ WorkType' /\ AsideType'
  BY DEF SourceType, ResultType, SettingsType, WorkType, AsideType, chosen, source, result, settings, work, aside
<1> QED
  BY <1>1, <1>2, <1>3

\* Dispose keeps the types.
LEMMA DisposeType ==
    ASSUME ConstantAssumption, TInv, Dispose
    PROVE  TypeOK'
<1> USE DEF TInv, TypeOK, Dispose
<1>1. SourceType'
  BY DEF SourceType, chosen
<1>2. ResultType'
  BY DEF ResultType
<1>3. DisplayType'
  BY DEF DisplayType, Notices
<1>4. WorkType'
  BY BeginType, IdleTaskType DEF WorkType
<1>5. AsideType'
  BY DEF AsideType
<1>6. SettingsType' /\ QueueType'
  BY DEF SettingsType, QueueType, settings, queued
<1> QED
  BY <1>1, <1>2, <1>3, <1>4, <1>5, <1>6

\* Retarget keeps the types.
LEMMA RetargetType ==
    ASSUME ConstantAssumption, TInv, NEW p \in Paths,
           Retarget(p)
    PROVE  TypeOK'
<1> USE DEF TInv, TypeOK, Retarget
<1>1. AsideType'
  BY DEF AsideType
<1>2. SourceType' /\ ResultType' /\ SettingsType' /\ DisplayType' /\ WorkType' /\ QueueType'
  BY DEF SourceType, ResultType, SettingsType, DisplayType, WorkType, QueueType, chosen, source, result, settings, display, work, queued
<1> QED
  BY <1>1, <1>2

-----------------------------------------------------------------------------
(* The export beside the operations.                                       *)

\* An export that nothing has superseded.
Exporting == exporter.at \in {"identify", "analyze"} /\ Current(exporter.gen)

\* It is the newest operation itself: no other runs while it does.
ExporterIdle ==
    /\ exporter.gen <= generation
    /\ Exporting => exporter.gen \in Generations /\ task[exporter.gen].at = "idle"

\* An operation that begins takes its turn.
LEMMA BeginsAlone ==
    ASSUME ConstantAssumption, TypeOK, ExporterIdle, NEW tasks, NEW t, Begin(tasks, t),
           UNCHANGED exporter
    PROVE  ExporterIdle'
<1>1. generation \in Nat /\ exporter.gen \in Nat /\ generation' = generation + 1
  BY DEF TypeOK, WorkType, QueueType, Exporter, ConstantAssumption, Begin
<1> QED
  BY <1>1 DEF ExporterIdle, Exporting, Current

\* An operation that moves on or ends is not the export.
LEMMA MovesAlone ==
    ASSUME TypeOK, ExporterIdle, NEW g \in Generations, task[g].at # "idle", NEW t,
           task' = [task EXCEPT ![g] = t], UNCHANGED <<generation, disposed, exporter>>
    PROVE  ExporterIdle'
<1>1. task \in [Generations -> Task]
  BY DEF TypeOK, WorkType
<1> QED
  BY <1>1 DEF ExporterIdle, Exporting, Current

\* Nor does anything else disturb it.
LEMMA StaysAlone ==
    ASSUME ExporterIdle, UNCHANGED <<generation, task, disposed>>,
           exporter' = IdleExporter \/ exporter'.gen = exporter.gen,
           exporter'.at \in {"identify", "analyze"} => exporter.at \in {"identify", "analyze"},
           exporter' = IdleExporter => 0 <= generation
    PROVE  ExporterIdle'
BY DEF ExporterIdle, Exporting, Current, IdleExporter

\* Every step keeps the export alone.
LEMMA ExporterIdleStep ==
    ASSUME ConstantAssumption, TypeOK, ExporterIdle, [Next]_vars
    PROVE  ExporterIdle'
<1>0. /\ generation \in Nat /\ MaxGeneration \in Nat /\ exporter \in Exporter
      /\ task \in [Generations -> Task] /\ IdleTask.at = "idle" /\ IdleExporter.at = "idle"
  BY DEF TypeOK, WorkType, QueueType, ConstantAssumption, IdleTask, IdleExporter
<1>1. ASSUME NEW tasks, Picked(tasks) PROVE ExporterIdle'
  <2>1. PICK t : Begin(tasks, t)
    BY <1>1 DEF Picked, LoadDirectory, LoadFiles, SelectFirst
  <2>2. UNCHANGED exporter
    BY <1>1 DEF Picked, LoadDirectory, LoadFiles, queued
  <2> QED
    BY <2>1, <2>2, BeginsAlone
<1>2. ASSUME NEW g \in Generations, TaskStep(g) PROVE ExporterIdle'
  <2>1. task[g].at # "idle" /\ UNCHANGED <<exporter, disposed>>
    BY <1>2 DEF TaskStep, ScanDone, IdentifyDone, IdentifyDropped, SamplePublished,
       AnalysisDone, ResampleDone, RereadDone, TaskFailed, TaskDropped, Waits, queued, aside
  <2>2. CASE ScanDone(g)
    <3>1. CASE Finish(g) /\ UNCHANGED generation
      BY <2>1, <3>1, MovesAlone DEF Finish
    <3>2. CASE \E tasks, t : Begin(tasks, t)
      BY <2>1, <3>2, BeginsAlone
    <3> QED
      BY <2>2, <3>1, <3>2 DEF ScanDone, SelectFirst
  <2>3. CASE IdentifyDone(g) \/ SamplePublished(g)
    <3>1. PICK at : Move(g, at)
      BY <2>3 DEF IdentifyDone, SamplePublished
    <3>2. task' = [task EXCEPT ![g] = [task[g] EXCEPT !.at = at]]
      BY <3>1 DEF Move
    <3> QED
      BY <2>1, <2>3, <3>2, MovesAlone DEF IdentifyDone, SamplePublished
  <2>4. CASE \/ IdentifyDropped(g) \/ AnalysisDone(g) \/ ResampleDone(g) \/ RereadDone(g)
             \/ TaskFailed(g) \/ TaskDropped(g)
    BY <2>1, <2>4, MovesAlone DEF IdentifyDropped, AnalysisDone, ResampleDone, RereadDone,
       TaskFailed, TaskDropped, Finish
  <2> QED
    BY <1>2, <2>2, <2>3, <2>4 DEF TaskStep
<1>3. CASE ExportStep
  <2>1. CASE StartExport /\ files # <<>>
    <3>1. /\ Begin(task, IdleTask)
          /\ exporter' = [IdleExporter EXCEPT !.at = "identify", !.rest = files,
                                              !.gen = generation + 1]
      BY <2>1 DEF StartExport
    <3>2. exporter'.gen = generation + 1
      BY <3>1 DEF IdleExporter
    <3>3. generation' = generation + 1 /\ generation' \in Generations
      BY <1>0, <3>1 DEF Begin, Generations
    <3>4. task'[generation'].at = "idle"
      BY <1>0, <3>1, <3>3 DEF Begin
    <3> QED
      BY <1>0, <3>2, <3>3, <3>4 DEF ExporterIdle
  <2>2. CASE StartExport /\ files = <<>>
    BY <1>0, <2>2, StaysAlone DEF StartExport, IdleExporter, work, aside
  <2>3. CASE ExportFailed
    BY <1>0, <2>3, StaysAlone DEF ExportFailed, work, aside
  <2>4. CASE ExportIdentified \/ ExportAnalyzed
    <3>1. exporter.at \in {"identify", "analyze"} /\ UNCHANGED <<generation, task, disposed>>
      BY <2>4 DEF ExportIdentified, ExportAnalyzed, work, aside
    <3>2. exporter' = IdleExporter \/ exporter'.gen = exporter.gen
      BY <1>0, <2>4 DEF ExportIdentified, ExportAnalyzed, Exporter
    <3> QED
      BY <1>0, <3>1, <3>2, StaysAlone
  <2> QED
    BY <1>3, <2>1, <2>2, <2>3, <2>4 DEF ExportStep
<1>4. CASE HostStep
  <2>1. ASSUME NEW g \in Generations, DialogDismissed(g) \/ DialogRejected(g)
        PROVE  ExporterIdle'
    BY <2>1, MovesAlone DEF DialogDismissed, DialogRejected, Finish, queued, aside
  <2>2. CASE ExportDelivered \/ SaveDismissed \/ CopyDone
    BY <1>0, <2>2, StaysAlone DEF ExportDelivered, SaveDismissed, CopyDone, Exporter, work, aside
  <2> QED
    BY <1>1, <1>4, <2>1, <2>2 DEF HostStep, DialogPicked
<1>5. CASE UserStep
  <2>1. CASE ShowLocalSource \/ BrowseLocal \/ OpenAzure \/ Dispose \/ Cancel \/ SetPreviewRows
    BY <2>1, BeginsAlone DEF ShowLocalSource, BrowseLocal, OpenAzure, Dispose, Cancel,
       SetPreviewRows, queued
  <2>2. CASE AnalyzePath
    BY <1>1, <2>2 DEF AnalyzePath
  <2>3. ASSUME NEW id \in FileId, SelectFile(id) PROVE ExporterIdle'
    <3>1. CASE \E t : Begin(task, t)
      BY <2>3, <3>1, BeginsAlone DEF SelectFile, queued
    <3>2. CASE UNCHANGED work
      BY <1>0, <2>3, <3>2, StaysAlone DEF SelectFile, queued, work, aside
    <3> QED
      BY <2>3, <3>1, <3>2 DEF SelectFile
  <2>4. CASE \/ DismissNotice \/ RequestExport \/ CopyStatement \/ UndoSettings \/ ResetSettings
             \/ \E c \in Columns : SetColumnOverride(c)
             \/ \E profile \in SUBSET Columns : ApplyImportProfile(profile)
             \/ \E p \in Platforms : SetPlatform(p)
    <3>1. UNCHANGED <<generation, task, disposed, exporter>>
      BY <2>4 DEF DismissNotice, RequestExport, CopyStatement, UndoSettings, ResetSettings,
         Replace, SetColumnOverride, ApplyImportProfile, SetPlatform, queued, work, aside
    <3> QED
      BY <1>0, <3>1, StaysAlone
  <2> QED
    BY <1>5, <2>1, <2>2, <2>3, <2>4 DEF UserStep
<1>6. CASE TimerFires \/ (\E p \in LinkPaths : Retarget(p)) \/ UNCHANGED vars
  BY <1>0, <1>6, StaysAlone DEF TimerFires, Retarget, vars, queued, work, aside
<1> QED
  BY <1>2, <1>3, <1>4, <1>5, <1>6 DEF Next

-----------------------------------------------------------------------------
(* The inductive invariant.                                                *)

\* The selected file is one of those listed.
SelectedListed == selected # NoFile => Listed(selected)

\* What is set aside with the local source is one analysis as well.
RetainedIsOneAnalysis ==
    retained # NoSnapshot =>
        /\ retained.shown = retained.raw
        /\ retained.selected # NoFile => retained.selected \in Range(retained.files)
        /\ retained.raw # NoMetadata =>
              retained.selected # NoFile /\ retained.raw.path = retained.selected.path
        /\ retained.preview # NoPreview =>
              /\ retained.raw # NoMetadata
              /\ retained.preview = [path |-> retained.raw.path,
                                     stage |-> retained.raw.stage]

IInv ==
    /\ TInv /\ SourcesApart /\ DisplayIsOneAnalysis
    /\ SelectedListed /\ RetainedIsOneAnalysis

\* A step that touches neither the source, the result, the registry nor the
\* operations keeps the invariant.
LEMMA Undisturbed ==
    ASSUME IInv, TypeOK', UNCHANGED <<files, selected, identity, mode, retained,
               raw, shown, preview, generation, task, disposed>>
    PROVE  IInv'
<1>1. SelectedKnown' /\ ScanSelectsNothing' /\ TaskHasFile' /\ RereadHasResult'
  BY DEF IInv, TInv, SelectedKnown, ScanSelectsNothing, TaskHasFile, HaveFiles,
         RereadHasResult, Current
<1>2. SourcesApart' /\ DisplayIsOneAnalysis' /\ SelectedListed'
  BY DEF IInv, SourcesApart, DisplayIsOneAnalysis, SelectedListed, Listed
<1>3. RetainedIsOneAnalysis'
  BY DEF IInv, RetainedIsOneAnalysis
<1> QED
  BY <1>1, <1>2, <1>3 DEF IInv, TInv

\* So does an operation that ends ...
LEMMA Ended ==
    ASSUME IInv, TypeOK', NEW g \in Generations, Finish(g),
           UNCHANGED <<files, selected, identity, mode, retained,
               raw, shown, preview, generation, disposed>>
    PROVE  IInv'
<1>1. SelectedKnown' /\ ScanSelectsNothing' /\ TaskHasFile' /\ RereadHasResult'
  BY DEF IInv, TInv, TypeOK, WorkType, SelectedKnown, ScanSelectsNothing,
         TaskHasFile, HaveFiles, RereadHasResult, Current, Finish, IdleTask
<1>2. SourcesApart' /\ DisplayIsOneAnalysis' /\ SelectedListed'
  BY DEF IInv, SourcesApart, DisplayIsOneAnalysis, SelectedListed, Listed
<1>3. RetainedIsOneAnalysis'
  BY DEF IInv, RetainedIsOneAnalysis
<1> QED
  BY <1>1, <1>2, <1>3 DEF IInv, TInv

\* ... and one that only begins, to wait for something else than a scan.
LEMMA Begun ==
    ASSUME IInv, TypeOK', NEW t \in Task, Begin(task, t),
           t.at # "scan", t.at = "reread" => raw # NoMetadata,
           t.at \in {"identify", "sample", "analyze", "resample", "reread"}
               => t.id \in FileId,
           UNCHANGED <<files, selected, identity, mode, retained,
               raw, shown, preview, disposed>>
    PROVE  IInv'
<1>1. SelectedKnown'
  BY DEF IInv, TInv, SelectedKnown
<1>2. ScanSelectsNothing' /\ TaskHasFile' /\ RereadHasResult'
  BY DEF IInv, TInv, TypeOK, WorkType, ScanSelectsNothing, Generations,
         TaskHasFile, HaveFiles, RereadHasResult, Current, Begin
<1>3. SourcesApart' /\ DisplayIsOneAnalysis' /\ SelectedListed'
  BY DEF IInv, SourcesApart, DisplayIsOneAnalysis, SelectedListed, Listed
<1>4. RetainedIsOneAnalysis'
  BY DEF IInv, RetainedIsOneAnalysis
<1> QED
  BY <1>1, <1>2, <1>3, <1>4 DEF IInv, TInv

\* ShowLocalSource keeps the invariant.
LEMMA ShowLocalSourceInv ==
    ASSUME ConstantAssumption, NullAssumption, IInv, ShowLocalSource
    PROVE  IInv'
<1>1. TypeOK'
  BY ShowLocalSourceType DEF IInv
<1>2. SelectedKnown'
  BY DEF IInv, TInv, SelectedKnown, ShowLocalSource, ActivateLocal,
      ClearSource, IInv, TypeOK, SourceType, Snapshot
<1>3. ScanSelectsNothing' /\ TaskHasFile' /\ RereadHasResult'
  BY DEF IInv, TInv, TypeOK, WorkType, ScanSelectsNothing, Generations,
      TaskHasFile, HaveFiles, RereadHasResult, Current, ShowLocalSource,
      ActivateLocal, ClearSource, Begin, IdleTask, Waiting, aside
<1>4. SourcesApart' /\ DisplayIsOneAnalysis' /\ SelectedListed'
  BY DEF IInv, SourcesApart, DisplayIsOneAnalysis, SelectedListed,
      ShowLocalSource, ActivateLocal, ClearSource, Listed, Range, aside,
      RetainedIsOneAnalysis
<1>5. RetainedIsOneAnalysis'
  BY DEF IInv, RetainedIsOneAnalysis, ShowLocalSource, ActivateLocal,
      ClearSource
<1> QED
  BY <1>1, <1>2, <1>3, <1>4, <1>5 DEF IInv, TInv

\* BrowseLocal keeps the invariant.
LEMMA BrowseLocalInv ==
    ASSUME ConstantAssumption, NullAssumption, IInv, BrowseLocal
    PROVE  IInv'
<1>1. TypeOK'
  BY BrowseLocalType DEF IInv
<1>2. SelectedKnown'
  BY DEF IInv, TInv, SelectedKnown, BrowseLocal, ActivateLocal, ClearSource,
      IInv, TypeOK, SourceType, Snapshot
<1>3. ScanSelectsNothing' /\ TaskHasFile' /\ RereadHasResult'
  BY DEF IInv, TInv, TypeOK, WorkType, ScanSelectsNothing, Generations,
      TaskHasFile, HaveFiles, RereadHasResult, Current, BrowseLocal,
      ActivateLocal, ClearSource, Begin, IdleTask, Waiting, aside
<1>4. SourcesApart' /\ DisplayIsOneAnalysis' /\ SelectedListed'
  BY DEF IInv, SourcesApart, DisplayIsOneAnalysis, SelectedListed,
      BrowseLocal, ActivateLocal, ClearSource, Listed, Range, aside,
      RetainedIsOneAnalysis
<1>5. RetainedIsOneAnalysis'
  BY DEF IInv, RetainedIsOneAnalysis, BrowseLocal, ActivateLocal, ClearSource
<1> QED
  BY <1>1, <1>2, <1>3, <1>4, <1>5 DEF IInv, TInv

\* LoadDirectory keeps the invariant.
LEMMA LoadDirectoryInv ==
    ASSUME ConstantAssumption, NullAssumption, IInv, NEW tasks \in [Generations -> Task], HaveFiles(tasks),
           LoadDirectory(tasks)
    PROVE  IInv'
<1>1. TypeOK'
  BY LoadDirectoryType DEF IInv
<1>2. SelectedKnown'
  BY DEF IInv, TInv, SelectedKnown, LoadDirectory, ClearSource
<1>3. ScanSelectsNothing' /\ TaskHasFile' /\ RereadHasResult'
  BY DEF IInv, TInv, TypeOK, WorkType, ScanSelectsNothing, Generations,
      TaskHasFile, HaveFiles, RereadHasResult, Current, LoadDirectory,
      ClearSource, Begin, IdleTask, Waiting, aside
<1>4. SourcesApart' /\ DisplayIsOneAnalysis' /\ SelectedListed'
  BY DEF IInv, SourcesApart, DisplayIsOneAnalysis, SelectedListed,
      LoadDirectory, ClearSource, aside
<1>5. RetainedIsOneAnalysis'
  BY DEF IInv, RetainedIsOneAnalysis, LoadDirectory, ClearSource
<1> QED
  BY <1>1, <1>2, <1>3, <1>4, <1>5 DEF IInv, TInv

\* The operations after the newest one has moved on, or ended.
LEMMA CurrentMoves ==
    ASSUME IInv, NEW g \in Generations, Current(g), NEW t \in Task,
           task' = [task EXCEPT ![g] = t], t.at \notin {"scan", "reread"},
           t.at \in {"identify", "sample", "analyze", "resample"} => t.id \in FileId,
           UNCHANGED <<generation, disposed>>
    PROVE  ScanSelectsNothing' /\ TaskHasFile' /\ RereadHasResult'
<1>1. task \in [Generations -> Task]
  BY DEF IInv, TInv, TypeOK, WorkType
<1>2. TaskHasFile'
  BY <1>1 DEF IInv, TInv, TaskHasFile, HaveFiles
<1>3. ASSUME NEW k \in Generations, Current(k)' PROVE task'[k].at \notin {"scan", "reread"}
  <2>1. k = g
    BY <1>3 DEF Current
  <2> QED
    BY <1>1, <2>1
<1> QED
  BY <1>2, <1>3 DEF ScanSelectsNothing, RereadHasResult

\* The operations after another that waits for a file has begun.
LEMMA FileBegins ==
    ASSUME ConstantAssumption, IInv, NEW tasks \in [Generations -> Task],
           HaveFiles(tasks), NEW t \in Task,
           Begin(tasks, t), t.at \notin {"scan", "reread"},
           t.at \in {"identify", "sample", "analyze", "resample"} => t.id \in FileId
    PROVE  ScanSelectsNothing' /\ TaskHasFile' /\ RereadHasResult'
<1>1. generation \in 0..MaxGeneration /\ generation + 1 \in Generations
  BY DEF ConstantAssumption, IInv, TInv, TypeOK, WorkType, Begin, Generations
<1>2. TaskHasFile'
  BY <1>1 DEF TaskHasFile, HaveFiles, Begin
<1>3. ASSUME NEW k \in Generations, Current(k)' PROVE task'[k].at \notin {"scan", "reread"}
  <2>1. k = generation + 1
    BY <1>3 DEF Current, Begin
  <2> QED
    BY <1>1, <2>1 DEF Begin
<1> QED
  BY <1>2, <1>3 DEF ScanSelectsNothing, RereadHasResult

\* The operation on the first file of a listing.
LEMMA FirstBegins ==
    ASSUME ConstantAssumption, IInv, NEW tasks \in [Generations -> Task],
           HaveFiles(tasks), NEW n \in 1..MaxListings, NEW listing \in Distinct(Paths),
           listing # <<>>, NEW skipped \in BOOLEAN, SelectFirst(tasks, n, listing, skipped)
    PROVE  ScanSelectsNothing' /\ TaskHasFile' /\ RereadHasResult'
<1> DEFINE id == [n |-> n, path |-> listing[1]]
           t == [IdleTask EXCEPT !.at = "identify", !.skipped = skipped, !.id = id]
<1>1. listing[1] \in Paths
  BY IdsType
<1>2. t \in Task
  BY <1>1, FirstTaskType
<1>3. id \in FileId
  BY <1>1 DEF FileId
<1>4. t.at = "identify" /\ t.id = id
  BY DEF IdleTask
<1>5. Begin(tasks, t)
  BY DEF SelectFirst
<1> HIDE DEF id, t
<1> QED
  BY <1>2, <1>3, <1>4, <1>5, FileBegins

\* What is written to the registry for a listed file is an identity, so the
\* selected file stays known.
LEMMA IdentifiedKnown ==
    ASSUME IInv, NEW id \in FileId, Identified(id), UNCHANGED <<selected, retained>>
    PROVE  SelectedKnown'
<1>1. realOf[id.path] \in Identities
  BY DEF IInv, TInv, TypeOK, AsideType, FileId
<1>2. \A k \in FileId : identity[k] \in Identities => identity'[k] \in Identities
  BY <1>1 DEF Identified, IInv, TInv, TypeOK, SourceType
<1>3. /\ selected # NoFile => selected \in FileId
      /\ (retained # NoSnapshot /\ retained.selected # NoFile) => retained.selected \in FileId
  BY DEF IInv, TInv, TypeOK, SourceType, Snapshot
<1> QED
  BY <1>2, <1>3 DEF SelectedKnown, IInv, TInv

\* Metadata of the selected file, published with its rows, is one analysis.
LEMMA ResultOfSelected ==
    ASSUME IInv, NullAssumption, ~disposed, NEW m \in Metadata, selected \in FileId,
           raw' = m, shown' = m, m.path = selected.path,
           Rows(m) \/ preview' = NoPreview,
           UNCHANGED <<files, selected, mode, retained, disposed>>
    PROVE  SourcesApart' /\ DisplayIsOneAnalysis' /\ SelectedListed'
<1>1. mode # "azure" /\ selected # NoFile
  BY DEF IInv, SourcesApart, NullAssumption
<1>2. SelectedListed' /\ Listed(selected)'
  BY <1>1 DEF IInv, SelectedListed, Listed
<1>3. SourcesApart'
  BY <1>1 DEF IInv, SourcesApart
<1>4. preview' # NoPreview => preview' = [path |-> m.path, stage |-> m.stage]
  BY DEF Rows
<1>5. DisplayIsOneAnalysis'
  <2>1. preview' # NoPreview => m # NoMetadata
    <3> SUFFICES ASSUME m = NoMetadata, preview' # NoPreview PROVE FALSE
      OBVIOUS
    <3> QED
      BY NullAssumption
  <2> QED
    BY <1>1, <1>2, <1>4, <2>1 DEF DisplayIsOneAnalysis
<1> QED
  BY <1>2, <1>3, <1>5

\* LoadFiles keeps the invariant.
LEMMA LoadFilesInv ==
    ASSUME ConstantAssumption, NullAssumption, IInv, NEW tasks \in [Generations -> Task], HaveFiles(tasks),
           NEW supported \in Distinct(Paths), NEW skipped \in BOOLEAN,
           LoadFiles(tasks, supported, skipped)
    PROVE  IInv'
<1>1. TypeOK'
  BY LoadFilesType DEF IInv
<1>2. SelectedKnown'
  BY DEF IInv, TInv, SelectedKnown, LoadFiles, ClearSource
<1>3. ScanSelectsNothing' /\ TaskHasFile' /\ RereadHasResult'
  <2>1. CASE supported = <<>>
    <3>1. Begin(tasks, IdleTask) /\ IdleTask.at = "idle"
      BY <2>1 DEF LoadFiles, IdleTask
    <3> QED
      BY <3>1, IdleTaskType, FileBegins
  <2>2. CASE supported # <<>>
    <3>1. /\ SelectFirst(tasks, listings', supported, skipped)
          /\ listings' \in 1..MaxListings
      BY <2>2 DEF LoadFiles, IInv, TInv, TypeOK, SourceType, ConstantAssumption
    <3> QED
      BY <2>2, <3>1, FirstBegins
  <2> QED
    BY <2>1, <2>2
<1>4. SourcesApart' /\ DisplayIsOneAnalysis' /\ SelectedListed'
  BY DEF IInv, SourcesApart, DisplayIsOneAnalysis, SelectedListed, LoadFiles,
      ClearSource, aside
<1>5. RetainedIsOneAnalysis'
  BY DEF IInv, RetainedIsOneAnalysis, LoadFiles
<1> QED
  BY <1>1, <1>2, <1>3, <1>4, <1>5 DEF IInv, TInv

\* ScanDone keeps the invariant.
LEMMA ScanDoneInv ==
    ASSUME ConstantAssumption, NullAssumption, IInv, NEW g \in Generations,
           ScanDone(g)
    PROVE  IInv'
<1>0. selected = NoFile /\ retained = NoSnapshot /\ raw = NoMetadata /\ shown = NoMetadata
        /\ UNCHANGED <<selected, retained, raw, shown, preview, mode, disposed>>
  BY DEF IInv, TInv, ScanSelectsNothing, ScanDone, InPlace, Current, source, aside,
         DisplayIsOneAnalysis
<1>1. TypeOK'
  BY ScanDoneType DEF IInv
<1>2. SelectedKnown'
  BY <1>0 DEF SelectedKnown
<1>3. ScanSelectsNothing' /\ TaskHasFile' /\ RereadHasResult'
  <2>1. PICK found \in Distinct(Paths) :
           \/ /\ found # <<>>
              /\ SelectFirst([task EXCEPT ![g] = IdleTask], listings', found, FALSE)
           \/ Finish(g) /\ UNCHANGED generation
    BY DEF ScanDone
  <2>2. CASE Finish(g) /\ UNCHANGED generation
    <3>1. [task EXCEPT ![g] = IdleTask] = task' /\ IdleTask.at = "idle"
      BY <2>2 DEF Finish, IdleTask
    <3>2. Current(g) /\ UNCHANGED <<generation, disposed>>
      BY <2>2 DEF ScanDone, InPlace, aside
    <3> QED
      BY <3>1, <3>2, IdleTaskType, CurrentMoves
  <2>3. CASE found # <<>> /\ SelectFirst([task EXCEPT ![g] = IdleTask], listings', found, FALSE)
    <3> DEFINE tasks == [task EXCEPT ![g] = IdleTask]
    <3>1. tasks \in [Generations -> Task]
      BY FinishType DEF IInv, TInv, TypeOK, WorkType
    <3>2. HaveFiles(tasks)
      BY DEF IInv, TInv, TypeOK, WorkType, TaskHasFile, HaveFiles, IdleTask
    <3>3. listings' \in 1..MaxListings /\ FALSE \in BOOLEAN
      BY DEF ScanDone, IInv, TInv, TypeOK, SourceType, ConstantAssumption
    <3>4. SelectFirst(tasks, listings', found, FALSE)
      BY <2>3
    <3> HIDE DEF tasks
    <3> QED
      BY <2>3, <3>1, <3>2, <3>3, <3>4, FirstBegins
  <2> QED
    BY <2>1, <2>2, <2>3
<1>4. SourcesApart' /\ DisplayIsOneAnalysis' /\ SelectedListed'
  <2>1. SourcesApart'
    BY <1>0 DEF IInv, SourcesApart, ScanDone, InPlace, Current
  <2> QED
    BY <1>0, <2>1 DEF IInv, DisplayIsOneAnalysis, SelectedListed, ScanDone, InPlace, Current
<1>5. RetainedIsOneAnalysis'
  BY <1>0 DEF RetainedIsOneAnalysis
<1> QED
  BY <1>1, <1>2, <1>3, <1>4, <1>5 DEF IInv, TInv

\* OpenAzure keeps the invariant.
LEMMA OpenAzureInv ==
    ASSUME ConstantAssumption, NullAssumption, IInv, OpenAzure
    PROVE  IInv'
<1>0. /\ retained' \in Snapshot /\ retained' # NoSnapshot
      /\ retained'.files = files /\ retained'.selected = selected
      /\ retained'.raw = raw /\ retained'.shown = shown /\ retained'.preview = preview
  BY NullAssumption
     DEF OpenAzure, IInv, TInv, TypeOK, SourceType, ResultType, SettingsType, Snapshot
<1>1. TypeOK'
  BY OpenAzureType DEF IInv
<1>2. SelectedKnown'
  BY <1>0 DEF IInv, TInv, SelectedKnown, OpenAzure, ClearSource
<1>3. ScanSelectsNothing' /\ TaskHasFile' /\ RereadHasResult'
  <2>1. Begin(task, IdleTask) /\ IdleTask.at = "idle"
    BY DEF OpenAzure, IdleTask
  <2>2. task \in [Generations -> Task] /\ HaveFiles(task)
    BY DEF IInv, TInv, TypeOK, WorkType, TaskHasFile
  <2> QED
    BY <2>1, <2>2, IdleTaskType, FileBegins
<1>4. SourcesApart' /\ DisplayIsOneAnalysis' /\ SelectedListed'
  BY <1>0 DEF IInv, SourcesApart, DisplayIsOneAnalysis, SelectedListed,
      OpenAzure, ClearSource, aside
<1>5. RetainedIsOneAnalysis'
  BY <1>0 DEF IInv, RetainedIsOneAnalysis, DisplayIsOneAnalysis,
      SelectedListed, Listed, OpenAzure
<1> QED
  BY <1>1, <1>2, <1>3, <1>4, <1>5 DEF IInv, TInv

\* IdentifyDone keeps the invariant.
LEMMA IdentifyDoneInv ==
    ASSUME ConstantAssumption, NullAssumption, IInv, NEW g \in Generations,
           IdentifyDone(g)
    PROVE  IInv'
<1>0. task[g].id \in FileId /\ Listed(task[g].id) /\ realOf[task[g].id.path] \in Identities
  BY DEF IInv, TInv, TypeOK, AsideType, TaskHasFile, HaveFiles, FileId, IdentifyDone
<1>1. TypeOK'
  BY IdentifyDoneType DEF IInv
<1>2. SelectedKnown'
  <2>1. identity'[task[g].id] \in Identities
    BY <1>0 DEF IdentifyDone, Identified, IInv, TInv, TypeOK, SourceType
  <2>2. ASSUME retained # NoSnapshot, retained.selected # NoFile
        PROVE  identity'[retained.selected] \in Identities
    <3>1. retained.selected \in FileId /\ identity[retained.selected] \in Identities
      BY <2>2 DEF IInv, TInv, TypeOK, SourceType, Snapshot, SelectedKnown
    <3> QED
      BY <1>0, <3>1 DEF IdentifyDone, Identified, IInv, TInv, TypeOK, SourceType
  <2> QED
    BY <2>1, <2>2 DEF SelectedKnown, IdentifyDone, source
<1>3. ScanSelectsNothing' /\ TaskHasFile' /\ RereadHasResult'
  <2> DEFINE t == [task[g] EXCEPT !.at = IF task[g].id.path \in TextPaths THEN "sample" ELSE "analyze"]
  <2>1. task[g] \in Task /\ task[g].id \in FileId
    BY DEF IInv, TInv, TypeOK, WorkType, TaskHasFile, HaveFiles, IdentifyDone
  <2>2. task' = [task EXCEPT ![g] = t]
    BY DEF IdentifyDone, Move
  <2>3. t \in Task /\ t.id = task[g].id /\ t.at \in {"sample", "analyze"}
    BY <2>1 DEF Task, Waits
  <2>4. Current(g) /\ UNCHANGED <<generation, disposed>>
    BY DEF IdentifyDone, InPlace, aside
  <2> HIDE DEF t
  <2> QED
    BY <2>1, <2>2, <2>3, <2>4, CurrentMoves
<1>4. SourcesApart' /\ DisplayIsOneAnalysis' /\ SelectedListed'
  <2>1. mode # "azure"
    <3>1. files # <<>>
      BY <1>0 DEF Listed, Range
    <3> QED
      BY <3>1 DEF IInv, SourcesApart, IdentifyDone, InPlace, Current
  <2>2. /\ preview' = NoPreview /\ shown' = raw'
        /\ raw' # NoMetadata => raw' = raw /\ selected = task[g].id
    BY DEF IdentifyDone, IInv, DisplayIsOneAnalysis, InPlace, Current
  <2>3. selected' = task[g].id /\ files' = files /\ selected' # NoFile
    BY <1>0, NullAssumption DEF IdentifyDone
  <2>4. DisplayIsOneAnalysis'
    BY <1>0, <2>2, <2>3 DEF DisplayIsOneAnalysis, IInv, Listed, IdentifyDone, InPlace, Current
  <2>5. SourcesApart'
    BY <2>1 DEF SourcesApart, IInv, IdentifyDone, source, aside
  <2>6. SelectedListed'
    BY <1>0, <2>3 DEF SelectedListed, Listed
  <2> QED
    BY <2>4, <2>5, <2>6
<1>5. RetainedIsOneAnalysis'
  BY DEF IInv, RetainedIsOneAnalysis, IdentifyDone, source
<1> QED
  BY <1>1, <1>2, <1>3, <1>4, <1>5 DEF IInv, TInv

\* IdentifyDropped keeps the invariant.
LEMMA IdentifyDroppedInv ==
    ASSUME ConstantAssumption, NullAssumption, IInv, NEW g \in Generations,
           IdentifyDropped(g)
    PROVE  IInv'
<1>1. TypeOK'
  BY IdentifyDroppedType DEF IInv
<1>2. SelectedKnown'
  <2>1. task[g].id \in FileId
    BY DEF IInv, TInv, TaskHasFile, HaveFiles, IdentifyDropped
  <2> QED
    BY <2>1, IdentifiedKnown DEF IdentifyDropped, chosen, source
<1>3. ScanSelectsNothing' /\ TaskHasFile' /\ RereadHasResult'
  BY DEF IInv, TInv, TypeOK, WorkType, ScanSelectsNothing, Generations,
      TaskHasFile, HaveFiles, RereadHasResult, Current, IdentifyDropped,
      Finish, IdleTask, chosen, source, result, aside
<1>4. SourcesApart' /\ DisplayIsOneAnalysis' /\ SelectedListed'
  BY DEF IInv, SourcesApart, DisplayIsOneAnalysis, SelectedListed,
      IdentifyDropped, Listed, chosen, source, result, aside
<1>5. RetainedIsOneAnalysis'
  BY DEF IInv, RetainedIsOneAnalysis, IdentifyDropped, source
<1> QED
  BY <1>1, <1>2, <1>3, <1>4, <1>5 DEF IInv, TInv

\* SamplePublished keeps the invariant.
LEMMA SamplePublishedInv ==
    ASSUME ConstantAssumption, NullAssumption, IInv, NEW g \in Generations,
           SamplePublished(g)
    PROVE  IInv'
<1>0. /\ task[g].id \in FileId /\ selected = task[g].id /\ ~disposed
      /\ UNCHANGED <<files, selected, mode, retained, disposed>>
  BY DEF IInv, TInv, TaskHasFile, HaveFiles, SamplePublished, InPlace, Current, chosen, source, aside
<1>1. TypeOK'
  BY SamplePublishedType DEF IInv
<1>2. SelectedKnown'
  BY DEF IInv, TInv, SelectedKnown, SamplePublished, chosen, source
<1>3. ScanSelectsNothing' /\ TaskHasFile' /\ RereadHasResult'
  <2> DEFINE t == [task[g] EXCEPT !.at = "analyze"]
  <2>1. task[g] \in Task /\ task[g].id \in FileId
    BY DEF IInv, TInv, TypeOK, WorkType, TaskHasFile, HaveFiles, SamplePublished
  <2>2. task' = [task EXCEPT ![g] = t]
    BY DEF SamplePublished, Move
  <2>3. t \in Task /\ t.id = task[g].id /\ t.at \in {"sample", "analyze"}
    BY <2>1 DEF Task, Waits
  <2>4. Current(g) /\ UNCHANGED <<generation, disposed>>
    BY DEF SamplePublished, InPlace, aside
  <2> HIDE DEF t
  <2> QED
    BY <2>1, <2>2, <2>3, <2>4, CurrentMoves
<1>4. SourcesApart' /\ DisplayIsOneAnalysis' /\ SelectedListed'
  <2>1. PICK m \in Metadata :
           raw' = m /\ shown' = m /\ m.path = selected.path /\ Rows(m)
    BY <1>0, MetadataType DEF SamplePublished, Provisional, Stages, Apply, FileId
  <2> QED
    BY <1>0, <2>1, ResultOfSelected
<1>5. RetainedIsOneAnalysis'
  BY DEF IInv, RetainedIsOneAnalysis, SamplePublished, source
<1> QED
  BY <1>1, <1>2, <1>3, <1>4, <1>5 DEF IInv, TInv

\* ResampleDone keeps the invariant.
LEMMA ResampleDoneInv ==
    ASSUME ConstantAssumption, NullAssumption, IInv, NEW g \in Generations,
           ResampleDone(g)
    PROVE  IInv'
<1>0. /\ task[g].id \in FileId /\ selected = task[g].id /\ ~disposed
      /\ UNCHANGED <<files, selected, mode, retained, disposed>>
  BY DEF IInv, TInv, TaskHasFile, HaveFiles, ResampleDone, InPlace, Current, chosen, source, aside
<1>1. TypeOK'
  BY ResampleDoneType DEF IInv
<1>2. SelectedKnown'
  BY DEF IInv, TInv, SelectedKnown, ResampleDone, chosen, source
<1>3. ScanSelectsNothing' /\ TaskHasFile' /\ RereadHasResult'
  <2>1. [task EXCEPT ![g] = IdleTask] = task'
    BY DEF ResampleDone, Finish
  <2>2. IdleTask.at = "idle"
    BY DEF IdleTask
  <2>3. Current(g) /\ UNCHANGED <<generation, disposed>>
    BY DEF ResampleDone, InPlace, aside
  <2> QED
    BY <2>1, <2>2, <2>3, IdleTaskType, CurrentMoves
<1>4. SourcesApart' /\ DisplayIsOneAnalysis' /\ SelectedListed'
  <2>1. PICK m \in Metadata :
           raw' = m /\ shown' = m /\ m.path = selected.path /\ Rows(m)
    BY <1>0, MetadataType DEF ResampleDone, Provisional, Stages, Apply, FileId
  <2> QED
    BY <1>0, <2>1, ResultOfSelected
<1>5. RetainedIsOneAnalysis'
  BY DEF IInv, RetainedIsOneAnalysis, ResampleDone, source
<1> QED
  BY <1>1, <1>2, <1>3, <1>4, <1>5 DEF IInv, TInv

\* AnalysisDone keeps the invariant.
LEMMA AnalysisDoneInv ==
    ASSUME ConstantAssumption, NullAssumption, IInv, NEW g \in Generations,
           AnalysisDone(g)
    PROVE  IInv'
<1>0. /\ task[g].id \in FileId /\ selected = task[g].id /\ ~disposed
      /\ UNCHANGED <<files, selected, mode, retained, disposed>>
  BY DEF IInv, TInv, TaskHasFile, HaveFiles, AnalysisDone, InPlace, Current, chosen, source, aside
<1>1. TypeOK'
  BY AnalysisDoneType DEF IInv
<1>2. SelectedKnown'
  BY DEF IInv, TInv, SelectedKnown, AnalysisDone, chosen, source
<1>3. ScanSelectsNothing' /\ TaskHasFile' /\ RereadHasResult'
  <2>1. [task EXCEPT ![g] = IdleTask] = task'
    BY DEF AnalysisDone, Finish
  <2>2. IdleTask.at = "idle"
    BY DEF IdleTask
  <2>3. Current(g) /\ UNCHANGED <<generation, disposed>>
    BY DEF AnalysisDone, InPlace, aside
  <2> QED
    BY <2>1, <2>2, <2>3, IdleTaskType, CurrentMoves
<1>4. SourcesApart' /\ DisplayIsOneAnalysis' /\ SelectedListed'
  <2>1. PICK m \in Metadata :
           /\ raw' = m /\ shown' = m /\ m.path = selected.path
           /\ Rows(m) \/ preview' = NoPreview
    <3>1. PICK stage \in FinalStages, cols \in Schemas :
             LET m == [path |-> task[g].id.path, stage |-> stage, cols |-> cols]
             IN  raw' = m /\ shown' = m /\ (Rows(m) \/ preview' = NoPreview)
      BY DEF AnalysisDone, Apply
    <3> DEFINE m == [path |-> task[g].id.path, stage |-> stage, cols |-> cols]
    <3>2. m \in Metadata /\ m.path = selected.path
      BY <1>0, MetadataType DEF Stages, FileId
    <3> QED
      BY <3>1, <3>2
  <2> QED
    BY <1>0, <2>1, ResultOfSelected
<1>5. RetainedIsOneAnalysis'
  BY DEF IInv, RetainedIsOneAnalysis, AnalysisDone, source
<1> QED
  BY <1>1, <1>2, <1>3, <1>4, <1>5 DEF IInv, TInv

\* RereadDone keeps the invariant.
LEMMA RereadDoneInv ==
    ASSUME ConstantAssumption, NullAssumption, IInv, NEW g \in Generations,
           RereadDone(g)
    PROVE  IInv'
<1>0. /\ task[g].id \in FileId /\ selected = task[g].id /\ ~disposed
      /\ UNCHANGED <<files, selected, mode, retained, disposed>>
  BY DEF IInv, TInv, TaskHasFile, HaveFiles, RereadDone, InPlace, Current, chosen, source, aside
<1>1. TypeOK'
  BY RereadDoneType DEF IInv
<1>2. SelectedKnown'
  BY DEF IInv, TInv, SelectedKnown, RereadDone, chosen, source
<1>3. ScanSelectsNothing' /\ TaskHasFile' /\ RereadHasResult'
  <2>1. [task EXCEPT ![g] = IdleTask] = task'
    BY DEF RereadDone, Finish
  <2>2. IdleTask.at = "idle"
    BY DEF IdleTask
  <2>3. Current(g) /\ UNCHANGED <<generation, disposed>>
    BY DEF RereadDone, InPlace, aside
  <2> QED
    BY <2>1, <2>2, <2>3, IdleTaskType, CurrentMoves
<1>4. SourcesApart' /\ DisplayIsOneAnalysis' /\ SelectedListed'
  <2>1. raw # NoMetadata
    BY DEF RereadDone, IInv, TInv, RereadHasResult, InPlace
  <2>2. raw \in Metadata /\ raw.path = selected.path
    BY <1>0, <2>1 DEF IInv, TInv, TypeOK, ResultType, DisplayIsOneAnalysis
  <2>3. raw' = raw /\ shown' = raw /\ Rows(raw)
    BY <1>0 DEF RereadDone, IInv, DisplayIsOneAnalysis
  <2> QED
    BY <1>0, <2>2, <2>3, ResultOfSelected
<1>5. RetainedIsOneAnalysis'
  BY DEF IInv, RetainedIsOneAnalysis, RereadDone, source
<1> QED
  BY <1>1, <1>2, <1>3, <1>4, <1>5 DEF IInv, TInv

\* SetPreviewRows keeps the invariant.
LEMMA SetPreviewRowsInv ==
    ASSUME ConstantAssumption, NullAssumption, IInv, SetPreviewRows
    PROVE  IInv'
<1>1. TypeOK'
  BY SetPreviewRowsType DEF IInv
<1>2. SelectedKnown'
  BY DEF IInv, TInv, SelectedKnown, SetPreviewRows, chosen, source
<1>3. ScanSelectsNothing' /\ TaskHasFile' /\ RereadHasResult'
  BY DEF IInv, TInv, TypeOK, WorkType, ScanSelectsNothing, Generations,
      TaskHasFile, HaveFiles, RereadHasResult, Current, SetPreviewRows, Begin,
      Waiting, IdleTask, IsProvisional, TypeOK, SourceType, chosen, source
<1>4. SourcesApart' /\ DisplayIsOneAnalysis' /\ SelectedListed'
  BY DEF IInv, SourcesApart, DisplayIsOneAnalysis, SelectedListed,
      SetPreviewRows, Listed, chosen, source, aside
<1>5. RetainedIsOneAnalysis'
  BY DEF IInv, RetainedIsOneAnalysis, SetPreviewRows, source
<1> QED
  BY <1>1, <1>2, <1>3, <1>4, <1>5 DEF IInv, TInv

\* TaskFailed keeps the invariant.
LEMMA TaskFailedInv ==
    ASSUME ConstantAssumption, NullAssumption, IInv, NEW g \in Generations,
           TaskFailed(g)
    PROVE  IInv'
<1>1. TypeOK'
  BY TaskFailedType DEF IInv
<1>2. SelectedKnown'
  BY DEF IInv, TInv, SelectedKnown, TaskFailed, chosen, source
<1>3. ScanSelectsNothing' /\ TaskHasFile' /\ RereadHasResult'
  BY DEF IInv, TInv, TypeOK, WorkType, ScanSelectsNothing, Generations,
      TaskHasFile, HaveFiles, RereadHasResult, Current, TaskFailed, Finish,
      IdleTask, result, chosen, source
<1>4. SourcesApart' /\ DisplayIsOneAnalysis' /\ SelectedListed'
  BY DEF IInv, SourcesApart, DisplayIsOneAnalysis, SelectedListed, TaskFailed,
      Listed, result, chosen, source, aside
<1>5. RetainedIsOneAnalysis'
  BY DEF IInv, RetainedIsOneAnalysis, TaskFailed, source
<1> QED
  BY <1>1, <1>2, <1>3, <1>4, <1>5 DEF IInv, TInv

\* ExportIdentified keeps the invariant.
LEMMA ExportIdentifiedInv ==
    ASSUME ConstantAssumption, NullAssumption, IInv, ExportIdentified
    PROVE  IInv'
<1>1. TypeOK'
  BY ExportIdentifiedType DEF IInv
<1>2. SelectedKnown'
  <2>1. Head(exporter.rest) \in FileId
    <3>1. exporter.rest \in Seq(FileId) /\ exporter.rest # <<>>
      BY DEF ExportIdentified, IInv, TInv, TypeOK, QueueType, Exporter
    <3> QED
      BY <3>1
  <2> QED
    BY <2>1, IdentifiedKnown DEF ExportIdentified, chosen, source
<1>3. ScanSelectsNothing' /\ TaskHasFile' /\ RereadHasResult'
  BY DEF IInv, TInv, TypeOK, WorkType, ScanSelectsNothing, Generations,
      TaskHasFile, HaveFiles, RereadHasResult, Current, ExportIdentified,
      chosen, source, result, work, aside
<1>4. SourcesApart' /\ DisplayIsOneAnalysis' /\ SelectedListed'
  BY DEF IInv, SourcesApart, DisplayIsOneAnalysis, SelectedListed,
      ExportIdentified, Listed, chosen, source, result, aside
<1>5. RetainedIsOneAnalysis'
  BY DEF IInv, RetainedIsOneAnalysis, ExportIdentified, source
<1> QED
  BY <1>1, <1>2, <1>3, <1>4, <1>5 DEF IInv, TInv

\* Dispose keeps the invariant.
LEMMA DisposeInv ==
    ASSUME ConstantAssumption, NullAssumption, IInv, Dispose
    PROVE  IInv'
<1>1. TypeOK'
  BY DisposeType DEF IInv
<1>2. SelectedKnown'
  BY DEF IInv, TInv, SelectedKnown, Dispose, chosen
<1>3. ScanSelectsNothing' /\ TaskHasFile' /\ RereadHasResult'
  BY DEF IInv, TInv, TypeOK, WorkType, ScanSelectsNothing, Generations,
      TaskHasFile, HaveFiles, RereadHasResult, Current, Dispose, Begin,
      IdleTask
<1>4. SourcesApart' /\ DisplayIsOneAnalysis' /\ SelectedListed'
  BY DEF IInv, SourcesApart, DisplayIsOneAnalysis, SelectedListed, Dispose,
      Listed, chosen
<1>5. RetainedIsOneAnalysis'
  BY DEF IInv, RetainedIsOneAnalysis, Dispose
<1> QED
  BY <1>1, <1>2, <1>3, <1>4, <1>5 DEF IInv, TInv

\* Replace keeps the invariant.
LEMMA ReplaceInv ==
    ASSUME ConstantAssumption, NullAssumption, IInv, NEW value \in SUBSET Columns, NEW rememberUndo \in BOOLEAN, notice' \in Notices,
           Replace(value, rememberUndo)
    PROVE  IInv'
<1>1. TypeOK'
  BY ReplaceType DEF IInv
<1> QED
  BY <1>1, Undisturbed DEF Replace, chosen, source, work, aside

\* SetColumnOverride keeps the invariant.
LEMMA SetColumnOverrideInv ==
    ASSUME ConstantAssumption, NullAssumption, IInv, NEW c \in Columns,
           SetColumnOverride(c)
    PROVE  IInv'
<1>1. TypeOK'
  BY SetColumnOverrideType DEF IInv
<1> QED
  BY <1>1, Undisturbed DEF SetColumnOverride, chosen, source, result, work

\* UndoSettings keeps the invariant.
LEMMA UndoSettingsInv ==
    ASSUME ConstantAssumption, NullAssumption, IInv, UndoSettings
    PROVE  IInv'
<1>1. TypeOK'
  BY UndoSettingsType DEF IInv
<1> QED
  BY <1>1, Undisturbed DEF UndoSettings, chosen, source, work, aside

\* SetPlatform keeps the invariant.
LEMMA SetPlatformInv ==
    ASSUME ConstantAssumption, NullAssumption, IInv, NEW p \in Platforms,
           SetPlatform(p)
    PROVE  IInv'
<1>1. TypeOK'
  BY SetPlatformType DEF IInv
<1> QED
  BY <1>1, Undisturbed DEF SetPlatform, chosen, source, result, work

\* TimerFires keeps the invariant.
LEMMA TimerFiresInv ==
    ASSUME ConstantAssumption, NullAssumption, IInv, TimerFires
    PROVE  IInv'
<1>1. TypeOK'
  BY TimerFiresType DEF IInv
<1> QED
  BY <1>1, Undisturbed DEF TimerFires, chosen, source, work

\* DismissNotice keeps the invariant.
LEMMA DismissNoticeInv ==
    ASSUME ConstantAssumption, NullAssumption, IInv, DismissNotice
    PROVE  IInv'
<1>1. TypeOK'
  BY DismissNoticeType DEF IInv
<1> QED
  BY <1>1, Undisturbed DEF DismissNotice, chosen, source, result, work, aside

\* RequestExport keeps the invariant.
LEMMA RequestExportInv ==
    ASSUME ConstantAssumption, NullAssumption, IInv, RequestExport
    PROVE  IInv'
<1>1. TypeOK'
  BY RequestExportType DEF IInv
<1> QED
  BY <1>1, Undisturbed DEF RequestExport, chosen, source, result, work, aside

\* ExportAnalyzed keeps the invariant.
LEMMA ExportAnalyzedInv ==
    ASSUME ConstantAssumption, NullAssumption, IInv, ExportAnalyzed
    PROVE  IInv'
<1>1. TypeOK'
  BY ExportAnalyzedType DEF IInv
<1> QED
  BY <1>1, Undisturbed DEF ExportAnalyzed, chosen, source, result, work, aside

\* ExportFailed keeps the invariant.
LEMMA ExportFailedInv ==
    ASSUME ConstantAssumption, NullAssumption, IInv, ExporterIdle, ExportFailed
    PROVE  IInv'
<1>1. TypeOK'
  BY ExportFailedType DEF IInv
<1>2. UNCHANGED <<files, identity, mode, retained, selected, generation, task, disposed>>
  BY DEF ExportFailed, chosen, source, work, aside
<1>3. CASE UNCHANGED result
  BY <1>1, <1>2, <1>3, Undisturbed DEF result
<1>4. CASE /\ exporter.at = "analyze" /\ Current(exporter.gen)
           /\ raw' = NoMetadata /\ shown' = NoMetadata /\ preview' = NoPreview
  <2>1. SelectedKnown' /\ TaskHasFile'
    BY <1>2 DEF IInv, TInv, SelectedKnown, TaskHasFile, HaveFiles
  <2>2. ScanSelectsNothing' /\ RereadHasResult'
    BY <1>2, <1>4 DEF IInv, TInv, ScanSelectsNothing, RereadHasResult, ExporterIdle, Exporting, Current
  <2>3. SourcesApart' /\ DisplayIsOneAnalysis' /\ SelectedListed'
    BY <1>2, <1>4 DEF IInv, SourcesApart, DisplayIsOneAnalysis, SelectedListed, Listed
  <2>4. RetainedIsOneAnalysis'
    BY <1>2 DEF IInv, RetainedIsOneAnalysis
  <2> QED
    BY <1>1, <2>1, <2>2, <2>3, <2>4 DEF IInv, TInv
<1> QED
  BY <1>3, <1>4 DEF ExportFailed

\* ExportDelivered keeps the invariant.
LEMMA ExportDeliveredInv ==
    ASSUME ConstantAssumption, NullAssumption, IInv, ExportDelivered
    PROVE  IInv'
<1>1. TypeOK'
  BY ExportDeliveredType DEF IInv
<1> QED
  BY <1>1, Undisturbed DEF ExportDelivered, chosen, source, result, work, aside

\* SaveDismissed keeps the invariant.
LEMMA SaveDismissedInv ==
    ASSUME ConstantAssumption, NullAssumption, IInv, SaveDismissed
    PROVE  IInv'
<1>1. TypeOK'
  BY SaveDismissedType DEF IInv
<1> QED
  BY <1>1, Undisturbed DEF SaveDismissed, chosen, source, result, work, aside

\* CopyStatement keeps the invariant.
LEMMA CopyStatementInv ==
    ASSUME ConstantAssumption, NullAssumption, IInv, CopyStatement
    PROVE  IInv'
<1>1. TypeOK'
  BY CopyStatementType DEF IInv
<1> QED
  BY <1>1, Undisturbed DEF CopyStatement, chosen, source, result, work, aside

\* CopyDone keeps the invariant.
LEMMA CopyDoneInv ==
    ASSUME ConstantAssumption, NullAssumption, IInv, CopyDone
    PROVE  IInv'
<1>1. TypeOK'
  BY CopyDoneType DEF IInv
<1> QED
  BY <1>1, Undisturbed DEF CopyDone, chosen, source, result, work, aside

\* Retarget keeps the invariant.
LEMMA RetargetInv ==
    ASSUME ConstantAssumption, NullAssumption, IInv, NEW p \in Paths,
           Retarget(p)
    PROVE  IInv'
<1>1. TypeOK'
  BY RetargetType DEF IInv
<1> QED
  BY <1>1, Undisturbed DEF Retarget, chosen, source, result, work, aside

\* DialogDismissed keeps the invariant.
LEMMA DialogDismissedInv ==
    ASSUME ConstantAssumption, NullAssumption, IInv, NEW g \in Generations, DialogDismissed(g)
    PROVE  IInv'
<1>1. TypeOK'
  BY DialogDismissedType DEF IInv
<1> QED
  BY <1>1, Ended DEF DialogDismissed, chosen, source, result, aside

\* DialogRejected keeps the invariant.
LEMMA DialogRejectedInv ==
    ASSUME ConstantAssumption, NullAssumption, IInv, NEW g \in Generations, DialogRejected(g)
    PROVE  IInv'
<1>1. TypeOK'
  BY DialogRejectedType DEF IInv
<1> QED
  BY <1>1, Ended DEF DialogRejected, chosen, source, result, aside

\* TaskDropped keeps the invariant.
LEMMA TaskDroppedInv ==
    ASSUME ConstantAssumption, NullAssumption, IInv, NEW g \in Generations, TaskDropped(g)
    PROVE  IInv'
<1>1. TypeOK'
  BY TaskDroppedType DEF IInv
<1> QED
  BY <1>1, Ended DEF TaskDropped, chosen, source, result, aside

\* Cancel keeps the invariant.
LEMMA CancelInv ==
    ASSUME ConstantAssumption, NullAssumption, IInv, Cancel
    PROVE  IInv'
<1>1. TypeOK'
  BY CancelType DEF IInv
<1>2. IdleTask.at = "idle"
  BY DEF IdleTask
<1> QED
  BY <1>1, <1>2, IdleTaskType, Begun DEF Cancel, chosen, source, result, aside

\* StartExport keeps the invariant.
LEMMA StartExportInv ==
    ASSUME ConstantAssumption, NullAssumption, IInv, StartExport
    PROVE  IInv'
<1>1. TypeOK'
  BY StartExportType DEF IInv
<1>2. IdleTask.at = "idle"
  BY DEF IdleTask
<1>3. CASE files = <<>>
  BY <1>1, <1>3, Undisturbed DEF StartExport, chosen, source, result, aside, work
<1>4. CASE files # <<>>
  BY <1>1, <1>2, <1>4, IdleTaskType, Begun DEF StartExport, chosen, source, result, aside
<1> QED
  BY <1>3, <1>4

\* SelectFile keeps the invariant.
LEMMA SelectFileInv ==
    ASSUME ConstantAssumption, NullAssumption, IInv, NEW id \in FileId, SelectFile(id)
    PROVE  IInv'
<1>1. TypeOK'
  BY SelectFileType DEF IInv
<1>2. CASE ~Listed(id)
  BY <1>1, <1>2, Undisturbed DEF SelectFile, chosen, source, work, aside
<1>3. CASE Listed(id)
  <2>1. PICK seen \in Identities \cup {NoIdentity} :
           Begin(task, [at |-> "identify", id |-> id, skipped |-> FALSE, seen |-> seen])
    BY <1>3 DEF SelectFile, IInv, TInv, TypeOK, SourceType
  <2> DEFINE t == [at |-> "identify", id |-> id, skipped |-> FALSE, seen |-> seen]
  <2>2. t \in Task /\ t.at = "identify" /\ t.id = id
    BY DEF Task, Waits
  <2>3. UNCHANGED <<files, selected, identity, mode, retained, raw, shown, preview, disposed>>
    BY <1>3 DEF SelectFile, chosen, source, aside
  <2> HIDE DEF t
  <2> QED
    BY <1>1, <2>1, <2>2, <2>3, Begun DEF t
<1> QED
  BY <1>2, <1>3

\* A pick loads a folder or files, from the picker or from the command.
LEMMA PickedInv ==
    ASSUME ConstantAssumption, NullAssumption, IInv,
           NEW tasks \in [Generations -> Task], HaveFiles(tasks), Picked(tasks)
    PROVE  IInv'
<1>1. MaySkip \in BOOLEAN
  BY DEF ConstantAssumption
<1> QED
  BY <1>1, LoadDirectoryInv, LoadFilesInv DEF Picked

\* AnalyzePath keeps the invariant.
LEMMA AnalyzePathInv ==
    ASSUME ConstantAssumption, NullAssumption, IInv, AnalyzePath
    PROVE  IInv'
BY PickedInv DEF AnalyzePath, IInv, TInv, TypeOK, WorkType, TaskHasFile

\* DialogPicked keeps the invariant.
LEMMA DialogPickedInv ==
    ASSUME ConstantAssumption, NullAssumption, IInv, NEW g \in Generations, DialogPicked(g)
    PROVE  IInv'
<1> DEFINE tasks == [task EXCEPT ![g] = IdleTask]
<1>1. tasks \in [Generations -> Task]
  BY FinishType DEF IInv, TInv, TypeOK, WorkType
<1>2. HaveFiles(tasks)
  BY DEF IInv, TInv, TypeOK, WorkType, TaskHasFile, HaveFiles, IdleTask
<1>3. Picked(tasks)
  BY DEF DialogPicked
<1> HIDE DEF tasks
<1> QED
  BY <1>1, <1>2, <1>3, PickedInv

\* ResetSettings keeps the invariant.
LEMMA ResetSettingsInv ==
    ASSUME ConstantAssumption, NullAssumption, IInv, ResetSettings
    PROVE  IInv'
<1>1. notice' \in Notices
  BY DEF ResetSettings, IInv, TInv, TypeOK, DisplayType, Notices
<1> QED
  BY <1>1, ReplaceInv DEF ResetSettings

\* ApplyImportProfile keeps the invariant.
LEMMA ApplyImportProfileInv ==
    ASSUME ConstantAssumption, NullAssumption, IInv, NEW profile \in SUBSET Columns,
           ApplyImportProfile(profile)
    PROVE  IInv'
<1>1. notice' \in Notices
  BY DEF ApplyImportProfile, Notices
<1>2. Matching(profile, raw) \in SUBSET Columns
  BY MatchingType
<1> QED
  BY <1>1, <1>2, ReplaceInv DEF ApplyImportProfile

-----------------------------------------------------------------------------
(* The theorems.                                                           *)

\* The invariant holds when the controller is made.
LEMMA InitInv == ASSUME ConstantAssumption, Init PROVE IInv
<1>1. TypeOK
  BY TypeInit
<1>2. \A g \in Generations : task[g].at = "idle"
  BY DEF Init, IdleTask
<1>3. SelectedKnown /\ ScanSelectsNothing /\ TaskHasFile /\ RereadHasResult
  BY <1>2 DEF Init, SelectedKnown, ScanSelectsNothing, TaskHasFile, HaveFiles,
              RereadHasResult
<1>4. SourcesApart /\ DisplayIsOneAnalysis /\ SelectedListed /\ RetainedIsOneAnalysis
  BY DEF Init, SourcesApart, DisplayIsOneAnalysis, SelectedListed,
         RetainedIsOneAnalysis
<1> QED
  BY <1>1, <1>3, <1>4 DEF IInv, TInv

\* Every step keeps it: one case per action.
LEMMA NextInv ==
    ASSUME ConstantAssumption, NullAssumption, IInv, ExporterIdle, [Next]_vars
    PROVE  IInv'
<1>1. ASSUME NEW g \in Generations, TaskStep(g) PROVE IInv'
  BY <1>1, ScanDoneInv, IdentifyDoneInv, IdentifyDroppedInv, SamplePublishedInv,
     AnalysisDoneInv, ResampleDoneInv, RereadDoneInv, TaskFailedInv, TaskDroppedInv
     DEF TaskStep
<1>2. CASE ExportStep
  BY <1>2, StartExportInv, ExportIdentifiedInv, ExportAnalyzedInv, ExportFailedInv
     DEF ExportStep
<1>3. CASE HostStep
  BY <1>3, DialogPickedInv, DialogDismissedInv, DialogRejectedInv,
     ExportDeliveredInv, SaveDismissedInv, CopyDoneInv DEF HostStep
<1>4. CASE UserStep
  <2>1. ASSUME NEW id \in FileId, SelectFile(id) PROVE IInv'
    BY <2>1, SelectFileInv
  <2>2. ASSUME NEW c \in Columns, SetColumnOverride(c) PROVE IInv'
    BY <2>2, SetColumnOverrideInv
  <2>3. ASSUME NEW profile \in SUBSET Columns, ApplyImportProfile(profile) PROVE IInv'
    BY <2>3, ApplyImportProfileInv
  <2>4. ASSUME NEW p \in Platforms, SetPlatform(p) PROVE IInv'
    BY <2>4, SetPlatformInv
  <2> QED
    BY <1>4, <2>1, <2>2, <2>3, <2>4, ShowLocalSourceInv, BrowseLocalInv,
       AnalyzePathInv, OpenAzureInv, CancelInv, SetPreviewRowsInv, ResetSettingsInv,
       UndoSettingsInv, DismissNoticeInv, RequestExportInv, CopyStatementInv, DisposeInv
       DEF UserStep
<1>5. CASE TimerFires
  BY <1>5, TimerFiresInv
<1>6. ASSUME NEW p \in LinkPaths, Retarget(p) PROVE IInv'
  BY <1>6, RetargetInv DEF ConstantAssumption
<1>7. CASE UNCHANGED vars
  <2>1. TypeOK'
    BY <1>7 DEF vars, chosen, source, result, settings, display, work, queued, aside,
       IInv, TInv, TypeOK, SourceType, ResultType, SettingsType, DisplayType, WorkType,
       QueueType, AsideType
  <2> QED
    BY <1>7, <2>1, Undisturbed DEF vars, chosen, source, result, work, aside
<1> QED
  BY <1>1, <1>2, <1>3, <1>4, <1>5, <1>6, <1>7 DEF Next

\* The inductive invariant holds of every behaviour of the controller.
THEOREM Invariance == Spec => []IInv
<1>1. Init => IInv /\ ExporterIdle
  <2> SUFFICES ASSUME Init PROVE IInv /\ ExporterIdle
    OBVIOUS
  <2>1. generation = 0 /\ exporter.gen = 0 /\ exporter.at = "idle"
    BY DEF Init, IdleExporter
  <2> QED
    BY <2>1, ConstantAssumption, InitInv DEF ExporterIdle, Exporting
<1>2. IInv /\ ExporterIdle /\ [Next]_vars => IInv' /\ ExporterIdle'
  BY ConstantAssumption, NullAssumption, NextInv, ExporterIdleStep DEF IInv, TInv
<1> QED
  BY <1>1, <1>2, PTL DEF Spec

\* Every variable of the controller and of the state store keeps its type.
THEOREM TypeCorrect == Spec => []TypeOK
<1>1. IInv => TypeOK
  BY DEF IInv, TInv
<1> QED
  BY <1>1, Invariance, PTL

\* For any files, any number of selections in flight and any order of their
\* answers, what is on display is one analysis of the selected file.
THEOREM OneAnalysisOnDisplay == Spec => []DisplayIsOneAnalysis
<1>1. IInv => DisplayIsOneAnalysis
  BY DEF IInv
<1> QED
  BY <1>1, Invariance, PTL

\* Switching between the local source and Azure never mixes them.
THEOREM LocalAndAzureApart == Spec => []SourcesApart
<1>1. IInv => SourcesApart
  BY DEF IInv
<1> QED
  BY <1>1, Invariance, PTL

-----------------------------------------------------------------------------
(* The SQL on display.                                                     *)

\* Every step that changes what SQL is generated from generates it again,
\* clears it or leaves it to the timer.
LEMMA SqlFreshStep ==
    ASSUME SqlFresh, [Next]_vars
    PROVE  SqlFresh'
<1> USE DEF SqlFresh
<1>1. ASSUME NEW tasks, Picked(tasks) PROVE SqlFresh'
  BY <1>1 DEF Picked, LoadDirectory, LoadFiles, ClearSource, Generated, aside
<1>2. ASSUME NEW g \in Generations, TaskStep(g) PROVE SqlFresh'
  <2>1. CASE ScanDone(g) \/ IdentifyDone(g) \/ RereadDone(g)
    BY <2>1 DEF ScanDone, IdentifyDone, RereadDone, settings, aside
  <2>2. CASE SamplePublished(g) \/ AnalysisDone(g) \/ ResampleDone(g)
    BY <2>2 DEF SamplePublished, AnalysisDone, ResampleDone, Apply, Adopt, aside
  <2>3. CASE IdentifyDropped(g) \/ TaskFailed(g) \/ TaskDropped(g)
    BY <2>3 DEF IdentifyDropped, TaskFailed, TaskDropped, result, settings, aside
  <2> QED
    BY <1>2, <2>1, <2>2, <2>3 DEF TaskStep
<1>3. CASE ExportStep
  BY <1>3 DEF ExportStep, StartExport, ExportIdentified, ExportAnalyzed, ExportFailed,
     result, settings, aside
<1>4. CASE HostStep
  BY <1>1, <1>4 DEF HostStep, DialogPicked, DialogDismissed, DialogRejected,
     ExportDelivered, SaveDismissed, CopyDone, result, settings, aside
<1>5. CASE UserStep
  <2>1. CASE ShowLocalSource \/ BrowseLocal
    BY <2>1 DEF ShowLocalSource, BrowseLocal, ActivateLocal, aside
  <2>2. CASE OpenAzure \/ AnalyzePath \/ Dispose \/ SetPreviewRows
    BY <1>1, <2>2 DEF OpenAzure, AnalyzePath, Dispose, SetPreviewRows, settings, aside
  <2>3. CASE Cancel \/ DismissNotice \/ RequestExport \/ CopyStatement
    BY <2>3 DEF Cancel, DismissNotice, RequestExport, CopyStatement, result, settings, aside
  <2>4. CASE ResetSettings \/ UndoSettings
    BY <2>4 DEF ResetSettings, UndoSettings, Replace, Adopt, aside
  <2>5. CASE \/ \E id \in FileId : SelectFile(id)
             \/ \E c \in Columns : SetColumnOverride(c)
             \/ \E profile \in SUBSET Columns : ApplyImportProfile(profile)
             \/ \E p \in Platforms : SetPlatform(p)
    BY <2>5 DEF SelectFile, SetColumnOverride, ApplyImportProfile, Replace, Adopt,
       SetPlatform, settings, aside
  <2> QED
    BY <1>5, <2>1, <2>2, <2>3, <2>4, <2>5 DEF UserStep
<1>6. CASE TimerFires \/ (\E p \in LinkPaths : Retarget(p)) \/ UNCHANGED vars
  BY <1>6 DEF TimerFires, Retarget, vars, result, settings, aside
<1> QED
  BY <1>2, <1>3, <1>4, <1>5, <1>6 DEF Next

-----------------------------------------------------------------------------
(* The newest operation and the busy flag.                                 *)

\* The newest operation has not lost its place.
CurrentInPlace == \A g \in Generations : Current(g) => InPlace(g)

\* A generation that has not begun is not used.
LaterIdle(tasks) == \A g \in Generations : g > generation => tasks[g] = IdleTask

\* The operations as a pick finds them: its dialog, if there was one, has ended.
Picking(tasks) ==
    /\ tasks \in [Generations -> Task] /\ HaveFiles(tasks) /\ LaterIdle(tasks)

\* An operation that begins now, or from the end of a dialog, begins so.
LEMMA PickingNow ==
    ASSUME IInv, LaterIdle(task)
    PROVE  /\ Picking(task)
           /\ \A g \in Generations : Picking([task EXCEPT ![g] = IdleTask])
<1>1. IdleTask \in Task /\ IdleTask.at = "idle"
  BY IdleTaskType DEF IdleTask
<1>2. task \in [Generations -> Task] /\ HaveFiles(task)
  BY DEF IInv, TInv, TypeOK, WorkType, TaskHasFile
<1> QED
  BY <1>1, <1>2 DEF Picking, LaterIdle, HaveFiles

\* What begins takes the next generation and is the only one current.
LEMMA BeginsLast ==
    ASSUME ConstantAssumption, IInv, NEW tasks \in [Generations -> Task],
           LaterIdle(tasks), NEW t, Begin(tasks, t)
    PROVE  /\ LaterIdle(task)' /\ generation' = generation + 1
           /\ generation' \in Generations /\ task'[generation'] = t
           /\ \A g \in Generations \ {generation'} : task'[g] = tasks[g]
           /\ \A g \in Generations : Current(g)' => g = generation'
<1>1. generation \in Nat /\ MaxGeneration \in Nat
  BY DEF IInv, TInv, TypeOK, WorkType, ConstantAssumption
<1>2. generation' = generation + 1 /\ generation' \in Generations
  BY <1>1 DEF Begin, Generations
<1>3. task' = [tasks EXCEPT ![generation'] = t]
  BY <1>2 DEF Begin
<1>4. task'[generation'] = t /\ \A g \in Generations \ {generation'} : task'[g] = tasks[g]
  BY <1>2, <1>3
<1>5. LaterIdle(task)'
  BY <1>1, <1>2, <1>4 DEF LaterIdle, Generations
<1> QED
  BY <1>2, <1>4, <1>5 DEF Current

\* An operation moves on or ends.
LEMMA MovesOn ==
    ASSUME IInv, LaterIdle(task), NEW g \in Generations, task[g].at # "idle",
           NEW t, task' = [task EXCEPT ![g] = t], UNCHANGED generation
    PROVE  /\ LaterIdle(task)' /\ task'[g] = t
           /\ \A h \in Generations \ {g} : task'[h] = task[h]
<1>1. task \in [Generations -> Task] /\ IdleTask.at = "idle"
  BY DEF IInv, TInv, TypeOK, WorkType, IdleTask
<1> QED
  BY <1>1 DEF LaterIdle

\* No step uses a generation before it has begun.
LEMMA LaterIdleStep ==
    ASSUME ConstantAssumption, IInv, LaterIdle(task), [Next]_vars
    PROVE  LaterIdle(task)'
<1>0. /\ task \in [Generations -> Task] /\ generation \in Nat /\ MaxGeneration \in Nat
      /\ Picking(task) /\ \A g \in Generations : Picking([task EXCEPT ![g] = IdleTask])
  BY PickingNow DEF IInv, TInv, TypeOK, WorkType, ConstantAssumption
<1>1. ASSUME NEW tasks, Picking(tasks), Picked(tasks) PROVE LaterIdle(task)'
  BY <1>1, BeginsLast DEF Picking, Picked, LoadDirectory, LoadFiles, SelectFirst
<1>2. ASSUME NEW g \in Generations, TaskStep(g) PROVE LaterIdle(task)'
  <2>1. task[g].at # "idle"
    BY <1>2 DEF TaskStep, ScanDone, IdentifyDone, IdentifyDropped, SamplePublished,
       AnalysisDone, ResampleDone, RereadDone, TaskFailed, TaskDropped, Waits
  <2>2. CASE ScanDone(g)
    BY <1>0, <2>1, <2>2, MovesOn, BeginsLast DEF ScanDone, SelectFirst, Finish, Picking
  <2>3. CASE ~ScanDone(g)
    BY <1>2, <2>1, <2>3, MovesOn DEF TaskStep, IdentifyDone, IdentifyDropped, SamplePublished,
       AnalysisDone, ResampleDone, RereadDone, TaskFailed, TaskDropped, Move, Finish
  <2> QED
    BY <2>2, <2>3
<1>3. CASE ExportStep
  BY <1>0, <1>3, BeginsLast DEF ExportStep, StartExport, ExportIdentified, ExportAnalyzed,
     ExportFailed, work, LaterIdle, Picking
<1>4. CASE HostStep
  <2>1. ASSUME NEW g \in Generations, DialogDismissed(g) \/ DialogRejected(g)
        PROVE  LaterIdle(task)'
    BY <2>1, MovesOn DEF DialogDismissed, DialogRejected, Finish
  <2> QED
    BY <1>0, <1>1, <1>4, <2>1 DEF HostStep, DialogPicked, ExportDelivered, SaveDismissed,
       CopyDone, LaterIdle, work
<1>5. CASE UserStep
  <2>1. CASE ShowLocalSource \/ BrowseLocal \/ OpenAzure \/ Dispose \/ SetPreviewRows \/ Cancel
    BY <1>0, <2>1, BeginsLast DEF ShowLocalSource, BrowseLocal, OpenAzure, Dispose,
       SetPreviewRows, Cancel
  <2>2. CASE AnalyzePath \/ \E id \in FileId : SelectFile(id)
    BY <1>0, <1>1, <2>2, BeginsLast DEF AnalyzePath, SelectFile, LaterIdle, work
  <2>3. CASE \/ DismissNotice \/ RequestExport \/ CopyStatement \/ ResetSettings \/ UndoSettings
             \/ \E c \in Columns : SetColumnOverride(c)
             \/ \E profile \in SUBSET Columns : ApplyImportProfile(profile)
             \/ \E p \in Platforms : SetPlatform(p)
    BY <2>3 DEF DismissNotice, RequestExport, CopyStatement, ResetSettings, UndoSettings, Replace,
       SetColumnOverride, ApplyImportProfile, SetPlatform, work, LaterIdle
  <2> QED
    BY <1>5, <2>1, <2>2, <2>3 DEF UserStep
<1>6. CASE TimerFires \/ (\E p \in LinkPaths : Retarget(p)) \/ UNCHANGED vars
  BY <1>6 DEF TimerFires, Retarget, vars, work, LaterIdle
<1> QED
  BY <1>2, <1>3, <1>4, <1>5, <1>6 DEF Next

\* A new operation has its place unless it waits for a file that is not selected.
LEMMA BeginsInPlace ==
    ASSUME ConstantAssumption, IInv, NEW tasks, Picking(tasks), NEW t, Begin(tasks, t),
           t.at \in {"sample", "analyze"} => selected' = t.id /\ mode' = "local",
           t.at \in {"resample", "reread"} => selected' = t.id
    PROVE  CurrentInPlace'
BY BeginsLast DEF Picking, CurrentInPlace, InPlace

\* An operation that ends takes its place with it.
LEMMA EndsInPlace ==
    ASSUME IInv, CurrentInPlace, NEW g \in Generations, Finish(g),
           UNCHANGED <<selected, mode, generation, disposed>>
    PROVE  CurrentInPlace'
<1>1. task \in [Generations -> Task] /\ IdleTask.at = "idle"
  BY DEF IInv, TInv, TypeOK, WorkType, IdleTask
<1> QED
  BY <1>1 DEF CurrentInPlace, InPlace, Current, Finish

\* Nor does anything else take its place while neither changes.
LEMMA StaysInPlace ==
    ASSUME CurrentInPlace, UNCHANGED <<selected, mode, generation, task, disposed>>
    PROVE  CurrentInPlace'
BY DEF CurrentInPlace, InPlace, Current

\* The selection and the mode change only under a new generation, or by the
\* newest operation for its own file.
LEMMA CurrentInPlaceStep ==
    ASSUME ConstantAssumption, IInv, LaterIdle(task), CurrentInPlace, [Next]_vars
    PROVE  CurrentInPlace'
<1>0. /\ task \in [Generations -> Task] /\ mode \in {"local", "azure"} /\ IdleTask.at = "idle"
      /\ Picking(task) /\ \A g \in Generations : Picking([task EXCEPT ![g] = IdleTask])
  BY PickingNow DEF IInv, TInv, TypeOK, WorkType, SourceType, IdleTask
<1>1. ASSUME NEW tasks, Picking(tasks), Picked(tasks) PROVE CurrentInPlace'
  BY <1>1, BeginsInPlace DEF Picked, LoadDirectory, LoadFiles, SelectFirst, IdleTask, Waiting
<1>2. ASSUME NEW g \in Generations, TaskStep(g) PROVE CurrentInPlace'
  <2>1. CASE ScanDone(g)
    <3>1. UNCHANGED <<selected, mode, disposed>>
      BY <2>1 DEF ScanDone, source, aside
    <3>2. CASE Finish(g) /\ UNCHANGED generation
      BY <3>1, <3>2, EndsInPlace
    <3>3. ASSUME NEW n, NEW found,
                 SelectFirst([task EXCEPT ![g] = IdleTask], n, found, FALSE)
          PROVE  CurrentInPlace'
      <4>1. PICK t : t.at = "identify" /\ Begin([task EXCEPT ![g] = IdleTask], t)
        BY <3>3 DEF SelectFirst, IdleTask
      <4> QED
        BY <1>0, <4>1, BeginsInPlace
    <3> QED
      BY <2>1, <3>2, <3>3 DEF ScanDone
  <2>2. CASE IdentifyDone(g)
    <3>1. mode = "local" /\ ~disposed
      BY <1>0, <2>2 DEF IdentifyDone, InPlace, Current, Listed, Range, IInv, SourcesApart
    <3> QED
      BY <1>0, <2>2, <3>1 DEF IdentifyDone, Move, CurrentInPlace, InPlace, Current, source, aside
  <2>3. CASE SamplePublished(g)
    BY <1>0, <2>3 DEF SamplePublished, Move, CurrentInPlace, InPlace, Current, chosen, source, aside
  <2>4. CASE AnalysisDone(g) \/ ResampleDone(g) \/ RereadDone(g) \/ TaskFailed(g) \/ TaskDropped(g)
             \/ IdentifyDropped(g)
    BY <2>4, EndsInPlace DEF AnalysisDone, ResampleDone, RereadDone, TaskFailed, TaskDropped,
       IdentifyDropped, chosen, source, aside
  <2> QED
    BY <1>2, <2>1, <2>2, <2>3, <2>4 DEF TaskStep
<1>3. CASE ExportStep
  <2>1. CASE StartExport
    BY <1>0, <2>1, BeginsInPlace DEF StartExport, CurrentInPlace, InPlace, Current, chosen, source,
       work, aside
  <2>2. CASE ~StartExport
    BY <1>3, <2>2, StaysInPlace DEF ExportStep, ExportIdentified, ExportAnalyzed, ExportFailed,
       chosen, source, work, aside
  <2> QED
    BY <2>1, <2>2
<1>4. CASE HostStep
  <2>1. ASSUME NEW g \in Generations, DialogDismissed(g) \/ DialogRejected(g)
        PROVE  CurrentInPlace'
    BY <2>1, EndsInPlace DEF DialogDismissed, DialogRejected, chosen, source, aside
  <2>2. CASE ExportDelivered \/ SaveDismissed \/ CopyDone
    BY <2>2, StaysInPlace DEF ExportDelivered, SaveDismissed, CopyDone, chosen, source, work, aside
  <2> QED
    BY <1>0, <1>1, <1>4, <2>1, <2>2 DEF HostStep, DialogPicked
<1>5. CASE UserStep
  <2>1. CASE ShowLocalSource \/ BrowseLocal \/ OpenAzure \/ Dispose \/ Cancel
    BY <1>0, <2>1, BeginsInPlace DEF ShowLocalSource, BrowseLocal, OpenAzure, Dispose,
       Cancel, IdleTask, Waiting
  <2>2. CASE AnalyzePath \/ \E id \in FileId : SelectFile(id)
    BY <1>0, <1>1, <2>2, BeginsInPlace DEF AnalyzePath, SelectFile, CurrentInPlace, InPlace,
       Current, chosen, source, work, aside
  <2>3. CASE SetPreviewRows
    <3>1. mode = "local"
      BY <1>0, <2>3 DEF SetPreviewRows, IInv, SourcesApart
    <3> QED
      BY <1>0, <2>3, <3>1, BeginsInPlace DEF SetPreviewRows, Waiting, IdleTask, chosen, source
  <2>4. CASE DismissNotice \/ RequestExport \/ CopyStatement \/ UndoSettings
    BY <2>4, StaysInPlace DEF DismissNotice, RequestExport, CopyStatement, UndoSettings,
       chosen, source, work, aside
  <2>5. CASE \/ ResetSettings
             \/ \E c \in Columns : SetColumnOverride(c)
             \/ \E profile \in SUBSET Columns : ApplyImportProfile(profile)
             \/ \E p \in Platforms : SetPlatform(p)
    BY <2>5, StaysInPlace DEF ResetSettings, Replace, SetColumnOverride, ApplyImportProfile,
       SetPlatform, chosen, source, work, aside
  <2> QED
    BY <1>5, <2>1, <2>2, <2>3, <2>4, <2>5 DEF UserStep
<1>6. CASE TimerFires \/ (\E p \in LinkPaths : Retarget(p)) \/ UNCHANGED vars
  BY <1>6, StaysInPlace DEF TimerFires, Retarget, vars, chosen, source, work, aside
<1> QED
  BY <1>2, <1>3, <1>4, <1>5, <1>6 DEF Next

\* The flag is set only by what reads from then on, and cleared by whatever
\* ends, replaces or fails it.
LEMMA BusyStep ==
    ASSUME ConstantAssumption, IInv, LaterIdle(task), CurrentInPlace, BusyMeansRunning, [Next]_vars
    PROVE  BusyMeansRunning'
<1> USE DEF BusyMeansRunning
<1>0. /\ task \in [Generations -> Task] /\ exporter \in Exporter /\ IdleTask.at = "idle" /\ generation \in Nat
      /\ Picking(task) /\ \A g \in Generations : Picking([task EXCEPT ![g] = IdleTask])
  BY PickingNow DEF IInv, TInv, TypeOK, WorkType, QueueType, IdleTask, ConstantAssumption
<1>1. ASSUME NEW tasks, Picking(tasks), Picked(tasks) PROVE BusyMeansRunning'
  <2>1. CASE LoadDirectory(tasks)
    <3>1. /\ generation' \in Generations
          /\ task'[generation'] = Waiting("scan", NoFile) /\ UNCHANGED disposed
      BY <1>1, <2>1, BeginsLast DEF LoadDirectory, Picking, aside
    <3>2. \E g \in Generations : g = generation' /\ task'[g].at \in Reading
      BY <3>1 DEF Waiting, IdleTask, Reading
    <3> QED
      BY <3>2 DEF Running, Current
  <2>2. CASE ~LoadDirectory(tasks)
    BY <1>1, <2>2 DEF Picked, LoadFiles
  <2> QED
    BY <2>1, <2>2
<1>2. ASSUME NEW g \in Generations, TaskStep(g) PROVE BusyMeansRunning'
  <2>1. CASE ScanDone(g) \/ AnalysisDone(g) \/ ResampleDone(g) \/ RereadDone(g) \/ TaskFailed(g)
    BY <2>1 DEF ScanDone, AnalysisDone, ResampleDone, RereadDone, TaskFailed
  <2>2. CASE IdentifyDone(g) \/ SamplePublished(g)
    <3>1. Current(g) /\ UNCHANGED <<generation, disposed>>
      BY <2>2 DEF IdentifyDone, SamplePublished, InPlace, aside
    <3>2. task'[g].at \in Reading
      BY <1>0, <2>2 DEF IdentifyDone, SamplePublished, Move, Reading, Task
    <3> QED
      BY <3>1, <3>2 DEF Running, Current
  <2>3. CASE IdentifyDropped(g) \/ TaskDropped(g)
    <3>1. ~Current(g) /\ \A h \in Generations \ {g} : task'[h] = task[h]
      BY <1>0, <2>3 DEF IdentifyDropped, TaskDropped, CurrentInPlace, Finish
    <3> QED
      BY <2>3, <3>1 DEF IdentifyDropped, TaskDropped, Running, Current, display, queued, aside
  <2> QED
    BY <1>2, <2>1, <2>2, <2>3 DEF TaskStep
<1>3. CASE ExportStep
  <2>1. CASE StartExport
    BY <1>0, <2>1, BeginsLast DEF StartExport, Running, Current, IdleExporter, work, Picking, aside
  <2>2. CASE ExportIdentified
    BY <2>2 DEF ExportIdentified, Running, Current, work, display, aside
  <2>3. CASE ExportAnalyzed
    BY <1>0, <2>3 DEF ExportAnalyzed, Running, Current, Exporter, work, aside
  <2>4. CASE ExportFailed
    BY <2>4 DEF ExportFailed, Running, Current, work, aside
  <2> QED
    BY <1>3, <2>1, <2>2, <2>3, <2>4 DEF ExportStep
<1>4. CASE HostStep
  <2>1. ASSUME NEW g \in Generations, DialogDismissed(g)
        PROVE  BusyMeansRunning'
    BY <1>0, <2>1 DEF DialogDismissed, Finish, Running, Reading, Current, queued, aside
  <2>2. CASE ExportDelivered \/ SaveDismissed \/ CopyDone
    BY <2>2 DEF ExportDelivered, SaveDismissed, CopyDone, Running, Current, work, display,
       IdleExporter, aside
  <2> QED
    BY <1>0, <1>1, <1>4, <2>1, <2>2 DEF HostStep, DialogPicked, DialogRejected
<1>5. CASE UserStep
  <2>1. CASE ShowLocalSource \/ BrowseLocal \/ OpenAzure \/ Dispose \/ Cancel \/ AnalyzePath
    BY <1>0, <1>1, <2>1 DEF ShowLocalSource, BrowseLocal, OpenAzure, Dispose, Cancel, AnalyzePath
  <2>2. CASE SetPreviewRows
    <3>1. PICK at \in {"resample", "analyze", "reread"} : Begin(task, Waiting(at, selected))
      BY <2>2 DEF SetPreviewRows
    <3>2. generation' \in Generations /\ task'[generation'] = Waiting(at, selected)
      BY <1>0, <3>1, BeginsLast DEF Picking
    <3>3. \E g \in Generations : g = generation' /\ task'[g].at \in Reading
      BY <3>2 DEF Waiting, IdleTask, Reading
    <3> QED
      BY <3>3 DEF Running, Current
  <2>3. CASE \E id \in FileId : SelectFile(id)
    BY <2>3 DEF SelectFile, Running, Current, work, queued, aside
  <2>4. CASE \/ DismissNotice \/ RequestExport \/ CopyStatement \/ ResetSettings \/ UndoSettings
             \/ \E c \in Columns : SetColumnOverride(c)
             \/ \E profile \in SUBSET Columns : ApplyImportProfile(profile)
             \/ \E p \in Platforms : SetPlatform(p)
    BY <2>4 DEF DismissNotice, RequestExport, CopyStatement, ResetSettings, UndoSettings, Replace,
       SetColumnOverride, ApplyImportProfile, SetPlatform, Running, Current, display, work, queued, aside
  <2> QED
    BY <1>5, <2>1, <2>2, <2>3, <2>4 DEF UserStep
<1>6. CASE TimerFires \/ (\E p \in LinkPaths : Retarget(p)) \/ UNCHANGED vars
  BY <1>6 DEF TimerFires, Retarget, vars, Running, Current, display, work, queued, aside
<1> QED
  BY <1>2, <1>3, <1>4, <1>5, <1>6 DEF Next

\* A step of a superseded operation, other than a dialog that rejects, only
\* ends it.
LEMMA SupersededStep ==
    ASSUME ConstantAssumption, IInv, LaterIdle(task), CurrentInPlace, [Next]_vars,
           \A h \in Generations : ~DialogRejected(h)
    PROVE  SupersededTask
<1> SUFFICES ASSUME NEW g \in Generations, task[g].at # "idle", ~Current(g), task'[g] # task[g]
             PROVE  UNCHANGED <<chosen, source, result, settings, display, generation>>
  BY DEF SupersededTask
<1>0. /\ task \in [Generations -> Task] /\ IdleTask.at = "idle" /\ generation \in Nat
      /\ Picking(task) /\ \A h \in Generations : Picking([task EXCEPT ![h] = IdleTask])
  BY PickingNow DEF IInv, TInv, TypeOK, WorkType, IdleTask, ConstantAssumption
<1>1. \A tasks, t : Picking(tasks) /\ Begin(tasks, t) => tasks[g] # task[g]
  <2> SUFFICES ASSUME NEW tasks, NEW t, Picking(tasks), Begin(tasks, t), tasks[g] = task[g]
               PROVE  FALSE
    OBVIOUS
  <2>1. g # generation + 1
    BY <1>0 DEF LaterIdle
  <2> QED
    BY <2>1, BeginsLast DEF Picking
<1>2. \A h \in Generations : \A t : task' = [task EXCEPT ![h] = t] => h = g
  BY <1>0
<1>3. ASSUME NEW h \in Generations, TaskStep(h)
      PROVE  UNCHANGED <<chosen, source, result, settings, display, generation>>
  <2>1. CASE ScanDone(h)
    <3>1. h # g
      BY <2>1 DEF ScanDone, InPlace
    <3>2. [task EXCEPT ![h] = IdleTask][g] = task[g]
      BY <1>0, <3>1
    <3>3. ~\E t : Begin([task EXCEPT ![h] = IdleTask], t)
      BY <1>0, <1>1, <3>2
    <3> QED
      BY <1>2, <2>1, <3>1, <3>3 DEF ScanDone, SelectFirst, Finish
  <2>2. CASE \/ IdentifyDone(h) \/ SamplePublished(h) \/ AnalysisDone(h) \/ ResampleDone(h)
             \/ RereadDone(h) \/ TaskFailed(h)
    BY <1>2, <2>2 DEF IdentifyDone, SamplePublished, AnalysisDone, ResampleDone, RereadDone,
       TaskFailed, Move, Finish, InPlace
  <2>3. CASE IdentifyDropped(h) \/ TaskDropped(h)
    BY <2>3 DEF IdentifyDropped, TaskDropped
  <2> QED
    BY <1>3, <2>1, <2>2, <2>3 DEF TaskStep
<1>4. ~ExportStep
  BY <1>0, <1>1 DEF ExportStep, StartExport, ExportIdentified, ExportAnalyzed, ExportFailed, work
<1>5. ASSUME NEW tasks, Picking(tasks), Picked(tasks) PROVE tasks[g] # task[g]
  BY <1>1, <1>5 DEF Picked, LoadDirectory, LoadFiles, SelectFirst
<1>6. ~HostStep
  <2>1. ASSUME NEW h \in Generations, DialogPicked(h) PROVE FALSE
    <3>1. h # g
      BY <2>1 DEF DialogPicked, InPlace
    <3>2. [task EXCEPT ![h] = IdleTask][g] = task[g]
      BY <1>0, <3>1
    <3> QED
      BY <1>0, <1>5, <2>1, <3>2 DEF DialogPicked
  <2>2. ASSUME NEW h \in Generations, DialogDismissed(h) PROVE FALSE
    BY <1>2, <2>2 DEF DialogDismissed, Finish, InPlace
  <2> QED
    BY <2>1, <2>2 DEF HostStep, ExportDelivered, SaveDismissed, CopyDone, work
<1>7. ~UserStep
  <2>1. ~(ShowLocalSource \/ BrowseLocal \/ OpenAzure \/ Dispose \/ Cancel \/ AnalyzePath \/ SetPreviewRows)
    BY <1>0, <1>1, <1>5 DEF ShowLocalSource, BrowseLocal, OpenAzure, Dispose, Cancel, AnalyzePath,
       SetPreviewRows
  <2>2. ~\E id \in FileId : SelectFile(id)
    BY <1>0, <1>1 DEF SelectFile, work
  <2>3. ~(\/ DismissNotice \/ RequestExport \/ CopyStatement \/ ResetSettings \/ UndoSettings
          \/ \E c \in Columns : SetColumnOverride(c)
          \/ \E profile \in SUBSET Columns : ApplyImportProfile(profile)
          \/ \E p \in Platforms : SetPlatform(p))
    BY DEF DismissNotice, RequestExport, CopyStatement, ResetSettings, UndoSettings, Replace,
       SetColumnOverride, ApplyImportProfile, SetPlatform, work
  <2> QED
    BY <2>1, <2>2, <2>3 DEF UserStep
<1>8. ~(TimerFires \/ (\E p \in LinkPaths : Retarget(p)) \/ UNCHANGED vars)
  BY DEF TimerFires, Retarget, vars, work
<1> QED
  BY <1>3, <1>4, <1>6, <1>7, <1>8 DEF Next

-----------------------------------------------------------------------------
(* The files the operations work on.                                       *)

\* A newest operation that still waits for realpath waits for a listed file.
IdentifyListed ==
    \A g \in Generations : (Current(g) /\ task[g].at = "identify") => task[g].id \in Range(files)

\* A new operation that identifies a listed file keeps it so.
LEMMA BeginsListed ==
    ASSUME ConstantAssumption, IInv, NEW tasks, Picking(tasks), NEW t, Begin(tasks, t),
           t.at = "identify" => t.id \in Range(files')
    PROVE  IdentifyListed'
BY BeginsLast DEF Picking, IdentifyListed

\* So does the first file of a new listing.
LEMMA FirstListed ==
    ASSUME ConstantAssumption, IInv, NEW tasks, Picking(tasks), NEW n,
           NEW listing \in Distinct(Paths), listing # <<>>, NEW skipped,
           SelectFirst(tasks, n, listing, skipped), files' = Ids(n, listing)
    PROVE  IdentifyListed'
<1> DEFINE id == [n |-> n, path |-> listing[1]]
           t == [IdleTask EXCEPT !.at = "identify", !.skipped = skipped, !.id = id]
<1>1. PICK k \in 0..MaxListed : listing \in [1..k -> Paths]
  BY DEF Distinct
<1>2. k \in Nat /\ DOMAIN listing = 1..k
  BY <1>1 DEF ConstantAssumption
<1>3. k # 0
  BY <1>1, <1>2
<1>4. 1 \in DOMAIN listing
  BY <1>2, <1>3
<1>5. 1 \in DOMAIN files' /\ files'[1] = id
  BY <1>4 DEF Ids
<1>6. id \in Range(files')
  BY <1>5 DEF Range
<1>7. Begin(tasks, t) /\ t.id = id
  BY DEF SelectFirst, IdleTask
<1> HIDE DEF id, t
<1> QED
  BY <1>6, <1>7, BeginsListed

\* An operation that moves on or ends leaves the others where they are.
LEMMA MovesListed ==
    ASSUME IInv, IdentifyListed, NEW g \in Generations, NEW t,
           task' = [task EXCEPT ![g] = t], t.at # "identify",
           Current(g) \/ UNCHANGED files, UNCHANGED <<generation, disposed>>
    PROVE  IdentifyListed'
<1>1. task \in [Generations -> Task]
  BY DEF IInv, TInv, TypeOK, WorkType
<1> QED
  BY <1>1 DEF IdentifyListed, Current

\* Nor does anything else disturb it while the list stays.
LEMMA StaysListed ==
    ASSUME IdentifyListed, UNCHANGED <<files, generation, task, disposed>>
    PROVE  IdentifyListed'
BY DEF IdentifyListed, Current

\* The list changes only under a new generation, or at the end of the scan that
\* was the newest operation; an id resolves only while it is in the list.
LEMMA IdentifyListedStep ==
    ASSUME ConstantAssumption, IInv, LaterIdle(task), IdentifyListed, [Next]_vars
    PROVE  IdentifyListed'
<1>0. /\ task \in [Generations -> Task] /\ IdleTask.at = "idle"
      /\ Picking(task) /\ \A g \in Generations : Picking([task EXCEPT ![g] = IdleTask])
  BY PickingNow DEF IInv, TInv, TypeOK, WorkType, IdleTask
<1>1. ASSUME NEW tasks, Picking(tasks), Picked(tasks) PROVE IdentifyListed'
  <2>1. CASE LoadDirectory(tasks)
    BY <1>1, <2>1, BeginsListed DEF LoadDirectory, Waiting, IdleTask
  <2>2. ASSUME NEW supported \in Distinct(Paths), NEW skipped, LoadFiles(tasks, supported, skipped)
        PROVE  IdentifyListed'
    <3>1. CASE supported = <<>> /\ Begin(tasks, IdleTask)
      BY <1>0, <1>1, <3>1, BeginsListed
    <3>2. CASE supported # <<>>
      BY <1>1, <2>2, <3>2, FirstListed DEF LoadFiles
    <3> QED
      BY <2>2, <3>1, <3>2 DEF LoadFiles
  <2> QED
    BY <1>1, <2>1, <2>2 DEF Picked
<1>2. ASSUME NEW g \in Generations, TaskStep(g) PROVE IdentifyListed'
  <2>1. CASE ScanDone(g)
    <3>1. PICK found \in Distinct(Paths) :
             /\ files' = Ids(listings', found)
             /\ \/ /\ found # <<>>
                   /\ SelectFirst([task EXCEPT ![g] = IdleTask], listings', found, FALSE)
                \/ Finish(g) /\ UNCHANGED generation
      BY <2>1 DEF ScanDone
    <3>2. CASE Finish(g) /\ UNCHANGED generation
      <4>1. Current(g) /\ UNCHANGED disposed
        BY <2>1 DEF ScanDone, InPlace, aside
      <4> QED
        BY <1>0, <3>2, <4>1, MovesListed DEF Finish
    <3>3. CASE ~(Finish(g) /\ UNCHANGED generation)
      BY <1>0, <3>1, <3>3, FirstListed
    <3> QED
      BY <3>2, <3>3
  <2>2. CASE IdentifyDone(g) \/ SamplePublished(g)
    <3>1. PICK at \in {"sample", "analyze"} : Move(g, at)
      BY <2>2 DEF IdentifyDone, SamplePublished
    <3>2. task' = [task EXCEPT ![g] = [task[g] EXCEPT !.at = at]]
      BY <3>1 DEF Move
    <3>3. [task[g] EXCEPT !.at = at].at # "identify"
      BY <1>0 DEF Task
    <3> QED
      BY <2>2, <3>2, <3>3, MovesListed DEF IdentifyDone, SamplePublished, chosen, aside
  <2>3. CASE \/ IdentifyDropped(g) \/ AnalysisDone(g) \/ ResampleDone(g) \/ RereadDone(g)
             \/ TaskFailed(g) \/ TaskDropped(g)
    BY <1>0, <2>3, MovesListed DEF IdentifyDropped, AnalysisDone, ResampleDone, RereadDone,
       TaskFailed, TaskDropped, Finish, chosen, aside
  <2> QED
    BY <1>2, <2>1, <2>2, <2>3 DEF TaskStep
<1>3. CASE ExportStep
  <2>1. CASE Begin(task, IdleTask)
    BY <1>0, <2>1, BeginsListed
  <2>2. CASE UNCHANGED work
    BY <1>3, <2>2, StaysListed DEF ExportStep, StartExport, ExportIdentified, ExportAnalyzed,
       ExportFailed, chosen, work, aside
  <2> QED
    BY <1>3, <2>1, <2>2 DEF ExportStep, StartExport, ExportIdentified, ExportAnalyzed, ExportFailed
<1>4. CASE HostStep
  <2>1. ASSUME NEW g \in Generations, DialogDismissed(g) \/ DialogRejected(g)
        PROVE  IdentifyListed'
    BY <1>0, <2>1, MovesListed DEF DialogDismissed, DialogRejected, Finish, chosen, aside
  <2>2. CASE ExportDelivered \/ SaveDismissed \/ CopyDone
    BY <2>2, StaysListed DEF ExportDelivered, SaveDismissed, CopyDone, chosen, work, aside
  <2> QED
    BY <1>0, <1>1, <1>4, <2>1, <2>2 DEF HostStep, DialogPicked
<1>5. CASE UserStep
  <2>1. CASE ShowLocalSource \/ BrowseLocal \/ OpenAzure \/ Dispose \/ Cancel
    BY <1>0, <2>1, BeginsListed DEF ShowLocalSource, BrowseLocal, OpenAzure, Dispose,
       Cancel, IdleTask, Waiting
  <2>2. CASE AnalyzePath
    BY <1>0, <1>1, <2>2 DEF AnalyzePath
  <2>3. ASSUME NEW id \in FileId, SelectFile(id) PROVE IdentifyListed'
    <3>1. CASE Listed(id)
      <4>1. PICK t : Begin(task, t) /\ t.id = id
        BY <2>3, <3>1 DEF SelectFile
      <4> QED
        BY <1>0, <2>3, <3>1, <4>1, BeginsListed DEF SelectFile, Listed, chosen
    <3>2. CASE ~Listed(id)
      BY <2>3, <3>2, StaysListed DEF SelectFile, chosen, work, aside
    <3> QED
      BY <3>1, <3>2
  <2>4. CASE SetPreviewRows
    BY <1>0, <2>4, BeginsListed DEF SetPreviewRows, Waiting, IdleTask
  <2>5. CASE \/ DismissNotice \/ RequestExport \/ CopyStatement \/ UndoSettings \/ ResetSettings
             \/ \E c \in Columns : SetColumnOverride(c)
             \/ \E profile \in SUBSET Columns : ApplyImportProfile(profile)
             \/ \E p \in Platforms : SetPlatform(p)
    BY <2>5, StaysListed DEF DismissNotice, RequestExport, CopyStatement, UndoSettings,
       ResetSettings, Replace, SetColumnOverride, ApplyImportProfile, SetPlatform,
       chosen, work, aside
  <2> QED
    BY <1>5, <2>1, <2>2, <2>3, <2>4, <2>5 DEF UserStep
<1>6. CASE TimerFires \/ (\E p \in LinkPaths : Retarget(p)) \/ UNCHANGED vars
  BY <1>6, StaysListed DEF TimerFires, Retarget, vars, chosen, work, aside
<1> QED
  BY <1>2, <1>3, <1>4, <1>5, <1>6 DEF Next

-----------------------------------------------------------------------------
(* The settings and their history.                                         *)

\* A file whose canonical path stays what it is.
OfFixedPath(id) == id # NoFile /\ id.path \notin LinkPaths

\* o and u are the settings and the undo step the history holds for the file.
AreSettingsOf(id, o, u) ==
    /\ o = Remembered(history, realOf[id.path])
    /\ u = CanUndo(history, realOf[id.path])

\* The file on display, or set aside with the local source, is registered under
\* its canonical path, and its settings are those of the history.
FixedSettings ==
    /\ OfFixedPath(selected) =>
          /\ identity[selected] = realOf[selected.path]
          /\ AreSettingsOf(selected, overrides, canUndo)
    /\ (retained # NoSnapshot /\ OfFixedPath(retained.selected)) =>
          /\ identity[retained.selected] = realOf[retained.selected.path]
          /\ AreSettingsOf(retained.selected, retained.overrides, retained.canUndo)

\* What is written is remembered.
LEMMA WrittenIsRemembered ==
    ASSUME NullAssumption, NEW h \in [Identities -> Entry \cup {NoEntry}], NEW i \in Identities,
           NEW value \in SUBSET Columns, NEW rememberUndo \in BOOLEAN
    PROVE  Remembered(Written(h, i, value, rememberUndo), i) = value
<1> DEFINE entry == [cur |-> value, prev |-> IF rememberUndo THEN Remembered(h, i)
                                            ELSE IF h[i] = NoEntry THEN NoEntry ELSE h[i].prev]
<1>1. CASE h[i] # NoEntry /\ h[i].cur = value
  BY <1>1 DEF Written, Remembered
<1>2. CASE ~(h[i] # NoEntry /\ h[i].cur = value)
  <2>1. entry \in Entry /\ entry.cur = value
    BY DEF Entry, Remembered
  <2>2. Written(h, i, value, rememberUndo)[i] = entry
    BY <1>2 DEF Written
  <2> HIDE DEF entry
  <2> QED
    BY <2>1, <2>2 DEF Remembered, NullAssumption
<1> QED
  BY <1>1, <1>2

\* What the types say of the settings.
LEMMA SettingsFacts ==
    ASSUME IInv
    PROVE  /\ history \in [Identities -> Entry \cup {NoEntry}] /\ overrides \in SUBSET Columns
           /\ identity \in [FileId -> Identities \cup {NoIdentity}]
           /\ realOf \in [Paths -> Identities]
           /\ selected # NoFile => selected \in FileId /\ identity[selected] \in Identities
           /\ \A id \in FileId : realOf[id.path] \in Identities
           /\ (retained # NoSnapshot /\ retained.selected # NoFile) => retained.selected \in FileId
           /\ ~disposed /\ selected # NoFile => retained = NoSnapshot /\ mode = "local"
BY DEF IInv, TInv, TypeOK, SettingsType, SourceType, AsideType, SelectedKnown, Snapshot, FileId,
   SourcesApart

\* Settings that are adopted are remembered for the selected file.
LEMMA AdoptRemembers ==
    ASSUME NullAssumption, IInv, FixedSettings, ~disposed, selected # NoFile,
           NEW h \in [Identities -> Entry \cup {NoEntry}],
           NEW value \in SUBSET Columns, NEW rememberUndo \in BOOLEAN,
           history' = Written(h, identity[selected], value, rememberUndo),
           overrides' = value, canUndo' = CanUndo(history', identity[selected]),
           UNCHANGED <<selected, retained, identity, realOf>>
    PROVE  FixedSettings'
<1>1. Remembered(history', identity[selected]) = value
  BY SettingsFacts, WrittenIsRemembered
<1>2. retained = NoSnapshot
  BY SettingsFacts
<1> QED
  BY <1>1, <1>2 DEF FixedSettings, AreSettingsOf, OfFixedPath

\* The registry may learn any file's canonical path.
LEMMA IdentifiedFixed ==
    ASSUME IInv, FixedSettings, NEW id \in FileId, Identified(id),
           UNCHANGED <<selected, retained, overrides, canUndo, history, realOf>>
    PROVE  FixedSettings'
BY SettingsFacts DEF FixedSettings, OfFixedPath, AreSettingsOf, Identified

\* A step that leaves them all alone.
LEMMA SameSettings ==
    ASSUME FixedSettings, UNCHANGED <<selected, retained, identity, settings, realOf>>
    PROVE  FixedSettings'
BY DEF FixedSettings, OfFixedPath, AreSettingsOf, settings

\* The settings, the history and the registry change together.
LEMMA FixedSettingsStep ==
    ASSUME NullAssumption, IInv, FixedSettings, [Next]_vars
    PROVE  FixedSettings'
<1>0. /\ history \in [Identities -> Entry \cup {NoEntry}] /\ overrides \in SUBSET Columns
      /\ \A k \in Generations :
           task[k].at \in {"identify", "sample", "analyze", "resample"} => task[k].id \in FileId
  BY SettingsFacts DEF IInv, TInv, TaskHasFile, HaveFiles
<1>1. ASSUME NEW tasks, Picked(tasks) PROVE FixedSettings'
  BY <1>1 DEF Picked, LoadDirectory, LoadFiles, ClearSource, FixedSettings, OfFixedPath
<1>2. ASSUME NEW value \in SUBSET Columns, NEW rememberUndo \in BOOLEAN, Adopt(value, rememberUndo),
             ~disposed, selected # NoFile, UNCHANGED <<selected, retained, identity, realOf>>
      PROVE  FixedSettings'
  BY <1>0, <1>2, AdoptRemembers DEF Adopt
<1>3. ASSUME NEW g \in Generations, TaskStep(g) PROVE FixedSettings'
  <2>1. CASE ScanDone(g)
    <3>1. selected' = NoFile /\ retained' = NoSnapshot
      BY <2>1 DEF ScanDone, InPlace, IInv, TInv, ScanSelectsNothing, source
    <3> QED
      BY <3>1 DEF FixedSettings, OfFixedPath
  <2>2. CASE IdentifyDone(g)
    <3> DEFINE id == task[g].id
               owner == realOf[id.path]
    <3>1. id \in FileId /\ owner \in Identities /\ selected' = id /\ ~disposed /\ Listed(id)
      BY <1>0, <2>2, SettingsFacts DEF IdentifyDone, InPlace, Current
    <3>2. /\ overrides' \in SUBSET Columns /\ history' = Written(history, owner, overrides', FALSE)
          /\ canUndo' = CanUndo(history', owner)
      BY <1>0, <2>2, <3>1, RememberedType DEF IdentifyDone
    <3>3. Remembered(history', owner) = overrides'
      BY <1>0, <3>1, <3>2, WrittenIsRemembered
    <3>4. identity'[id] = owner /\ UNCHANGED <<retained, realOf>>
      BY <2>2, <3>1, SettingsFacts DEF IdentifyDone, Identified, source, aside
    <3>5. retained = NoSnapshot
      BY <3>1 DEF IInv, SourcesApart, Listed, Range
    <3> QED
      BY <3>1, <3>2, <3>3, <3>4, <3>5 DEF FixedSettings, AreSettingsOf
  <2>3. CASE SamplePublished(g) \/ AnalysisDone(g) \/ ResampleDone(g)
    <3>1. /\ ~disposed /\ selected # NoFile /\ UNCHANGED <<selected, retained, identity, realOf>>
          /\ \E value \in SUBSET Columns : Adopt(value, FALSE)
      <4>1. task[g].id \in FileId /\ selected = task[g].id /\ ~disposed
        BY <1>0, <2>3 DEF SamplePublished, AnalysisDone, ResampleDone, InPlace, Current
      <4>2. UNCHANGED <<selected, retained, identity, realOf>>
        BY <2>3 DEF SamplePublished, AnalysisDone, ResampleDone, chosen, source, aside
      <4>3. \E value \in SUBSET Columns : Adopt(value, FALSE)
        BY <1>0, <2>3, MatchingType DEF SamplePublished, AnalysisDone, ResampleDone, Apply
      <4> QED
        BY <4>1, <4>2, <4>3 DEF NullAssumption
    <3> QED
      BY <1>2, <3>1
  <2>4. CASE IdentifyDropped(g)
    BY <1>0, <2>4, IdentifiedFixed DEF IdentifyDropped, InPlace, chosen, source, settings, aside
  <2>5. CASE RereadDone(g) \/ TaskFailed(g) \/ TaskDropped(g)
    BY <2>5, SameSettings DEF RereadDone, TaskFailed, TaskDropped, chosen, source, aside
  <2> QED
    BY <1>3, <2>1, <2>2, <2>3, <2>4, <2>5 DEF TaskStep
<1>4. CASE ExportStep
  <2>1. CASE ExportIdentified
    <3>1. Head(exporter.rest) \in FileId
      <4>1. exporter.rest \in Seq(FileId) /\ exporter.rest # <<>>
        BY <2>1 DEF ExportIdentified, IInv, TInv, TypeOK, QueueType, Exporter
      <4> QED
        BY <4>1
    <3> QED
      BY <2>1, <3>1, IdentifiedFixed DEF ExportIdentified, chosen, source, settings, aside
  <2>2. CASE StartExport \/ ExportAnalyzed \/ ExportFailed
    BY <2>2, SameSettings DEF StartExport, ExportAnalyzed, ExportFailed, chosen, source, aside
  <2> QED
    BY <1>4, <2>1, <2>2 DEF ExportStep
<1>5. CASE HostStep
  BY <1>1, <1>5, SameSettings DEF HostStep, DialogPicked, DialogDismissed, DialogRejected,
     ExportDelivered, SaveDismissed, CopyDone, chosen, source, aside
<1>6. CASE UserStep
  <2>1. CASE ShowLocalSource \/ BrowseLocal
    <3>1. ActivateLocal /\ UNCHANGED <<identity, realOf>>
      BY <2>1 DEF ShowLocalSource, BrowseLocal, aside
    <3> QED
      BY <3>1 DEF ActivateLocal, ClearSource, FixedSettings, OfFixedPath, AreSettingsOf
  <2>2. CASE OpenAzure
    BY <2>2 DEF OpenAzure, ClearSource, FixedSettings, OfFixedPath, AreSettingsOf, aside
  <2>3. CASE Dispose
    BY <2>3 DEF Dispose, FixedSettings, OfFixedPath, AreSettingsOf, settings, chosen
  <2>4. CASE AnalyzePath
    BY <1>1, <2>4 DEF AnalyzePath
  <2>5. CASE \/ Cancel \/ SetPreviewRows \/ DismissNotice \/ RequestExport \/ CopyStatement
             \/ \E id \in FileId : SelectFile(id)
             \/ \E p \in Platforms : SetPlatform(p)
    BY <2>5, SameSettings DEF Cancel, SetPreviewRows, DismissNotice, RequestExport, CopyStatement,
       SelectFile, SetPlatform, chosen, source, aside
  <2>6. CASE \/ ResetSettings
             \/ \E c \in Columns : SetColumnOverride(c)
             \/ \E profile \in SUBSET Columns : ApplyImportProfile(profile)
    <3>1. /\ ~disposed /\ selected # NoFile /\ UNCHANGED <<selected, retained, identity, realOf>>
      BY <2>6 DEF ResetSettings, SetColumnOverride, ApplyImportProfile, Replace, Editable,
         chosen, source, aside
    <3>2. \E value \in SUBSET Columns : Adopt(value, TRUE)
      BY <1>0, <2>6, MatchingType DEF ResetSettings, SetColumnOverride, ApplyImportProfile, Replace
    <3> QED
      BY <1>2, <3>1, <3>2
  <2>7. CASE UndoSettings
    <3> DEFINE owner == identity[selected]
               kept == Matching(history[owner].prev, raw)
               undone == [history EXCEPT ![owner] = [cur |-> history[owner].prev, prev |-> NoEntry]]
    <3>1. /\ ~disposed /\ selected # NoFile /\ UNCHANGED <<selected, retained, identity, realOf>>
          /\ CanUndo(history, owner) /\ history' = Written(undone, owner, kept, FALSE)
          /\ overrides' = kept /\ canUndo' = CanUndo(history', owner)
      BY <2>7 DEF UndoSettings, Editable, chosen, source, aside
    <3>2. owner \in Identities
      BY <3>1, SettingsFacts
    <3>3. history[owner].prev \in SUBSET Columns
      BY <1>0, <3>1, <3>2 DEF CanUndo, Entry
    <3>4. kept \in SUBSET Columns /\ undone \in [Identities -> Entry \cup {NoEntry}]
      BY <1>0, <3>3, MatchingType DEF Entry
    <3> HIDE DEF kept, undone
    <3> QED
      BY <3>1, <3>4, AdoptRemembers
  <2> QED
    BY <1>6, <2>1, <2>2, <2>3, <2>4, <2>5, <2>6, <2>7 DEF UserStep
<1>7. CASE TimerFires \/ UNCHANGED vars
  BY <1>7, SameSettings DEF TimerFires, vars, chosen, source, aside
<1>8. ASSUME NEW p \in LinkPaths, Retarget(p) PROVE FixedSettings'
  BY <1>8, SettingsFacts DEF Retarget, FixedSettings, OfFixedPath, AreSettingsOf, chosen, source, settings, FileId
<1> QED
  BY <1>3, <1>4, <1>5, <1>6, <1>7, <1>8 DEF Next

\* A selection under way knows the identity the file on display had when it
\* began, which is still its identity.
SeenFixed ==
    \A g \in Generations : Current(g) /\ task[g].at = "identify" /\ OfFixedPath(selected) =>
        task[g].seen = realOf[selected.path]

\* A selection that begins has seen it, any other operation need not.
LEMMA SeenBegins ==
    ASSUME ConstantAssumption, IInv, NEW tasks, Picking(tasks), NEW t, Begin(tasks, t),
           t.at = "identify" /\ OfFixedPath(selected') => t.seen = realOf'[selected'.path]
    PROVE  SeenFixed'
BY BeginsLast DEF Picking, SeenFixed, OfFixedPath

\* A step that begins no selection and changes no file on display.
LEMMA SeenStays ==
    ASSUME SeenFixed, UNCHANGED <<selected, generation, disposed, realOf>>,
           \A g \in Generations : task'[g] = task[g] \/ task'[g].at # "identify"
    PROVE  SeenFixed'
BY DEF SeenFixed, OfFixedPath, Current

\* What a selection has seen does not go stale while it is current.
LEMMA SeenFixedStep ==
    ASSUME ConstantAssumption, NullAssumption, IInv, LaterIdle(task), FixedSettings, SeenFixed,
           [Next]_vars
    PROVE  SeenFixed'
<1>0. /\ task \in [Generations -> Task] /\ IdleTask.at = "idle"
      /\ Picking(task) /\ \A g \in Generations : Picking([task EXCEPT ![g] = IdleTask])
  BY PickingNow DEF IInv, TInv, TypeOK, WorkType, IdleTask
<1>1. ASSUME NEW tasks, Picking(tasks), Picked(tasks) PROVE SeenFixed'
  BY <1>1, SeenBegins DEF Picked, LoadDirectory, LoadFiles, SelectFirst, ClearSource, OfFixedPath
<1>2. ASSUME NEW g \in Generations, TaskStep(g) PROVE SeenFixed'
  <2>1. CASE ScanDone(g)
    <3>1. selected' = NoFile
      BY <2>1 DEF ScanDone, InPlace, IInv, TInv, ScanSelectsNothing
    <3> QED
      BY <3>1 DEF SeenFixed, OfFixedPath
  <2>2. CASE IdentifyDone(g)
    <3>1. task'[g].at # "identify" /\ UNCHANGED <<generation, disposed>> /\ Current(g)
      BY <1>0, <2>2 DEF IdentifyDone, Move, Task, InPlace, aside
    <3> QED
      BY <3>1 DEF SeenFixed, Current
  <2>3. CASE SamplePublished(g)
    <3>1. \A h \in Generations : task'[h] = task[h] \/ task'[h].at # "identify"
      BY <1>0, <2>3 DEF SamplePublished, Move, Task
    <3> QED
      BY <2>3, <3>1, SeenStays DEF SamplePublished, chosen, aside
  <2>4. CASE \/ IdentifyDropped(g) \/ AnalysisDone(g) \/ ResampleDone(g) \/ RereadDone(g)
             \/ TaskFailed(g) \/ TaskDropped(g)
    <3>1. \A h \in Generations : task'[h] = task[h] \/ task'[h].at # "identify"
      BY <1>0, <2>4 DEF IdentifyDropped, AnalysisDone, ResampleDone, RereadDone, TaskFailed,
         TaskDropped, Finish
    <3> QED
      BY <2>4, <3>1, SeenStays DEF IdentifyDropped, AnalysisDone, ResampleDone, RereadDone,
         TaskFailed, TaskDropped, chosen, aside
  <2> QED
    BY <1>2, <2>1, <2>2, <2>3, <2>4 DEF TaskStep
<1>3. CASE ExportStep
  <2>1. CASE \E t : Begin(task, t) /\ t.at = "idle"
    BY <1>0, <2>1, SeenBegins
  <2>2. CASE UNCHANGED <<generation, task>>
    BY <1>3, <2>2, SeenStays DEF ExportStep, StartExport, ExportIdentified, ExportAnalyzed,
       ExportFailed, chosen, aside
  <2> QED
    BY <1>0, <1>3, <2>1, <2>2 DEF ExportStep, StartExport, ExportIdentified, ExportAnalyzed,
       ExportFailed, work
<1>4. CASE HostStep
  <2>1. ASSUME NEW g \in Generations, DialogDismissed(g) \/ DialogRejected(g)
        PROVE  SeenFixed'
    <3>1. \A h \in Generations : task'[h] = task[h] \/ task'[h].at # "identify"
      BY <1>0, <2>1 DEF DialogDismissed, DialogRejected, Finish
    <3> QED
      BY <2>1, <3>1, SeenStays DEF DialogDismissed, DialogRejected, chosen, aside
  <2> QED
    BY <1>0, <1>1, <1>4, <2>1, SeenStays DEF HostStep, DialogPicked, ExportDelivered,
       SaveDismissed, CopyDone, chosen, work, aside
<1>5. CASE UserStep
  <2>1. CASE ShowLocalSource \/ BrowseLocal \/ OpenAzure \/ Dispose \/ Cancel \/ SetPreviewRows
    <3>1. IdleTask.at # "identify" /\ Waiting("dialog", NoFile).at # "identify"
      BY DEF IdleTask, Waiting
    <3>2. CASE SetPreviewRows
      <4>1. PICK at \in {"resample", "analyze", "reread"} : Begin(task, Waiting(at, selected))
        BY <3>2 DEF SetPreviewRows
      <4>2. Waiting(at, selected).at # "identify"
        BY DEF IdleTask, Waiting
      <4> QED
        BY <1>0, <4>1, <4>2, SeenBegins
    <3>3. CASE ~SetPreviewRows
      BY <1>0, <2>1, <3>1, <3>3, SeenBegins DEF ShowLocalSource, BrowseLocal, OpenAzure,
         Dispose, Cancel
    <3> QED
      BY <3>2, <3>3
  <2>2. CASE AnalyzePath
    BY <1>0, <1>1, <2>2 DEF AnalyzePath
  <2>3. ASSUME NEW id \in FileId, SelectFile(id) PROVE SeenFixed'
    <3>1. CASE UNCHANGED work
      BY <2>3, <3>1, SeenStays DEF SelectFile, chosen, work, aside
    <3>2. CASE ~UNCHANGED work
      <4>1. PICK t : Begin(task, t) /\ (selected # NoFile => t.seen = identity[selected])
        BY <2>3, <3>2 DEF SelectFile
      <4>2. UNCHANGED <<selected, realOf>>
        BY <2>3 DEF SelectFile, chosen, aside
      <4> QED
        BY <1>0, <4>1, <4>2, SeenBegins DEF FixedSettings, OfFixedPath
    <3> QED
      BY <3>1, <3>2
  <2>4. CASE DismissNotice \/ RequestExport \/ CopyStatement \/ UndoSettings
    BY <2>4, SeenStays DEF DismissNotice, RequestExport, CopyStatement, UndoSettings,
       chosen, work, aside
  <2>5. CASE \/ ResetSettings
             \/ \E c \in Columns : SetColumnOverride(c)
             \/ \E profile \in SUBSET Columns : ApplyImportProfile(profile)
             \/ \E p \in Platforms : SetPlatform(p)
    BY <2>5, SeenStays DEF ResetSettings, Replace, SetColumnOverride, ApplyImportProfile,
       SetPlatform, chosen, work, aside
  <2> QED
    BY <1>5, <2>1, <2>2, <2>3, <2>4, <2>5 DEF UserStep
<1>6. CASE TimerFires \/ UNCHANGED vars
  BY <1>6, SeenStays DEF TimerFires, vars, chosen, work, aside
<1>7. ASSUME NEW p \in LinkPaths, Retarget(p) PROVE SeenFixed'
  BY <1>7, SettingsFacts DEF Retarget, SeenFixed, OfFixedPath, Current, chosen, work, FileId
<1> QED
  BY <1>2, <1>3, <1>4, <1>5, <1>6, <1>7 DEF Next

\* A step that analyses the file on display, of a fixed canonical path, takes
\* away no override but those an exact schema shows to be of no column.
KeepsEdits ==
    (/\ selected' = selected /\ mode' = mode /\ raw' # raw /\ overrides' # overrides
     /\ selected # NoFile => OfFixedPath(selected))
       => /\ raw' # NoMetadata /\ raw'.stage = "exact"
          /\ overrides' = overrides \cap raw'.cols

\* An analysis of a file that keeps its canonical path keeps the edits made
\* while it ran.
LEMMA EditsStep ==
    ASSUME ConstantAssumption, NullAssumption, IInv, FixedSettings, SeenFixed, [Next]_vars
    PROVE  KeepsEdits
<1> SUFFICES ASSUME selected' = selected, mode' = mode, raw' # raw, overrides' # overrides,
                    selected # NoFile => OfFixedPath(selected)
             PROVE  raw' # NoMetadata /\ raw'.stage = "exact"
                    /\ overrides' = overrides \cap raw'.cols
  BY DEF KeepsEdits
<1> DEFINE Kept == raw' # NoMetadata /\ raw'.stage = "exact" /\ overrides' = overrides \cap raw'.cols
<1>0. ~disposed /\ selected = NoFile => raw = NoMetadata
  BY DEF IInv, DisplayIsOneAnalysis
<1>1. ASSUME NEW tasks, Picked(tasks), ~disposed PROVE FALSE
  BY <1>0, <1>1 DEF Picked, LoadDirectory, LoadFiles, ClearSource
<1>2. ASSUME NEW g \in Generations, TaskStep(g) PROVE Kept
  <2>1. ~IdentifyDone(g)
    <3> SUFFICES ASSUME IdentifyDone(g) PROVE FALSE
      OBVIOUS
    <3>1. selected = task[g].id /\ task[g].at = "identify" /\ Current(g) /\ task[g].id \in FileId
      BY DEF IdentifyDone, InPlace, IInv, TInv, TaskHasFile, HaveFiles
    <3>2. task[g].seen = realOf[task[g].id.path]
      BY <3>1 DEF SeenFixed, NullAssumption
    <3> QED
      BY <3>1, <3>2 DEF IdentifyDone
  <2>2. CASE AnalysisDone(g)
    <3>1. PICK stage \in FinalStages, cols \in Schemas :
            LET m == [path |-> task[g].id.path, stage |-> stage, cols |-> cols]
            IN  Apply(m, Matching(overrides, m))
      BY <2>2 DEF AnalysisDone
    <3> DEFINE m == [path |-> task[g].id.path, stage |-> stage, cols |-> cols]
    <3>2. task[g].id \in FileId
      BY <2>2 DEF AnalysisDone, IInv, TInv, TaskHasFile, HaveFiles
    <3>3. m \in Metadata /\ m # NoMetadata
      BY <3>2 DEF Metadata, Stages, FileId, NullAssumption
    <3>4. raw' = m /\ overrides' = Matching(overrides, m)
      BY <3>1 DEF Apply, Adopt
    <3> HIDE DEF m
    <3> QED
      BY <3>3, <3>4 DEF Matching
  <2>3. ~(SamplePublished(g) \/ ResampleDone(g))
    BY DEF SamplePublished, ResampleDone, Apply, Adopt
  <2>4. ~(ScanDone(g) \/ IdentifyDropped(g) \/ RereadDone(g) \/ TaskFailed(g) \/ TaskDropped(g))
    BY DEF ScanDone, IdentifyDropped, RereadDone, TaskFailed, TaskDropped, settings
  <2> QED
    BY <1>2, <2>1, <2>2, <2>3, <2>4 DEF TaskStep
<1>3. ~ExportStep
  BY DEF ExportStep, StartExport, ExportIdentified, ExportAnalyzed, ExportFailed, settings
<1>4. ~HostStep
  BY <1>1 DEF HostStep, DialogPicked, InPlace, Current, DialogDismissed, DialogRejected,
     ExportDelivered, SaveDismissed, CopyDone, settings
<1>5. ~UserStep
  <2>1. ~(ShowLocalSource \/ BrowseLocal)
    <3> SUFFICES ASSUME ActivateLocal, ~disposed PROVE FALSE
      BY DEF ShowLocalSource, BrowseLocal
    <3>1. retained = NoSnapshot
      BY DEF ActivateLocal, IInv, SourcesApart
    <3> QED
      BY <1>0, <3>1 DEF ActivateLocal, ClearSource
  <2>2. ~(OpenAzure \/ Dispose \/ AnalyzePath \/ Cancel \/ SetPreviewRows)
    BY <1>1 DEF OpenAzure, Dispose, AnalyzePath, Cancel, SetPreviewRows, settings, result
  <2>3. ~(\/ DismissNotice \/ RequestExport \/ CopyStatement \/ UndoSettings \/ ResetSettings
          \/ \E id \in FileId : SelectFile(id)
          \/ \E c \in Columns : SetColumnOverride(c)
          \/ \E profile \in SUBSET Columns : ApplyImportProfile(profile)
          \/ \E p \in Platforms : SetPlatform(p))
    BY DEF DismissNotice, RequestExport, CopyStatement, UndoSettings, ResetSettings, Replace,
       SelectFile, SetColumnOverride, ApplyImportProfile, SetPlatform, result
  <2> QED
    BY <2>1, <2>2, <2>3 DEF UserStep
<1>6. ~(TimerFires \/ (\E p \in LinkPaths : Retarget(p)) \/ UNCHANGED vars)
  BY DEF TimerFires, Retarget, vars, settings, result
<1> QED
  BY <1>2, <1>3, <1>4, <1>5, <1>6 DEF Next

-----------------------------------------------------------------------------
(* The export.                                                             *)

\* While it runs no operation does, the files it still has to read are listed,
\* and so are those it has read, under the identities it read them with.
ExporterInv ==
    /\ exporter.gen <= generation
    /\ Exporting =>
          /\ exporter.gen \in Generations /\ task[exporter.gen].at = "idle"
          /\ \A i \in DOMAIN exporter.rest : Listed(exporter.rest[i])
          /\ \A e \in exporter.done :
                /\ Listed(e.id)
                /\ OfFixedPath(e.id) =>
                      e.owner = realOf[e.id.path] /\ identity[e.id] = e.owner

\* An operation that begins ends the export's turn.
LEMMA ExporterSuperseded ==
    ASSUME ConstantAssumption, IInv, ExporterInv, NEW tasks, Picking(tasks), NEW t,
           Begin(tasks, t), UNCHANGED exporter
    PROVE  ExporterInv'
<1>1. generation' = generation + 1 /\ generation \in Nat /\ exporter.gen \in 0..MaxGeneration
  BY BeginsLast DEF Picking, IInv, TInv, TypeOK, WorkType, QueueType, Exporter
<1>2. exporter.gen <= generation' /\ exporter.gen # generation'
  BY <1>1 DEF ExporterInv, ConstantAssumption
<1> QED
  BY <1>2 DEF ExporterInv, Exporting, Current

\* No other operation is current while the export is.
LEMMA ExporterAlone ==
    ASSUME ExporterInv, NEW g \in Generations, Current(g), task[g].at # "idle"
    PROVE  ~Exporting
BY DEF ExporterInv, Exporting, Current

\* An export that is not current does not become so.
LEMMA ExporterOut ==
    ASSUME ExporterInv, ~Exporting, UNCHANGED <<exporter, generation, disposed>>
    PROVE  ExporterInv'
BY DEF ExporterInv, Exporting, Current

\* The end of a superseded operation, and a late identity, leave it as it is.
LEMMA ExporterStays ==
    ASSUME ExporterInv, UNCHANGED <<exporter, generation, disposed, files>>,
           \A g \in Generations : task[g].at = "idle" => task'[g].at = "idle",
           \A id : OfFixedPath(id) /\ Listed(id) =>
               /\ realOf'[id.path] = realOf[id.path]
               /\ identity'[id] \in {identity[id], realOf[id.path]}
    PROVE  ExporterInv'
<1>1. Exporting' <=> Exporting
  BY DEF Exporting, Current
<1> QED
  BY <1>1 DEF ExporterInv, OfFixedPath, Listed

\* Only the export moves its files on, and all that registers an identity
\* meanwhile registers the canonical path.
LEMMA ExporterStep ==
    ASSUME ConstantAssumption, NullAssumption, IInv, LaterIdle(task), ExporterInv, [Next]_vars
    PROVE  ExporterInv'
<1>0. /\ task \in [Generations -> Task] /\ IdleTask.at = "idle" /\ exporter \in Exporter
      /\ generation \in Nat /\ files \in Seq(FileId)
      /\ identity \in [FileId -> Identities \cup {NoIdentity}]
      /\ Picking(task) /\ \A g \in Generations : Picking([task EXCEPT ![g] = IdleTask])
  BY PickingNow DEF IInv, TInv, TypeOK, WorkType, QueueType, SourceType, IdleTask,
     ConstantAssumption
<1>1. ASSUME NEW tasks, Picking(tasks), Picked(tasks) PROVE ExporterInv'
  BY <1>1, ExporterSuperseded DEF Picked, LoadDirectory, LoadFiles, SelectFirst, queued
<1>2. ASSUME NEW g \in Generations, Finish(g)
      PROVE  \A h \in Generations : task[h].at = "idle" => task'[h].at = "idle"
  BY <1>0, <1>2 DEF Finish
<1>3. ASSUME NEW g \in Generations, TaskStep(g) PROVE ExporterInv'
  <2>1. CASE \/ IdentifyDone(g) \/ SamplePublished(g) \/ AnalysisDone(g) \/ ResampleDone(g)
             \/ RereadDone(g) \/ TaskFailed(g)
    <3>1. /\ Current(g) /\ task[g].at # "idle" /\ UNCHANGED <<exporter, generation, disposed>>
      BY <2>1 DEF IdentifyDone, SamplePublished, AnalysisDone, ResampleDone, RereadDone,
         TaskFailed, InPlace, Waits, queued, aside
    <3> QED
      BY <3>1, ExporterAlone, ExporterOut
  <2>2. CASE ScanDone(g)
    <3>1. Current(g) /\ task[g].at # "idle" /\ UNCHANGED <<exporter, disposed>>
      BY <2>2 DEF ScanDone, InPlace, queued, aside
    <3>2. CASE UNCHANGED generation
      BY <3>1, <3>2, ExporterAlone, ExporterOut
    <3>3. CASE ~UNCHANGED generation
      <4>1. PICK t : Begin([task EXCEPT ![g] = IdleTask], t)
        BY <2>2, <3>3 DEF ScanDone, SelectFirst
      <4> QED
        BY <1>0, <3>1, <4>1, ExporterSuperseded
    <3> QED
      BY <3>2, <3>3
  <2>3. CASE IdentifyDropped(g) \/ TaskDropped(g)
    <3>1. \A id \in FileId : identity'[id] \in {identity[id], realOf[id.path]}
      BY <1>0, <2>3 DEF IdentifyDropped, TaskDropped, Identified
    <3>2. \A id : Listed(id) => id \in FileId
      BY <1>0 DEF Listed, Range
    <3>3. UNCHANGED <<exporter, generation, disposed, files, realOf>> /\ Finish(g)
      BY <2>3 DEF IdentifyDropped, TaskDropped, chosen, queued, aside
    <3> QED
      BY <1>2, <3>1, <3>2, <3>3, ExporterStays
  <2> QED
    BY <1>3, <2>1, <2>2, <2>3 DEF TaskStep
<1>4. CASE ExportStep
  <2>1. CASE StartExport
    <3>1. CASE UNCHANGED <<work, exporter>>
      BY <2>1, <3>1, ExporterStays DEF StartExport, chosen, work, aside
    <3>2. CASE ~UNCHANGED <<work, exporter>>
      <4>1. /\ Begin(task, IdleTask) /\ UNCHANGED files
            /\ exporter' = [IdleExporter EXCEPT !.at = "identify", !.rest = files,
                                                !.gen = generation + 1]
        BY <2>1, <3>2 DEF StartExport, chosen
      <4>2. generation' = generation + 1 /\ generation' \in Generations /\ task'[generation'] = IdleTask
        BY <1>0, <4>1, BeginsLast DEF Picking
      <4>3. exporter'.gen = generation' /\ exporter'.done = {} /\ exporter'.rest = files
        BY <4>1, <4>2 DEF IdleExporter
      <4>4. \A i \in DOMAIN files : Listed(files[i])'
        BY <1>0, <4>1 DEF Listed, Range
      <4> QED
        BY <1>0, <4>1, <4>2, <4>3, <4>4 DEF ExporterInv, Generations
    <3> QED
      BY <3>1, <3>2
  <2>2. CASE ExportIdentified
    <3> DEFINE id == Head(exporter.rest)
               entry == [id |-> id, owner |-> realOf[id.path]]
    <3>1. /\ exporter.rest # <<>> /\ exporter.rest \in Seq(FileId) /\ exporter.at = "identify"
          /\ UNCHANGED <<files, task, generation, disposed, realOf>>
      BY <1>0, <2>2 DEF ExportIdentified, Exporter, chosen, work, aside
    <3>2. CASE ~Current(exporter.gen)
      BY <1>0, <2>2, <3>1, <3>2 DEF ExportIdentified, ExporterInv, Exporting, IdleExporter
    <3>3. CASE Current(exporter.gen)
      <4>1. Listed(id) /\ id \in FileId
        BY <3>1, <3>3 DEF ExporterInv, Exporting
      <4>2. identity' = [identity EXCEPT ![id] = realOf[id.path]]
        BY <2>2, <4>1 DEF ExportIdentified, Identified
      <4>3. \A i \in FileId : identity'[i] \in {identity[i], realOf[i.path]}
        BY <1>0, <4>1, <4>2
      <4>4. identity'[id] = realOf[id.path]
        BY <1>0, <4>1, <4>2
      <4>5. /\ exporter'.gen = exporter.gen /\ exporter'.rest = exporter.rest
            /\ exporter'.done = exporter.done \cup {entry}
        BY <1>0, <2>2, <3>3 DEF ExportIdentified, Exporter
      <4>6. \A i : Listed(i) => Listed(i)' /\ i \in FileId
        BY <1>0, <3>1 DEF Listed, Range
      <4>7. entry.id = id /\ entry.owner = realOf[id.path]
        OBVIOUS
      <4> HIDE DEF id, entry
      <4>8. \A e \in exporter'.done :
              /\ Listed(e.id)'
              /\ OfFixedPath(e.id) => e.owner = realOf[e.id.path] /\ identity'[e.id] = e.owner
        BY <3>1, <3>3, <4>1, <4>3, <4>4, <4>5, <4>6, <4>7 DEF ExporterInv, Exporting
      <4> QED
        BY <3>1, <3>3, <4>5, <4>6, <4>8 DEF ExporterInv, Exporting, OfFixedPath
    <3> QED
      BY <3>2, <3>3
  <2>3. CASE ExportAnalyzed
    <3>1. UNCHANGED <<files, identity, task, generation, disposed, realOf>> /\ exporter.at = "analyze"
      BY <2>3 DEF ExportAnalyzed, chosen, work, aside
    <3>2. CASE /\ Current(exporter.gen) /\ Len(exporter.rest) > 1
               /\ exporter' = [exporter EXCEPT !.at = "identify", !.rest = Tail(@)]
      <4>1. /\ exporter'.gen = exporter.gen /\ exporter'.done = exporter.done
            /\ exporter'.rest = Tail(exporter.rest) /\ exporter.rest \in Seq(FileId)
        BY <1>0, <3>2 DEF Exporter
      <4>2. \A i \in DOMAIN exporter'.rest : i + 1 \in DOMAIN exporter.rest
                                            /\ exporter'.rest[i] = exporter.rest[i + 1]
        BY <3>2, <4>1
      <4> QED
        BY <3>1, <3>2, <4>1, <4>2 DEF ExporterInv, Exporting, OfFixedPath, Listed
    <3>3. CASE exporter' = IdleExporter
      BY <1>0, <3>1, <3>3 DEF ExporterInv, Exporting, IdleExporter
    <3>4. CASE exporter' = [exporter EXCEPT !.at = "save", !.rest = <<>>, !.done = {},
                                            !.script = {Part(e) : e \in exporter.done}]
      BY <1>0, <3>1, <3>4 DEF ExporterInv, Exporting, Exporter
    <3> QED
      BY <2>3, <3>2, <3>3, <3>4 DEF ExportAnalyzed
  <2>4. CASE ExportFailed
    BY <1>0, <2>4 DEF ExportFailed, ExporterInv, Exporting, IdleExporter, work
  <2> QED
    BY <1>4, <2>1, <2>2, <2>3, <2>4 DEF ExportStep
<1>5. CASE HostStep
  <2>1. ASSUME NEW g \in Generations, DialogDismissed(g) \/ DialogRejected(g) PROVE ExporterInv'
    BY <1>2, <2>1, ExporterStays DEF DialogDismissed, DialogRejected, chosen, queued, aside
  <2>2. CASE ExportDelivered \/ SaveDismissed
    BY <1>0, <2>2 DEF ExportDelivered, SaveDismissed, ExporterInv, Exporting, IdleExporter,
       Exporter, work
  <2>3. CASE CopyDone
    BY <2>3, ExporterStays DEF CopyDone, chosen, work, aside
  <2> QED
    BY <1>0, <1>1, <1>5, <2>1, <2>2, <2>3 DEF HostStep, DialogPicked
<1>6. CASE UserStep
  <2>1. CASE ShowLocalSource \/ BrowseLocal \/ OpenAzure \/ Dispose \/ Cancel \/ SetPreviewRows
    BY <1>0, <2>1, ExporterSuperseded DEF ShowLocalSource, BrowseLocal, OpenAzure, Dispose,
       Cancel, SetPreviewRows, queued
  <2>2. CASE AnalyzePath
    BY <1>0, <1>1, <2>2 DEF AnalyzePath
  <2>3. ASSUME NEW id \in FileId, SelectFile(id) PROVE ExporterInv'
    BY <1>0, <2>3, ExporterSuperseded, ExporterStays DEF SelectFile, chosen, work, queued, aside
  <2>4. CASE DismissNotice \/ RequestExport \/ CopyStatement \/ UndoSettings
    BY <2>4, ExporterStays DEF DismissNotice, RequestExport, CopyStatement, UndoSettings,
       chosen, work, queued, aside
  <2>5. CASE \/ ResetSettings
             \/ \E c \in Columns : SetColumnOverride(c)
             \/ \E profile \in SUBSET Columns : ApplyImportProfile(profile)
             \/ \E p \in Platforms : SetPlatform(p)
    BY <2>5, ExporterStays DEF ResetSettings, Replace, SetColumnOverride, ApplyImportProfile,
       SetPlatform, chosen, work, queued, aside
  <2> QED
    BY <1>6, <2>1, <2>2, <2>3, <2>4, <2>5 DEF UserStep
<1>7. CASE TimerFires \/ UNCHANGED vars
  BY <1>7, ExporterStays DEF TimerFires, vars, chosen, work, queued, aside
<1>8. ASSUME NEW p \in LinkPaths, Retarget(p) PROVE ExporterInv'
  <2>1. \A id : OfFixedPath(id) /\ Listed(id) => realOf'[id.path] = realOf[id.path]
    <3> SUFFICES ASSUME NEW id, OfFixedPath(id), Listed(id) PROVE realOf'[id.path] = realOf[id.path]
      OBVIOUS
    <3>1. id \in FileId
      BY <1>0 DEF Listed, Range
    <3>2. id.path \in Paths /\ id.path # p
      BY <1>8, <3>1 DEF OfFixedPath, FileId
    <3>3. PICK i : realOf' = [realOf EXCEPT ![p] = i]
      BY <1>8 DEF Retarget
    <3> QED
      BY <3>2, <3>3, SettingsFacts
  <2> QED
    BY <1>8, <2>1, ExporterStays DEF Retarget, chosen, work, queued, aside
<1> QED
  BY <1>3, <1>4, <1>5, <1>6, <1>7, <1>8 DEF Next

\* A step that assembles a script writes the part of each file of a fixed
\* canonical path with the settings of that file.
WritesOwnSettings ==
    (exporter.script = {} /\ exporter'.script # {}) =>
        \A e \in exporter'.script :
            OfFixedPath(e.id) =>
                e.overrides = IF e.id = selected THEN overrides
                              ELSE Remembered(history, identity[e.id])

\* The owner each file was read under is still its identity.
LEMMA ScriptStep ==
    ASSUME NullAssumption, IInv, FixedSettings, ExporterInv, [Next]_vars
    PROVE  WritesOwnSettings
<1> SUFFICES ASSUME exporter.script = {}, exporter'.script # {}
             PROVE  \A e \in exporter'.script :
                        OfFixedPath(e.id) =>
                            e.overrides = IF e.id = selected THEN overrides
                                          ELSE Remembered(history, identity[e.id])
  BY DEF WritesOwnSettings
<1>0. exporter \in Exporter /\ IdleExporter.script = {} /\ files \in Seq(FileId)
  BY DEF IInv, TInv, TypeOK, QueueType, SourceType, IdleExporter
<1>1. \A g \in Generations : ~TaskStep(g)
  BY DEF TaskStep, ScanDone, IdentifyDone, IdentifyDropped, SamplePublished, AnalysisDone,
     ResampleDone, RereadDone, TaskFailed, TaskDropped, queued
<1>2. \A tasks : ~Picked(tasks)
  BY DEF Picked, LoadDirectory, LoadFiles, queued
<1>3. ~HostStep
  BY <1>0, <1>2 DEF HostStep, DialogPicked, DialogDismissed, DialogRejected, ExportDelivered,
     SaveDismissed, CopyDone, Exporter, queued
<1>4. ~UserStep
  <2>1. ~(\/ ShowLocalSource \/ BrowseLocal \/ OpenAzure \/ Dispose \/ Cancel \/ SetPreviewRows
          \/ AnalyzePath \/ DismissNotice \/ RequestExport \/ CopyStatement \/ UndoSettings)
    BY <1>2 DEF ShowLocalSource, BrowseLocal, OpenAzure, Dispose, Cancel, SetPreviewRows,
       AnalyzePath, DismissNotice, RequestExport, CopyStatement, UndoSettings, queued
  <2>2. ~(\/ ResetSettings
          \/ \E id \in FileId : SelectFile(id)
          \/ \E c \in Columns : SetColumnOverride(c)
          \/ \E profile \in SUBSET Columns : ApplyImportProfile(profile)
          \/ \E p \in Platforms : SetPlatform(p))
    BY DEF ResetSettings, Replace, SelectFile, SetColumnOverride, ApplyImportProfile,
       SetPlatform, queued
  <2> QED
    BY <2>1, <2>2 DEF UserStep
<1>5. ~(TimerFires \/ (\E p \in LinkPaths : Retarget(p)) \/ UNCHANGED vars)
  BY DEF TimerFires, Retarget, vars, queued
<1>6. ExportAnalyzed
  BY <1>0, <1>1, <1>3, <1>4, <1>5 DEF Next, ExportStep, StartExport, ExportIdentified,
     ExportFailed, IdleExporter, Exporter
<1>7. Exporting /\ exporter'.script = {Part(e) : e \in exporter.done}
  BY <1>0, <1>6 DEF ExportAnalyzed, Exporting, Exporter
<1> SUFFICES ASSUME NEW entry \in exporter.done, OfFixedPath(Part(entry).id)
             PROVE  Part(entry).overrides = IF Part(entry).id = selected THEN overrides
                                            ELSE Remembered(history, identity[Part(entry).id])
  BY <1>7
<1>8. OfFixedPath(entry.id)
  BY DEF Part
<1>9. identity[entry.id] = entry.owner /\ entry.owner = realOf[entry.id.path]
  BY <1>7, <1>8 DEF ExporterInv
<1>10. entry.id = selected => overrides = Remembered(history, entry.owner)
  BY <1>8, <1>9 DEF FixedSettings, AreSettingsOf
<1> QED
  BY <1>9, <1>10 DEF Part

-----------------------------------------------------------------------------
(* The theorems.                                                           *)

\* IInv with what this module adds to it.
OInv ==
    /\ IInv
    /\ SqlFresh
    /\ LaterIdle(task) /\ CurrentInPlace /\ BusyMeansRunning
    /\ IdentifyListed
    /\ FixedSettings /\ SeenFixed
    /\ ExporterInv

\* It holds when the controller is made.
LEMMA OInvInit == ASSUME ConstantAssumption, Init PROVE OInv
<1>1. IInv
  BY InitInv
<1>2. \A g \in Generations : task[g] = IdleTask /\ task[g].at = "idle"
  BY DEF Init, IdleTask
<1>3. ~Exporting /\ exporter.gen = 0 /\ generation = 0
  BY DEF Init, Exporting, IdleExporter
<1>4. LaterIdle(task) /\ CurrentInPlace /\ SeenFixed
  BY <1>2 DEF LaterIdle, CurrentInPlace, InPlace, SeenFixed
<1>5. SqlFresh /\ BusyMeansRunning /\ FixedSettings
  BY DEF Init, SqlFresh, BusyMeansRunning, FixedSettings, OfFixedPath
<1>6. IdentifyListed /\ ExporterInv
  BY <1>2, <1>3 DEF Init, IdentifyListed, ExporterInv
<1> QED
  BY <1>1, <1>4, <1>5, <1>6 DEF OInv

\* Every step keeps it.
LEMMA OInvNext ==
    ASSUME ConstantAssumption, NullAssumption, OInv, [Next]_vars
    PROVE  OInv'
<1>1. ExporterIdle
  BY DEF OInv, ExporterInv, ExporterIdle
<1> QED
  BY <1>1, NextInv, SqlFreshStep, LaterIdleStep, CurrentInPlaceStep, BusyStep,
     IdentifyListedStep, FixedSettingsStep, SeenFixedStep, ExporterStep DEF OInv

\* The stronger invariant holds of every behaviour of the controller.
THEOREM OperationInvariance == Spec => []OInv
<1>1. Init => OInv
  BY ConstantAssumption, OInvInit
<1>2. OInv /\ [Next]_vars => OInv'
  BY ConstantAssumption, NullAssumption, OInvNext
<1> QED
  BY <1>1, <1>2, PTL DEF Spec

\* The SQL on display is that of the metadata, settings and platform on
\* display, unless the timer is about to regenerate it (generateNow, and every
\* handler that changes one of them).
THEOREM SqlIsFresh == Spec => []SqlFresh
<1>1. OInv => SqlFresh
  BY DEF OInv
<1> QED
  BY <1>1, OperationInvariance, PTL

\* The busy flag is on only while the newest operation reads or the running
\* export does, whatever was cancelled, superseded, failed or rejected.
THEOREM BusyIsRunning == Spec => []BusyMeansRunning
<1>1. OInv => BusyMeansRunning
  BY DEF OInv
<1> QED
  BY <1>1, OperationInvariance, PTL

\* The settings of a file whose canonical path stays what it is, on display or
\* set aside with the local source, are those the history holds for that path:
\* FileSettingsHistory and the store never drift apart.
THEOREM FixedSettingsRemembered == Spec => []FixedSettings
<1>1. OInv => FixedSettings
  BY DEF OInv
<1> QED
  BY <1>1, OperationInvariance, PTL

\* The same of every file when no link is retargeted while it is listed.
THEOREM SettingsAreRemembered ==
    ASSUME LinkPaths = {}
    PROVE  Spec => []SettingsRemembered
<1>1. OInv => SettingsRemembered
  BY DEF OInv, FixedSettings, OfFixedPath, AreSettingsOf, SettingsRemembered
<1> QED
  BY <1>1, OperationInvariance, PTL

\* The late answer of an operation that a newer one superseded writes nothing
\* the user sees, unless it is a dialog's rejection, which `handle' reports
\* whatever runs: the checks after every other await (isCurrent, current())
\* suffice.
THEOREM OnlyRejectionsIntrude ==
    Spec => [][(\A g \in Generations : ~DialogRejected(g)) => SupersededTask]_vars
<1>1. OInv /\ [Next]_vars => ((\A g \in Generations : ~DialogRejected(g)) => SupersededTask)
  BY ConstantAssumption, SupersededStep DEF OInv
<1> QED
  BY <1>1, OperationInvariance, PTL DEF Spec

\* So with a host whose dialogs never reject it writes nothing at all.
THEOREM LateAnswersWriteNothing ==
    ASSUME ~HostRejects
    PROVE  Spec => SupersededTaskWritesNothing
<1>1. \A g \in Generations : ~DialogRejected(g)
  BY DEF DialogRejected
<1> QED
  BY <1>1, OnlyRejectionsIntrude, PTL DEF SupersededTaskWritesNothing

\* No analysis of a file of a fixed canonical path takes away an edit made
\* while it ran, but those an exact schema shows to be of no column
\* (matchingSettings).
THEOREM FixedEditsAreKept == Spec => [][KeepsEdits]_vars
<1>1. OInv /\ [Next]_vars => KeepsEdits
  BY ConstantAssumption, NullAssumption, EditsStep DEF OInv
<1> QED
  BY <1>1, OperationInvariance, PTL DEF Spec

\* So none does when no link is retargeted while it is listed.
THEOREM EditsAreKept ==
    ASSUME LinkPaths = {}
    PROVE  Spec => AnalysisKeepsEdits
<1> DEFINE Kept == (selected' = selected /\ mode' = mode /\ raw' # raw /\ overrides' # overrides)
                     => /\ raw' # NoMetadata /\ raw'.stage = "exact"
                        /\ overrides' = overrides \cap raw'.cols
<1>1. KeepsEdits => Kept
  BY DEF KeepsEdits, OfFixedPath
<1> QED
  BY <1>1, FixedEditsAreKept, PTL DEF AnalysisKeepsEdits

\* The newest operation and the running export work on files of the list on
\* display, through re-listing, the Azure source and its return: a file id of an
\* earlier listing, in whatever message it comes (selectFile), starts none.
THEOREM WorkStaysListed == Spec => []WorkIsListed
<1>1. OInv => WorkIsListed
  <2> SUFFICES ASSUME OInv, ~disposed PROVE WorkIsListed
    BY DEF WorkIsListed
  <2>1. selected # NoFile => selected \in Range(files)
    BY DEF OInv, IInv, SelectedListed, Listed
  <2>2. ASSUME NEW g \in Generations, Current(g), task[g].at \notin {"idle", "dialog", "scan"}
        PROVE  task[g].id \in Range(files)
    <3>0. task[g] \in Task /\ HaveFiles(task)
      BY DEF OInv, IInv, TInv, TypeOK, WorkType, TaskHasFile
    <3>1. task[g].at \in {"identify", "sample", "analyze", "resample", "reread"} /\ task[g].id # NoFile
      BY <2>2, <3>0, NullAssumption DEF HaveFiles, Task, Waits, NullAssumption
    <3>2. CASE task[g].at = "identify"
      BY <2>2, <3>2 DEF OInv, IdentifyListed
    <3>3. CASE task[g].at # "identify"
      <4>1. selected = task[g].id
        BY <2>2, <3>1, <3>3 DEF OInv, CurrentInPlace, InPlace
      <4> QED
        BY <2>1, <3>1, <4>1
    <3> QED
      BY <3>2, <3>3
  <2>3. (exporter.at \in {"identify", "analyze"} /\ Current(exporter.gen))
          => Range(exporter.rest) \subseteq Range(files)
    BY DEF OInv, ExporterInv, Exporting, Listed, Range
  <2> QED
    BY <2>1, <2>2, <2>3 DEF WorkIsListed
<1> QED
  BY <1>1, OperationInvariance, PTL

\* exportAllSql writes the part of each file of a fixed canonical path with the
\* settings of that file, the file on display with those on display, however
\* selections, edits and resets interleave with its analyses.
THEOREM FixedFilesExportOwnSettings == Spec => [][WritesOwnSettings]_vars
<1>1. OInv /\ [Next]_vars => WritesOwnSettings
  BY NullAssumption, ScriptStep DEF OInv
<1> QED
  BY <1>1, OperationInvariance, PTL DEF Spec

\* So it does every part when no link is retargeted while it is listed.
THEOREM ExportsOwnSettings ==
    ASSUME LinkPaths = {}
    PROVE  Spec => ExportOwnSettings
<1> DEFINE Own == (exporter.script = {} /\ exporter'.script # {}) =>
                    \A e \in exporter'.script :
                        e.overrides = IF e.id = selected THEN overrides
                                      ELSE Remembered(history, identity[e.id])
<1>1. OInv /\ [Next]_vars => \A e \in exporter'.script : e.id # NoFile
  <2> SUFFICES ASSUME OInv, [Next]_vars, NEW e \in exporter'.script PROVE e.id # NoFile
    OBVIOUS
  <2>1. IInv'
    BY ConstantAssumption, NullAssumption, OInvNext DEF OInv
  <2>2. e.id \in FileId
    BY <2>1 DEF IInv, TInv, TypeOK, QueueType, Exporter
  <2> QED
    BY <2>2, NullAssumption DEF NullAssumption
<1>2. OInv /\ [Next]_vars /\ WritesOwnSettings => Own
  BY <1>1 DEF WritesOwnSettings, OfFixedPath
<1> QED
  BY <1>2, OperationInvariance, FixedFilesExportOwnSettings, PTL DEF Spec, ExportOwnSettings
=============================================================================
