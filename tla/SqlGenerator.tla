---------------------------- MODULE SqlGenerator ----------------------------
(***************************************************************************)
(* What src/external_file_detection/sql_generator.py (SQLGenerator)        *)
(* generates, as operators: for a request, the statements of each section  *)
(* that would run, in order and in their GO batches.  Commented guidance   *)
(* runs nothing and is the empty section.                                  *)
(*                                                                         *)
(* A request is the analysed file (type, encoding, columns), where it is   *)
(* stored, the target platform and the names and method the caller chose.  *)
(* A name is the sequence of its fragments, so that what the code derives  *)
(* from a name (`ext_<table>', `cred_<source>', `<source>_Bulk') can be    *)
(* told from it; a table's name carries its schema, and `spaced' says that *)
(* the schema's name has a blank in it (a table's own name is cleaned).    *)
(***************************************************************************)
EXTENDS Integers, Sequences, SequencesExt

\* A statement that would run.  `uses' are the objects it reads; `def' is what
\* a created object is; `hole' says it still carries a <placeholder>.
Statement(verb, kind, name, uses, def, hole) ==
    [verb |-> verb, kind |-> kind, name |-> name, uses |-> uses, def |-> def,
     hole |-> hole, guarded |-> FALSE]

Undefined == [type |-> "none"]

Create(kind, name, uses, def, hole) == Statement("create", kind, name, uses, def, hole)

\* A use of an object and the type it must have.
Use(kind, name, type) == [kind |-> kind, name |-> name, type |-> type]

-----------------------------------------------------------------------------
(* Platforms and formats.                                                  *)

SqlServer == {"sql_server_2019", "sql_server_2022", "sql_server_2025"}

AzureSql == {"azure_sql_db", "azure_sql_mi"}

PLATFORMS == SqlServer \cup AzureSql \cup {"fabric_sql_db"}

\* The one feature that some platform lacks; the others of the table are
\* everywhere or only word the guidance.
BulkInsertPlatforms == SqlServer \cup AzureSql

EXTERNAL_FORMAT_PLATFORMS ==
    [DELIMITEDTEXT |-> PLATFORMS,
     PARQUET       |-> PLATFORMS \ {"sql_server_2019"},
     DELTA         |-> {"sql_server_2022", "sql_server_2025", "azure_sql_db"},
     ORC           |-> {"sql_server_2019", "sql_server_2025", "azure_sql_db"},
     RCFILE        |-> {"sql_server_2019"},
     JSON          |-> {},
     NONE          |-> {}]

FORMATS_READ_WITHOUT_FILE_FORMAT == {"JSON"}

FormatType ==
    [csv |-> "DELIMITEDTEXT", text |-> "DELIMITEDTEXT", json |-> "JSON",
     parquet |-> "PARQUET", delta |-> "DELTA", orc |-> "ORC", rc |-> "RCFILE",
     iceberg |-> "NONE", excel |-> "NONE"]

FileTypes == DOMAIN FormatType

\* ENCODING accepts two keywords; any other encoding has none.
ExternalFormatEncoding(encoding) ==
    CASE encoding = "utf8"  -> "UTF8"
      [] encoding = "utf16" -> "UTF16"
      [] OTHER              -> "none"

\* What CREATE EXTERNAL FILE FORMAT would say for this file.
FormatConfig(r) ==
    [type |-> FormatType[r.type],
     encoding |-> IF r.type \in {"csv", "text"} THEN ExternalFormatEncoding(r.encoding) ELSE "none",
     options |-> IF r.type = "csv" THEN r.options ELSE "fixed"]

FormatSupported(r) == r.platform \in EXTERNAL_FORMAT_PLATFORMS[FormatType[r.type]]

NoEncoding(r) ==
    FormatConfig(r).type = "DELIMITEDTEXT" /\ FormatConfig(r).encoding = "none"

SingleLob(encoding) == IF encoding = "utf16" THEN "SINGLE_NCLOB" ELSE "SINGLE_CLOB"

-----------------------------------------------------------------------------
(* Storage.  A URL is a scheme, a kind of host and the container (bucket,  *)
(* workspace) it names; NoUrl is a local file.                             *)

NoUrl == [scheme |-> "none", host |-> "none", root |-> "none"]

Unknown == "<placeholder>"

BlobSchemes == {"abs", "wasb", "wasbs"}

DfsSchemes == {"adls", "abfs", "abfss"}

Http == {"http", "https"}

IsOneLake(url) == url.host \in {"onelake", "onelake_root"}

StorageUrlKind(url) ==
    CASE url.scheme \in {"none", "path"}                         -> "local"
      [] url.scheme = "s3"                                       -> "s3"
      [] url.scheme \in {"abfs", "abfss"} \cup Http /\ IsOneLake(url) -> "onelake"
      [] url.scheme = "azure"                                    -> "azure"
      [] url.scheme \in BlobSchemes \cup Http /\ url.host = "blob" -> "azure"
      [] url.scheme \in DfsSchemes \cup Http /\ url.host = "dfs"   -> "azure"
      [] OTHER                                                   -> "other"

StorageUrlSupported(url, platform) ==
    LET kind == StorageUrlKind(url)
    IN  \/ kind = "local"
        \/ platform = "fabric_sql_db" /\ kind = "onelake"
        \/ platform \in AzureSql /\ kind = "azure"
        \/ platform \in {"sql_server_2022", "sql_server_2025"} /\ kind \in {"azure", "s3"}
        \/ platform = "sql_server_2019" /\ kind = "azure"
           /\ (url.host = "blob" \/ url.scheme = "azure")

Compatible(r) == StorageUrlSupported(r.url, r.platform)

Location(scheme, root) == [scheme |-> scheme, root |-> root]

SqlServerLocation(url, platform) ==
    LET old  == platform = "sql_server_2019"
        Blob == IF old THEN "wasbs" ELSE "abs"
        Dfs  == IF old THEN "abfss" ELSE "adls"
    IN  CASE url.scheme \in BlobSchemes /\ url.host = "blob" -> Location(Blob, url.root)
          [] url.scheme \in DfsSchemes /\ url.host = "dfs"   -> Location(Dfs, url.root)
          [] url.scheme = "https" /\ url.host = "dfs"        -> Location(Dfs, url.root)
          [] url.scheme = "https" /\ url.host = "blob"       -> Location(Blob, url.root)
          [] url.scheme = "s3" /\ ~old                       -> Location("s3", url.root)
          [] url.scheme = "azure"                            -> Location(Blob, Unknown)
          [] OTHER -> Location(IF old THEN "wasbs" ELSE "adls", Unknown)

\* Blob hosts only.
AzureContainerOfBlob(url) ==
    IF url.scheme \in BlobSchemes \cup Http /\ url.host = "blob" THEN url.root ELSE Unknown

\* The account and container an Azure URL names; azure:// names no account.
AzureContainer(url) ==
    IF \/ url.scheme \in BlobSchemes \cup Http /\ url.host = "blob"
       \/ url.scheme \in DfsSchemes \cup Http /\ url.host = "dfs"
    THEN url.root ELSE Unknown

\* BLOB_STORAGE sources take the https:// blob endpoint of the container.
AzureBulkLocation(url) == Location("https", AzureContainer(url))

\* An account that is not known is given as a dfs placeholder.
AzureVirtualizationLocation(url) ==
    Location(IF url.host = "dfs" \/ AzureContainer(url) = Unknown
             THEN "adls" ELSE "abs",
             AzureContainer(url))

FabricLocation(url) ==
    IF StorageUrlKind(url) = "onelake" /\ url.host = "onelake"
    THEN Location("abfss", url.root) ELSE Location("abfss", Unknown)

ExternalSourceLocation(r) ==
    IF r.platform = "fabric_sql_db" THEN FabricLocation(r.url)
    ELSE IF r.platform \in AzureSql THEN AzureVirtualizationLocation(r.url)
    ELSE SqlServerLocation(r.url, r.platform)

\* Bulk access goes through a BLOB_STORAGE source of its own.
BulkSourceSupported(r) ==
    \/ r.platform \in AzureSql
    \/ r.platform \in SqlServer /\ StorageUrlKind(r.url) = "azure"

-----------------------------------------------------------------------------
(* Names: what the caller gave, or what the code derives.                  *)

NoName == <<>>

Named(given, derived) == IF given = NoName THEN derived ELSE given

TableName(r) == <<r.names.schema, Named(r.names.table, <<r.file>>)>>

ExternalTableName(r) ==
    <<r.names.schema, Named(r.names.external, <<"ext_">> \o TableName(r)[2])>>

StagingTableName(r) == <<r.names.schema, <<"stg_">> \o TableName(r)[2]>>

SourceName(r) == Named(r.names.source, <<"MyDataSource">>)

BulkSourceName(r) == SourceName(r) \o <<"_Bulk">>

FormatName(r) == Named(r.names.format, <<"ff_", r.type, "_format">>)

CredentialName(r) == Named(r.names.credential, <<"cred_">> \o SourceName(r))

BulkCredentialName(r) ==
    IF r.names.credential = NoName
    THEN <<"cred_">> \o BulkSourceName(r) ELSE r.names.credential \o <<"_Bulk">>

-----------------------------------------------------------------------------
(* Authentication.                                                         *)

ResolveAuth(method, platform) ==
    IF \/ method = "public"
       \/ method = "managed_identity" /\ platform \in AzureSql \cup {"sql_server_2025"}
       \/ method = "user_identity" /\ platform \in {"azure_sql_db", "fabric_sql_db"}
       \/ method = "s3_access_key" /\ platform \in {"sql_server_2022", "sql_server_2025"}
       \/ method \in {"sas", "storage_key"} /\ platform # "fabric_sql_db"
    THEN method
    ELSE IF platform = "fabric_sql_db" THEN "user_identity"
    ELSE IF platform \in AzureSql THEN "managed_identity"
    ELSE "sas"

\* The connector decides before the caller does.
StorageAuth(r) ==
    IF StorageUrlKind(r.url) = "s3" THEN "s3_access_key"
    ELSE IF r.platform = "sql_server_2019" THEN "storage_key"
    ELSE ResolveAuth(r.auth, r.platform)

BulkAuth(r) ==
    IF r.platform = "sql_server_2019" /\ StorageUrlKind(r.url) = "azure"
    THEN "sas" ELSE StorageAuth(r)

SecretFree == {"managed_identity", "user_identity", "public"}

CredentialDdl(name, method) ==
    IF method = "public" THEN <<>>
    ELSE <<<<Create("credential", name, {}, [type |-> method], method \notin SecretFree)>>>>

CredentialClause(name, method) ==
    IF method = "public" THEN {} ELSE {Use("credential", name, method)}

-----------------------------------------------------------------------------
(* Columns.  A column is its detected type and, for strings, the longest   *)
(* value seen (NoLength, which no value has: not known).                   *)

NoLength == -1

MAX == 2147483647

Lob == [sql |-> "NVARCHAR", size |-> MAX]

\* Down to the step below.
RoundDown(length) == (length \div 50) * 50

RoundUp(length) == ((length \div 50) + 1) * 50

\* _map_type_to_sql and the decimal and temporal helpers.
MapType(type, length) ==
    CASE type.name = "string" ->
            IF length = NoLength \/ length > 4000 THEN Lob
            ELSE IF length <= 200 THEN [sql |-> "NVARCHAR", size |-> 255]
            ELSE [sql |-> "NVARCHAR",
                  size |-> IF RoundUp(length) < 4000 THEN RoundUp(length) ELSE 4000]
      [] type.name = "decimal" ->
            LET precision == type.precision + type.below
            IN  IF precision \in 1..38 /\ type.scale <= precision
                THEN [sql |-> "DECIMAL", size |-> precision] ELSE Lob
      [] type.name = "binary"      -> [sql |-> "VARBINARY", size |-> MAX]
      [] type.name = "timestamp"   -> [sql |-> "DATETIME2", size |-> 7]
      [] type.name = "timestamptz" -> [sql |-> "DATETIMEOFFSET", size |-> 7]
      [] type.name = "bool"        -> [sql |-> "BIT", size |-> 1]
      [] type.name = "int64"       -> [sql |-> "BIGINT", size |-> 1]
      [] OTHER                     -> Lob     \* structs, lists, unknown names

Sampled(r) == r.sampled /\ r.type \in {"csv", "json"}

ColumnType(r, column) ==
    IF Sampled(r) THEN Lob
    ELSE IF r.type \in {"csv", "text"} /\ column.type.name = "bool"
    THEN [sql |-> "NVARCHAR", size |-> 5]
    ELSE MapType(column.type, column.length)

IsNested(column) == column.type.name = "nested"

IsLob(sql) == sql.size = MAX

\* External tables take no LOB: columnar files get a bounded type unless a
\* value is known to be longer.
ExternalColumnType(r, column) ==
    LET inferred == ColumnType(r, column)
    IN  IF r.type \notin {"parquet", "delta", "orc", "rc"} THEN inferred
        ELSE IF column.type.name = "timestamptz" /\ column.int64
        THEN [sql |-> "DATETIME2", size |-> 7]
        ELSE IF column.length > 4000 THEN inferred
        ELSE IF inferred = Lob THEN [sql |-> "NVARCHAR", size |-> 4000]
        ELSE IF IsLob(inferred) THEN [sql |-> "VARBINARY", size |-> 8000]
        ELSE inferred

\* OPENJSON gets a typed projection only when every column can be typed.
TypedProjection(r) == r.columns # {} /\ ~r.wide /\ ~r.unsafe /\ ~Sampled(r)

-----------------------------------------------------------------------------
(* The sections.  A section is a sequence of batches; <<>> is guidance.    *)

Guidance == <<>>

One(statements) == IF statements = <<>> THEN Guidance ELSE <<statements>>

VirtualType(platform) == IF platform = "sql_server_2019" THEN "hadoop" ELSE "virtual"

UseSource(r) == Use("source", SourceName(r), VirtualType(r.platform))

UseBulkSource(r) == Use("source", BulkSourceName(r), "blob")

UseTable(r) == Use("table", TableName(r), "rows")

Select(uses) == Statement("select", "rows", NoName, uses, Undefined, FALSE)

Load(r, uses, hole) ==
    Statement("load", "table", TableName(r), uses \cup {UseTable(r)}, Undefined, hole)

CreateTable(r) ==
    IF r.wide THEN Guidance
    ELSE One(<<Create("table", TableName(r), {}, [type |-> "rows"], FALSE)>>)

SourceDdl(name, type, location, uses) ==
    <<<<Create("source", name, uses, [type |-> type, location |-> location],
               location.root = Unknown)>>>>

\* _bulk_data_source_block, and the prerequisite of a stand-alone BULK INSERT.
BulkSourceDdl(r) ==
    IF ~BulkSourceSupported(r) THEN Guidance
    ELSE CredentialDdl(BulkCredentialName(r), BulkAuth(r))
         \o SourceDdl(BulkSourceName(r), "blob", AzureBulkLocation(r.url),
                      CredentialClause(BulkCredentialName(r), BulkAuth(r)))

\* Fabric names the credential whatever the method; elsewhere the clause goes
\* with the credential.
CredentialSetup(r) ==
    IF \/ ~Compatible(r)
       \/ ~FormatSupported(r) /\ FormatType[r.type] \notin FORMATS_READ_WITHOUT_FILE_FORMAT
    THEN Guidance
    ELSE IF r.platform = "fabric_sql_db"
    THEN CredentialDdl(CredentialName(r), StorageAuth(r))
         \o SourceDdl(SourceName(r), "virtual", ExternalSourceLocation(r),
                      {Use("credential", CredentialName(r), StorageAuth(r))})
    ELSE (IF StorageAuth(r) \in SecretFree THEN <<>>
          ELSE <<<<[Create("masterkey", NoName, {}, Undefined, TRUE)
                    EXCEPT !.guarded = TRUE]>>>>)
         \o CredentialDdl(CredentialName(r), StorageAuth(r))
         \o SourceDdl(SourceName(r), VirtualType(r.platform), ExternalSourceLocation(r),
                      CredentialClause(CredentialName(r), StorageAuth(r)))
         \o (IF r.type \in {"csv", "text", "json"} THEN BulkSourceDdl(r) ELSE <<>>)

ExternalFileFormat(r) ==
    IF ~FormatSupported(r) \/ NoEncoding(r) THEN Guidance
    ELSE One(<<Create("format", FormatName(r), {}, FormatConfig(r), FALSE)>>)

\* ORC is accepted as DDL only outside 2019; nested Parquet and LOB columns
\* have no external column type.
ExternalTable(r) ==
    IF \/ ~Compatible(r) \/ r.wide \/ ~FormatSupported(r) \/ NoEncoding(r)
       \/ FormatType[r.type] = "ORC" /\ r.platform # "sql_server_2019"
       \/ r.type = "parquet" /\ \E c \in r.columns : IsNested(c)
       \/ \E c \in r.columns : IsLob(ExternalColumnType(r, c))
       \/ r.columns = {}
    THEN Guidance
    ELSE One(<<Create("table", ExternalTableName(r),
                      {UseSource(r), Use("format", FormatName(r), FormatType[r.type])},
                      [type |-> "external"], FALSE)>>)

\* Fabric has no BULK INSERT: load patterns over OPENROWSET instead.
BulkInsertFabric(r) ==
    IF r.type = "delta" THEN Guidance
    ELSE IF r.type = "json"
    THEN IF TypedProjection(r) THEN One(<<Load(r, {UseSource(r)}, FALSE)>>) ELSE Guidance
    ELSE One(<<Statement("selectinto", "table", StagingTableName(r), {UseSource(r)},
                         [type |-> "rows"], FALSE),
               Load(r, {UseSource(r)}, FALSE)>>)

BulkInsert(r, prerequisites) ==
    IF ~Compatible(r) \/ r.wide \/ r.type \in {"orc", "rc", "iceberg"} THEN Guidance
    ELSE IF r.platform \notin BulkInsertPlatforms THEN BulkInsertFabric(r)
    ELSE IF r.type \notin {"csv", "text"} THEN Guidance
    ELSE IF BulkSourceSupported(r)
    THEN (IF prerequisites THEN BulkSourceDdl(r) ELSE <<>>)
         \o One(<<Load(r, {UseBulkSource(r)}, FALSE), Select({UseTable(r)})>>)
    ELSE \* a local path, or a staging path to fill in for S3
         One(<<Load(r, {}, StorageUrlKind(r.url) # "local"), Select({UseTable(r)})>>)

-----------------------------------------------------------------------------
(* OPENROWSET.                                                             *)

OpenRowsetLocal(r) ==
    CASE r.type \in {"csv", "text"} -> One(<<Select({}), Select({})>>)
      [] r.type = "json"            -> One(<<Select({})>>)
      [] OTHER                      -> Guidance

OpenRowsetBlobStorageBulk(r) ==
    IF r.type = "json" /\ r.lines THEN Guidance ELSE One(<<Select({UseBulkSource(r)})>>)

OpenRowset2019(r) ==
    IF r.type \in {"parquet", "delta"} THEN Guidance
    ELSE IF StorageUrlKind(r.url) = "azure" THEN OpenRowsetBlobStorageBulk(r)
    ELSE IF r.url # NoUrl THEN Guidance
    ELSE OpenRowsetLocal(r)

OpenRowsetFabric(r) ==
    IF r.type = "delta" THEN Guidance ELSE One(<<Select({UseSource(r)})>>)

\* Columnar and row-framed reads use the virtualization source, whole-file
\* reads the BLOB_STORAGE one.
OpenRowsetAzure(r) ==
    IF r.type = "delta" /\ r.platform = "azure_sql_mi" THEN Guidance
    ELSE IF r.type = "delta" THEN One(<<Select({UseSource(r)})>>)
    ELSE IF r.type = "parquet" THEN One(<<Select({UseSource(r)}), Select({UseSource(r)})>>)
    ELSE IF r.type = "json"
    THEN One(<<Select({IF r.lines THEN UseSource(r) ELSE UseBulkSource(r)})>>)
    ELSE One(<<Select({UseSource(r)}), Select({UseBulkSource(r)})>>)

OpenRowsetObjectStorage(r) ==
    LET blob == StorageUrlKind(r.url) = "azure"
    IN  IF r.type \in {"parquet", "delta"} THEN One(<<Select({UseSource(r)})>>)
        ELSE IF r.type = "json"
        THEN IF r.lines THEN One(<<Select({UseSource(r)})>>)
             ELSE IF blob THEN One(<<Select({UseBulkSource(r)})>>) ELSE Guidance
        ELSE IF blob THEN One(<<Select({UseSource(r)}), Select({UseBulkSource(r)})>>)
        ELSE One(<<Select({UseSource(r)})>>)

OpenRowset(r) ==
    IF \/ ~Compatible(r) \/ r.type \in {"orc", "rc", "iceberg"}
       \/ r.wide /\ r.type \notin {"json", "parquet", "delta"}
    THEN Guidance
    ELSE IF r.platform = "fabric_sql_db" THEN OpenRowsetFabric(r)
    ELSE IF r.platform \in AzureSql THEN OpenRowsetAzure(r)
    ELSE IF r.platform = "sql_server_2019" THEN OpenRowset2019(r)
    ELSE IF r.type \in {"parquet", "delta"} \/ r.url # NoUrl
    THEN OpenRowsetObjectStorage(r)
    ELSE OpenRowsetLocal(r)

\* The JSON functions script reads the document into a variable (remote NDJSON
\* in rows first), works from it, and inserts it when it can be typed.
JsonFunctions(r) ==
    IF \/ ~Compatible(r) \/ r.type # "json" \/ r.wide
       \/ r.lines /\ r.platform = "sql_server_2019" /\ r.url # NoUrl
    THEN Guidance
    ELSE LET remote == r.platform \notin SqlServer \/ r.url # NoUrl
             read == IF ~remote THEN {}
                     ELSE IF ~r.lines /\ BulkSourceSupported(r) THEN {UseBulkSource(r)}
                     ELSE {UseSource(r)}
             Parse(uses) == Statement("select", "rows", NoName, uses, Undefined,
                                      remote /\ r.url = NoUrl)
         IN  One((IF remote /\ r.lines THEN <<Parse(read)>> ELSE <<>>) \o <<Parse(read)>>
                 \o (IF r.platform \notin SqlServer THEN <<Parse({UseSource(r)})>> ELSE <<>>)
                 \o (IF TypedProjection(r) THEN <<Load(r, {}, FALSE)>> ELSE <<>>))

ForJson(r) == IF r.wide THEN Guidance ELSE One(<<Select({UseTable(r)})>>)

Sections(r) ==
    [credential_setup |-> CredentialSetup(r),
     external_file_format |-> ExternalFileFormat(r),
     create_external_table |-> ExternalTable(r),
     create_table |-> CreateTable(r),
     bulk_insert |-> BulkInsert(r, TRUE),
     openrowset |-> OpenRowset(r),
     copy_into |-> Guidance,
     json_functions |-> JsonFunctions(r),
     for_json |-> ForJson(r)]

-----------------------------------------------------------------------------
(* The complete document: the sections as one script that may be run again.*)

Creates(batches, kind, name) ==
    \E b \in DOMAIN batches : \E i \in DOMAIN batches[b] :
        /\ batches[b][i].verb = "create"
        /\ batches[b][i].kind = kind
        /\ batches[b][i].name = name

\* The target of a load is read up to the first blank: where the schema's name
\* has one, no load is recognised.
LoadsInto(batches, r) ==
    /\ ~r.names.spaced
    /\ \E b \in DOMAIN batches : \E i \in DOMAIN batches[b] :
          batches[b][i].verb = "load" /\ batches[b][i].name = TableName(r)

\* A table the caller named, in whatever schema.
OwnsNamedTarget(r) == r.names.table # NoName

OwnsLoadTarget(r) == r.names.table # NoName /\ r.names.schema # "dbo"

\* The load never empties its target.
TruncateNothing(r) == <<>>

\* Emptied first only when asked for and owned; else the lines are comments.
TruncateBeforeLoad(r) ==
    IF r.rerun /\ OwnsLoadTarget(r)
    THEN <<<<[Statement("truncate", "table", TableName(r), {}, Undefined, FALSE)
              EXCEPT !.guarded = TRUE]>>>>
    ELSE <<>>

\* Data sources are created as if they were never there.
GuardStatementButSources(s) ==
    IF s.verb = "create" /\ s.kind # "source" THEN [s EXCEPT !.guarded = TRUE] ELSE s

GuardStatement(s) == IF s.verb = "create" THEN [s EXCEPT !.guarded = TRUE] ELSE s

GuardCreates(batches) ==
    [b \in DOMAIN batches |-> [i \in DOMAIN batches[b] |-> GuardStatement(batches[b][i])]]

\* The load no longer creates the bulk source when the setup does.
CompleteDdl(r) ==
    IF r.wide THEN Guidance
    ELSE LET setup == CredentialSetup(r)
             load  == BulkInsert(r, ~Creates(setup, "source", BulkSourceName(r)))
         IN  GuardCreates(
                 setup \o ExternalFileFormat(r) \o ExternalTable(r) \o CreateTable(r)
                 \o (IF LoadsInto(load, r) THEN TruncateBeforeLoad(r) ELSE <<>>)
                 \o load \o OpenRowset(r))

\* The shared objects a batch creates, by kind and name.
SharedKinds == {"masterkey", "credential", "source", "format"}

SharedObjectsIn(batch) ==
    {<<batch[i].kind, batch[i].name>> :
        i \in {j \in DOMAIN batch : batch[j].verb = "create" /\ batch[j].kind \in SharedKinds}}

\* What is seen when batch b of the k-th script is reached.  A batch that is
\* left out adds nothing: all it shares is seen already.
Seen(scripts, k, b) ==
    UNION {UNION {SharedObjectsIn(scripts[j][i]) :
                     i \in {n \in DOMAIN scripts[j] : j < k \/ n < b}} : j \in 1..k}

\* In place of a batch that is left out, a comment.
Comment == <<>>

DeduplicateSharedPrerequisites(scripts) ==
    [k \in DOMAIN scripts |-> [b \in DOMAIN scripts[k] |->
        LET shared == SharedObjectsIn(scripts[k][b])
        IN  IF shared # {} /\ shared \subseteq Seen(scripts, k, b)
            THEN Comment ELSE scripts[k][b]]]

\* The scripts of several files, one after the other in one export.
ExportResults(requests) ==
    DeduplicateSharedPrerequisites([k \in DOMAIN requests |-> CompleteDdl(requests[k])])

-----------------------------------------------------------------------------
(* What is asked of a request.                                             *)

IsName(n) == n \in Seq(Range(n))

IsRequest(r) ==
    /\ r.platform \in PLATFORMS
    /\ r.type \in FileTypes
    /\ r.names.spaced \in BOOLEAN
    /\ \A n \in {r.names.table, r.names.external, r.names.source, r.names.format,
                r.names.credential} : IsName(n)
    /\ \A c \in r.columns :
          /\ c.length \in 0..MAX \/ c.length = NoLength
          /\ c.type.name = "decimal" => c.type.precision \in Nat /\ c.type.below \in Nat

\* An Excel file read through a source, and Fabric's source for public storage,
\* use objects that no section creates.
HasItsSources(r) ==
    /\ r.type = "excel" => r.platform \in SqlServer /\ r.url = NoUrl
    /\ r.platform = "fabric_sql_db" => r.auth # "public"

\* azure:// names no account, a OneLake root no lakehouse, and SQL Server has
\* no location for http://.
SaysWhere(url) ==
    /\ StorageUrlKind(url) # "local"
    /\ url.scheme \notin {"azure", "http"}
    /\ url.host # "onelake_root"

=============================================================================
