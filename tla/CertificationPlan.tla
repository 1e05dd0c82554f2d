-------------------------- MODULE CertificationPlan --------------------------
(***************************************************************************)
(* How a certification run is planned (manifest.py, matrix.py): each cell  *)
(* of the matrix that applies to the target is generated with the run's    *)
(* own names from metadata that is known to describe the staged bytes, its *)
(* batches pass the gate, and it gets a verdict.  The cells that are READY *)
(* are then run, in order, on one database.                                *)
(*                                                                         *)
(* A staging document is the same for every fixture here: what is staged   *)
(* per access, the public shape or exact copy it declares, and the hosts.  *)
(***************************************************************************)
EXTENDS SqlGenerator, Database

Gate == INSTANCE SafetyGate

CONSTANTS
    Plans,         \* [target, platform, staging, missing] of the runs
    Prohibited     \* the objects of others that are in the database

VARIABLES
    plan,          \* the run that is planned
    planned,       \* per cell of the matrix planned so far, its entry
    at,            \* the statement to send next: cell, block, batch, statement
    catalog,       \* the objects in the database
    refused        \* the cells with a statement that the database refused

vars == <<plan, planned, at, catalog, refused>>

-----------------------------------------------------------------------------
(* The matrix.  A cell's setup are the statements its own SQL requires.    *)

Cell(id, fixture, statement, access, requires, verification) ==
    [id |-> id, fixture |-> fixture, statement |-> statement, access |-> access,
     requires |-> requires, verification |-> verification]

EncodingCells ==
    <<Cell("C01", "csv_scalar", "create_table", "none", <<>>, "none"),
      Cell("C02", "utf8_bom", "bulk_insert", "blob_storage", <<"setup", "target_table">>, "target_table"),
      Cell("C03", "utf16le_bom", "bulk_insert", "blob_storage", <<"setup", "target_table">>, "target_table"),
      Cell("C04", "cp932", "bulk_insert", "blob_storage", <<"setup", "target_table">>, "target_table"),
      Cell("C05", "utf16le_bom", "external_file_format", "abs", <<>>, "none"),
      Cell("C06", "cp932", "external_file_format", "abs", <<>>, "none")>>

JsonCells ==
    <<Cell("C07", "json_array", "json_functions", "engine_local", <<>>, "cell_result"),
      Cell("C08", "json_array", "openrowset", "blob_storage", <<"setup">>, "cell_result"),
      Cell("C09", "ndjson", "openrowset", "abs", <<"setup">>, "cell_result"),
      Cell("C10", "json_array", "openrowset", "abs", <<"setup">>, "cell_result"),
      Cell("C11", "json_nested", "json_functions", "engine_local", <<>>, "cell_result"),
      Cell("C12", "json_object", "for_json", "none", <<"target_table">>, "none")>>

RemoteCsvCells ==
    <<Cell("C13", "csv_scalar", "openrowset", "abs", <<"setup">>, "cell_result"),
      Cell("C14", "csv_scalar", "bulk_insert", "blob_storage", <<"setup", "target_table">>, "target_table"),
      Cell("C15", "csv_scalar", "openrowset", "engine_local", <<>>, "cell_result")>>

ExternalTableCells ==
    <<Cell("C16", "csv_scalar", "external_file_format", "abs", <<>>, "none"),
      Cell("C17", "csv_scalar", "create_external_table", "abs", <<"setup", "file_format">>, "external_table"),
      Cell("C18", "parquet_all_types", "create_external_table", "abs", <<"setup", "file_format">>, "external_table"),
      Cell("C19", "parquet_all_types", "create_table", "none", <<>>, "none"),
      Cell("C20", "csv_scalar", "external_file_format", "abs", <<>>, "none")>>

NoFileFormatCells ==
    <<Cell("C21", "excel", "external_file_format", "abs", <<>>, "none"),
      Cell("C22", "iceberg", "external_file_format", "abs", <<>>, "none"),
      Cell("C32", "json_array", "external_file_format", "abs", <<>>, "none"),
      Cell("C23", "orc", "external_file_format", "abs", <<>>, "none"),
      Cell("C24", "text", "create_table", "none", <<>>, "none")>>

CredentialCells ==
    <<Cell("C25", "delta", "openrowset", "abs", <<"setup">>, "cell_result"),
      Cell("C26", "csv_scalar", "credential_setup", "abs", <<>>, "none"),
      Cell("C27", "csv_scalar", "credential_setup", "abs", <<>>, "none")>>

DocumentCells ==
    <<Cell("C28", "csv_scalar", "complete_ddl", "abs", <<>>, "none"),
      Cell("C29", "csv_scalar", "complete_ddl", "abs", <<>>, "none"),
      Cell("C30", "csv_scalar", "create_table", "none", <<>>, "none")>>

AttributionCells ==
    <<Cell("C31", "csv_scalar", "external_file_format", "none", <<>>, "none"),
      Cell("C33", "parquet_sales", "create_external_table", "abs", <<"setup", "file_format">>, "external_table"),
      Cell("C34", "tsv", "openrowset", "abs", <<"setup">>, "cell_result"),
      Cell("C35", "pipe", "openrowset", "abs", <<"setup">>, "cell_result"),
      Cell("C36", "utf8", "bulk_insert", "blob_storage", <<"setup", "target_table">>, "target_table"),
      Cell("C37", "collation", "openrowset", "abs", <<"setup">>, "cell_result"),
      Cell("C38", "utf16le_bom_tsv", "bulk_insert", "blob_storage", <<"setup", "target_table">>, "target_table")>>

MATRIX ==
    EncodingCells \o JsonCells \o RemoteCsvCells \o ExternalTableCells
        \o NoFileFormatCells \o CredentialCells \o DocumentCells \o AttributionCells

Targets(cell) ==
    CASE cell.id \in {"C15", "C23"} -> {"vm"}
      [] cell.id = "C26"            -> {"azure"}
      [] OTHER                      -> {"vm", "azure"}

\* The cells a target is planned with, in the order of the matrix.
EntriesFor(target) == {i \in DOMAIN MATRIX : target \in Targets(MATRIX[i])}

AuthMethod(cell) == IF cell.id = "C26" THEN "managed_identity" ELSE "public"

\* The rerun cell writes to the names of the cell it reruns.
NamingCell(cell) == IF cell.id = "C29" THEN "C28" ELSE cell.id

\* The negative control keeps the names the generator derives.
UsesDefaultNames(cell) == cell.id = "C30"

-----------------------------------------------------------------------------
(* What the generator is told about a file.                                *)

Metadata(type, encoding, lines, columns) ==
    [type |-> type, encoding |-> encoding, lines |-> lines, columns |-> columns]

Column(name, length) ==
    [type |-> [name |-> name], length |-> length, int64 |-> FALSE]

Scalars == {Column("int64", NoLength), Column("string", 20)}

FIXTURES ==
    LET csv(encoding) == Metadata("csv", encoding, FALSE, Scalars)
        json(lines)   == Metadata("json", "utf8", lines,
                                  Scalars \cup {Column("nested", NoLength)})
        columnar(type, columns) == Metadata(type, "binary", FALSE, columns)
    IN  [csv_scalar |-> csv("utf8"), tsv |-> csv("utf8"), pipe |-> csv("utf8"),
         utf8 |-> csv("utf8"), utf8_bom |-> csv("utf8"), utf16le_bom |-> csv("utf16"),
         utf16le_bom_tsv |-> csv("utf16"), cp932 |-> csv("cp932"), collation |-> csv("utf8"),
         json_array |-> json(FALSE), json_object |-> json(FALSE), ndjson |-> json(TRUE),
         json_nested |-> json(FALSE),
         parquet_all_types |-> columnar("parquet", Scalars \cup {Column("nested", NoLength)}),
         parquet_sales |-> columnar("parquet", Scalars), orc |-> columnar("orc", {}),
         excel |-> columnar("excel", Scalars), text |-> Metadata("text", "utf8", FALSE, {}),
         delta |-> columnar("delta", Scalars), iceberg |-> columnar("iceberg", Scalars)]

\* The public objects a remote location may be declared to point at.
PUBLIC_SHAPES ==
    [iris    |-> Metadata("csv", "utf8", FALSE, Scalars),
     taxi    |-> Metadata("parquet", "binary", FALSE, Scalars),
     aliases |-> Metadata("json", "utf8", FALSE, {Column("string", 128), Column("nested", NoLength)}),
     petri   |-> Metadata("json", "utf8", TRUE, {Column("string", 4000)})]

\* The platforms a target may stand for.
PlatformsFor(target) == IF target = "azure" THEN {"azure_sql_db"} ELSE SqlServer

ASSUME PlansAssumption ==
    \A p \in Plans :
        /\ p.target \in {"vm", "azure"}
        /\ p.platform \in PlatformsFor(p.target)
        /\ p.staging.shape \in DOMAIN PUBLIC_SHAPES \cup {"none"}
        /\ p.staging.exact \in {"no", "verified", "stale"}
        /\ p.missing \subseteq DOMAIN FIXTURES

\* The url staged for an access; a server path is engine-local and no url.
StagedAt(staging, access) ==
    CASE access = "none"         -> "nowhere"
      [] access = "engine_local" -> staging.engine_local
      [] OTHER                   -> staging.remote

Url(staging, access) ==
    LET root == StagedAt(staging, access)
    IN  CASE access \in {"none", "engine_local"} -> NoUrl
          [] access = "blob_storage" -> [scheme |-> "https", host |-> "blob", root |-> root]
          [] OTHER                   -> [scheme |-> "abs", host |-> "blob", root |-> root]

Remote(cell) == cell.access \notin {"none", "engine_local"}

\* Nothing is invented: a fixture that is missing from the repository, is not
\* staged, or is not known to be what the metadata describes, is not generated
\* for.
Unstaged(cell, p) ==
    \/ cell.fixture \in p.missing
    \/ cell.access # "none" /\ StagedAt(p.staging, cell.access) = "nowhere"
    \/ /\ Remote(cell)
       /\ IF p.staging.exact # "no" THEN p.staging.exact # "verified"
          ELSE \/ p.staging.shape = "none"
               \/ PUBLIC_SHAPES[p.staging.shape].type # FIXTURES[cell.fixture].type

\* The local file describes itself and its verified copy; any other remote
\* location is described by its declared shape.
MetadataFor(cell, staging) ==
    IF Remote(cell) /\ staging.exact = "no"
    THEN PUBLIC_SHAPES[staging.shape] ELSE FIXTURES[cell.fixture]

-----------------------------------------------------------------------------
(* What is generated, with names of the run.                               *)

Schema == "run"

Prefix == "run_"

IdentityName(cell, part) == <<Prefix, NamingCell(cell), part>>

\* Formats keep the name the generator derives.
NamesButFormat(cell) ==
    [schema |-> Schema, table |-> IdentityName(cell, cell.fixture),
     external |-> IdentityName(cell, "ext"), source |-> IdentityName(cell, "src"),
     format |-> NoName, credential |-> IdentityName(cell, "cred")]

Names(cell) ==
    LET name(part) == IF UsesDefaultNames(cell) THEN NoName ELSE IdentityName(cell, part)
    IN  [schema |-> IF UsesDefaultNames(cell) THEN "dbo" ELSE Schema,
         spaced |-> FALSE, table |-> name(cell.fixture), external |-> name("ext"),
         source |-> IdentityName(cell, "src"), format |-> name("fmt"),
         credential |-> name("cred")]

RequestFor(cell) ==
    LET m == MetadataFor(cell, plan.staging)
    IN  [platform |-> plan.platform, type |-> m.type, url |-> Url(plan.staging, cell.access),
         auth |-> IF UsesDefaultNames(cell) THEN "none" ELSE AuthMethod(cell),
         wide |-> FALSE, encoding |-> m.encoding, columns |-> m.columns, lines |-> m.lines,
         sampled |-> FALSE, unsafe |-> FALSE, options |-> "detected",
         names |-> Names(cell), rerun |-> TRUE, file |-> cell.fixture]

Generate(cell, statement, prerequisites) ==
    LET r == RequestFor(cell)
    IN  IF statement = "complete_ddl" THEN CompleteDdl(r)
        ELSE IF statement = "bulk_insert" /\ ~prerequisites THEN BulkInsert(r, FALSE)
        ELSE Sections(r)[statement]

\* The format is taken for part of the credential setup.
PrerequisitesButFormat ==
    [setup |-> "credential_setup", file_format |-> "credential_setup",
     target_table |-> "create_table"]

PREREQUISITE_STATEMENTS ==
    [setup |-> "credential_setup", file_format |-> "external_file_format",
     target_table |-> "create_table"]

\* One block of batches per requirement.
SetupFor(cell) ==
    [i \in DOMAIN cell.requires |->
        Generate(cell, PREREQUISITE_STATEMENTS[cell.requires[i]], TRUE)]

OwnSql(cell) ==
    Generate(cell, cell.statement, "setup" \notin Range(cell.requires))

\* The query that proves the load, where the cell is not its own proof.
VerificationSql(cell) ==
    LET r == RequestFor(cell)
        Read(name, type) == One(<<Select({Use("table", name, type)})>>)
    IN  IF UsesDefaultNames(cell) THEN Guidance
        ELSE IF cell.verification = "target_table" THEN Read(TableName(r), "rows")
        ELSE IF cell.verification = "external_table"
        THEN Read(ExternalTableName(r), "external")
        ELSE Guidance

-----------------------------------------------------------------------------
(* The gate.                                                               *)

\* The hosts of the staging document are not handed to the gate.
PolicyOfAnyHost ==
    [databases |-> {<<Schema>>}, database |-> <<Schema>>, schema |-> <<Schema>>,
     prefix |-> Prefix, hosts |-> {}, create_database |-> plan.target = "vm",
     master_key |-> FALSE]

Policy ==
    [databases |-> {<<Schema>>}, database |-> <<Schema>>, schema |-> <<Schema>>,
     prefix |-> Prefix, hosts |-> plan.staging.hosts,
     create_database |-> plan.target = "vm", master_key |-> FALSE]

GateKind(s) ==
    CASE s.kind = "source"     -> "external data source"
      [] s.kind = "format"     -> "external file format"
      [] s.kind = "credential" -> "database scoped credential"
      [] s.kind = "masterkey"  -> "master key"
      [] s.kind = "table" /\ s.def.type = "external" -> "external table"
      [] OTHER                 -> s.kind

Parts(kind, name) ==
    IF kind = "table" THEN <<<<name[1]>>, name[2]>> ELSE <<name>>

AsGateStatement(s) ==
    [verb |-> IF s.verb = "load" THEN "bulk insert" ELSE s.verb, kind |-> GateKind(s),
     names |-> IF s.verb = "select" \/ s.kind = "masterkey" THEN <<>>
               ELSE <<Parts(s.kind, s.name)>>,
     readable |-> TRUE, head |-> "line"]

\* What the gate's scanners see of a generated batch.
AsGateBatch(batch) ==
    LET statements == Range(batch)
        tables == {u.name : u \in {v \in UNION {s.uses : s \in statements} : v.kind = "table"}}
                  \cup {s.name : s \in {t \in statements : t.verb # "select" /\ t.kind = "table"}}
        sources == {s \in statements : s.verb = "create" /\ s.kind = "source"}
    IN  [statements |-> {AsGateStatement(s) : s \in statements},
         words |-> {<<t[1]>> : t \in tables},
         references |-> {Parts("table", t) : t \in tables},
         placeholders |-> \E s \in statements : s.hole,
         secrets |-> FALSE,
         hosts |-> {s.def.location.root : s \in {t \in sources : ~t.hole}},
         repeat |-> 1]

\* _plan_sql_block: a block without a batch is not allowed.
AllAllowed(batches) ==
    batches # <<>> /\ \A b \in DOMAIN batches : Gate!Allowed(Policy, AsGateBatch(batches[b]))

AnySubstitution(batches) ==
    \E b \in DOMAIN batches : Gate!RequiresSubstitution(Policy, AsGateBatch(batches[b]))

NoViolations(batches) ==
    \A b \in DOMAIN batches : Gate!Violations(Policy, AsGateBatch(batches[b])) = {}

-----------------------------------------------------------------------------
(* The plan.                                                               *)

CreatedObjects(batches) ==
    {<<s.kind, s.name>> :
        s \in {t \in UNION {Range(batches[b]) : b \in DOMAIN batches} :
                  t.verb = "create" /\ t.kind # "masterkey"}}

DuplicateCreates(setup, own) ==
    \E i \in DOMAIN setup : CreatedObjects(setup[i]) \cap CreatedObjects(own) # {}

Verdict(setup, own, verification) ==
    IF own = <<>> THEN "NOT_EXECUTABLE"
    ELSE IF DuplicateCreates(setup, own) THEN "BLOCKED"
    ELSE IF /\ AllAllowed(own)
            /\ \A i \in DOMAIN setup : AllAllowed(setup[i])
            /\ verification = <<>> \/ AllAllowed(verification)
    THEN "READY"
    ELSE IF /\ AnySubstitution(own) \/ \E i \in DOMAIN setup : AnySubstitution(setup[i])
            /\ NoViolations(own)
    THEN "NOT_EXECUTABLE"
    ELSE "BLOCKED"

\* What a planned cell sends, in blocks: its setup, its own, its verification.
Sends(setup, own, verification) == setup \o <<own, verification>>

PlanCell(cell) ==
    IF Unstaged(cell, plan)
    THEN [verdict |-> "NOT_EXECUTABLE", sends |-> <<>>]
    ELSE LET setup == SetupFor(cell)
             own   == OwnSql(cell)
             verification == VerificationSql(cell)
         IN  [verdict |-> Verdict(setup, own, verification),
              sends |-> Sends(setup, own, verification)]

Entries == EntriesFor(plan.target)

Nowhere == [cell |-> 0, block |-> 1, batch |-> 1, statement |-> 1]

Init ==
    /\ plan \in Plans
    /\ planned = <<>>
    /\ at = Nowhere
    /\ catalog = Prohibited
    /\ refused = {}

\* build_manifest plans the next cell of the matrix.
PlanNext ==
    /\ \E i \in Entries \ DOMAIN planned :
          /\ \A j \in Entries : j < i => j \in DOMAIN planned
          /\ planned' = [j \in DOMAIN planned \cup {i} |->
                            IF j = i THEN PlanCell(MATRIX[i]) ELSE planned[j]]
    /\ UNCHANGED <<plan, at, catalog, refused>>

-----------------------------------------------------------------------------
(* The run.  The executor takes the planned cells in order and sends the   *)
(* READY ones, block by block.                                             *)

Ready == {i \in DOMAIN planned : planned[i].verdict = "READY"}

InCell == at.cell # 0 /\ at.block <= Len(planned[at.cell].sends)

Block == planned[at.cell].sends[at.block]

InBlock == InCell /\ at.batch <= Len(Block)

Batch == Block[at.batch]

Current == Batch[at.statement]

NextStatement ==
    IF at.statement < Len(Batch)
    THEN [at EXCEPT !.statement = @ + 1]
    ELSE [at EXCEPT !.batch = @ + 1, !.statement = 1]

TakeNextCell ==
    /\ DOMAIN planned = Entries
    /\ ~InCell
    /\ \E i \in Ready :
          /\ at.cell < i
          /\ \A j \in Ready : at.cell < j => i <= j
          /\ at' = [Nowhere EXCEPT !.cell = i]
    /\ UNCHANGED <<plan, planned, catalog, refused>>

TakeNextBlock ==
    /\ InCell /\ ~InBlock
    /\ at' = [at EXCEPT !.block = @ + 1, !.batch = 1, !.statement = 1]
    /\ UNCHANGED <<plan, planned, catalog, refused>>

ExecuteStatement ==
    /\ InBlock
    /\ ~Refuses(catalog, Current)
    /\ catalog' = catalog \cup Created(catalog, Current)
    /\ at' = NextStatement
    /\ UNCHANGED <<plan, planned, refused>>

\* A cell stops at the first statement that is refused.
RefuseStatement ==
    /\ InBlock
    /\ Refuses(catalog, Current)
    /\ refused' = refused \cup {at.cell}
    /\ at' = [Nowhere EXCEPT !.cell = at.cell, !.block = Len(planned[at.cell].sends) + 1]
    /\ UNCHANGED <<plan, planned, catalog>>

Next ==
    \/ PlanNext
    \/ TakeNextCell
    \/ TakeNextBlock
    \/ ExecuteStatement
    \/ RefuseStatement

Spec == Init /\ [][Next]_vars

-----------------------------------------------------------------------------
(* What a plan promises.                                                   *)

\* The JSON functions end in an INSERT into a table they tell the user to
\* create first, and the matrix does not require one of them.
LoadsNobodysTable(cell) == cell.statement = "json_functions"

\* READY means it can run: a cell's setup, its own statements and its
\* verification find every object they use and create none twice, on a
\* database that holds what the cells before it left.  An error of such a cell
\* is then the generator's, not a missing prerequisite of the plan.
ReadyCellsRun == \A i \in refused : LoadsNobodysTable(MATRIX[i])

IsOwn(o) ==
    IF o.kind = "table" THEN o.name[1] = Schema /\ o.name[2][1] = Prefix
    ELSE o.name[1] = Prefix

\* What the planned cells add to the database is under the run's prefix in the
\* run's schema, which its cleanup recognises; and its sources read from the
\* hosts the staging document allows.
OnlyOwnObjects ==
    \A o \in catalog \ Prohibited :
        /\ IsOwn(o)
        /\ o.kind = "source" /\ plan.staging.hosts # {}
              => o.def.location.root \in plan.staging.hosts

\* The negative control is refused when it can be planned, and nothing else is but reading
\* from a host that is not allowed, or on SQL Server 2019, where a remote source
\* takes a secret and the secret a master key: with the run's own names, the
\* gate never takes a statement of the generator for one outside the run.
OnlyTheControlIsBlocked ==
    \A i \in DOMAIN planned :
        /\ UsesDefaultNames(MATRIX[i]) /\ MATRIX[i].fixture \notin plan.missing
              => planned[i].verdict = "BLOCKED"
        /\ planned[i].verdict = "BLOCKED"
              => \/ UsesDefaultNames(MATRIX[i])
                 \/ plan.staging.hosts # {} /\ plan.staging.remote \notin plan.staging.hosts
                 \/ plan.platform = "sql_server_2019" /\ Remote(MATRIX[i])

=============================================================================
