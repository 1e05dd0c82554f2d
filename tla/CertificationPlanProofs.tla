----------------------- MODULE CertificationPlanProofs -----------------------
(***************************************************************************)
(* For any plans and any database: what a run leaves behind, which cells   *)
(* the gate refuses, and that the statements of the cells it calls READY   *)
(* find what they need.  It rests on what SqlGeneratorProofs says of the   *)
(* sections.                                                               *)
(***************************************************************************)
EXTENDS CertificationPlan, SqlGeneratorProofs

-----------------------------------------------------------------------------
(* The gate.                                                               *)

\* The statements of an allowed batch have no violation of their own.
LEMMA AllowedStatement ==
    ASSUME NEW policy, NEW batch, Gate!Allowed(policy, batch), NEW s \in batch.statements
    PROVE  Gate!StatementViolations(policy, s) = {}
  BY DEF Gate!Allowed, Gate!Violations

-----------------------------------------------------------------------------
(* The matrix.                                                             *)

CellsOf(x) == {x[i] : i \in DOMAIN x}

IdsOf(x) == {c.id : c \in CellsOf(x)}

\* Cells in a sequence, with an id each.
Distinct(x) ==
    /\ \E S : x \in Seq(S)
    /\ \A i \in DOMAIN x : \A j \in DOMAIN x : x[i].id = x[j].id => i = j

\* Two lists of cells, one after the other.
LEMMA JoinCells ==
    ASSUME NEW x, NEW y, Distinct(x), Distinct(y), IdsOf(x) \cap IdsOf(y) = {}
    PROVE  /\ Distinct(x \o y)
           /\ CellsOf(x \o y) = CellsOf(x) \cup CellsOf(y)
           /\ IdsOf(x \o y) = IdsOf(x) \cup IdsOf(y)
  <1> DEFINE z == x \o y
  <1>1. PICK S : x \in Seq(S)
    BY DEF Distinct
  <1>2. PICK T : y \in Seq(T)
    BY DEF Distinct
  <1>3. /\ Len(x) \in Nat /\ Len(y) \in Nat /\ DOMAIN x = 1..Len(x) /\ DOMAIN y = 1..Len(y)
        /\ DOMAIN z = 1..(Len(x) + Len(y))
        /\ \A i \in 1..Len(x) : z[i] = x[i]
        /\ \A i \in 1..Len(y) : z[Len(x) + i] = y[i]
        /\ z \in Seq(S \cup T)
    <2>1. x \in Seq(S \cup T) /\ y \in Seq(S \cup T)
      BY <1>1, <1>2
    <2> QED
      BY <2>1
  <1> HIDE DEF z
  <1>4. ASSUME NEW i \in DOMAIN z
        PROVE  \/ i \in DOMAIN x /\ z[i] = x[i]
               \/ i - Len(x) \in DOMAIN y /\ z[i] = y[i - Len(x)]
    <2>1. CASE i <= Len(x)
      BY <1>3, <2>1
    <2>2. CASE i > Len(x)
      <3>1. i - Len(x) \in 1..Len(y) /\ Len(x) + (i - Len(x)) = i
        BY <1>3, <2>2
      <3> QED
        BY <1>3, <3>1
    <2> QED
      BY <1>3, <2>1, <2>2
  <1>5. CellsOf(z) = CellsOf(x) \cup CellsOf(y)
    <2>1. \A i \in DOMAIN x : i \in DOMAIN z /\ z[i] = x[i]
      BY <1>3
    <2>2. \A i \in DOMAIN y : Len(x) + i \in DOMAIN z /\ z[Len(x) + i] = y[i]
      BY <1>3
    <2> QED
      BY <1>4, <2>1, <2>2 DEF CellsOf
  <1>6. IdsOf(z) = IdsOf(x) \cup IdsOf(y)
    BY <1>5 DEF IdsOf
  <1>7. ASSUME NEW i \in DOMAIN z, NEW j \in DOMAIN z, z[i].id = z[j].id PROVE i = j
    <2>1. \A n \in DOMAIN x : x[n].id \in IdsOf(x)
      BY DEF IdsOf, CellsOf
    <2>2. \A n \in DOMAIN y : y[n].id \in IdsOf(y)
      BY DEF IdsOf, CellsOf
    <2>3. i \in Int /\ j \in Int
      BY <1>3
    <2>4. CASE i \in DOMAIN x /\ z[i] = x[i]
      <3>1. j \in DOMAIN x /\ z[j] = x[j]
        BY <1>4, <1>7, <2>1, <2>2, <2>4
      <3> QED
        BY <1>7, <2>4, <3>1 DEF Distinct
    <2>5. CASE i - Len(x) \in DOMAIN y /\ z[i] = y[i - Len(x)]
      <3>1. j - Len(x) \in DOMAIN y /\ z[j] = y[j - Len(x)]
        BY <1>4, <1>7, <2>1, <2>2, <2>5
      <3>2. i - Len(x) = j - Len(x)
        BY <1>7, <2>5, <3>1 DEF Distinct
      <3> QED
        BY <1>3, <2>3, <3>2
    <2> QED
      BY <1>4, <2>4, <2>5
  <1> QED
    BY <1>3, <1>5, <1>6, <1>7 DEF Distinct, z

\* What kind of cell a cell of the matrix is.
IsCell(c) ==
    /\ c.fixture \in DOMAIN FIXTURES
    /\ c.id \in {"C28", "C29"} <=> c.statement = "complete_ddl"
    /\ UsesDefaultNames(c) => c.statement = "create_table"
    /\ c.id = "C26" => c.statement = "credential_setup"
    /\ c.fixture = "excel" => c.statement = "external_file_format"
    /\ \/ /\ c.statement = "create_table" /\ c.access = "none"
          /\ c.requires = <<>> /\ c.verification = "none"
       \/ /\ c.statement = "bulk_insert" /\ c.access = "blob_storage"
          /\ c.requires = <<"setup", "target_table">> /\ c.verification = "target_table"
       \/ /\ c.statement = "external_file_format" /\ c.access \in {"abs", "none"}
          /\ c.requires = <<>> /\ c.verification = "none"
       \/ /\ c.statement = "json_functions" /\ c.access = "engine_local"
          /\ c.requires = <<>> /\ c.verification = "cell_result"
       \/ /\ c.statement = "openrowset" /\ c.access \in {"abs", "blob_storage"}
          /\ c.requires = <<"setup">> /\ c.verification = "cell_result"
          /\ FIXTURES[c.fixture].type \in {"csv", "json", "delta"}
       \/ /\ c.statement = "openrowset" /\ c.access = "engine_local"
          /\ c.requires = <<>> /\ c.verification = "cell_result"
          /\ c.id = "C15" /\ FIXTURES[c.fixture].type = "csv"
       \/ /\ c.statement = "for_json" /\ c.access = "none"
          /\ c.requires = <<"target_table">> /\ c.verification = "none"
       \/ /\ c.statement = "create_external_table" /\ c.access = "abs"
          /\ c.requires = <<"setup", "file_format">> /\ c.verification = "external_table"
       \/ /\ c.statement = "credential_setup" /\ c.access = "abs"
          /\ c.requires = <<>> /\ c.verification = "none"
          /\ FIXTURES[c.fixture].type = "csv"
       \/ /\ c.statement = "complete_ddl" /\ c.access = "abs" /\ c.fixture = "csv_scalar"
          /\ c.requires = <<>> /\ c.verification = "none"

\* What the fixtures' metadata says.
LEMMA FixtureIs ==
    /\ DOMAIN FIXTURES =
          {"csv_scalar", "tsv", "pipe", "utf8", "utf8_bom", "utf16le_bom", "utf16le_bom_tsv",
           "cp932", "collation", "json_array", "json_object", "ndjson", "json_nested",
           "parquet_all_types", "parquet_sales", "orc", "excel", "text", "delta", "iceberg"}
    /\ FIXTURES["csv_scalar"].type = "csv" /\ FIXTURES["tsv"].type = "csv"
    /\ FIXTURES["pipe"].type = "csv" /\ FIXTURES["collation"].type = "csv"
    /\ FIXTURES["json_array"].type = "json" /\ FIXTURES["ndjson"].type = "json"
    /\ FIXTURES["delta"].type = "delta"
    /\ \A f \in DOMAIN FIXTURES : FIXTURES[f].type = "excel" => f = "excel"
  BY DEF FIXTURES, Metadata

\* The groups of the matrix, each with its ids.
LEMMA EncodingCellsAre ==
    /\ Distinct(EncodingCells)
    /\ IdsOf(EncodingCells) = {"C01", "C02", "C03", "C04", "C05", "C06"}
    /\ \A c \in CellsOf(EncodingCells) : IsCell(c)
  <1>1. EncodingCells \in Seq({EncodingCells[i] : i \in 1..6}) /\ DOMAIN EncodingCells = 1..6
    BY DEF EncodingCells
  <1>2. \A i \in 1..6 : \A j \in 1..6 : EncodingCells[i].id = EncodingCells[j].id => i = j
    BY DEF EncodingCells, Cell
  <1>3. IdsOf(EncodingCells) = {"C01", "C02", "C03", "C04", "C05", "C06"}
    BY <1>1 DEF EncodingCells, Cell, IdsOf, CellsOf
  <1>4. \A i \in 1..6 : IsCell(EncodingCells[i])
    BY FixtureIs DEF EncodingCells, Cell, IsCell, UsesDefaultNames
  <1> QED
    BY <1>1, <1>2, <1>3, <1>4 DEF Distinct, CellsOf

LEMMA JsonCellsAre ==
    /\ Distinct(JsonCells)
    /\ IdsOf(JsonCells) = {"C07", "C08", "C09", "C10", "C11", "C12"}
    /\ \A c \in CellsOf(JsonCells) : IsCell(c)
  <1>1. JsonCells \in Seq({JsonCells[i] : i \in 1..6}) /\ DOMAIN JsonCells = 1..6
    BY DEF JsonCells
  <1>2. \A i \in 1..6 : \A j \in 1..6 : JsonCells[i].id = JsonCells[j].id => i = j
    BY DEF JsonCells, Cell
  <1>3. IdsOf(JsonCells) = {"C07", "C08", "C09", "C10", "C11", "C12"}
    BY <1>1 DEF JsonCells, Cell, IdsOf, CellsOf
  <1>4. \A i \in 1..6 : IsCell(JsonCells[i])
    BY FixtureIs DEF JsonCells, Cell, IsCell, UsesDefaultNames
  <1> QED
    BY <1>1, <1>2, <1>3, <1>4 DEF Distinct, CellsOf

LEMMA RemoteCsvCellsAre ==
    /\ Distinct(RemoteCsvCells)
    /\ IdsOf(RemoteCsvCells) = {"C13", "C14", "C15"}
    /\ \A c \in CellsOf(RemoteCsvCells) : IsCell(c)
  <1>1. RemoteCsvCells \in Seq({RemoteCsvCells[i] : i \in 1..3}) /\ DOMAIN RemoteCsvCells = 1..3
    BY DEF RemoteCsvCells
  <1>2. \A i \in 1..3 : \A j \in 1..3 : RemoteCsvCells[i].id = RemoteCsvCells[j].id => i = j
    BY DEF RemoteCsvCells, Cell
  <1>3. IdsOf(RemoteCsvCells) = {"C13", "C14", "C15"}
    BY <1>1 DEF RemoteCsvCells, Cell, IdsOf, CellsOf
  <1>4. \A i \in 1..3 : IsCell(RemoteCsvCells[i])
    BY FixtureIs DEF RemoteCsvCells, Cell, IsCell, UsesDefaultNames
  <1> QED
    BY <1>1, <1>2, <1>3, <1>4 DEF Distinct, CellsOf

LEMMA ExternalTableCellsAre ==
    /\ Distinct(ExternalTableCells)
    /\ IdsOf(ExternalTableCells) = {"C16", "C17", "C18", "C19", "C20"}
    /\ \A c \in CellsOf(ExternalTableCells) : IsCell(c)
  <1>1. ExternalTableCells \in Seq({ExternalTableCells[i] : i \in 1..5}) /\ DOMAIN ExternalTableCells = 1..5
    BY DEF ExternalTableCells
  <1>2. \A i \in 1..5 : \A j \in 1..5 : ExternalTableCells[i].id = ExternalTableCells[j].id => i = j
    BY DEF ExternalTableCells, Cell
  <1>3. IdsOf(ExternalTableCells) = {"C16", "C17", "C18", "C19", "C20"}
    BY <1>1 DEF ExternalTableCells, Cell, IdsOf, CellsOf
  <1>4. \A i \in 1..5 : IsCell(ExternalTableCells[i])
    BY FixtureIs DEF ExternalTableCells, Cell, IsCell, UsesDefaultNames
  <1> QED
    BY <1>1, <1>2, <1>3, <1>4 DEF Distinct, CellsOf

LEMMA NoFileFormatCellsAre ==
    /\ Distinct(NoFileFormatCells)
    /\ IdsOf(NoFileFormatCells) = {"C21", "C22", "C32", "C23", "C24"}
    /\ \A c \in CellsOf(NoFileFormatCells) : IsCell(c)
  <1>1. NoFileFormatCells \in Seq({NoFileFormatCells[i] : i \in 1..5}) /\ DOMAIN NoFileFormatCells = 1..5
    BY DEF NoFileFormatCells
  <1>2. \A i \in 1..5 : \A j \in 1..5 : NoFileFormatCells[i].id = NoFileFormatCells[j].id => i = j
    BY DEF NoFileFormatCells, Cell
  <1>3. IdsOf(NoFileFormatCells) = {"C21", "C22", "C32", "C23", "C24"}
    BY <1>1 DEF NoFileFormatCells, Cell, IdsOf, CellsOf
  <1>4. \A i \in 1..5 : IsCell(NoFileFormatCells[i])
    BY FixtureIs DEF NoFileFormatCells, Cell, IsCell, UsesDefaultNames
  <1> QED
    BY <1>1, <1>2, <1>3, <1>4 DEF Distinct, CellsOf

LEMMA CredentialCellsAre ==
    /\ Distinct(CredentialCells)
    /\ IdsOf(CredentialCells) = {"C25", "C26", "C27"}
    /\ \A c \in CellsOf(CredentialCells) : IsCell(c)
  <1>1. CredentialCells \in Seq({CredentialCells[i] : i \in 1..3}) /\ DOMAIN CredentialCells = 1..3
    BY DEF CredentialCells
  <1>2. \A i \in 1..3 : \A j \in 1..3 : CredentialCells[i].id = CredentialCells[j].id => i = j
    BY DEF CredentialCells, Cell
  <1>3. IdsOf(CredentialCells) = {"C25", "C26", "C27"}
    BY <1>1 DEF CredentialCells, Cell, IdsOf, CellsOf
  <1>4. \A i \in 1..3 : IsCell(CredentialCells[i])
    BY FixtureIs DEF CredentialCells, Cell, IsCell, UsesDefaultNames
  <1> QED
    BY <1>1, <1>2, <1>3, <1>4 DEF Distinct, CellsOf

LEMMA DocumentCellsAre ==
    /\ Distinct(DocumentCells)
    /\ IdsOf(DocumentCells) = {"C28", "C29", "C30"}
    /\ \A c \in CellsOf(DocumentCells) : IsCell(c)
  <1>1. DocumentCells \in Seq({DocumentCells[i] : i \in 1..3}) /\ DOMAIN DocumentCells = 1..3
    BY DEF DocumentCells
  <1>2. \A i \in 1..3 : \A j \in 1..3 : DocumentCells[i].id = DocumentCells[j].id => i = j
    BY DEF DocumentCells, Cell
  <1>3. IdsOf(DocumentCells) = {"C28", "C29", "C30"}
    BY <1>1 DEF DocumentCells, Cell, IdsOf, CellsOf
  <1>4. \A i \in 1..3 : IsCell(DocumentCells[i])
    BY FixtureIs DEF DocumentCells, Cell, IsCell, UsesDefaultNames
  <1> QED
    BY <1>1, <1>2, <1>3, <1>4 DEF Distinct, CellsOf

LEMMA AttributionCellsAre ==
    /\ Distinct(AttributionCells)
    /\ IdsOf(AttributionCells) = {"C31", "C33", "C34", "C35", "C36", "C37", "C38"}
    /\ \A c \in CellsOf(AttributionCells) : IsCell(c)
  <1>1. AttributionCells \in Seq({AttributionCells[i] : i \in 1..7}) /\ DOMAIN AttributionCells = 1..7
    BY DEF AttributionCells
  <1>2. \A i \in 1..7 : \A j \in 1..7 : AttributionCells[i].id = AttributionCells[j].id => i = j
    BY DEF AttributionCells, Cell
  <1>3. IdsOf(AttributionCells) = {"C31", "C33", "C34", "C35", "C36", "C37", "C38"}
    BY <1>1 DEF AttributionCells, Cell, IdsOf, CellsOf
  <1>4. \A i \in 1..7 : IsCell(AttributionCells[i])
    BY FixtureIs DEF AttributionCells, Cell, IsCell, UsesDefaultNames
  <1> QED
    BY <1>1, <1>2, <1>3, <1>4 DEF Distinct, CellsOf

\* Every cell of the matrix is of a known kind and has an id of its own.
LEMMA MatrixIs ==
    /\ Distinct(MATRIX)
    /\ \A i \in DOMAIN MATRIX : IsCell(MATRIX[i])
  <1> DEFINE g2 == EncodingCells \o JsonCells
             g3 == g2 \o RemoteCsvCells
             g4 == g3 \o ExternalTableCells
             g5 == g4 \o NoFileFormatCells
             g6 == g5 \o CredentialCells
             g7 == g6 \o DocumentCells
             g8 == g7 \o AttributionCells
             Known(x) == \A c \in CellsOf(x) : IsCell(c)
  <1>1. MATRIX = g8
    BY DEF MATRIX
  <1>2. /\ Distinct(g2) /\ IdsOf(g2) = IdsOf(EncodingCells) \cup IdsOf(JsonCells)
        /\ Known(g2)
    BY EncodingCellsAre, JsonCellsAre, JoinCells
  <1> HIDE DEF g2
  <1>3. /\ Distinct(g3)
        /\ IdsOf(g3) = IdsOf(g2) \cup IdsOf(RemoteCsvCells)
        /\ Known(g3)
    <2>1. IdsOf(g2) \cap IdsOf(RemoteCsvCells) = {}
      BY <1>2, EncodingCellsAre, JsonCellsAre, RemoteCsvCellsAre
    <2> QED
      BY <1>2, <2>1, RemoteCsvCellsAre, JoinCells
  <1> HIDE DEF g3
  <1>4. /\ Distinct(g4)
        /\ IdsOf(g4) = IdsOf(g3) \cup IdsOf(ExternalTableCells)
        /\ Known(g4)
    <2>1. IdsOf(g3) \cap IdsOf(ExternalTableCells) = {}
      BY <1>2, <1>3, EncodingCellsAre, JsonCellsAre, RemoteCsvCellsAre, ExternalTableCellsAre
    <2> QED
      BY <1>3, <2>1, ExternalTableCellsAre, JoinCells
  <1> HIDE DEF g4
  <1>5. /\ Distinct(g5)
        /\ IdsOf(g5) = IdsOf(g4) \cup IdsOf(NoFileFormatCells)
        /\ Known(g5)
    <2>1. IdsOf(g4) \cap IdsOf(NoFileFormatCells) = {}
      BY <1>2, <1>3, <1>4, EncodingCellsAre, JsonCellsAre, RemoteCsvCellsAre, ExternalTableCellsAre, NoFileFormatCellsAre
    <2> QED
      BY <1>4, <2>1, NoFileFormatCellsAre, JoinCells
  <1> HIDE DEF g5
  <1>6. /\ Distinct(g6)
        /\ IdsOf(g6) = IdsOf(g5) \cup IdsOf(CredentialCells)
        /\ Known(g6)
    <2>1. IdsOf(g5) \cap IdsOf(CredentialCells) = {}
      BY <1>2, <1>3, <1>4, <1>5, EncodingCellsAre, JsonCellsAre, RemoteCsvCellsAre, ExternalTableCellsAre, NoFileFormatCellsAre, CredentialCellsAre
    <2> QED
      BY <1>5, <2>1, CredentialCellsAre, JoinCells
  <1> HIDE DEF g6
  <1>7. /\ Distinct(g7)
        /\ IdsOf(g7) = IdsOf(g6) \cup IdsOf(DocumentCells)
        /\ Known(g7)
    <2>1. IdsOf(g6) \cap IdsOf(DocumentCells) = {}
      BY <1>2, <1>3, <1>4, <1>5, <1>6, EncodingCellsAre, JsonCellsAre, RemoteCsvCellsAre, ExternalTableCellsAre, NoFileFormatCellsAre, CredentialCellsAre, DocumentCellsAre
    <2> QED
      BY <1>6, <2>1, DocumentCellsAre, JoinCells
  <1> HIDE DEF g7
  <1>8. /\ Distinct(g8)
        /\ IdsOf(g8) = IdsOf(g7) \cup IdsOf(AttributionCells)
        /\ Known(g8)
    <2>1. IdsOf(g7) \cap IdsOf(AttributionCells) = {}
      BY <1>2, <1>3, <1>4, <1>5, <1>6, <1>7, EncodingCellsAre, JsonCellsAre, RemoteCsvCellsAre, ExternalTableCellsAre, NoFileFormatCellsAre, CredentialCellsAre, DocumentCellsAre, AttributionCellsAre
    <2> QED
      BY <1>7, <2>1, AttributionCellsAre, JoinCells
  <1> QED
    BY <1>1, <1>8 DEF CellsOf

-----------------------------------------------------------------------------
(* The request of a cell.                                                  *)

KnownColumns ==
    Scalars \cup {Column("nested", NoLength), Column("string", 128), Column("string", 4000)}

LEMMA ColumnsAreKnown ==
    /\ \A f \in DOMAIN FIXTURES : FIXTURES[f].columns \subseteq KnownColumns
    /\ \A f \in DOMAIN PUBLIC_SHAPES : PUBLIC_SHAPES[f].columns \subseteq KnownColumns
    /\ \A c \in KnownColumns : c.length \in 0..MAX \cup {NoLength} /\ c.type.name \in {"int64", "string", "nested"}
  <1>1. MAX \in Nat /\ MAX > 4000
    BY LargeNumbers
  <1>2. \A c \in KnownColumns : c.length \in 0..MAX \cup {NoLength} /\ c.type.name \in {"int64", "string", "nested"}
    BY <1>1 DEF KnownColumns, Scalars, Column
  <1>3. \A f \in DOMAIN FIXTURES : FIXTURES[f].columns \subseteq KnownColumns
    BY DEF FIXTURES, Metadata, KnownColumns
  <1>4. \A f \in DOMAIN PUBLIC_SHAPES : PUBLIC_SHAPES[f].columns \subseteq KnownColumns
    BY DEF PUBLIC_SHAPES, Metadata, KnownColumns
  <1> QED
    BY <1>2, <1>3, <1>4

\* The names of a cell's objects, as the generator is given them.
LEMMA NamesAre ==
    ASSUME NEW c, IsCell(c)
    PROVE  LET r == RequestFor(c)
           IN  /\ \A n \in {r.names.table, r.names.external, r.names.source, r.names.format,
                           r.names.credential} : IsName(n)
               /\ SourceName(r) = IdentityName(c, "src")
               /\ BulkSourceName(r) = IdentityName(c, "src") \o <<"_Bulk">>
               /\ TableName(r)[1] = IF UsesDefaultNames(c) THEN "dbo" ELSE Schema
               /\ ~UsesDefaultNames(c) =>
                     /\ TableName(r) = <<Schema, IdentityName(c, c.fixture)>>
                     /\ ExternalTableName(r) = <<Schema, IdentityName(c, "ext")>>
                     /\ FormatName(r) = IdentityName(c, "fmt")
                     /\ CredentialName(r) = IdentityName(c, "cred")
                     /\ BulkCredentialName(r) = IdentityName(c, "cred") \o <<"_Bulk">>
  <1> DEFINE r == RequestFor(c)
  <1>2. \A part : IsName(IdentityName(c, part))
    <2>1. ASSUME NEW a, NEW b, NEW d PROVE IsName(<<a, b, d>>)
      <3>1. <<a, b, d>> \in Seq({a, b, d})
        OBVIOUS
      <3>2. a \in Range(<<a, b, d>>) /\ b \in Range(<<a, b, d>>) /\ d \in Range(<<a, b, d>>)
        BY DEF Range
      <3> QED
        BY <3>1, <3>2 DEF IsName
    <2> QED
      BY <2>1 DEF IdentityName
  <1>3. \A part : IdentityName(c, part) # NoName
    BY DEF IdentityName, NoName
  <1>4. r.names = Names(c)
    BY DEF RequestFor
  <1>5. IsName(NoName)
    <2>1. <<>> \in Seq(Range(<<>>))
      OBVIOUS
    <2> QED
      BY <2>1 DEF NoName, IsName
  <1>6. /\ r.names.source = IdentityName(c, "src")
        /\ r.names.schema = IF UsesDefaultNames(c) THEN "dbo" ELSE Schema
        /\ r.names.table = IF UsesDefaultNames(c) THEN NoName ELSE IdentityName(c, c.fixture)
        /\ r.names.external = IF UsesDefaultNames(c) THEN NoName ELSE IdentityName(c, "ext")
        /\ r.names.format = IF UsesDefaultNames(c) THEN NoName ELSE IdentityName(c, "fmt")
        /\ r.names.credential = IF UsesDefaultNames(c) THEN NoName ELSE IdentityName(c, "cred")
    BY <1>4 DEF Names
  <1> HIDE DEF r
  <1>7. \A n \in {r.names.table, r.names.external, r.names.source, r.names.format,
                   r.names.credential} : IsName(n)
    BY <1>2, <1>5, <1>6
  <1>8. SourceName(r) = IdentityName(c, "src")
    BY <1>3, <1>6 DEF SourceName, Named
  <1>9. TableName(r)[1] = IF UsesDefaultNames(c) THEN "dbo" ELSE Schema
    BY <1>6 DEF TableName
  <1>10. ASSUME ~UsesDefaultNames(c)
         PROVE  /\ TableName(r) = <<Schema, IdentityName(c, c.fixture)>>
                /\ ExternalTableName(r) = <<Schema, IdentityName(c, "ext")>>
                /\ FormatName(r) = IdentityName(c, "fmt")
                /\ CredentialName(r) = IdentityName(c, "cred")
                /\ BulkCredentialName(r) = IdentityName(c, "cred") \o <<"_Bulk">>
    BY <1>3, <1>6, <1>10
       DEF TableName, ExternalTableName, FormatName, CredentialName, BulkCredentialName, Named
  <1> QED
    BY <1>7, <1>8, <1>9, <1>10 DEF r, BulkSourceName

\* What the platforms of a plan have in common.
LEMMA PlatformIs ==
    ASSUME plan \in Plans
    PROVE  /\ plan.platform \in SqlServer \cup {"azure_sql_db"}
           /\ plan.target = "azure" <=> plan.platform = "azure_sql_db"
           /\ plan.target \in {"vm", "azure"}
  BY PlansAssumption DEF PlatformsFor, SqlServer

\* A cell that is staged is generated from what is known of it: the type of its
\* own fixture, at its staged place.
LEMMA RequestIs ==
    ASSUME plan \in Plans, NEW c, IsCell(c), ~Unstaged(c, plan)
    PROVE  LET r == RequestFor(c)
           IN  /\ IsRequest(r)
               /\ r.platform = plan.platform
               /\ r.type = FIXTURES[c.fixture].type
               /\ ~r.wide /\ r.rerun
               /\ r.file = c.fixture
               /\ Remote(c) =>
                     /\ SaysWhere(r.url) /\ r.url.root = plan.staging.remote
                     /\ StorageUrlKind(r.url) = "azure"
               /\ ~Remote(c) => r.url = NoUrl
               /\ r.type # "excel" => HasItsSources(r) /\ Missing(r) = {}
  <1> DEFINE r == RequestFor(c)
             m == MetadataFor(c, plan.staging)
  <1>1. /\ r.platform = plan.platform /\ r.type = m.type /\ r.columns = m.columns
        /\ ~r.wide /\ r.rerun /\ r.file = c.fixture
        /\ r.url = Url(plan.staging, c.access)
    BY DEF RequestFor
  <1>2. m.type = FIXTURES[c.fixture].type /\ m.columns \subseteq KnownColumns
    <2>1. CASE Remote(c) /\ plan.staging.exact = "no"
      <3>1. /\ plan.staging.shape \in DOMAIN PUBLIC_SHAPES
            /\ PUBLIC_SHAPES[plan.staging.shape].type = FIXTURES[c.fixture].type
        BY <2>1, PlansAssumption DEF Unstaged
      <3> QED
        BY <2>1, <3>1, ColumnsAreKnown DEF MetadataFor
    <2>2. CASE ~(Remote(c) /\ plan.staging.exact = "no")
      BY <2>2, ColumnsAreKnown DEF MetadataFor, IsCell
    <2> QED
      BY <2>1, <2>2
  <1>3. FIXTURES[c.fixture].type \in FileTypes
    BY DEF IsCell, FIXTURES, Metadata, FileTypes, FormatType
  <1>5. \A col \in r.columns : col.length \in 0..MAX \cup {NoLength} /\ col.type.name # "decimal"
    BY <1>1, <1>2, ColumnsAreKnown
  <1>6. r.platform \in PLATFORMS
    BY <1>1, PlatformIs DEF PLATFORMS, AzureSql
  <1> HIDE DEF m
  <1>4. r.names.spaced = FALSE
    BY DEF RequestFor, Names
  <1>7. IsRequest(r)
    BY <1>1, <1>2, <1>3, <1>4, <1>5, <1>6, NamesAre DEF IsRequest
  <1>8. ASSUME Remote(c)
        PROVE  /\ SaysWhere(r.url) /\ r.url.root = plan.staging.remote
               /\ StorageUrlKind(r.url) = "azure"
    <2>1. r.url \in {[scheme |-> "https", host |-> "blob", root |-> plan.staging.remote],
                     [scheme |-> "abs", host |-> "blob", root |-> plan.staging.remote]}
      BY <1>1, <1>8 DEF Url, StagedAt, Remote
    <2> HIDE DEF r
    <2>2. r.url.scheme \in {"https", "abs"} /\ r.url.host = "blob" /\ r.url.root = plan.staging.remote
      BY <2>1
    <2>3. StorageUrlKind(r.url) = "azure"
      BY <2>2 DEF StorageUrlKind, IsOneLake, BlobSchemes, DfsSchemes, Http
    <2> QED
      BY <2>2, <2>3 DEF SaysWhere
  <1>9. ~Remote(c) => r.url = NoUrl
    BY <1>1 DEF Url, Remote
  <1>10. r.type # "excel" => HasItsSources(r) /\ Missing(r) = {}
    BY <1>1, PlatformIs DEF HasItsSources, Missing, SqlServer
  <1> QED
    BY <1>1, <1>2, <1>7, <1>8, <1>9, <1>10

-----------------------------------------------------------------------------
(* What the gate sees of a generated statement.                            *)

\* A part of a name without fragments is an omitted part.
LEMMA GateNames ==
    /\ \A name : Parts("table", name) = <<<<name[1]>>, name[2]>>
    /\ \A kind, name : kind # "table" => Parts(kind, name) = <<name>>
  BY DEF Parts

\* The kinds of objects that the generator makes are those the gate scans.
LEMMA GateKinds ==
    ASSUME NEW r, NEW s, OfRequest(r, s), Makes(s)
    PROVE  /\ s.kind \in {"masterkey", "credential", "source", "format", "table"}
           /\ s.kind = "masterkey" => GateKind(s) = "master key"
           /\ s.kind = "credential" => GateKind(s) = "database scoped credential"
           /\ s.kind = "source" => GateKind(s) = "external data source"
           /\ s.kind = "format" => GateKind(s) = "external file format"
           /\ s.kind = "table" => GateKind(s) \in {"table", "external table"}
  <1>1. s.kind \in {"masterkey", "credential", "source", "format", "table"}
    <2> DEFINE o == Object(s.kind, s.name, s.def)
    <2>1. o \in Objects(r) /\ o.kind = s.kind
      BY DEF OfRequest, Object
    <2> HIDE DEF o
    <2> QED
      BY <2>1, ObjectIs
  <1> QED
    BY <1>1 DEF GateKind

\* A name in the gate's scope is the run's own.
LEMMA InScope ==
    ASSUME NEW g, NEW kind, NEW name,
           ~Gate!ScopeViolation(Policy, g, Parts(kind, name)), Gate!KindOf(g) # "schema"
    PROVE  IF kind = "table" THEN name[1] = Schema /\ name[2] # <<>> /\ name[2][1] = Prefix
           ELSE name # <<>> /\ name[1] = Prefix
  <1>0. Policy.schema = <<Schema>> /\ Policy.prefix = Prefix
    BY DEF Policy
  <1>1. CASE kind = "table"
    <2> DEFINE n == <<<<name[1]>>, name[2]>>
    <2>1. Parts(kind, name) = n
      BY <1>1, GateNames
    <2>2. Len(n) = 2 /\ n[1] = <<name[1]>> /\ n[2] = name[2]
      OBVIOUS
    <2> HIDE DEF n
    <2>3. Gate!WithoutDatabase(n) = n
      BY <2>2 DEF Gate!WithoutDatabase
    <2>6. Len(n) > 1 /\ Len(n) - 1 = 1
      BY <2>2
    <2>4. n[1] = <<Schema>> /\ Gate!StartsWithPrefix(Policy, n[2])
      BY <1>0, <2>1, <2>2, <2>3, <2>6 DEF Gate!ScopeViolation
    <2>5. <<name[1]>> = <<Schema>> /\ name[2] # <<>> /\ Head(name[2]) = Prefix
      BY <1>0, <2>2, <2>4 DEF Gate!StartsWithPrefix, Gate!Omitted
    <2> QED
      BY <1>1, <2>5
  <1>2. CASE kind # "table"
    <2> DEFINE n == <<name>>
    <2>1. Parts(kind, name) = n
      BY <1>2, GateNames
    <2>2. Len(n) = 1 /\ n[1] = name
      OBVIOUS
    <2> HIDE DEF n
    <2>3. Gate!WithoutDatabase(n) = n
      BY <2>2 DEF Gate!WithoutDatabase
    <2>4. Gate!StartsWithPrefix(Policy, name)
      BY <2>1, <2>2, <2>3 DEF Gate!ScopeViolation
    <2>5. name # <<>> /\ Head(name) = Prefix
      BY <1>0, <2>4 DEF Gate!StartsWithPrefix, Gate!Omitted
    <2> QED
      BY <1>2, <2>5
  <1> QED
    BY <1>1, <1>2

\* What an allowed statement makes is the run's own; and a source it makes
\* reads from a host of the staging document.
LEMMA AllowedMakesOwn ==
    ASSUME NEW r, NEW batch, NEW j \in DOMAIN batch, OfRequest(r, batch[j]), Makes(batch[j]),
           Gate!Allowed(Policy, AsGateBatch(batch))
    PROVE  LET s == batch[j]
           IN  /\ s.kind # "masterkey"
               /\ IF s.kind = "table"
                  THEN s.name[1] = Schema /\ s.name[2] # <<>> /\ s.name[2][1] = Prefix
                  ELSE s.name # <<>> /\ s.name[1] = Prefix
               /\ s.kind = "source" /\ plan.staging.hosts # {}
                     => s.def.location.root \in plan.staging.hosts
  <1> DEFINE s == batch[j]
             g == AsGateStatement(s)
             gb == AsGateBatch(batch)
  <1>1. s \in Range(batch) /\ g \in gb.statements
    BY DEF Range, AsGateBatch
  <1>2. Gate!StatementViolations(Policy, g) = {}
    <2> HIDE DEF g, gb
    <2> QED
      BY <1>1, AllowedStatement DEF gb
  <1>3. /\ g.verb = s.verb /\ g.kind = GateKind(s) /\ s.verb \in {"create", "selectinto"}
        /\ g.readable
        /\ s.kind # "masterkey" => g.names = <<Parts(s.kind, s.name)>>
    BY DEF AsGateStatement, Makes
  <1>4. s.verb = "create" \/ s.kind = "table"
    BY DEF OfRequest, Makes
  <1> HIDE DEF g
  <1>5. s.kind # "masterkey"
    <2> SUFFICES ASSUME s.kind = "masterkey" PROVE FALSE
      OBVIOUS
    <2>1. g.kind = "master key" /\ g.verb = "create"
      BY <1>3, <1>4, GateKinds
    <2>2. ~Policy.master_key
      BY DEF Policy
    <2> QED
      BY <1>2, <2>1, <2>2 DEF Gate!StatementViolations, Gate!PolicyViolations
  <1>6. Gate!HasTargets(g) /\ Gate!KindOf(g) # "schema"
    <2>1. \/ g.verb = "selectinto"
          \/ g.verb = "create" /\ g.kind \in {"database scoped credential", "external data source",
                 "external file format", "table", "external table"}
      BY <1>3, <1>4, <1>5, GateKinds
    <2> QED
      BY <1>3, <2>1 DEF Gate!HasTargets, Gate!ListKinds, Gate!Fills, Gate!KindOf
  <1>7. ~Gate!ScopeViolation(Policy, g, Parts(s.kind, s.name))
    <2>1. DOMAIN g.names = {1} /\ g.names[1] = Parts(s.kind, s.name)
      BY <1>3, <1>5
    <2> QED
      BY <1>2, <1>6, <2>1 DEF Gate!StatementViolations, Gate!ScopeViolations
  <1>8. IF s.kind = "table" THEN s.name[1] = Schema /\ s.name[2] # <<>> /\ s.name[2][1] = Prefix
        ELSE s.name # <<>> /\ s.name[1] = Prefix
    BY <1>6, <1>7, InScope
  <1>9. ASSUME s.kind = "source", plan.staging.hosts # {}
        PROVE  s.def.location.root \in plan.staging.hosts
    <2>1. ~gb.placeholders /\ ~Gate!ForeignHost(Policy, gb)
      <3>1. Gate!Violations(Policy, gb) = {} /\ ~gb.placeholders
        BY DEF Gate!Allowed
      <3> HIDE DEF gb
      <3>2. Gate!ForeignHost(Policy, gb) => "FOREIGN_HOST" \in Gate!Violations(Policy, gb)
        BY DEF Gate!Violations
      <3> QED
        BY <3>1, <3>2
    <2>2. ~s.hole
      BY <1>1, <2>1 DEF AsGateBatch
    <2>3. s.def.location.root \in gb.hosts
      BY <1>1, <1>4, <1>9, <2>2 DEF AsGateBatch
    <2> QED
      BY <1>9, <2>1, <2>3 DEF Gate!ForeignHost, Policy
  <1> QED
    BY <1>5, <1>8, <1>9

-----------------------------------------------------------------------------
(* The blocks of a cell.                                                   *)

\* What each statement is generated as.
LEMMA GenerateIs ==
    ASSUME NEW c, NEW p
    PROVE  LET r == RequestFor(c)
           IN  /\ Generate(c, "credential_setup", p) = CredentialSetup(r)
               /\ Generate(c, "external_file_format", p) = ExternalFileFormat(r)
               /\ Generate(c, "create_external_table", p) = ExternalTable(r)
               /\ Generate(c, "create_table", p) = CreateTable(r)
               /\ Generate(c, "bulk_insert", FALSE) = BulkInsert(r, FALSE)
               /\ Generate(c, "openrowset", p) = OpenRowset(r)
               /\ Generate(c, "json_functions", p) = JsonFunctions(r)
               /\ Generate(c, "for_json", p) = ForJson(r)
               /\ Generate(c, "complete_ddl", p) = CompleteDdl(r)
  <1> DEFINE r == RequestFor(c)
  <1> HIDE DEF r
  <1>1. /\ Sections(r)["credential_setup"] = CredentialSetup(r)
        /\ Sections(r)["external_file_format"] = ExternalFileFormat(r)
        /\ Sections(r)["create_external_table"] = ExternalTable(r)
        /\ Sections(r)["create_table"] = CreateTable(r)
        /\ Sections(r)["openrowset"] = OpenRowset(r)
        /\ Sections(r)["json_functions"] = JsonFunctions(r)
        /\ Sections(r)["for_json"] = ForJson(r)
    BY DEF Sections
  <1> QED
    BY <1>1 DEF Generate, r

\* One block per requirement.
LEMMA SetupIs ==
    ASSUME NEW c
    PROVE  LET r == RequestFor(c)
           IN  /\ c.requires = <<>> => SetupFor(c) = <<>>
               /\ c.requires = <<"setup">> => SetupFor(c) = <<CredentialSetup(r)>>
               /\ c.requires = <<"target_table">> => SetupFor(c) = <<CreateTable(r)>>
               /\ c.requires = <<"setup", "target_table">>
                     => SetupFor(c) = <<CredentialSetup(r), CreateTable(r)>>
               /\ c.requires = <<"setup", "file_format">>
                     => SetupFor(c) = <<CredentialSetup(r), ExternalFileFormat(r)>>
  <1> DEFINE r == RequestFor(c)
             S(i) == Generate(c, PREREQUISITE_STATEMENTS[c.requires[i]], TRUE)
  <1>1. SetupFor(c) = [i \in DOMAIN c.requires |-> S(i)]
    BY DEF SetupFor
  <1>2. /\ PREREQUISITE_STATEMENTS["setup"] = "credential_setup"
        /\ PREREQUISITE_STATEMENTS["file_format"] = "external_file_format"
        /\ PREREQUISITE_STATEMENTS["target_table"] = "create_table"
    BY DEF PREREQUISITE_STATEMENTS
  <1>3. \A i : /\ c.requires[i] = "setup" => S(i) = CredentialSetup(r)
               /\ c.requires[i] = "file_format" => S(i) = ExternalFileFormat(r)
               /\ c.requires[i] = "target_table" => S(i) = CreateTable(r)
    BY <1>2, GenerateIs
  <1> HIDE DEF S, r
  <1>4. ASSUME NEW a PROVE [i \in {1} |-> a] = <<a>>
    OBVIOUS
  <1>5. ASSUME NEW a, NEW b, NEW f, DOMAIN f = {1, 2}, f = [i \in {1, 2} |-> f[i]], f[1] = a, f[2] = b
        PROVE  f = <<a, b>>
    BY <1>5
  <1>6. CASE c.requires = <<>>
    BY <1>1, <1>6
  <1>7. CASE c.requires = <<"setup">>
    <2>1. DOMAIN c.requires = {1} /\ c.requires[1] = "setup"
      BY <1>7
    <2> QED
      BY <1>1, <1>3, <1>7, <2>1 DEF r
  <1>8. CASE c.requires = <<"target_table">>
    <2>1. DOMAIN c.requires = {1} /\ c.requires[1] = "target_table"
      BY <1>8
    <2> QED
      BY <1>1, <1>3, <1>8, <2>1 DEF r
  <1>9. CASE c.requires = <<"setup", "target_table">>
    <2>1. DOMAIN c.requires = {1, 2} /\ c.requires[1] = "setup" /\ c.requires[2] = "target_table"
      BY <1>9
    <2> QED
      BY <1>1, <1>3, <1>5, <1>9, <2>1 DEF r
  <1>10. CASE c.requires = <<"setup", "file_format">>
    <2>1. DOMAIN c.requires = {1, 2} /\ c.requires[1] = "setup" /\ c.requires[2] = "file_format"
      BY <1>10
    <2> QED
      BY <1>1, <1>3, <1>5, <1>10, <2>1 DEF r
  <1> QED
    BY <1>6, <1>7, <1>8, <1>9, <1>10 DEF r

\* The blocks of a cell: setup, own statements, verification.
BlocksAre(c, setup, own, verification) ==
    SetupFor(c) = setup /\ OwnSql(c) = own /\ VerificationSql(c) = verification

ReadBack(name, type) == One(<<Select({Use("table", name, type)})>>)

\* What the cells send, by the statement they are about.
LEMMA CellSends ==
    ASSUME NEW c, IsCell(c)
    PROVE  LET r == RequestFor(c)
           IN  \/ /\ c.statement = "create_table" /\ ~Remote(c)
                  /\ BlocksAre(c, <<>>, CreateTable(r), <<>>)
               \/ /\ c.statement = "bulk_insert" /\ Remote(c)
                  /\ BlocksAre(c, <<CredentialSetup(r), CreateTable(r)>>, BulkInsert(r, FALSE),
                               ReadBack(TableName(r), "rows"))
               \/ /\ c.statement = "external_file_format"
                  /\ BlocksAre(c, <<>>, ExternalFileFormat(r), <<>>)
               \/ /\ c.statement = "json_functions" /\ ~Remote(c)
                  /\ BlocksAre(c, <<>>, JsonFunctions(r), <<>>)
               \/ /\ c.statement = "openrowset" /\ Remote(c)
                  /\ FIXTURES[c.fixture].type \in {"csv", "json", "delta"}
                  /\ BlocksAre(c, <<CredentialSetup(r)>>, OpenRowset(r), <<>>)
               \/ /\ c.statement = "openrowset" /\ ~Remote(c)
                  /\ c.id = "C15" /\ FIXTURES[c.fixture].type = "csv"
                  /\ BlocksAre(c, <<>>, OpenRowset(r), <<>>)
               \/ /\ c.statement = "for_json" /\ ~Remote(c)
                  /\ BlocksAre(c, <<CreateTable(r)>>, ForJson(r), <<>>)
               \/ /\ c.statement = "create_external_table" /\ Remote(c)
                  /\ BlocksAre(c, <<CredentialSetup(r), ExternalFileFormat(r)>>, ExternalTable(r),
                               ReadBack(ExternalTableName(r), "external"))
               \/ /\ c.statement = "credential_setup" /\ Remote(c)
                  /\ BlocksAre(c, <<>>, CredentialSetup(r), <<>>)
               \/ /\ c.statement = "complete_ddl" /\ Remote(c)
                  /\ BlocksAre(c, <<>>, CompleteDdl(r), <<>>)
  <1> DEFINE r == RequestFor(c)
  <1>1. /\ VerificationSql(c) \in {Guidance, ReadBack(TableName(r), "rows"),
                                    ReadBack(ExternalTableName(r), "external")}
        /\ c.verification \in {"none", "cell_result"} => VerificationSql(c) = <<>>
        /\ c.verification = "target_table" /\ ~UsesDefaultNames(c)
              => VerificationSql(c) = ReadBack(TableName(r), "rows")
        /\ c.verification = "external_table" /\ ~UsesDefaultNames(c)
              => VerificationSql(c) = ReadBack(ExternalTableName(r), "external")
    BY DEF VerificationSql, ReadBack, Guidance
  <1>2. /\ c.statement # "bulk_insert" => OwnSql(c) = Generate(c, c.statement, "setup" \notin Range(c.requires))
        /\ c.statement = "bulk_insert" /\ c.requires = <<"setup", "target_table">>
              => OwnSql(c) = Generate(c, "bulk_insert", FALSE)
    <2>1. "setup" \in Range(<<"setup", "target_table">>)
      BY DEF Range
    <2> QED
      BY <2>1 DEF OwnSql
  <1> HIDE DEF r
  <1>3. c.access \in {"none", "engine_local"} <=> ~Remote(c)
    BY DEF Remote
  <1>4. UsesDefaultNames(c) => c.statement = "create_table"
    BY DEF IsCell
  <1> DEFINE p == "setup" \notin Range(c.requires)
  <1> HIDE DEF p
  <1>5. CASE c.statement = "create_table"
    <2>1. OwnSql(c) = CreateTable(r)
      BY <1>2, <1>5, GenerateIs DEF r, IsCell, p
    <2> QED
      BY <1>1, <1>3, <1>4, <1>5, <2>1, SetupIs DEF IsCell, BlocksAre, r
  <1>6. CASE c.statement = "bulk_insert"
    <2>1. OwnSql(c) = BulkInsert(r, FALSE)
      BY <1>2, <1>6, GenerateIs DEF r, IsCell, p
    <2> QED
      BY <1>1, <1>3, <1>4, <1>6, <2>1, SetupIs DEF IsCell, BlocksAre, r
  <1>7. CASE c.statement = "external_file_format"
    <2>1. OwnSql(c) = ExternalFileFormat(r)
      BY <1>2, <1>7, GenerateIs DEF r, IsCell, p
    <2> QED
      BY <1>1, <1>3, <1>4, <1>7, <2>1, SetupIs DEF IsCell, BlocksAre, r
  <1>8. CASE c.statement = "json_functions"
    <2>1. OwnSql(c) = JsonFunctions(r)
      BY <1>2, <1>8, GenerateIs DEF r, IsCell, p
    <2> QED
      BY <1>1, <1>3, <1>4, <1>8, <2>1, SetupIs DEF IsCell, BlocksAre, r
  <1>9. CASE c.statement = "openrowset"
    <2>1. OwnSql(c) = OpenRowset(r)
      BY <1>2, <1>9, GenerateIs DEF r, IsCell, p
    <2> QED
      BY <1>1, <1>3, <1>4, <1>9, <2>1, SetupIs DEF IsCell, BlocksAre, r
  <1>10. CASE c.statement = "for_json"
    <2>1. OwnSql(c) = ForJson(r)
      BY <1>2, <1>10, GenerateIs DEF r, IsCell, p
    <2> QED
      BY <1>1, <1>3, <1>4, <1>10, <2>1, SetupIs DEF IsCell, BlocksAre, r
  <1>11. CASE c.statement = "create_external_table"
    <2>1. OwnSql(c) = ExternalTable(r)
      BY <1>2, <1>11, GenerateIs DEF r, IsCell, p
    <2> QED
      BY <1>1, <1>3, <1>4, <1>11, <2>1, SetupIs DEF IsCell, BlocksAre, r
  <1>12. CASE c.statement = "credential_setup"
    <2>1. OwnSql(c) = CredentialSetup(r)
      BY <1>2, <1>12, GenerateIs DEF r, IsCell, p
    <2> QED
      BY <1>1, <1>3, <1>4, <1>12, <2>1, SetupIs DEF IsCell, BlocksAre, r
  <1>13. CASE c.statement = "complete_ddl"
    <2>1. OwnSql(c) = CompleteDdl(r)
      BY <1>2, <1>13, GenerateIs DEF r, IsCell, p
    <2> QED
      BY <1>1, <1>3, <1>4, <1>13, <2>1, SetupIs DEF IsCell, BlocksAre, r
  <1> QED
    BY <1>5, <1>6, <1>7, <1>8, <1>9, <1>10, <1>11, <1>12, <1>13 DEF IsCell

\* A block whose statements use no table but the cell's own two.
Fits(r, x) ==
    \E K : /\ Section(r, K, x)
           /\ \A u \in K : u.kind = "table" => u.name \in {TableName(r), ExternalTableName(r)}

\* Every block of a staged cell is such a block.
LEMMA BlocksFit ==
    ASSUME plan \in Plans, NEW c, IsCell(c), ~Unstaged(c, plan)
    PROVE  LET r == RequestFor(c)
           IN  /\ \A i \in DOMAIN SetupFor(c) : Fits(r, SetupFor(c)[i])
               /\ Fits(r, OwnSql(c)) /\ Fits(r, VerificationSql(c))
  <1> DEFINE r == RequestFor(c)
             T == {TableName(r), ExternalTableName(r)}
  <1>1. IsRequest(r) /\ ~r.wide
    BY RequestIs
  <1>2. /\ UseSource(r).kind = "source" /\ UseBulkSource(r).kind = "source"
        /\ \A name, type : Use("credential", name, type).kind = "credential"
        /\ \A name, type : Use("format", name, type).kind = "format"
        /\ UseTable(r).name = TableName(r)
        /\ \A name, type : Use("table", name, type).name = name
    BY DEF UseSource, UseBulkSource, UseTable, Use
  <1> HIDE DEF r
  <1>3. Fits(r, <<>>)
    BY NothingFits DEF Fits
  <1>4. Fits(r, CredentialSetup(r))
    <2>1. \A u \in Missing(r) : u.kind # "table"
      BY <1>2 DEF Missing
    <2> QED
      BY <1>1, <2>1, SetupFits DEF Fits
  <1>5. Fits(r, CreateTable(r)) /\ Fits(r, ExternalFileFormat(r))
    BY <1>1, CreateTableFits, FileFormatFits DEF Fits
  <1>6. \A u \in Sources(r) : u.kind # "table"
    BY <1>2 DEF Sources
  <1>7. Fits(r, BulkInsert(r, FALSE))
    <2>1. \A u \in Available(r) : u.kind = "table" => u.name \in T
      BY <1>2, <1>6 DEF Available
    <2> QED
      BY <1>1, <2>1, LoadFits DEF Fits
  <1>8. Fits(r, OpenRowset(r))
    BY <1>1, <1>6, OpenRowsetFits DEF Fits
  <1>9. Fits(r, ForJson(r))
    <2> DEFINE K == {UseTable(r)}
    <2>1. \A u \in K : u.kind = "table" => u.name \in T
      BY <1>2
    <2>2. Section(r, K, ForJson(r))
      BY ForJsonFits
    <2> HIDE DEF K
    <2> QED
      BY <2>1, <2>2 DEF Fits
  <1>10. Fits(r, JsonFunctions(r))
    <2> DEFINE K == {UseTable(r), UseSource(r), UseBulkSource(r)}
    <2>1. \A u \in K : u.kind = "table" => u.name \in T
      BY <1>2
    <2>2. Section(r, K, JsonFunctions(r))
      BY JsonFunctionsFit
    <2> HIDE DEF K
    <2> QED
      BY <2>1, <2>2 DEF Fits
  <1>11. Fits(r, ExternalTable(r))
    <2> DEFINE K == {UseSource(r), Use("format", FormatName(r), FormatType[r.type])}
    <2>1. \A u \in K : u.kind = "table" => u.name \in T
      BY <1>2
    <2>2. Section(r, K, ExternalTable(r))
      BY <1>1, ExternalTableFits
    <2> QED
      BY <2>1, <2>2 DEF Fits
  <1>12. Fits(r, CompleteDdl(r))
    <2>1. \A u \in Missing(r) : u.kind # "table"
      BY <1>2 DEF Missing
    <2> QED
      BY <1>1, <2>1, DocumentFits DEF Fits
  <1>13. /\ Fits(r, ReadBack(TableName(r), "rows"))
         /\ Fits(r, ReadBack(ExternalTableName(r), "external"))
    <2>1. ASSUME NEW name \in T, NEW type PROVE Fits(r, ReadBack(name, type))
      <3>1. Section(r, {Use("table", name, type)}, ReadBack(name, type))
        BY OneSelectFits DEF ReadBack
      <3> QED
        BY <1>2, <3>1 DEF Fits
    <2> QED
      BY <2>1
  <1> DEFINE All(x) == \A i \in DOMAIN x : Fits(r, x[i])
  <1>14. /\ All(<<>>)
         /\ \A a : Fits(r, a) => All(<<a>>)
         /\ \A a, b : Fits(r, a) /\ Fits(r, b) => All(<<a, b>>)
    OBVIOUS
  <1>15. All(<<CredentialSetup(r), CreateTable(r)>>) /\ All(<<CredentialSetup(r)>>)
         /\ All(<<CreateTable(r)>>) /\ All(<<CredentialSetup(r), ExternalFileFormat(r)>>)
    BY <1>4, <1>5, <1>14
  <1>16. ASSUME NEW setup, NEW own, NEW ver, BlocksAre(c, setup, own, ver),
                All(setup), Fits(r, own), Fits(r, ver)
         PROVE  All(SetupFor(c)) /\ Fits(r, OwnSql(c)) /\ Fits(r, VerificationSql(c))
    BY <1>16 DEF BlocksAre
  <1> HIDE DEF T, All
  <1>17. All(SetupFor(c)) /\ Fits(r, OwnSql(c)) /\ Fits(r, VerificationSql(c))
    BY <1>3, <1>4, <1>5, <1>7, <1>8, <1>9, <1>10, <1>11, <1>12, <1>13, <1>14, <1>15, <1>16, CellSends
       DEF r
  <1> QED
    BY <1>17 DEF All, r

\* The tables in a block are the cell's own.
LEMMA TablesAreOwn ==
    ASSUME NEW r, NEW x, Fits(r, x), NEW b \in DOMAIN x, NEW i \in DOMAIN x[b],
           NEW u \in x[b][i].uses, u.kind = "table"
    PROVE  u.name \in {TableName(r), ExternalTableName(r)}
  <1>1. PICK K : /\ Section(r, K, x)
                 /\ \A v \in K : v.kind = "table" => v.name \in {TableName(r), ExternalTableName(r)}
    BY DEF Fits
  <1>2. CASE u \in K
    BY <1>1, <1>2
  <1>3. CASE u \notin K
    <2>1. PICK c \in 1..(b - 1) : Offers(x[c], u)
      BY <1>1, <1>3 DEF Section
    <2>2. c \in DOMAIN x
      <3>1. PICK S : x \in Seq(Seq(S))
        BY <1>1 DEF Section, IsScript
      <3> QED
        BY <2>1, <3>1
    <2>3. PICK j \in DOMAIN x[c] :
             x[c][j].verb = "create" /\ Use(x[c][j].kind, x[c][j].name, x[c][j].def.type) = u
      BY <2>1 DEF Offers
    <2>4. x[c][j].kind = "table" /\ x[c][j].name = u.name
      BY <2>3 DEF Use
    <2> QED
      BY <1>1, <2>2, <2>3, <2>4 DEF Section, OfRequest
  <1> QED
    BY <1>2, <1>3

\* What a cell sends, block by block: statements of its own request, and those
\* of a READY cell past the gate.
LEMMA SendsAre ==
    ASSUME plan \in Plans, NEW c, IsCell(c), ~Unstaged(c, plan)
    PROVE  LET x == PlanCell(c).sends
           IN  /\ \E S : x \in Seq(S)
               /\ x = SetupFor(c) \o <<OwnSql(c), VerificationSql(c)>>
               /\ \A k \in DOMAIN x : Fits(RequestFor(c), x[k])
               /\ PlanCell(c).verdict = "READY" =>
                     /\ OwnSql(c) # <<>>
                     /\ \A k \in DOMAIN x : \A b \in DOMAIN x[k] :
                           Gate!Allowed(Policy, AsGateBatch(x[k][b]))
  <1> DEFINE setup == SetupFor(c)
             own == OwnSql(c)
             ver == VerificationSql(c)
             x == setup \o <<own, ver>>
  <1>1. PlanCell(c) = [verdict |-> Verdict(setup, own, ver), sends |-> x]
    BY DEF PlanCell, Sends
  <1>2. /\ \A i \in DOMAIN setup : Fits(RequestFor(c), setup[i])
        /\ Fits(RequestFor(c), own) /\ Fits(RequestFor(c), ver)
    BY BlocksFit
  <1>3. \E S : setup \in Seq(S)
    <2>1. /\ \E S : <<>> \in Seq(S)
          /\ \A a : \E S : <<a>> \in Seq(S)
          /\ \A a, b : \E S : <<a, b>> \in Seq(S)
      <3>1. <<>> \in Seq({})
        OBVIOUS
      <3>2. ASSUME NEW a PROVE <<a>> \in Seq({a})
        OBVIOUS
      <3>3. ASSUME NEW a, NEW b PROVE <<a, b>> \in Seq({a, b})
        OBVIOUS
      <3> QED
        BY <3>1, <3>2, <3>3
    <2>2. \/ setup = <<>>
          \/ \E a : setup = <<a>>
          \/ \E a, b : setup = <<a, b>>
      <3>1. ASSUME NEW s, NEW o, NEW v, BlocksAre(c, s, o, v) PROVE setup = s
        BY <3>1 DEF BlocksAre
      <3> HIDE DEF setup
      <3> QED
        BY <3>1, CellSends
    <2> HIDE DEF setup
    <2> QED
      BY <2>1, <2>2
  <1>4. Verdict(setup, own, ver) = "READY" =>
           own # <<>> /\ AllAllowed(own)
           /\ (\A i \in DOMAIN setup : AllAllowed(setup[i])) /\ (ver = <<>> \/ AllAllowed(ver))
    BY DEF Verdict
  <1> HIDE DEF setup, own, ver
  <1>5. /\ \E S : x \in Seq(S)
        /\ \A k \in DOMAIN x : x[k] \in {own, ver} \/ (k \in DOMAIN setup /\ x[k] = setup[k])
    <2>1. PICK S : setup \in Seq(S)
      BY <1>3
    <2> DEFINE T == S \cup {own, ver}
               y == <<own, ver>>
    <2>2. setup \in Seq(T) /\ y \in Seq(T) /\ Len(y) = 2 /\ y[1] = own /\ y[2] = ver
      BY <2>1
    <2> HIDE DEF y, T
    <2>3. /\ setup \o y \in Seq(T) /\ DOMAIN (setup \o y) = 1..(Len(setup) + Len(y))
          /\ DOMAIN setup = 1..Len(setup) /\ Len(setup) \in Nat
          /\ \A k \in 1..Len(setup) : (setup \o y)[k] = setup[k]
          /\ \A k \in 1..Len(y) : (setup \o y)[Len(setup) + k] = y[k]
      <3>1. ASSUME NEW u \in Seq(T), NEW v \in Seq(T)
            PROVE  /\ u \o v \in Seq(T) /\ DOMAIN (u \o v) = 1..(Len(u) + Len(v))
                   /\ DOMAIN u = 1..Len(u) /\ Len(u) \in Nat
                   /\ \A k \in 1..Len(u) : (u \o v)[k] = u[k]
                   /\ \A k \in 1..Len(v) : (u \o v)[Len(u) + k] = v[k]
        OBVIOUS
      <3> QED
        BY <2>2, <3>1, Zenon
    <2>4. (setup \o y)[Len(setup) + 1] = own /\ (setup \o y)[Len(setup) + 2] = ver
      <3> DEFINE z == setup \o y
      <3>1. \A k \in 1..Len(y) : z[Len(setup) + k] = y[k]
        BY <2>3
      <3> HIDE DEF z
      <3>2. z[Len(setup) + 1] = own /\ z[Len(setup) + 2] = ver
        BY <2>2, <3>1
      <3> QED
        BY <3>2 DEF z
    <2>5. \A k \in 1..(Len(setup) + 2) :
             k \in 1..Len(setup) \/ k = Len(setup) + 1 \/ k = Len(setup) + 2
      BY <2>3
    <2>6. x = setup \o y
      BY DEF y
    <2>7. DOMAIN (setup \o y) = 1..(Len(setup) + 2)
      BY <2>2, <2>3
    <2> HIDE DEF x
    <2> QED
      BY <2>3, <2>4, <2>5, <2>6, <2>7
  <1> HIDE DEF x
  <1>6. \A b \in DOMAIN <<>> : FALSE
    OBVIOUS
  <1>7. \A k \in DOMAIN x : Fits(RequestFor(c), x[k])
    BY <1>2, <1>5
  <1>8. ASSUME Verdict(setup, own, ver) = "READY"
        PROVE  \A k \in DOMAIN x : \A b \in DOMAIN x[k] : Gate!Allowed(Policy, AsGateBatch(x[k][b]))
    BY <1>4, <1>5, <1>6, <1>8 DEF AllAllowed
  <1> QED
    BY <1>1, <1>4, <1>5, <1>7, <1>8 DEF x, setup, own, ver

LEMMA ReadyIsStaged ==
    ASSUME NEW c, PlanCell(c).verdict = "READY" PROVE ~Unstaged(c, plan)
  BY DEF PlanCell

\* A cell's plan does not change while the plan does not.
LEMMA PlanKept ==
    ASSUME plan' = plan, NEW c
    PROVE  PlanCell(c)' = PlanCell(c) /\ RequestFor(c)' = RequestFor(c)
  <1>1. RequestFor(c)' = RequestFor(c)
    BY DEF RequestFor
  <1>2. Policy' = Policy
    BY DEF Policy
  <1> QED
    BY <1>1, <1>2 DEF PlanCell, SetupFor, OwnSql, VerificationSql, Generate, Verdict, AllAllowed,
       AnySubstitution, NoViolations

-----------------------------------------------------------------------------
(* Where a run stands.                                                     *)

\* The plan is what is generated for the run, and nothing else.
PlannedAsGenerated ==
    /\ plan \in Plans
    /\ DOMAIN planned \subseteq Entries
    /\ \A i \in DOMAIN planned : planned[i] = PlanCell(MATRIX[i])

Positive == Nat \ {0}

\* A place in what is planned: in a READY cell, at a statement of the batch it
\* is in, if it is in one.
IsPlace(p, a) ==
    /\ a \in [cell : Nat, block : Positive, batch : Positive, statement : Positive]
    /\ a.cell # 0 =>
          /\ a.cell \in DOMAIN p /\ p[a.cell].verdict = "READY"
          /\ a.block <= Len(p[a.cell].sends) /\ a.batch <= Len(p[a.cell].sends[a.block])
                => a.statement <= Len(p[a.cell].sends[a.block][a.batch])

Placed == IsPlace(planned, at)

\* The sends of a planned READY cell are blocks of batches, none of them empty.
LEMMA PlannedBlocks ==
    ASSUME PlannedAsGenerated, NEW i \in DOMAIN planned, planned[i].verdict = "READY"
    PROVE  LET c == MATRIX[i]
               x == planned[i].sends
           IN  /\ i \in Positive /\ IsCell(c) /\ ~Unstaged(c, plan)
               /\ x = PlanCell(c).sends /\ PlanCell(c).verdict = "READY"
               /\ Len(x) \in Nat /\ DOMAIN x = 1..Len(x)
               /\ \A k \in DOMAIN x :
                     /\ Len(x[k]) \in Nat /\ DOMAIN x[k] = 1..Len(x[k])
                     /\ \A b \in DOMAIN x[k] :
                           /\ Len(x[k][b]) \in Nat /\ DOMAIN x[k][b] = 1..Len(x[k][b])
                           /\ Len(x[k][b]) >= 1
  <1> DEFINE c == MATRIX[i]
             x == planned[i].sends
  <1>1. i \in DOMAIN MATRIX /\ planned[i] = PlanCell(c)
    BY DEF PlannedAsGenerated, Entries, EntriesFor
  <1>2. DOMAIN MATRIX \subseteq Positive
    <2>1. PICK S : MATRIX \in Seq(S)
      BY MatrixIs DEF Distinct
    <2> QED
      BY <2>1 DEF Positive
  <1>3. IsCell(c) /\ ~Unstaged(c, plan) /\ x = PlanCell(c).sends /\ PlanCell(c).verdict = "READY"
    BY <1>1, MatrixIs, ReadyIsStaged
  <1> HIDE DEF c, x
  <1>4. (\E S : x \in Seq(S)) /\ \A k \in DOMAIN x : Fits(RequestFor(c), x[k])
    BY <1>3, SendsAre DEF PlannedAsGenerated
  <1>5. Len(x) \in Nat /\ DOMAIN x = 1..Len(x)
    BY <1>4
  <1>6. ASSUME NEW k \in DOMAIN x
        PROVE  /\ Len(x[k]) \in Nat /\ DOMAIN x[k] = 1..Len(x[k])
               /\ \A b \in DOMAIN x[k] :
                     /\ Len(x[k][b]) \in Nat /\ DOMAIN x[k][b] = 1..Len(x[k][b])
                     /\ Len(x[k][b]) >= 1
    <2> DEFINE y == x[k]
    <2>1. PICK K : Section(RequestFor(c), K, y)
      BY <1>4 DEF Fits
    <2> HIDE DEF y
    <2>2. PICK S : y \in Seq(Seq(S))
      BY <2>1 DEF Section, IsScript
    <2>3. \A b \in DOMAIN y : y[b] \in Seq(S) /\ y[b] # <<>>
      BY <2>1, <2>2 DEF Section
    <2>4. Len(y) \in Nat /\ DOMAIN y = 1..Len(y)
      BY <2>2
    <2>5. \A z \in Seq(S) : z # <<>> => Len(z) \in Nat /\ DOMAIN z = 1..Len(z) /\ Len(z) >= 1
      OBVIOUS
    <2> QED
      BY <2>3, <2>4, <2>5 DEF y
  <1> QED
    BY <1>1, <1>2, <1>3, <1>5, <1>6 DEF c, x

\* The first statement of a batch is a place.
LEMMA FirstOfBatch ==
    ASSUME PlannedAsGenerated,
           NEW a \in [cell : Nat, block : Positive, batch : Positive, statement : Positive],
           a.cell # 0 => a.cell \in DOMAIN planned /\ planned[a.cell].verdict = "READY",
           a.statement = 1
    PROVE  IsPlace(planned, a)
  <1>1. SUFFICES ASSUME a.cell # 0, a.block <= Len(planned[a.cell].sends),
                        a.batch <= Len(planned[a.cell].sends[a.block])
                 PROVE  1 <= Len(planned[a.cell].sends[a.block][a.batch])
    BY DEF IsPlace
  <1> DEFINE x == planned[a.cell].sends
  <1>2. a.block \in DOMAIN x
    BY <1>1, PlannedBlocks DEF Positive
  <1>3. a.batch \in DOMAIN x[a.block]
    BY <1>1, <1>2, PlannedBlocks DEF Positive
  <1> QED
    BY <1>1, <1>2, <1>3, PlannedBlocks

\* The statement to send next is one of its cell, and past the gate.
LEMMA SentStatement ==
    ASSUME PlannedAsGenerated, Placed, InBlock
    PROVE  LET r == RequestFor(MATRIX[at.cell])
           IN  /\ at.cell \in DOMAIN planned /\ planned[at.cell].verdict = "READY"
               /\ at.block \in DOMAIN planned[at.cell].sends
               /\ Fits(r, Block)
               /\ at.batch \in DOMAIN Block /\ at.statement \in DOMAIN Batch
               /\ OfRequest(r, Current)
               /\ Gate!Allowed(Policy, AsGateBatch(Batch))
  <1> DEFINE i == at.cell
             c == MATRIX[i]
             x == planned[i].sends
  <1>1. /\ i \in DOMAIN planned /\ planned[i].verdict = "READY"
        /\ at.block \in Positive /\ at.batch \in Positive /\ at.statement \in Positive
        /\ at.block <= Len(x) /\ at.batch <= Len(Block) /\ at.statement <= Len(Batch)
    BY DEF Placed, IsPlace, InBlock, InCell, Block, Batch
  <1>2. at.block \in DOMAIN x
    BY <1>1, PlannedBlocks DEF Positive
  <1>3. at.batch \in DOMAIN Block
    BY <1>1, <1>2, PlannedBlocks DEF Positive, Block
  <1>4. at.statement \in DOMAIN Batch
    BY <1>1, <1>2, <1>3, PlannedBlocks DEF Positive, Block, Batch
  <1>5. IsCell(c) /\ ~Unstaged(c, plan) /\ x = PlanCell(c).sends /\ PlanCell(c).verdict = "READY"
    BY <1>1, PlannedBlocks
  <1>6. Fits(RequestFor(c), Block) /\ Gate!Allowed(Policy, AsGateBatch(Batch))
    BY <1>2, <1>3, <1>5, SendsAre DEF PlannedAsGenerated, Block, Batch
  <1>7. OfRequest(RequestFor(c), Current)
    BY <1>3, <1>4, <1>6 DEF Fits, Section, Current, Batch
  <1> QED
    BY <1>1, <1>2, <1>3, <1>4, <1>6, <1>7

PlaceInv == PlannedAsGenerated /\ Placed

LEMMA PlaceInit == Init => PlaceInv
  <1> SUFFICES ASSUME Init PROVE PlaceInv
    OBVIOUS
  <1>1. PlannedAsGenerated
    BY DEF Init, PlannedAsGenerated
  <1>2. /\ Nowhere \in [cell : Nat, block : Positive, batch : Positive, statement : Positive]
        /\ Nowhere.cell = 0
    BY DEF Nowhere, Positive
  <1> QED
    BY <1>1, <1>2 DEF Init, PlaceInv, Placed, IsPlace

\* While the plan is, what is planned stays as generated.
LEMMA PlannedKept ==
    ASSUME PlannedAsGenerated, plan' = plan, planned' = planned
    PROVE  PlannedAsGenerated'
  <1>1. \A c : PlanCell(c)' = PlanCell(c)
    BY PlanKept
  <1>2. Entries' = Entries
    BY DEF Entries
  <1> QED
    BY <1>1, <1>2 DEF PlannedAsGenerated

\* Planning a cell adds it and leaves the others.
LEMMA PlanStep ==
    ASSUME PlannedAsGenerated, PlanNext
    PROVE  /\ PlannedAsGenerated'
           /\ DOMAIN planned \subseteq DOMAIN planned'
           /\ \A i \in DOMAIN planned : planned'[i] = planned[i]
           /\ plan' = plan /\ at' = at /\ catalog' = catalog /\ refused' = refused
  <1>1. PICK i \in Entries \ DOMAIN planned :
           planned' = [j \in DOMAIN planned \cup {i} |->
                          IF j = i THEN PlanCell(MATRIX[i]) ELSE planned[j]]
    BY DEF PlanNext
  <1>2. plan' = plan /\ at' = at /\ catalog' = catalog /\ refused' = refused
    BY DEF PlanNext
  <1>3. \A c : PlanCell(c)' = PlanCell(c)
    BY <1>2, PlanKept
  <1>4. Entries' = Entries
    BY <1>2 DEF Entries
  <1>5. /\ DOMAIN planned' = DOMAIN planned \cup {i}
        /\ planned'[i] = PlanCell(MATRIX[i])
        /\ \A j \in DOMAIN planned : planned'[j] = planned[j]
    BY <1>1
  <1> QED
    BY <1>2, <1>3, <1>4, <1>5 DEF PlannedAsGenerated

\* The statement after a place is a place.
LEMMA NextIsPlace ==
    ASSUME PlaceInv, InBlock
    PROVE  IsPlace(planned, NextStatement) /\ NextStatement.cell = at.cell
  <1>0. at \in [cell : Nat, block : Positive, batch : Positive, statement : Positive]
    BY DEF PlaceInv, Placed, IsPlace
  <1>1. at.cell # 0 /\ at.cell \in DOMAIN planned /\ planned[at.cell].verdict = "READY"
    BY DEF PlaceInv, Placed, IsPlace, InBlock, InCell
  <1>2. CASE at.statement < Len(Batch)
    <2> DEFINE a == [at EXCEPT !.statement = @ + 1]
    <2>1. /\ a \in [cell : Nat, block : Positive, batch : Positive, statement : Positive]
          /\ a.cell = at.cell /\ a.block = at.block /\ a.batch = at.batch
          /\ a.statement = at.statement + 1
      BY <1>0 DEF Positive
    <2>2. a = NextStatement
      BY <1>2 DEF NextStatement
    <2>3. Len(Batch) \in Nat
      <3>1. Batch = planned[at.cell].sends[at.block][at.batch]
        BY DEF Batch, Block
      <3>2. at.block \in DOMAIN planned[at.cell].sends /\ at.batch \in DOMAIN planned[at.cell].sends[at.block]
        BY SentStatement DEF PlaceInv, Block
      <3> QED
        BY <1>1, <3>1, <3>2, PlannedBlocks DEF PlaceInv
    <2>4. a.statement <= Len(planned[a.cell].sends[a.block][a.batch])
      <3>1. at.statement \in Nat
        BY <1>0 DEF Positive
      <3> QED
        BY <1>2, <2>1, <2>3, <3>1 DEF Batch, Block
    <2> HIDE DEF a
    <2> QED
      BY <1>1, <2>1, <2>2, <2>4 DEF IsPlace
  <1>3. CASE ~(at.statement < Len(Batch))
    <2> DEFINE a == [at EXCEPT !.batch = @ + 1, !.statement = 1]
    <2>1. /\ a \in [cell : Nat, block : Positive, batch : Positive, statement : Positive]
          /\ a.cell = at.cell /\ a.statement = 1
      <3>1. a = [cell |-> at.cell, block |-> at.block, batch |-> at.batch + 1, statement |-> 1]
        <4>1. DOMAIN at = {"cell", "block", "batch", "statement"}
          BY <1>0
        <4>2. /\ DOMAIN a = DOMAIN at /\ a = [f \in DOMAIN a |-> a[f]]
              /\ a["cell"] = at.cell /\ a["block"] = at.block
              /\ a["batch"] = at.batch + 1 /\ a["statement"] = 1
          BY <1>0, <4>1
        <4> HIDE DEF a
        <4> QED
          BY <4>1, <4>2
      <3> HIDE DEF a
      <3> QED
        BY <1>0, <3>1 DEF Positive
    <2>2. a = NextStatement
      BY <1>3 DEF NextStatement
    <2> HIDE DEF a
    <2> QED
      BY <1>1, <2>1, <2>2, FirstOfBatch DEF PlaceInv
  <1> QED
    BY <1>2, <1>3

\* A run stays where there is something to send, at a cell that is READY.
LEMMA PlaceStep == PlaceInv /\ [Next]_vars => PlaceInv'
  <1> SUFFICES ASSUME PlaceInv, [Next]_vars PROVE PlaceInv'
    OBVIOUS
  <1>0. PlannedAsGenerated /\ Placed
    BY DEF PlaceInv
  <1> DEFINE Place == [cell : Nat, block : Positive, batch : Positive, statement : Positive]
  <1>a. at \in Place /\ (at.cell # 0 => at.cell \in DOMAIN planned /\ planned[at.cell].verdict = "READY")
    BY <1>0 DEF Placed, IsPlace
  <1>1. CASE PlanNext
    <2>1. /\ PlannedAsGenerated' /\ at' = at
          /\ DOMAIN planned \subseteq DOMAIN planned'
          /\ \A i \in DOMAIN planned : planned'[i] = planned[i]
      BY <1>0, <1>1, PlanStep
    <2>2. IsPlace(planned', at)
      BY <1>0, <2>1 DEF Placed, IsPlace
    <2> QED
      BY <2>1, <2>2 DEF PlaceInv, Placed
  <1>2. ASSUME plan' = plan, planned' = planned, IsPlace(planned, at') PROVE PlaceInv'
    BY <1>0, <1>2, PlannedKept DEF PlaceInv, Placed
  <1>3. CASE TakeNextCell
    <2>1. PICK i \in Ready : at' = [Nowhere EXCEPT !.cell = i]
      BY <1>3 DEF TakeNextCell
    <2>2. i \in DOMAIN planned /\ planned[i].verdict = "READY" /\ i \in Nat
      BY <1>0, <2>1, PlannedBlocks DEF Ready, Positive
    <2>3. at' \in Place /\ at'.cell = i /\ at'.statement = 1
      BY <2>1, <2>2 DEF Nowhere, Positive
    <2>4. IsPlace(planned, at')
      BY <1>0, <2>2, <2>3, FirstOfBatch
    <2> QED
      BY <1>2, <1>3, <2>4 DEF TakeNextCell
  <1>4. CASE TakeNextBlock
    <2>1. at' \in Place /\ at'.cell = at.cell /\ at'.statement = 1
      <3>1. at' = [cell |-> at.cell, block |-> at.block + 1, batch |-> 1, statement |-> 1]
        BY <1>a, <1>4 DEF TakeNextBlock
      <3> QED
        BY <1>a, <3>1 DEF Positive
    <2>2. IsPlace(planned, at')
      BY <1>0, <1>a, <2>1, FirstOfBatch
    <2> QED
      BY <1>2, <1>4, <2>2 DEF TakeNextBlock
  <1>5. CASE ExecuteStatement
    BY <1>2, <1>5, NextIsPlace DEF ExecuteStatement
  <1>6. CASE RefuseStatement
    <2> DEFINE n == Len(planned[at.cell].sends)
    <2>1. at.cell # 0 /\ n \in Nat
      BY <1>0, <1>a, <1>6, PlannedBlocks DEF RefuseStatement, InBlock, InCell
    <2>2. at' = [Nowhere EXCEPT !.cell = at.cell, !.block = n + 1]
      BY <1>6 DEF RefuseStatement
    <2>3. at' \in Place /\ at'.cell = at.cell /\ at'.statement = 1
      <3> HIDE DEF n
      <3> QED
        <4>1. at' = [cell |-> at.cell, block |-> n + 1, batch |-> 1, statement |-> 1]
          BY <2>2 DEF Nowhere
        <4> QED
          BY <1>a, <2>1, <4>1 DEF Positive
    <2>4. IsPlace(planned, at')
      BY <1>0, <1>a, <2>3, FirstOfBatch
    <2> QED
      BY <1>2, <1>6, <2>4 DEF RefuseStatement
  <1>7. CASE UNCHANGED vars
    <2>1. plan' = plan /\ planned' = planned /\ at' = at
      BY <1>7 DEF vars
    <2> QED
      BY <1>0, <1>2, <2>1 DEF Placed
  <1> QED
    BY <1>1, <1>3, <1>4, <1>5, <1>6, <1>7 DEF Next

-----------------------------------------------------------------------------
(* What a run leaves behind.                                               *)

\* What the statement to send next would make is the run's own.
LEMMA MadeIsOwn ==
    ASSUME PlaceInv, InBlock, Makes(Current)
    PROVE  LET o == Object(Current.kind, Current.name, Current.def)
           IN  /\ o.kind = Current.kind /\ o.name = Current.name /\ o.def = Current.def
               /\ o.kind # "masterkey" /\ IsOwn(o)
               /\ o.kind = "source" /\ plan.staging.hosts # {}
                     => o.def.location.root \in plan.staging.hosts
  <1> DEFINE o == Object(Current.kind, Current.name, Current.def)
  <1>1. o.kind = Current.kind /\ o.name = Current.name /\ o.def = Current.def
    BY DEF Object
  <1> HIDE DEF o
  <1>2. /\ at.statement \in DOMAIN Batch /\ Current = Batch[at.statement]
        /\ OfRequest(RequestFor(MATRIX[at.cell]), Current)
        /\ Gate!Allowed(Policy, AsGateBatch(Batch))
    BY SentStatement DEF PlaceInv, Current
  <1> DEFINE r == RequestFor(MATRIX[at.cell])
             batch == Batch
             j == at.statement
  <1>3. j \in DOMAIN batch /\ OfRequest(r, batch[j]) /\ Makes(batch[j])
        /\ Gate!Allowed(Policy, AsGateBatch(batch)) /\ Current = batch[j]
    BY <1>2
  <1> HIDE DEF r, batch, j
  <1>4. /\ Current.kind # "masterkey"
        /\ IF Current.kind = "table"
           THEN Current.name[1] = Schema /\ Current.name[2] # <<>> /\ Current.name[2][1] = Prefix
           ELSE Current.name # <<>> /\ Current.name[1] = Prefix
        /\ Current.kind = "source" /\ plan.staging.hosts # {}
              => Current.def.location.root \in plan.staging.hosts
    BY <1>3, AllowedMakesOwn
  <1> QED
    BY <1>1, <1>4 DEF IsOwn, o

OwnInv == PlaceInv /\ OnlyOwnObjects

\* A run adds what its statements make.
LEMMA OwnStep == OwnInv /\ [Next]_vars => OwnInv'
  <1> SUFFICES ASSUME OwnInv, [Next]_vars PROVE OwnInv'
    OBVIOUS
  <1>1. PlaceInv'
    BY PlaceStep DEF OwnInv
  <1>2. ASSUME catalog' = catalog, plan' = plan PROVE OnlyOwnObjects'
    BY <1>2 DEF OwnInv, OnlyOwnObjects
  <1>3. CASE ExecuteStatement
    <2> DEFINE o == Object(Current.kind, Current.name, Current.def)
    <2>1. plan' = plan /\ InBlock /\ catalog' = catalog \cup Created(catalog, Current)
      BY <1>3 DEF ExecuteStatement
    <2>2. Created(catalog, Current) # {} => Makes(Current) /\ Created(catalog, Current) = {o}
      BY DEF Created
    <2>3. Makes(Current) => /\ IsOwn(o)
                            /\ o.kind = "source" /\ plan.staging.hosts # {}
                                  => o.def.location.root \in plan.staging.hosts
      BY <2>1, MadeIsOwn DEF OwnInv
    <2> HIDE DEF o
    <2>4. catalog' = catalog \/ (Makes(Current) /\ catalog' = catalog \cup {o})
      BY <2>1, <2>2
    <2> DEFINE Fine(p) == /\ IsOwn(p)
                          /\ p.kind = "source" /\ plan.staging.hosts # {}
                                => p.def.location.root \in plan.staging.hosts
    <2>5. \A p \in catalog \ Prohibited : Fine(p)
      BY DEF OwnInv, OnlyOwnObjects
    <2>7. Makes(Current) => Fine(o)
      BY <2>3
    <2> HIDE DEF Fine
    <2>8. \A p \in catalog' \ Prohibited : Fine(p)
      BY <2>4, <2>5, <2>7
    <2> QED
      BY <1>1, <2>1, <2>8 DEF OwnInv, OnlyOwnObjects, Fine
  <1> QED
    BY <1>1, <1>2, <1>3
       DEF Next, PlanNext, TakeNextCell, TakeNextBlock, RefuseStatement, vars, OwnInv

\* Whatever is in the database before, whatever is staged and declared, and
\* whichever statements the database refuses: what a run adds is under its own
\* prefix in its own schema, and its sources read from the hosts the staging
\* document allows.
THEOREM OnlyOwn == Spec => []OnlyOwnObjects
  <1>1. Init => OwnInv
    BY PlaceInit DEF Init, OwnInv, OnlyOwnObjects
  <1>2. OwnInv => OnlyOwnObjects
    BY DEF OwnInv
  <1> QED
    BY <1>1, <1>2, OwnStep, PTL DEF Spec

-----------------------------------------------------------------------------
(* What the gate refuses.                                                  *)

\* A name of a cell's objects: the run's prefix, the cell, a part.
IsIdentity(c, n) ==
    /\ n # <<>> /\ Head(n) = Prefix /\ n[1] = Prefix /\ n[2] = NamingCell(c)
    /\ Len(n) \in Nat /\ Len(n) > 1

LEMMA IdentityIs ==
    ASSUME NEW c, NEW part
    PROVE  IsIdentity(c, IdentityName(c, part)) /\ IsIdentity(c, IdentityName(c, part) \o <<"_Bulk">>)
  <1>1. ASSUME NEW a, NEW b, NEW d, NEW e
        PROVE  LET n == <<a, b, d>>
                   m == <<a, b, d>> \o <<e>>
               IN  /\ n # <<>> /\ Head(n) = a /\ n[1] = a /\ n[2] = b /\ Len(n) = 3
                   /\ m # <<>> /\ Head(m) = a /\ m[1] = a /\ m[2] = b /\ Len(m) = 4
    <2> DEFINE n == <<a, b, d>>
               f == <<e>>
               m == n \o f
    <2>1. n \in Seq({a, b, d}) /\ Len(n) = 3 /\ n[1] = a /\ n[2] = b /\ n # <<>>
      OBVIOUS
    <2>2. f \in Seq({e}) /\ Len(f) = 1
      OBVIOUS
    <2>3. n \in Seq({a, b, d, e}) /\ f \in Seq({a, b, d, e})
      BY <2>1, <2>2
    <2> HIDE DEF n, f
    <2>4. m \in Seq({a, b, d, e}) /\ Len(m) = 4 /\ m[1] = a /\ m[2] = b
      <3>1. ASSUME NEW T, NEW u \in Seq(T), NEW v \in Seq(T)
            PROVE  /\ u \o v \in Seq(T) /\ Len(u \o v) = Len(u) + Len(v)
                   /\ \A k \in 1..Len(u) : (u \o v)[k] = u[k]
        OBVIOUS
      <3>2. /\ m \in Seq({a, b, d, e}) /\ Len(m) = Len(n) + Len(f)
            /\ \A k \in 1..Len(n) : m[k] = n[k]
        BY <2>3, <3>1, Zenon
      <3> HIDE DEF m
      <3> QED
        BY <2>1, <2>2, <3>2
    <2> HIDE DEF m
    <2>5. Head(n) = n[1] /\ Head(m) = m[1]
      OBVIOUS
    <2>6. m # <<>>
      BY <2>4
    <2> QED
      BY <2>1, <2>4, <2>5, <2>6 DEF n, f, m
  <1> QED
    BY <1>1 DEF IdentityName, IsIdentity

\* The objects of a cell that keeps to the run's names are named so, but for a
\* staging table.
LEMMA CellObjects ==
    ASSUME NEW c, IsCell(c), ~UsesDefaultNames(c), NEW o \in Objects(RequestFor(c)),
           o.kind # "masterkey"
    PROVE  IF o.kind = "table"
           THEN /\ o.name[1] = Schema
                /\ o.name # StagingTableName(RequestFor(c))
                      => o.name = <<Schema, o.name[2]>> /\ IsIdentity(c, o.name[2])
           ELSE IsIdentity(c, o.name)
  <1> DEFINE r == RequestFor(c)
  <1>1. /\ SourceName(r) = IdentityName(c, "src")
        /\ BulkSourceName(r) = IdentityName(c, "src") \o <<"_Bulk">>
        /\ TableName(r) = <<Schema, IdentityName(c, c.fixture)>>
        /\ ExternalTableName(r) = <<Schema, IdentityName(c, "ext")>>
        /\ FormatName(r) = IdentityName(c, "fmt")
        /\ CredentialName(r) = IdentityName(c, "cred")
        /\ BulkCredentialName(r) = IdentityName(c, "cred") \o <<"_Bulk">>
    BY NamesAre
  <1>2. StagingTableName(r)[1] = Schema
    <2>1. r.names.schema = Schema
      BY DEF RequestFor, Names
    <2> HIDE DEF r
    <2> QED
      BY <2>1 DEF StagingTableName
  <1> HIDE DEF r
  <1>3. \A n : <<Schema, n>>[1] = Schema /\ <<Schema, n>>[2] = n
    OBVIOUS
  <1>4. CASE o.kind = "table"
    <2>1. o.name \in {ExternalTableName(r), TableName(r), StagingTableName(r)}
      BY <1>4, ObjectIs DEF r
    <2> QED
      BY <1>1, <1>2, <1>3, <1>4, <2>1, IdentityIs DEF r
  <1>5. CASE o.kind # "table"
    <2>1. o.name \in {CredentialName(r), BulkCredentialName(r), SourceName(r), BulkSourceName(r),
                      FormatName(r)}
      BY <1>5, ObjectIs DEF r
    <2>2. IsIdentity(c, o.name)
      BY <1>1, <2>1, IdentityIs
    <2> QED
      BY <1>5, <2>2
  <1> QED
    BY <1>4, <1>5

\* A name of two parts, and of one, that is in the gate's scope.
LEMMA TwoPartsInScope ==
    ASSUME NEW policy, NEW g, NEW n, Gate!KindOf(g) # "schema", n # <<>>, Len(n) = 2, DOMAIN n = {1, 2},
           n[1] # <<>>, n[1] = policy.schema, n[2] # <<>>, Head(n[2]) = policy.prefix
    PROVE  ~Gate!ScopeViolation(policy, g, n)
  <1>1. Gate!WithoutDatabase(n) = n
    BY DEF Gate!WithoutDatabase
  <1>2. /\ Gate!StartsWithPrefix(policy, n[2]) /\ n[1] # Gate!Omitted /\ n[2] # Gate!Omitted
    BY DEF Gate!StartsWithPrefix, Gate!Omitted
  <1>3. Len(n) - 1 = 1 /\ ~(Len(n) >= 3) /\ ~(Len(n) < 2)
    OBVIOUS
  <1>4. n[Len(n)] = n[2] /\ n[Len(n) - 1] = n[1]
    BY <1>3
  <1>5. ~\E i \in DOMAIN n : n[i] = Gate!Omitted
    BY <1>2
  <1> QED
    BY <1>1, <1>2, <1>3, <1>4, <1>5 DEF Gate!ScopeViolation

LEMMA OnePartInScope ==
    ASSUME NEW policy, NEW g, NEW n, Gate!KindOf(g) # "schema",
           ~Gate!SchemaScoped(Gate!KindOf(g)),
           n # <<>>, Len(n) = 1, DOMAIN n = {1}, n[1] # <<>>, Head(n[1]) = policy.prefix
    PROVE  ~Gate!ScopeViolation(policy, g, n)
  <1>1. Gate!WithoutDatabase(n) = n
    BY DEF Gate!WithoutDatabase
  <1>2. Gate!StartsWithPrefix(policy, n[1]) /\ n[1] # Gate!Omitted
    BY DEF Gate!StartsWithPrefix, Gate!Omitted
  <1>3. ~(Len(n) >= 3) /\ ~(Len(n) > 1) /\ n[Len(n)] = n[1]
    OBVIOUS
  <1>4. ~\E i \in DOMAIN n : n[i] = Gate!Omitted
    BY <1>2
  <1> QED
    BY <1>1, <1>2, <1>3, <1>4 DEF Gate!ScopeViolation

\* The run's own names are in the gate's scope.
LEMMA OwnIsInScope ==
    ASSUME NEW c, NEW g, NEW kind, NEW name, Gate!KindOf(g) # "schema",
           IF kind = "table" THEN name[1] = Schema /\ IsIdentity(c, name[2])
           ELSE IsIdentity(c, name) /\ ~Gate!SchemaScoped(Gate!KindOf(g))
    PROVE  ~Gate!ScopeViolation(Policy, g, Parts(kind, name))
  <1>0. Policy.schema = <<Schema>> /\ Policy.prefix = Prefix
    BY DEF Policy
  <1>1. CASE kind = "table"
    <2> DEFINE n == <<<<name[1]>>, name[2]>>
    <2>1. Parts(kind, name) = n
      BY <1>1, GateNames
    <2>2. /\ Len(n) = 2 /\ n[1] = <<Schema>> /\ n[2] = name[2] /\ n # <<>> /\ DOMAIN n = {1, 2}
          /\ n[1] # <<>>
      BY <1>1
    <2>3. name[2] # <<>> /\ Head(name[2]) = Prefix
      BY <1>1 DEF IsIdentity
    <2>4. <<Schema>> # <<>>
      OBVIOUS
    <2> HIDE DEF n
    <2>5. /\ n # <<>> /\ Len(n) = 2 /\ DOMAIN n = {1, 2} /\ n[1] # <<>> /\ n[2] # <<>>
          /\ n[1] = Policy.schema /\ Head(n[2]) = Policy.prefix
      BY <1>0, <2>2, <2>3, <2>4
    <2> QED
      BY <2>1, <2>5, TwoPartsInScope
  <1>2. CASE kind # "table"
    <2> DEFINE n == <<name>>
    <2>1. Parts(kind, name) = n
      BY <1>2, GateNames
    <2>2. Len(n) = 1 /\ n[1] = name /\ n # <<>> /\ DOMAIN n = {1}
      OBVIOUS
    <2>3. name # <<>> /\ Head(name) = Prefix /\ ~Gate!SchemaScoped(Gate!KindOf(g))
      BY <1>2 DEF IsIdentity
    <2> HIDE DEF n
    <2>4. n[1] # <<>> /\ Head(n[1]) = Policy.prefix
      BY <1>0, <2>2, <2>3
    <2> QED
      BY <2>1, <2>2, <2>3, <2>4, OnePartInScope
  <1> QED
    BY <1>1, <1>2

\* What makes a statement pass.
LEMMA Passes ==
    ASSUME NEW policy, NEW g, Gate!HeadViolations(g) = {}, ~Gate!Forbidden(g), ~Gate!MultiTarget(g),
           Gate!HasTargets(g) => Gate!ScopeViolations(policy, g) = {},
           ~Gate!UnreadableTail(g), Gate!PolicyViolations(policy, g) = {}
    PROVE  Gate!StatementViolations(policy, g) = {}
  BY DEF Gate!StatementViolations

\* The gate finds nothing in a statement of a cell with the run's own names,
\* other than that it creates a master key.
LEMMA StatementPasses ==
    ASSUME plan \in Plans, NEW c, IsCell(c), ~UsesDefaultNames(c), NEW s,
           OfRequest(RequestFor(c), s), s.verb = "create" => s.kind # "masterkey",
           RequestFor(c).platform # "fabric_sql_db"
    PROVE  Gate!StatementViolations(Policy, AsGateStatement(s)) = {}
  <1> DEFINE r == RequestFor(c)
             g == AsGateStatement(s)
             name == Parts(s.kind, s.name)
  <1>1. /\ g.verb = IF s.verb = "load" THEN "bulk insert" ELSE s.verb
        /\ g.kind = GateKind(s) /\ g.readable /\ g.head = "line"
        /\ s.verb # "select" /\ s.kind # "masterkey" => g.names = <<name>>
        /\ s.verb = "select" => g.names = <<>>
    BY DEF AsGateStatement
  <1> HIDE DEF g, name
  <1>2. CASE s.verb = "select"
    <2>1. g.verb = "select"
      BY <1>1, <1>2
    <2>2. Gate!HeadViolations(g) = {} /\ ~Gate!HasTargets(g) /\ ~Gate!Forbidden(g)
      BY <2>1 DEF Gate!HeadViolations, Gate!SimpleHeads, Gate!HasTargets, Gate!Forbidden,
         Gate!ForbiddenVerbs, Gate!Fills, Gate!ListVerb
    <2>3. ~Gate!MultiTarget(g) /\ ~Gate!UnreadableTail(g) /\ Gate!PolicyViolations(Policy, g) = {}
      BY <2>1, <2>2 DEF Gate!MultiTarget, Gate!UnreadableTail, Gate!PolicyViolations, Gate!ListVerb
    <2> QED
      BY <2>2, <2>3, Passes DEF g
  <1>3. ASSUME s.verb # "select", s.kind # "masterkey", ~Gate!ScopeViolation(Policy, g, name)
        PROVE  Gate!ScopeViolations(Policy, g) = {} /\ Len(g.names) = 1
    <2>2. DOMAIN <<name>> = {1} /\ <<name>>[1] = name /\ Len(<<name>>) = 1
      OBVIOUS
    <2>1. g.names = <<name>> /\ DOMAIN g.names = {1} /\ g.names[1] = name /\ Len(g.names) = 1
      BY <1>1, <1>3, <2>2
    <2> QED
      BY <1>3, <2>1 DEF Gate!ScopeViolations
  <1>4. CASE s.verb = "create"
    <2>1. s.kind \in {"credential", "source", "format", "table"} /\ Makes(s)
      BY <1>4, GateKinds DEF Makes
    <2>2. g.kind \in {"database scoped credential", "external data source", "external file format",
                      "table", "external table"}
      BY <1>1, <2>1, GateKinds
    <2>0. Gate!KindOf(g) = g.kind
      BY <1>1, <1>4, <2>2 DEF Gate!KindOf, Gate!Fills
    <2>3. ~Gate!ScopeViolation(Policy, g, name)
      <3> DEFINE o == Object(s.kind, s.name, s.def)
      <3>1. o \in Objects(r) /\ o.kind = s.kind /\ o.name = s.name
        BY <2>1 DEF OfRequest, Object
      <3> HIDE DEF o
      <3>2. CASE s.kind = "table"
        <4>1. s.name \in {TableName(r), ExternalTableName(r)}
          BY <1>4, <3>2 DEF OfRequest
        <4>2. s.name[1] = Schema /\ IsIdentity(c, s.name[2])
          <5>1. \A n : <<Schema, n>>[1] = Schema /\ <<Schema, n>>[2] = n
            OBVIOUS
          <5> QED
            BY <4>1, <5>1, NamesAre, IdentityIs
        <4> QED
          BY <2>0, <2>2, <3>2, <4>2, OwnIsInScope DEF name
      <3>3. CASE s.kind # "table"
        <4>1. IsIdentity(c, s.name)
          BY <2>1, <3>1, <3>3, CellObjects
        <4>2. ~Gate!SchemaScoped(Gate!KindOf(g))
          <5>1. g.kind \in {"database scoped credential", "external data source", "external file format"}
            BY <1>1, <2>1, <3>3, GateKinds
          <5> QED
            BY <2>0, <5>1 DEF Gate!SchemaScoped
        <4> QED
          BY <2>0, <2>2, <3>3, <4>1, <4>2, OwnIsInScope DEF name
      <3> QED
        BY <3>2, <3>3
    <2>4. Gate!ScopeViolations(Policy, g) = {} /\ Len(g.names) = 1
      BY <1>3, <1>4, <2>1, <2>3
    <2>5. g.verb = "create" /\ g.readable
      BY <1>1, <1>4
    <2>6. Gate!HeadViolations(g) = {} /\ ~Gate!Forbidden(g)
      BY <2>2, <2>5 DEF Gate!HeadViolations, Gate!SimpleHeads, Gate!OtherHeads, Gate!ObjectKinds,
         Gate!Forbidden, Gate!ForbiddenVerbs, Gate!Principals
    <2>7. ~Gate!MultiTarget(g) /\ ~Gate!UnreadableTail(g) /\ Gate!PolicyViolations(Policy, g) = {}
      BY <2>2, <2>5 DEF Gate!MultiTarget, Gate!UnreadableTail, Gate!PolicyViolations, Gate!ListVerb
    <2> QED
      BY <2>4, <2>6, <2>7, Passes DEF g
  <1>5. CASE s.verb \in {"load", "truncate"}
    <2>1. /\ s.kind = "table" /\ s.name = TableName(r)
          /\ s.verb = "truncate" => s.def = Undefined
      BY <1>5 DEF OfRequest
    <2>2. g.kind \in {"table", "external table"} /\ (s.verb = "truncate" => g.kind = "table")
      <3>1. Undefined.type # "external"
        BY DEF Undefined
      <3> QED
        BY <1>1, <2>1, <3>1 DEF GateKind
    <2>3. s.name[1] = Schema /\ IsIdentity(c, s.name[2])
      <3>1. \A n : <<Schema, n>>[1] = Schema /\ <<Schema, n>>[2] = n
        OBVIOUS
      <3> QED
        BY <2>1, <3>1, NamesAre, IdentityIs
    <2>4. ~Gate!ScopeViolation(Policy, g, name)
      <3>1. Gate!KindOf(g) = "table"
        BY <1>1, <1>5, <2>2 DEF Gate!KindOf, Gate!Fills
      <3> QED
        BY <2>1, <2>3, <3>1, OwnIsInScope DEF name
    <2>5. Gate!ScopeViolations(Policy, g) = {} /\ Len(g.names) = 1
      BY <1>3, <1>5, <2>1, <2>4
    <2>6. g.verb \in {"bulk insert", "truncate"} /\ g.readable /\ (g.verb = "truncate" => g.kind = "table")
      BY <1>1, <1>5, <2>2
    <2>7. Gate!HeadViolations(g) = {} /\ ~Gate!Forbidden(g)
      BY <2>2, <2>6 DEF Gate!HeadViolations, Gate!SimpleHeads, Gate!OtherHeads, Gate!Forbidden,
         Gate!ForbiddenVerbs, Gate!Principals
    <2>8. ~Gate!MultiTarget(g) /\ ~Gate!UnreadableTail(g) /\ Gate!PolicyViolations(Policy, g) = {}
      <3>1. ~(Len(g.names) > 1)
        BY <2>5
      <3>2. ~Gate!MultiTarget(g)
        BY <3>1 DEF Gate!MultiTarget
      <3>3. ~Gate!UnreadableTail(g)
        BY <2>6 DEF Gate!UnreadableTail
      <3>4. Gate!PolicyViolations(Policy, g) = {}
        BY <2>6 DEF Gate!PolicyViolations
      <3> QED
        BY <3>2, <3>3, <3>4
    <2> QED
      BY <2>5, <2>7, <2>8, Passes DEF g
  <1> QED
    BY <1>2, <1>4, <1>5 DEF OfRequest, g

\* The tables of a batch, by name.
TablesIn(batch) ==
    LET statements == Range(batch)
    IN  {u.name : u \in {v \in UNION {s.uses : s \in statements} : v.kind = "table"}}
        \cup {s.name : s \in {t \in statements : t.verb # "select" /\ t.kind = "table"}}

\* They have two names, neither of them somebody else's.
LEMMA TablesPass ==
    ASSUME NEW c, IsCell(c), ~UsesDefaultNames(c), RequestFor(c).platform # "fabric_sql_db",
           NEW x, Fits(RequestFor(c), x), NEW b \in DOMAIN x
    PROVE  Gate!ReferenceViolations(AsGateBatch(x[b])) = {}
  <1> DEFINE r == RequestFor(c)
             gb == AsGateBatch(x[b])
             T == {TableName(r), ExternalTableName(r)}
  <1>1. gb.words = {<<t[1]>> : t \in TablesIn(x[b])} /\ gb.references = {Parts("table", t) : t \in TablesIn(x[b])}
    BY DEF AsGateBatch, TablesIn
  <1>2. TablesIn(x[b]) \subseteq T
    <2>1. ASSUME NEW i \in DOMAIN x[b], NEW u \in x[b][i].uses, u.kind = "table" PROVE u.name \in T
      BY <2>1, TablesAreOwn
    <2>2. ASSUME NEW i \in DOMAIN x[b], x[b][i].verb # "select", x[b][i].kind = "table"
          PROVE  x[b][i].name \in T
      <3>1. PICK K : Section(r, K, x)
        BY DEF Fits
      <3> HIDE DEF r
      <3>2. OfRequest(r, x[b][i])
        BY <3>1 DEF Section
      <3> QED
        BY <2>2, <3>2 DEF OfRequest, r
    <2>3. \A s \in Range(x[b]) : \E i \in DOMAIN x[b] : s = x[b][i]
      BY DEF Range
    <2> HIDE DEF T
    <2> QED
      BY <2>1, <2>2, <2>3 DEF TablesIn
  <1>3. \A t \in T : t[1] = Schema /\ IsIdentity(c, t[2])
    <2>1. \A n : <<Schema, n>>[1] = Schema /\ <<Schema, n>>[2] = n
      OBVIOUS
    <2> QED
      BY <2>1, NamesAre, IdentityIs
  <1> HIDE DEF gb, T
  <1>4. Gate!Dbo \notin gb.words
    <2>1. <<Schema>> # Gate!Dbo
      BY DEF Schema, Gate!Dbo
    <2> QED
      BY <1>1, <1>2, <1>3, <2>1
  <1>5. ASSUME NEW n \in gb.references, NEW k \in DOMAIN n PROVE n[k] \notin Gate!TPCH_PROTECTED_NAMES
    <2>1. PICK t \in T : n = <<<<t[1]>>, t[2]>>
      BY <1>1, <1>2, GateNames
    <2>2. DOMAIN n = {1, 2} /\ n[1] = <<Schema>> /\ n[2] = t[2] /\ IsIdentity(c, t[2])
      BY <1>3, <2>1
    <2>3. <<Schema>> \notin Gate!TPCH_PROTECTED_NAMES
      BY DEF Schema, Gate!TPCH_PROTECTED_NAMES
    <2>4. \A m \in Gate!TPCH_PROTECTED_NAMES : Len(m) = 1
      BY DEF Gate!TPCH_PROTECTED_NAMES
    <2>5. Len(t[2]) \in Nat /\ Len(t[2]) > 1
      BY <2>2 DEF IsIdentity
    <2>6. Len(t[2]) # 1
      <3>1. \A m \in Nat : m > 1 => m # 1
        OBVIOUS
      <3> QED
        BY <2>5, <3>1, Zenon
    <2>7. t[2] \notin Gate!TPCH_PROTECTED_NAMES
      BY <2>4, <2>6
    <2> QED
      BY <2>2, <2>3, <2>7
  <1> QED
    BY <1>4, <1>5 DEF Gate!ReferenceViolations, gb

\* The gate finds nothing in a batch that creates no master key and whose
\* sources read from where they may.
LEMMA BatchPasses ==
    ASSUME plan \in Plans, NEW c, IsCell(c), ~UsesDefaultNames(c),
           RequestFor(c).platform # "fabric_sql_db",
           NEW x, Fits(RequestFor(c), x), NEW b \in DOMAIN x,
           \A j \in DOMAIN x[b] : x[b][j].verb = "create" =>
              /\ x[b][j].kind # "masterkey"
              /\ x[b][j].kind = "source" /\ plan.staging.hosts # {}
                    => x[b][j].def.location.root \in plan.staging.hosts
    PROVE  Gate!Violations(Policy, AsGateBatch(x[b])) = {}
  <1> DEFINE gb == AsGateBatch(x[b])
             V(s) == Gate!StatementViolations(Policy, s)
  <1>1. /\ gb.statements = {AsGateStatement(s) : s \in Range(x[b])}
        /\ gb.secrets = FALSE
        /\ gb.hosts = {s.def.location.root :
                          s \in {t \in Range(x[b]) : t.verb = "create" /\ t.kind = "source" /\ ~t.hole}}
    BY DEF AsGateBatch
  <1>2. Gate!ReferenceViolations(gb) = {}
    BY TablesPass
  <1> HIDE DEF gb
  <1>3. ASSUME NEW g \in gb.statements PROVE V(g) = {}
    <2>1. PICK j \in DOMAIN x[b] : g = AsGateStatement(x[b][j])
      BY <1>1 DEF Range
    <2>2. OfRequest(RequestFor(c), x[b][j])
      BY DEF Fits, Section
    <2> QED
      BY <2>1, <2>2, StatementPasses
  <1>4. ~Gate!ForeignHost(Policy, gb)
    <2>1. Policy.hosts = plan.staging.hosts
      BY DEF Policy
    <2>2. ASSUME NEW h \in gb.hosts, plan.staging.hosts # {} PROVE h \in plan.staging.hosts
      <3>1. PICK s \in Range(x[b]) : s.verb = "create" /\ s.kind = "source" /\ h = s.def.location.root
        BY <1>1
      <3>2. PICK j \in DOMAIN x[b] : s = x[b][j]
        BY DEF Range
      <3> QED
        BY <2>2, <3>1, <3>2
    <2> QED
      BY <2>1, <2>2 DEF Gate!ForeignHost
  <1> HIDE DEF V
  <1>5. UNION {V(s) : s \in gb.statements} = {}
    BY <1>3
  <1> QED
    BY <1>1, <1>2, <1>4, <1>5 DEF Gate!Violations, V, gb

\* With the run's own names and away from a shared key, no secret is needed.
LEMMA NoSecret ==
    ASSUME plan \in Plans, NEW c, IsCell(c), ~UsesDefaultNames(c), ~Unstaged(c, plan),
           Remote(c), plan.platform # "sql_server_2019", plan.target \in Targets(c)
    PROVE  StorageAuth(RequestFor(c)) \in SecretFree
  <1> DEFINE r == RequestFor(c)
  <1>1. StorageUrlKind(r.url) = "azure" /\ r.platform = plan.platform
    BY RequestIs
  <1>2. r.auth = AuthMethod(c)
    BY DEF RequestFor
  <1>3. c.id = "C26" => r.platform = "azure_sql_db"
    BY <1>1, PlatformIs DEF Targets
  <1> HIDE DEF r
  <1> QED
    BY <1>1, <1>2, <1>3 DEF StorageAuth, ResolveAuth, AuthMethod, SecretFree, AzureSql, r

\* A local cell creates tables and formats only.
LEMMA LocalCreates ==
    ASSUME NEW c, IsCell(c), ~Remote(c), plan \in Plans
    PROVE  \A x \in {OwnSql(c), VerificationSql(c)} \cup {SetupFor(c)[i] : i \in DOMAIN SetupFor(c)} :
              \A k, n : Creates(x, k, n) => k \in {"table", "format"}
  <1> DEFINE r == RequestFor(c)
             Small(x) == \A k, n : Creates(x, k, n) => k \in {"table", "format"}
  <1>1. Small(<<>>)
    BY NothingOnce
  <1>2. Small(CreateTable(r)) /\ Small(ExternalFileFormat(r))
    BY DefiningOnce
  <1>3. Small(OpenRowset(r)) /\ Small(ForJson(r)) /\ Small(JsonFunctions(r))
    BY QueriesCreateNothing, JsonFunctionsFit DEF CreatesNothing
  <1>4. ASSUME NEW setup, NEW own, NEW ver, BlocksAre(c, setup, own, ver), Small(own), Small(ver),
               setup = <<>> \/ (setup = <<CreateTable(r)>>)
        PROVE  \A x \in {OwnSql(c), VerificationSql(c)} \cup {SetupFor(c)[i] : i \in DOMAIN SetupFor(c)} :
                  Small(x)
    <2>1. OwnSql(c) = own /\ VerificationSql(c) = ver /\ SetupFor(c) = setup
      BY <1>4 DEF BlocksAre
    <2> HIDE DEF Small, r
    <2>2. \A i \in DOMAIN setup : Small(setup[i])
      BY <1>2, <1>4
    <2> QED
      BY <1>4, <2>1, <2>2
  <1> HIDE DEF Small
  <1>5. \A x \in {OwnSql(c), VerificationSql(c)} \cup {SetupFor(c)[i] : i \in DOMAIN SetupFor(c)} : Small(x)
    BY <1>1, <1>2, <1>3, <1>4, CellSends
  <1> QED
    BY <1>5 DEF Small

\* A block of a cell is one of its setup, its own or its verification.
Blocks(c) == {OwnSql(c), VerificationSql(c)} \cup {SetupFor(c)[i] : i \in DOMAIN SetupFor(c)}

\* The gate finds nothing in a cell with the run's own names, at an allowed
\* host, that needs no shared key.
LEMMA CellPasses ==
    ASSUME plan \in Plans, NEW c, IsCell(c), ~UsesDefaultNames(c), ~Unstaged(c, plan),
           plan.target \in Targets(c),
           plan.staging.hosts = {} \/ plan.staging.remote \in plan.staging.hosts,
           ~(plan.platform = "sql_server_2019" /\ Remote(c)),
           NEW x \in Blocks(c)
    PROVE  NoViolations(x)
  <1> DEFINE r == RequestFor(c)
  <1>1. r.platform # "fabric_sql_db"
    BY RequestIs, PlatformIs DEF SqlServer
  <1>2. Fits(r, x)
    BY BlocksFit DEF Blocks
  <1>3. ASSUME NEW b \in DOMAIN x, NEW j \in DOMAIN x[b], x[b][j].verb = "create"
        PROVE  /\ x[b][j].kind # "masterkey"
               /\ x[b][j].kind = "source" /\ plan.staging.hosts # {}
                     => x[b][j].def.location.root \in plan.staging.hosts
    <2>1. OfRequest(r, x[b][j])
      BY <1>2 DEF Fits, Section
    <2>2. CASE Remote(c)
      <3>1. StorageAuth(r) \in SecretFree /\ SaysWhere(r.url) /\ r.url.root = plan.staging.remote
        BY <2>2, NoSecret, RequestIs
      <3> HIDE DEF r
      <3> QED
        BY <1>3, <2>1, <3>1 DEF OfRequest
    <2>3. CASE ~Remote(c)
      <3>1. Creates(x, x[b][j].kind, x[b][j].name)
        BY <1>3 DEF Creates
      <3>2. x[b][j].kind \in {"table", "format"}
        BY <2>3, <3>1, LocalCreates DEF Blocks
      <3> QED
        BY <3>2
    <2> QED
      BY <2>2, <2>3
  <1> QED
    BY <1>1, <1>2, <1>3, BatchPasses DEF NoViolations

\* A setup block is there whenever the cell's own statements are.
LEMMA SetupIsThere ==
    ASSUME plan \in Plans, NEW c, IsCell(c), ~Unstaged(c, plan), OwnSql(c) # <<>>,
           ~(plan.platform = "sql_server_2019" /\ Remote(c))
    PROVE  \A i \in DOMAIN SetupFor(c) : SetupFor(c)[i] # <<>>
  <1> DEFINE r == RequestFor(c)
  <1>1. /\ IsRequest(r) /\ ~r.wide /\ r.platform = plan.platform /\ r.type = FIXTURES[c.fixture].type
        /\ r.platform \in BulkInsertPlatforms
    BY RequestIs, PlatformIs DEF BulkInsertPlatforms, AzureSql
  <1> HIDE DEF r
  <1>2. \A u : ~Gives(<<>>, u)
    BY NothingFits
  <1>3. CreateTable(r) # <<>>
    BY <1>1, <1>2, CreateTableFits
  <1>4. Compatible(r) /\ Formatted(r) => CredentialSetup(r) # <<>>
    BY <1>1, <1>2, SetupFits
  <1>5. FormatSupported(r) /\ ~NoEncoding(r) => ExternalFileFormat(r) # <<>>
    BY <1>2, FileFormatFits
  <1>6. BulkInsert(r, FALSE) # <<>> => Compatible(r) /\ Formatted(r)
    <2>1. SUFFICES ASSUME BulkInsert(r, FALSE) # <<>> PROVE Compatible(r) /\ Formatted(r)
      OBVIOUS
    <2>2. Compatible(r) /\ r.type \in {"csv", "text"}
      BY <1>1, <2>1 DEF BulkInsert, Guidance
    <2>3. FormatType[r.type] = "DELIMITEDTEXT"
      BY <2>2 DEF FormatType
    <2>4. r.platform \in EXTERNAL_FORMAT_PLATFORMS["DELIMITEDTEXT"]
      BY <1>1 DEF EXTERNAL_FORMAT_PLATFORMS, IsRequest
    <2> QED
      BY <2>2, <2>3, <2>4 DEF Formatted, FormatSupported
  <1>7. ASSUME OpenRowset(r) # <<>>, r.type \in {"csv", "json", "delta"}, r.platform # "sql_server_2019"
        PROVE  Compatible(r) /\ Formatted(r)
    <2>1. Compatible(r)
      BY <1>7 DEF OpenRowset, Guidance
    <2>2. /\ FormatType["csv"] = "DELIMITEDTEXT" /\ FormatType["json"] = "JSON"
          /\ FormatType["delta"] = "DELTA"
      BY DEF FormatType
    <2>3. /\ EXTERNAL_FORMAT_PLATFORMS["DELIMITEDTEXT"] = PLATFORMS
          /\ EXTERNAL_FORMAT_PLATFORMS["DELTA"] = {"sql_server_2022", "sql_server_2025", "azure_sql_db"}
      BY DEF EXTERNAL_FORMAT_PLATFORMS
    <2>4. r.platform \in {"sql_server_2022", "sql_server_2025", "azure_sql_db"} /\ r.platform \in PLATFORMS
      BY <1>1, <1>7, PlatformIs DEF SqlServer, IsRequest
    <2> QED
      BY <1>7, <2>1, <2>2, <2>3, <2>4 DEF Formatted, FormatSupported, FORMATS_READ_WITHOUT_FILE_FORMAT
  <1>8. ExternalTable(r) # <<>> => Compatible(r) /\ Formatted(r) /\ FormatSupported(r) /\ ~NoEncoding(r)
    BY DEF ExternalTable, Guidance, Formatted
  <1>9. ASSUME NEW setup, NEW own, NEW ver, BlocksAre(c, setup, own, ver),
               \A i \in DOMAIN setup : setup[i] # <<>>
        PROVE  \A i \in DOMAIN SetupFor(c) : SetupFor(c)[i] # <<>>
    BY <1>9 DEF BlocksAre
  <1>10. \A setup, own, ver : BlocksAre(c, setup, own, ver) => own # <<>>
    BY DEF BlocksAre
  <1>11. /\ \A i \in DOMAIN <<>> : FALSE
         /\ \A a : a # <<>> => \A i \in DOMAIN <<a>> : <<a>>[i] # <<>>
         /\ \A a, b : a # <<>> /\ b # <<>> => \A i \in DOMAIN <<a, b>> : <<a, b>>[i] # <<>>
    OBVIOUS
  <1> DEFINE Full(setup) == \A i \in DOMAIN setup : setup[i] # <<>>
  <1>12. Full(<<>>) /\ (\A a : a # <<>> => Full(<<a>>)) /\ (\A a, b : a # <<>> /\ b # <<>> => Full(<<a, b>>))
    BY <1>11
  <1>13. \A setup, own, ver : BlocksAre(c, setup, own, ver) /\ Full(setup) => Full(SetupFor(c))
    BY <1>9
  <1> HIDE DEF Full
  <1>14. Full(SetupFor(c))
    BY <1>1, <1>3, <1>4, <1>5, <1>6, <1>7, <1>8, <1>10, <1>12, <1>13, CellSends DEF r
  <1> QED
    BY <1>14 DEF Full

LEMMA ObjectsAreCreated ==
    ASSUME NEW x, NEW p \in CreatedObjects(x)
    PROVE  Creates(x, p[1], p[2])
  <1>1. PICK s \in UNION {Range(x[b]) : b \in DOMAIN x} :
           s.verb = "create" /\ p = <<s.kind, s.name>>
    BY DEF CreatedObjects
  <1>2. PICK b \in DOMAIN x : s \in Range(x[b])
    OBVIOUS
  <1>3. PICK j \in DOMAIN x[b] : s = x[b][j]
    BY <1>2 DEF Range
  <1>4. p[1] = s.kind /\ p[2] = s.name
    BY <1>1
  <1> QED
    BY <1>1, <1>2, <1>3, <1>4 DEF Creates

\* No cell's setup creates what its own statements do.
LEMMA NotDuplicate ==
    ASSUME plan \in Plans, NEW c, IsCell(c), ~Unstaged(c, plan)
    PROVE  \A i \in DOMAIN SetupFor(c) : \A k, n :
              ~(Creates(SetupFor(c)[i], k, n) /\ Creates(OwnSql(c), k, n))
  <1> DEFINE r == RequestFor(c)
             Apart(x, y) == \A k, n : ~(Creates(x, k, n) /\ Creates(y, k, n))
             Free(setup, own) == \A i \in DOMAIN setup : Apart(setup[i], own)
  <1>1. /\ IsRequest(r) /\ r.platform # "fabric_sql_db" /\ r.platform \in BulkInsertPlatforms
    BY RequestIs, PlatformIs DEF BulkInsertPlatforms, AzureSql, SqlServer
  <1> HIDE DEF r
  <1>2. \A x, y : CreatesNothing(y) => Apart(x, y)
    BY DEF CreatesNothing
  <1>3. CreatesNothing(BulkInsert(r, FALSE)) /\ CreatesNothing(OpenRowset(r)) /\ CreatesNothing(ForJson(r))
    BY <1>1, LoadCreatesNothing, QueriesCreateNothing
  <1>4. Apart(CredentialSetup(r), ExternalTable(r)) /\ Apart(ExternalFileFormat(r), ExternalTable(r))
    <2>1. \A k, n : Creates(CredentialSetup(r), k, n) => k \in {"masterkey", "credential", "source"}
      BY <1>1, SetupOnce
    <2> QED
      BY <2>1, DefiningOnce
  <1> HIDE DEF Apart
  <1>5. /\ \A y : Free(<<>>, y)
        /\ \A a, y : Apart(a, y) => Free(<<a>>, y)
        /\ \A a, b, y : Apart(a, y) /\ Apart(b, y) => Free(<<a, b>>, y)
    OBVIOUS
  <1>6. \A setup, own, ver : BlocksAre(c, setup, own, ver) /\ Free(setup, own) => Free(SetupFor(c), OwnSql(c))
    BY DEF BlocksAre
  <1> HIDE DEF Free
  <1>7. /\ Free(<<CredentialSetup(r), CreateTable(r)>>, BulkInsert(r, FALSE))
        /\ Free(<<CredentialSetup(r)>>, OpenRowset(r))
        /\ Free(<<CreateTable(r)>>, ForJson(r))
        /\ Free(<<CredentialSetup(r), ExternalFileFormat(r)>>, ExternalTable(r))
    BY <1>2, <1>3, <1>4, <1>5
  <1>8. \A y : Free(<<>>, y)
    BY <1>5
  <1>9. Free(SetupFor(c), OwnSql(c))
    BY <1>6, <1>7, <1>8, CellSends DEF r
  <1> QED
    BY <1>9 DEF Free, Apart

\* The verification has no placeholder.
LEMMA ReadBackIsWhole ==
    ASSUME NEW name, NEW type, NoViolations(ReadBack(name, type))
    PROVE  AllAllowed(ReadBack(name, type))
  <1> DEFINE s == Select({Use("table", name, type)})
             x == <<<<s>>>>
  <1>1. ReadBack(name, type) = x
    BY BatchesOf DEF ReadBack
  <1>2. s.hole = FALSE
    BY DEF Select, Statement
  <1> HIDE DEF s
  <1>3. DOMAIN x = {1} /\ x[1] = <<s>> /\ Range(<<s>>) = {s} /\ x # <<>>
    <2>1. DOMAIN <<s>> = {1} /\ <<s>>[1] = s
      BY OneBatch
    <2>2. Range(<<s>>) = {s}
      BY <2>1 DEF Range
    <2>3. DOMAIN x = {1} /\ x[1] = <<s>> /\ Len(x) = 1
      BY OneBatch
    <2> QED
      BY <2>2, <2>3
  <1> HIDE DEF x
  <1>4. AsGateBatch(x[1]).placeholders = FALSE
    BY <1>2, <1>3 DEF AsGateBatch
  <1>5. Gate!Violations(Policy, AsGateBatch(x[1])) = {}
    BY <1>1, <1>3 DEF NoViolations
  <1> QED
    BY <1>1, <1>3, <1>4, <1>5 DEF AllAllowed, Gate!Allowed

\* So such a cell is never blocked,
LEMMA OthersPass ==
    ASSUME plan \in Plans, NEW c, IsCell(c), ~UsesDefaultNames(c), ~Unstaged(c, plan),
           plan.target \in Targets(c),
           plan.staging.hosts = {} \/ plan.staging.remote \in plan.staging.hosts,
           ~(plan.platform = "sql_server_2019" /\ Remote(c))
    PROVE  PlanCell(c).verdict # "BLOCKED"
  <1> DEFINE setup == SetupFor(c)
             own == OwnSql(c)
             ver == VerificationSql(c)
  <1>1. PlanCell(c).verdict = Verdict(setup, own, ver)
    BY DEF PlanCell
  <1>2. \A x \in Blocks(c) : NoViolations(x)
    BY CellPasses
  <1>3. own # <<>> => \A i \in DOMAIN setup : setup[i] # <<>>
    BY SetupIsThere
  <1>4. ~DuplicateCreates(setup, own)
    <2>1. ASSUME NEW i \in DOMAIN setup, NEW p \in CreatedObjects(setup[i]), p \in CreatedObjects(own)
          PROVE  FALSE
      <3>1. Creates(setup[i], p[1], p[2]) /\ Creates(own, p[1], p[2])
        BY <2>1, ObjectsAreCreated
      <3> QED
        BY <3>1, NotDuplicate
    <2> HIDE DEF setup, own
    <2> QED
      BY <2>1 DEF DuplicateCreates
  <1>5. NoViolations(own) /\ \A i \in DOMAIN setup : NoViolations(setup[i])
    BY <1>2 DEF Blocks
  <1>6. ver = <<>> \/ AllAllowed(ver)
    <2>1. \/ ver = <<>>
          \/ \E name, type : ver = ReadBack(name, type)
      BY CellSends DEF BlocksAre
    <2>2. NoViolations(ver)
      BY <1>2 DEF Blocks
    <2> HIDE DEF ver
    <2> QED
      BY <2>1, <2>2, ReadBackIsWhole
  <1> HIDE DEF setup, own, ver
  <1>7. ASSUME NEW x, NoViolations(x), x # <<>> PROVE AllAllowed(x) \/ AnySubstitution(x)
    BY <1>7 DEF NoViolations, AllAllowed, AnySubstitution, Gate!Allowed, Gate!RequiresSubstitution
  <1>8. CASE own = <<>>
    BY <1>1, <1>8 DEF Verdict
  <1>9. CASE own # <<>>
    <2>1. AllAllowed(own) \/ AnySubstitution(own)
      BY <1>5, <1>7, <1>9
    <2>2. \A i \in DOMAIN setup : AllAllowed(setup[i]) \/ AnySubstitution(setup[i])
      BY <1>3, <1>5, <1>7, <1>9
    <2> QED
      BY <1>1, <1>4, <1>5, <1>6, <1>9, <2>1, <2>2 DEF Verdict
  <1> QED
    BY <1>8, <1>9

\* and the negative control always is.
LEMMA ControlIsBlocked ==
    ASSUME plan \in Plans, NEW c, IsCell(c), UsesDefaultNames(c), c.fixture \notin plan.missing
    PROVE  PlanCell(c).verdict = "BLOCKED"
  <1> DEFINE r == RequestFor(c)
             s == Create("table", TableName(r), {}, [type |-> "rows"], FALSE)
             x == <<<<s>>>>
             own == OwnSql(c)
  <1>1. c.statement = "create_table" /\ c.access = "none"
    BY DEF IsCell
  <1>2. ~Unstaged(c, plan)
    BY <1>1 DEF Unstaged, Remote
  <1>3. TableName(r)[1] = "dbo" /\ ~r.wide
    BY <1>2, NamesAre, RequestIs
  <1>4. SetupFor(c) = <<>> /\ own = CreateTable(r)
    BY <1>1, CellSends DEF BlocksAre
  <1>5. s.verb = "create" /\ s.kind = "table" /\ s.name = TableName(r)
    BY DEF Create, Statement
  <1>6. CreateTable(r) = x
    BY <1>3, BatchesOf DEF CreateTable
  <1> HIDE DEF r, s
  <1>7. DOMAIN x = {1} /\ x[1] = <<s>> /\ s \in Range(x[1]) /\ x # <<>>
    <2>1. DOMAIN <<s>> = {1} /\ <<s>>[1] = s
      BY OneBatch
    <2>2. s \in Range(<<s>>)
      BY <2>1 DEF Range
    <2>3. DOMAIN x = {1} /\ x[1] = <<s>> /\ Len(x) = 1
      BY OneBatch
    <2> QED
      BY <2>2, <2>3
  <1> HIDE DEF x
  <1> DEFINE gb == AsGateBatch(x[1])
  <1>8. Gate!Dbo \in gb.words
    <2>1. TableName(r) \in TablesIn(x[1])
      BY <1>5, <1>7 DEF TablesIn
    <2>2. gb.words = {<<t[1]>> : t \in TablesIn(x[1])}
      BY DEF AsGateBatch, TablesIn
    <2>3. <<TableName(r)[1]>> = Gate!Dbo
      BY <1>3 DEF Gate!Dbo, r
    <2> HIDE DEF gb
    <2> QED
      BY <2>1, <2>2, <2>3
  <1> HIDE DEF gb
  <1>9. Gate!Violations(Policy, gb) # {}
    <2>1. "FORBIDDEN_SCHEMA_DBO" \in Gate!ReferenceViolations(gb)
      BY <1>8 DEF Gate!ReferenceViolations
    <2> QED
      BY <2>1 DEF Gate!Violations
  <1>10. own # <<>> /\ ~AllAllowed(own) /\ ~NoViolations(own)
    <2>1. own = x /\ 1 \in DOMAIN x
      BY <1>4, <1>6, <1>7 DEF r
    <2> HIDE DEF own
    <2> QED
      BY <1>7, <1>9, <2>1 DEF AllAllowed, NoViolations, Gate!Allowed, gb
  <1> HIDE DEF own
  <1>11. PlanCell(c).verdict = Verdict(SetupFor(c), own, VerificationSql(c))
    BY <1>2 DEF PlanCell, own
  <1> QED
    BY <1>10, <1>11 DEF Verdict

\* For any plans: the negative control is refused, and of the other cells only
\* those that read from a host that is not allowed, or need a master key.
THEOREM OnlyTheControl == Spec => []OnlyTheControlIsBlocked
  <1>1. PlannedAsGenerated => OnlyTheControlIsBlocked
    <2> SUFFICES ASSUME PlannedAsGenerated, NEW i \in DOMAIN planned
                 PROVE  /\ UsesDefaultNames(MATRIX[i]) /\ MATRIX[i].fixture \notin plan.missing
                              => planned[i].verdict = "BLOCKED"
                        /\ planned[i].verdict = "BLOCKED"
                              => \/ UsesDefaultNames(MATRIX[i])
                                 \/ plan.staging.hosts # {} /\ plan.staging.remote \notin plan.staging.hosts
                                 \/ plan.platform = "sql_server_2019" /\ Remote(MATRIX[i])
      BY DEF OnlyTheControlIsBlocked
    <2> DEFINE c == MATRIX[i]
    <2>1. /\ plan \in Plans /\ planned[i] = PlanCell(c)
          /\ i \in DOMAIN MATRIX /\ plan.target \in Targets(c)
      BY DEF PlannedAsGenerated, Entries, EntriesFor
    <2>2. IsCell(c)
      BY <2>1, MatrixIs
    <2>3. Unstaged(c, plan) => PlanCell(c).verdict # "BLOCKED"
      BY DEF PlanCell
    <2> HIDE DEF c
    <2> QED
      BY <2>1, <2>2, <2>3, OthersPass, ControlIsBlocked DEF c
  <1>2. PlaceInv => PlannedAsGenerated
    BY DEF PlaceInv
  <1> QED
    BY <1>1, <1>2, PlaceInit, PlaceStep, PTL DEF Spec

-----------------------------------------------------------------------------
(* What a READY cell finds when it runs.                                   *)

\* Whatever block x[k] needs, a block before it gives.
Supplied(x) ==
    \A k \in DOMAIN x : \E r, K : /\ Section(r, K, x[k])
                                  /\ \A u \in K : \E j \in 1..(k - 1) : Gives(x[j], u)

AllGuarded(x) ==
    \A b \in DOMAIN x : \A i \in DOMAIN x[b] : x[b][i].verb = "create" => x[b][i].guarded

Apart(x, y) == \A kind, name : ~(Creates(x, kind, name) /\ Creates(y, kind, name))

\* The blocks of x create nothing twice, or only what is not there yet.
CreatedOnce(x) ==
    \/ \A k \in DOMAIN x : AllGuarded(x[k])
    \/ /\ \A k \in DOMAIN x : CreatesOnce(x[k])
       /\ \A k \in DOMAIN x : \A l \in DOMAIN x : k = l \/ Apart(x[k], x[l])

\* What comes after a setup of no, one or two blocks.
LEMMA NothingThenTwo == ASSUME NEW c, NEW d PROVE <<>> \o <<c, d>> = <<c, d>>
  OBVIOUS

LEMMA OneThenTwo == ASSUME NEW a, NEW c, NEW d PROVE <<a>> \o <<c, d>> = <<a, c, d>>
  <1> DEFINE T == {a, c, d}
             x == <<a>>
             z == <<c, d>>
  <1>1. x \in Seq(T) /\ Len(x) = 1 /\ x[1] = a /\ z \in Seq(T) /\ Len(z) = 2 /\ z[1] = c /\ z[2] = d
    OBVIOUS
  <1> HIDE DEF T, x, z
  <1>2. ASSUME NEW u \in Seq(T), NEW v \in Seq(T)
        PROVE  /\ u \o v \in Seq(T) /\ Len(u \o v) = Len(u) + Len(v)
               /\ \A k \in 1..Len(u) : (u \o v)[k] = u[k]
               /\ \A k \in 1..Len(v) : (u \o v)[Len(u) + k] = v[k]
    OBVIOUS
  <1> DEFINE w == x \o z
  <1>3. /\ w \in Seq(T) /\ Len(w) = Len(x) + Len(z)
        /\ \A k \in 1..Len(x) : w[k] = x[k]
        /\ \A k \in 1..Len(z) : w[Len(x) + k] = z[k]
    BY <1>1, <1>2, Zenon
  <1> HIDE DEF w
  <1>4. w \in Seq(T) /\ Len(w) = 3 /\ w[1] = a /\ w[1 + 1] = c /\ w[1 + 2] = d
    BY <1>1, <1>3
  <1>5. w = <<w[1], w[2], w[3]>> /\ w[2] = c /\ w[3] = d
    BY <1>4
  <1> QED
    BY <1>4, <1>5 DEF w, x, z

LEMMA TwoThenTwo ==
    ASSUME NEW a, NEW b, NEW c, NEW d PROVE <<a, b>> \o <<c, d>> = <<a, b, c, d>>
  <1> DEFINE T == {a, b, c, d}
             y == <<a, b>>
             z == <<c, d>>
  <1>1. /\ y \in Seq(T) /\ Len(y) = 2 /\ y[1] = a /\ y[2] = b
        /\ z \in Seq(T) /\ Len(z) = 2 /\ z[1] = c /\ z[2] = d
    OBVIOUS
  <1> HIDE DEF T, y, z
  <1>2. ASSUME NEW u \in Seq(T), NEW v \in Seq(T)
        PROVE  /\ u \o v \in Seq(T) /\ Len(u \o v) = Len(u) + Len(v)
               /\ \A k \in 1..Len(u) : (u \o v)[k] = u[k]
               /\ \A k \in 1..Len(v) : (u \o v)[Len(u) + k] = v[k]
    OBVIOUS
  <1> DEFINE w == y \o z
  <1>3. /\ w \in Seq(T) /\ Len(w) = Len(y) + Len(z)
        /\ \A k \in 1..Len(y) : w[k] = y[k]
        /\ \A k \in 1..Len(z) : w[Len(y) + k] = z[k]
    BY <1>1, <1>2, Zenon
  <1> HIDE DEF w
  <1>4. w \in Seq(T) /\ Len(w) = 4 /\ w[1] = a /\ w[2] = b /\ w[2 + 1] = c /\ w[2 + 2] = d
    BY <1>1, <1>3
  <1>5. w = <<w[1], w[2], w[3], w[4]>> /\ w[3] = c /\ w[4] = d
    BY <1>4
  <1> QED
    BY <1>4, <1>5 DEF w, y, z

LEMMA NoBlock ==
    /\ \A r, K : Section(r, K, <<>>)
    /\ CreatesOnce(<<>>) /\ AllGuarded(<<>>)
    /\ \A x : Apart(x, <<>>) /\ Apart(<<>>, x)
  <1>1. \A kind, name : ~Creates(<<>>, kind, name)
    BY NothingOnce
  <1> QED
    BY <1>1, NothingFits, NothingOnce DEF Apart, AllGuarded

LEMMA OwnOnly ==
    ASSUME NEW r, NEW c, Section(r, {}, c), CreatesOnce(c) \/ AllGuarded(c)
    PROVE  Supplied(<<c, <<>>>>) /\ CreatedOnce(<<c, <<>>>>)
  <1> DEFINE x == <<c, <<>>>>
  <1>1. DOMAIN x = {1, 2} /\ x[1] = c /\ x[2] = <<>>
    OBVIOUS
  <1> HIDE DEF x
  <1>2. Supplied(x)
    BY <1>1, NoBlock DEF Supplied
  <1>3. CreatedOnce(x)
    BY <1>1, NoBlock DEF CreatedOnce
  <1> QED
    BY <1>2, <1>3 DEF x

LEMMA SetupThenOwn ==
    ASSUME NEW r, NEW a, NEW c, NEW C, Section(r, {}, a), Section(r, C, c),
           \A u \in C : Gives(a, u), CreatesOnce(a), CreatesOnce(c), Apart(a, c)
    PROVE  Supplied(<<a, c, <<>>>>) /\ CreatedOnce(<<a, c, <<>>>>)
  <1> DEFINE x == <<a, c, <<>>>>
  <1>1. DOMAIN x = {1, 2, 3} /\ x[1] = a /\ x[2] = c /\ x[3] = <<>>
    OBVIOUS
  <1> HIDE DEF x
  <1>2. Supplied(x)
    <2> SUFFICES ASSUME NEW k \in DOMAIN x
                 PROVE  \E q, K : /\ Section(q, K, x[k])
                                  /\ \A u \in K : \E j \in 1..(k - 1) : Gives(x[j], u)
      BY DEF Supplied
    <2>1. CASE k = 1
      BY <1>1, <2>1
    <2>2. CASE k = 2
      <3>1. 1 \in 1..(k - 1)
        BY <2>2
      <3> QED
        BY <1>1, <2>2, <3>1
    <2>3. CASE k = 3
      BY <1>1, <2>3, NoBlock
    <2> QED
      BY <1>1, <2>1, <2>2, <2>3
  <1>3. CreatedOnce(x)
    <2>1. Apart(c, a)
      BY DEF Apart
    <2> QED
      BY <1>1, <2>1, NoBlock DEF CreatedOnce
  <1> QED
    BY <1>2, <1>3 DEF x

LEMMA SetupThenVerified ==
    ASSUME NEW r, NEW a, NEW b, NEW c, NEW d, NEW C, NEW D,
           Section(r, {}, a), Section(r, {}, b), Section(r, C, c), Section(r, D, d),
           \A u \in C : Gives(a, u) \/ Gives(b, u), \A u \in D : Gives(b, u) \/ Gives(c, u),
           CreatesOnce(a), CreatesOnce(b), CreatesOnce(c), CreatesNothing(d),
           Apart(a, b), Apart(a, c), Apart(b, c)
    PROVE  Supplied(<<a, b, c, d>>) /\ CreatedOnce(<<a, b, c, d>>)
  <1> DEFINE x == <<a, b, c, d>>
  <1>1. DOMAIN x = {1, 2, 3, 4} /\ x[1] = a /\ x[2] = b /\ x[3] = c /\ x[4] = d
    OBVIOUS
  <1> HIDE DEF x
  <1>2. Supplied(x)
    <2> SUFFICES ASSUME NEW k \in DOMAIN x
                 PROVE  \E q, K : /\ Section(q, K, x[k])
                                  /\ \A u \in K : \E j \in 1..(k - 1) : Gives(x[j], u)
      BY DEF Supplied
    <2>1. CASE k = 1
      BY <1>1, <2>1
    <2>2. CASE k = 2
      BY <1>1, <2>2
    <2>3. CASE k = 3
      <3>1. 1 \in 1..(k - 1) /\ 2 \in 1..(k - 1)
        BY <2>3
      <3> QED
        BY <1>1, <2>3, <3>1
    <2>4. CASE k = 4
      <3>1. 2 \in 1..(k - 1) /\ 3 \in 1..(k - 1)
        BY <2>4
      <3> QED
        BY <1>1, <2>4, <3>1
    <2> QED
      BY <1>1, <2>1, <2>2, <2>3, <2>4
  <1>3. CreatedOnce(x)
    <2>1. CreatesOnce(d) /\ \A y : Apart(y, d) /\ Apart(d, y)
      BY NothingCreated DEF Apart, CreatesNothing
    <2>2. Apart(b, a) /\ Apart(c, a) /\ Apart(c, b)
      BY DEF Apart
    <2> QED
      BY <1>1, <2>1, <2>2 DEF CreatedOnce
  <1> QED
    BY <1>2, <1>3 DEF x

\* A cell that is READY and loads no table of the user's finds, in its blocks,
\* all that its statements use.
LEMMA ReadyIsSupplied ==
    ASSUME plan \in Plans, NEW c, IsCell(c), plan.target \in Targets(c),
           PlanCell(c).verdict = "READY", ~LoadsNobodysTable(c)
    PROVE  Supplied(PlanCell(c).sends) /\ CreatedOnce(PlanCell(c).sends)
  <1> DEFINE r == RequestFor(c)
             x == PlanCell(c).sends
             Good(y) == Supplied(y) /\ CreatedOnce(y)
  <1>1. ~Unstaged(c, plan) /\ ~UsesDefaultNames(c) /\ c.statement # "json_functions"
    BY ReadyIsStaged, ControlIsBlocked DEF LoadsNobodysTable, Unstaged
  <1>2. x = SetupFor(c) \o <<OwnSql(c), VerificationSql(c)>> /\ OwnSql(c) # <<>>
    BY <1>1, SendsAre
  <1>3. /\ IsRequest(r) /\ ~r.wide /\ r.platform # "fabric_sql_db" /\ r.platform \in BulkInsertPlatforms
        /\ c.statement # "external_file_format" => r.type # "excel" /\ Missing(r) = {}
        /\ r.type = FIXTURES[c.fixture].type
        /\ ~Remote(c) => r.url = NoUrl
    <2>1. /\ IsRequest(r) /\ ~r.wide /\ r.platform = plan.platform /\ r.type = FIXTURES[c.fixture].type
          /\ r.type # "excel" => Missing(r) = {}
          /\ ~Remote(c) => r.url = NoUrl
      BY <1>1, RequestIs
    <2>2. c.statement # "external_file_format" => r.type # "excel"
      BY <2>1, FixtureIs DEF IsCell
    <2> HIDE DEF r
    <2> QED
      BY <2>1, <2>2, PlatformIs DEF BulkInsertPlatforms, AzureSql, SqlServer
  <1>4. ASSUME NEW setup, NEW own, NEW ver, BlocksAre(c, setup, own, ver),
               Good(setup \o <<own, ver>>)
        PROVE  Good(x)
    <2>1. setup \o <<own, ver>> = x
      BY <1>2, <1>4 DEF BlocksAre
    <2> HIDE DEF x, Good
    <2> QED
      BY <1>4, <2>1
  <1> HIDE DEF r, x
  <1>5. Good(<<CreateTable(r), <<>>>>) /\ Good(<<ExternalFileFormat(r), <<>>>>)
    BY <1>3, CreateTableFits, FileFormatFits, DefiningOnce, OwnOnly
  <1>6. /\ c.statement = "credential_setup" => Good(<<CredentialSetup(r), <<>>>>)
        /\ c.statement = "complete_ddl" => Good(<<CompleteDdl(r), <<>>>>)
    <2>1. c.statement = "credential_setup" => Section(r, {}, CredentialSetup(r))
      BY <1>3, SetupFits
    <2>2. c.statement = "complete_ddl" => Section(r, {}, CompleteDdl(r)) /\ AllGuarded(CompleteDdl(r))
      BY <1>3, DocumentFits DEF AllGuarded
    <2> QED
      BY <1>3, <2>1, <2>2, SetupOnce, OwnOnly
  <1>7. CreatesOnce(CredentialSetup(r)) /\ \A y : (\A k, n : Creates(y, k, n) => k \in {"table", "format"})
                                                     => Apart(CredentialSetup(r), y)
    <2>1. CreatesOnce(CredentialSetup(r)) /\ \A k, n : Creates(CredentialSetup(r), k, n)
                                                        => k \in {"masterkey", "credential", "source"}
      BY <1>3, SetupOnce
    <2> QED
      BY <2>1 DEF Apart
  <1>8. \A y, z : CreatesNothing(z) => Apart(y, z) /\ CreatesOnce(z)
    BY NothingCreated DEF Apart, CreatesNothing
  <1>9. \A u \in Sources(r) : c.statement # "external_file_format" => Gives(CredentialSetup(r), u)
    BY <1>3, SetupFits DEF Sources
  <1>10. /\ c.statement = "openrowset" => Good(<<CredentialSetup(r), OpenRowset(r), <<>>>>)
         /\ c.statement = "openrowset" /\ ~Remote(c) /\ c.id = "C15" => Good(<<OpenRowset(r), <<>>>>)
         /\ Good(<<CreateTable(r), ForJson(r), <<>>>>)
    <2>1. /\ Section(r, Sources(r), OpenRowset(r)) /\ CreatesNothing(OpenRowset(r))
          /\ Section(r, {UseTable(r)}, ForJson(r)) /\ CreatesNothing(ForJson(r))
      BY <1>3, OpenRowsetFits, ForJsonFits, QueriesCreateNothing
    <2>2. c.statement = "openrowset" => Section(r, {}, CredentialSetup(r))
      BY <1>3, SetupFits
    <2>3. c.statement = "openrowset" => Good(<<CredentialSetup(r), OpenRowset(r), <<>>>>)
      BY <1>7, <1>8, <1>9, <2>1, <2>2, SetupThenOwn
    <2>4. ASSUME c.statement = "openrowset", ~Remote(c), c.id = "C15"
          PROVE  Good(<<OpenRowset(r), <<>>>>)
      <3>1. r.platform \in SqlServer
        <4>1. plan.target = "vm"
          BY <2>4 DEF Targets
        <4> QED
          BY <4>1, <1>1, PlatformIs, RequestIs DEF r
      <3>2. r.type = "csv"
        BY <1>3, <2>4 DEF IsCell, Remote
      <3> QED
        BY <1>3, <1>8, <2>1, <2>4, <3>1, <3>2, LocalRowsetFits, OwnOnly
    <2>5. Good(<<CreateTable(r), ForJson(r), <<>>>>)
      BY <1>3, <1>8, <2>1, CreateTableFits, DefiningOnce, SetupThenOwn
    <2> QED
      BY <2>3, <2>4, <2>5
  <1>11. c.statement = "bulk_insert" =>
            Good(<<CredentialSetup(r), CreateTable(r), BulkInsert(r, FALSE), ReadBack(TableName(r), "rows")>>)
    <2> SUFFICES ASSUME c.statement = "bulk_insert"
                 PROVE  Good(<<CredentialSetup(r), CreateTable(r), BulkInsert(r, FALSE),
                               ReadBack(TableName(r), "rows")>>)
      OBVIOUS
    <2>1. /\ Section(r, {}, CredentialSetup(r)) /\ Section(r, {}, CreateTable(r))
          /\ Section(r, Available(r), BulkInsert(r, FALSE))
          /\ Gives(CreateTable(r), UseTable(r))
      BY <1>3, SetupFits, CreateTableFits, LoadFits
    <2>2. \A u \in Available(r) : Gives(CredentialSetup(r), u) \/ Gives(CreateTable(r), u)
      BY <1>9, <2>1 DEF Available
    <2> DEFINE read == {UseTable(r)}
    <2>3. Section(r, read, ReadBack(TableName(r), "rows"))
      BY OneSelectFits DEF ReadBack, UseTable
    <2>4. CreatesNothing(BulkInsert(r, FALSE)) /\ CreatesNothing(ReadBack(TableName(r), "rows"))
      BY <1>3, LoadCreatesNothing, QueriesCreateNothing DEF ReadBack
    <2>5. CreatesOnce(CreateTable(r)) /\ Apart(CredentialSetup(r), CreateTable(r))
      BY <1>7, DefiningOnce
    <2>6. /\ Apart(CredentialSetup(r), BulkInsert(r, FALSE)) /\ Apart(CreateTable(r), BulkInsert(r, FALSE))
          /\ CreatesOnce(BulkInsert(r, FALSE))
      BY <1>8, <2>4
    <2>7. \A u \in read : Gives(CreateTable(r), u) \/ Gives(BulkInsert(r, FALSE), u)
      BY <2>1
    <2> HIDE DEF read
    <2> QED
      BY <1>7, <2>1, <2>2, <2>3, <2>4, <2>5, <2>6, <2>7, SetupThenVerified
  <1>12. c.statement = "create_external_table" /\ OwnSql(c) = ExternalTable(r) =>
            Good(<<CredentialSetup(r), ExternalFileFormat(r), ExternalTable(r),
                   ReadBack(ExternalTableName(r), "external")>>)
    <2> SUFFICES ASSUME c.statement = "create_external_table", OwnSql(c) = ExternalTable(r)
                 PROVE  Good(<<CredentialSetup(r), ExternalFileFormat(r), ExternalTable(r),
                               ReadBack(ExternalTableName(r), "external")>>)
      OBVIOUS
    <2> DEFINE format == Use("format", FormatName(r), FormatType[r.type])
               C == {u \in {UseSource(r), format} :
                        \/ Compatible(r) /\ Formatted(r) /\ u = UseSource(r)
                        \/ FormatSupported(r) /\ ~NoEncoding(r) /\ u = format}
               read == Use("table", ExternalTableName(r), "external")
    <2>1. /\ Section(r, {}, CredentialSetup(r)) /\ Section(r, {}, ExternalFileFormat(r))
          /\ Section(r, C, ExternalTable(r))
      BY <1>3, SetupFits, FileFormatFits, ExternalTableFits
    <2>2. \A u \in C : Gives(CredentialSetup(r), u) \/ Gives(ExternalFileFormat(r), u)
      BY <1>3, SetupFits, FileFormatFits
    <2>3. Section(r, {read}, ReadBack(ExternalTableName(r), "external"))
      BY OneSelectFits DEF ReadBack
    <2>4. Gives(ExternalTable(r), read)
      <3> DEFINE s == Create("table", ExternalTableName(r),
                             {UseSource(r), Use("format", FormatName(r), FormatType[r.type])},
                             [type |-> "external"], FALSE)
      <3>1. ExternalTable(r) = <<<<s>>>>
        BY <1>2, BatchesOf DEF ExternalTable, Guidance
      <3>2. s.verb = "create" /\ Use(s.kind, s.name, s.def.type) = read
        BY DEF Create, Statement
      <3> HIDE DEF s, read
      <3>3. Offers(<<s>>, read)
        BY <3>2, OneBatch DEF Offers
      <3> QED
        BY <3>1, <3>3, OneBatch DEF Gives
    <2>5. CreatesNothing(ReadBack(ExternalTableName(r), "external"))
      BY QueriesCreateNothing DEF ReadBack
    <2>6. /\ CreatesOnce(ExternalFileFormat(r)) /\ CreatesOnce(ExternalTable(r))
          /\ Apart(CredentialSetup(r), ExternalFileFormat(r))
          /\ Apart(CredentialSetup(r), ExternalTable(r))
          /\ Apart(ExternalFileFormat(r), ExternalTable(r))
      BY <1>7, DefiningOnce DEF Apart
    <2>7. \A u \in {read} : Gives(ExternalFileFormat(r), u) \/ Gives(ExternalTable(r), u)
      BY <2>4
    <2> HIDE DEF C, read
    <2> QED
      BY <1>7, <2>1, <2>2, <2>3, <2>5, <2>6, <2>7, SetupThenVerified
  <1> HIDE DEF Good
  <1>13. \A o : Good(<<o, <<>>>>) /\ BlocksAre(c, <<>>, o, <<>>) => Good(x)
    BY <1>4, NothingThenTwo
  <1>14. ASSUME NEW a, NEW o, Good(<<a, o, <<>>>>), BlocksAre(c, <<a>>, o, <<>>) PROVE Good(x)
    <2>1. <<a>> \o <<o, <<>>>> = <<a, o, <<>>>>
      BY OneThenTwo
    <2>2. Good(<<a>> \o <<o, <<>>>>)
      BY <1>14, <2>1
    <2> QED
      BY <1>4, <1>14, <2>2
  <1>15. ASSUME NEW a, NEW b, NEW o, NEW v, Good(<<a, b, o, v>>), BlocksAre(c, <<a, b>>, o, v)
         PROVE  Good(x)
    <2>1. <<a, b>> \o <<o, v>> = <<a, b, o, v>>
      BY TwoThenTwo
    <2>2. Good(<<a, b>> \o <<o, v>>)
      BY <1>15, <2>1
    <2> QED
      BY <1>4, <1>15, <2>2
  <1>16. \A setup, own, ver : BlocksAre(c, setup, own, ver) => OwnSql(c) = own
    BY DEF BlocksAre
  <1>17. Good(x)
    BY <1>1, <1>5, <1>6, <1>10, <1>11, <1>12, <1>13, <1>14, <1>15, <1>16, CellSends DEF r
  <1> QED
    BY <1>17 DEF Good, x

-----------------------------------------------------------------------------
(* What was sent before a place of the blocks x of a cell.                 *)

Numbered(x) ==
    /\ \E n \in Nat : DOMAIN x = 1..n
    /\ \A k \in DOMAIN x :
          /\ \E n \in Nat : DOMAIN x[k] = 1..n
          /\ \A b \in DOMAIN x[k] : \E n \in Nat : DOMAIN x[k][b] = 1..n

Precedes(k, b, i, a) ==
    \/ k < a.block
    \/ k = a.block /\ (b < a.batch \/ (b = a.batch /\ i < a.statement))

Sent(x, a) ==
    UNION {UNION {{x[k][b][i] : i \in {n \in DOMAIN x[k][b] : Precedes(k, b, n, a)}} :
                     b \in DOMAIN x[k]} : k \in DOMAIN x}

LEMMA SentIs ==
    ASSUME NEW x, NEW a, NEW s
    PROVE  s \in Sent(x, a) <=>
              \E k \in DOMAIN x : \E b \in DOMAIN x[k] : \E i \in DOMAIN x[k][b] :
                 Precedes(k, b, i, a) /\ s = x[k][b][i]
  BY DEF Sent

LEMMA GivenBefore ==
    ASSUME NEW x, Numbered(x), Supplied(x), NEW a, a.block \in DOMAIN x,
           a.batch \in DOMAIN x[a.block], a.statement \in DOMAIN x[a.block][a.batch],
           NEW u \in x[a.block][a.batch][a.statement].uses
    PROVE  \E t \in Sent(x, a) : t.verb = "create" /\ Use(t.kind, t.name, t.def.type) = u
  <1>1. PICK r, K : /\ Section(r, K, x[a.block])
                    /\ \A v \in K : \E j \in 1..(a.block - 1) : Gives(x[j], v)
    BY DEF Supplied
  <1>2. u \in K \/ \E b \in 1..(a.batch - 1) : Offers(x[a.block][b], u)
    BY <1>1 DEF Section
  <1>3. a.block \in Nat /\ a.batch \in Nat
        /\ \A j \in 1..(a.block - 1) : j \in DOMAIN x /\ j < a.block
    BY DEF Numbered
  <1>4. CASE u \in K
    <2>1. PICK j \in 1..(a.block - 1) : Gives(x[j], u)
      BY <1>1, <1>4
    <2>2. PICK b \in DOMAIN x[j] : Offers(x[j][b], u)
      BY <2>1 DEF Gives
    <2>3. PICK i \in DOMAIN x[j][b] : /\ x[j][b][i].verb = "create"
                                      /\ Use(x[j][b][i].kind, x[j][b][i].name, x[j][b][i].def.type) = u
      BY <2>2 DEF Offers
    <2>4. j \in DOMAIN x /\ Precedes(j, b, i, a)
      BY <1>3 DEF Precedes
    <2>5. x[j][b][i] \in Sent(x, a)
      BY <2>4, SentIs
    <2> QED
      BY <2>3, <2>5
  <1>5. CASE \E b \in 1..(a.batch - 1) : Offers(x[a.block][b], u)
    <2>1. PICK b \in 1..(a.batch - 1) : Offers(x[a.block][b], u)
      BY <1>5
    <2>2. PICK i \in DOMAIN x[a.block][b] :
             /\ x[a.block][b][i].verb = "create"
             /\ Use(x[a.block][b][i].kind, x[a.block][b][i].name, x[a.block][b][i].def.type) = u
      BY <2>1 DEF Offers
    <2>3. b \in DOMAIN x[a.block] /\ b < a.batch
      BY <1>3 DEF Numbered
    <2>4. x[a.block][b][i] \in Sent(x, a)
      BY <2>3, SentIs DEF Precedes
    <2> QED
      BY <2>2, <2>4
  <1> QED
    BY <1>2, <1>4, <1>5

LEMMA NotMadeBefore ==
    ASSUME NEW x, Numbered(x), CreatedOnce(x), NEW a, a.block \in DOMAIN x,
           a.batch \in DOMAIN x[a.block], a.statement \in DOMAIN x[a.block][a.batch],
           NEW t \in Sent(x, a), t.verb = "create"
    PROVE  LET s == x[a.block][a.batch][a.statement]
           IN  s.verb = "create" /\ ~s.guarded => ~(t.kind = s.kind /\ t.name = s.name)
  <1> DEFINE s == x[a.block][a.batch][a.statement]
  <1> SUFFICES ASSUME s.verb = "create", ~s.guarded, t.kind = s.kind, t.name = s.name PROVE FALSE
    OBVIOUS
  <1>1. PICK k \in DOMAIN x : \E b \in DOMAIN x[k] : \E i \in DOMAIN x[k][b] :
           Precedes(k, b, i, a) /\ t = x[k][b][i]
    BY SentIs
  <1>a. PICK b \in DOMAIN x[k] : \E i \in DOMAIN x[k][b] : Precedes(k, b, i, a) /\ t = x[k][b][i]
    BY <1>1
  <1>2. PICK i \in DOMAIN x[k][b] : Precedes(k, b, i, a) /\ t = x[k][b][i]
    BY <1>a
  <1>3. ~AllGuarded(x[a.block])
    BY DEF AllGuarded
  <1>4. CreatesOnce(x[a.block]) /\ (k = a.block \/ Apart(x[k], x[a.block]))
    BY <1>3 DEF CreatedOnce
  <1>5. Creates(x[k], t.kind, t.name) /\ Creates(x[a.block], t.kind, t.name)
    BY <1>2 DEF Creates
  <1>6. k = a.block
    BY <1>4, <1>5 DEF Apart
  <1>7. b = a.batch /\ i = a.statement
    BY <1>2, <1>4, <1>6 DEF CreatesOnce
  <1>8. a.block \in Nat /\ a.batch \in Nat /\ a.statement \in Nat
    BY DEF Numbered
  <1> QED
    BY <1>2, <1>6, <1>7, <1>8 DEF Precedes

LEMMA NothingSentFirst ==
    ASSUME NEW x, Numbered(x), NEW a, a.block = 1, a.batch = 1, a.statement = 1
    PROVE  Sent(x, a) = {}
  <1> SUFFICES ASSUME NEW s \in Sent(x, a) PROVE FALSE
    OBVIOUS
  <1>1. PICK k \in DOMAIN x : \E b \in DOMAIN x[k] : \E i \in DOMAIN x[k][b] : Precedes(k, b, i, a)
    BY SentIs
  <1>a. PICK b \in DOMAIN x[k] : \E i \in DOMAIN x[k][b] : Precedes(k, b, i, a)
    BY <1>1
  <1>2. PICK i \in DOMAIN x[k][b] : Precedes(k, b, i, a)
    BY <1>a
  <1>3. k \in Nat /\ k >= 1 /\ b \in Nat /\ b >= 1 /\ i \in Nat /\ i >= 1
    BY DEF Numbered
  <1> QED
    BY <1>2, <1>3 DEF Precedes

\* Nothing is left out when a cell stops or goes to its next block.
LEMMA SentStays ==
    ASSUME NEW x, Numbered(x), NEW a, a.block \in Nat, a.batch \in Nat, a.statement \in Nat,
           NEW b, b.block \in Nat, b.batch \in Nat, a.block < b.block
    PROVE  Sent(x, a) \subseteq Sent(x, b)
  <1> SUFFICES ASSUME NEW s \in Sent(x, a) PROVE s \in Sent(x, b)
    OBVIOUS
  <1>1. PICK k \in DOMAIN x : \E c \in DOMAIN x[k] : \E i \in DOMAIN x[k][c] :
           Precedes(k, c, i, a) /\ s = x[k][c][i]
    BY SentIs
  <1>a. PICK c \in DOMAIN x[k] : \E i \in DOMAIN x[k][c] : Precedes(k, c, i, a) /\ s = x[k][c][i]
    BY <1>1
  <1>2. PICK i \in DOMAIN x[k][c] : Precedes(k, c, i, a) /\ s = x[k][c][i]
    BY <1>a
  <1>3. k \in Nat
    BY DEF Numbered
  <1>4. Precedes(k, c, i, b)
    BY <1>2, <1>3 DEF Precedes
  <1> QED
    BY <1>2, <1>4, SentIs

\* The end of a block is the start of the next.
LEMMA SentInBlock ==
    ASSUME NEW x, Numbered(x), NEW a, a.block \in DOMAIN x, a.batch \in Nat,
           a.batch \notin DOMAIN x[a.block], a.batch >= 1,
           NEW b, b.block = a.block + 1, b.batch = 1, b.statement = 1
    PROVE  Sent(x, b) \subseteq Sent(x, a)
  <1> SUFFICES ASSUME NEW s \in Sent(x, b) PROVE s \in Sent(x, a)
    OBVIOUS
  <1>1. PICK k \in DOMAIN x : \E c \in DOMAIN x[k] : \E i \in DOMAIN x[k][c] :
           Precedes(k, c, i, b) /\ s = x[k][c][i]
    BY SentIs
  <1>a. PICK c \in DOMAIN x[k] : \E i \in DOMAIN x[k][c] : Precedes(k, c, i, b) /\ s = x[k][c][i]
    BY <1>1
  <1>2. PICK i \in DOMAIN x[k][c] : Precedes(k, c, i, b) /\ s = x[k][c][i]
    BY <1>a
  <1>3. k \in Nat /\ a.block \in Nat /\ c \in Nat /\ c >= 1 /\ i \in Nat /\ i >= 1
    BY DEF Numbered
  <1>4. k < a.block \/ k = a.block
    BY <1>2, <1>3 DEF Precedes
  <1>5. k = a.block => c < a.batch
    BY <1>3 DEF Numbered
  <1>6. Precedes(k, c, i, a)
    BY <1>4, <1>5 DEF Precedes
  <1> QED
    BY <1>2, <1>6, SentIs

\* The statement at a place is what is sent next.
LEMMA SentHere ==
    ASSUME NEW x, Numbered(x), NEW a, a.block \in DOMAIN x, a.batch \in DOMAIN x[a.block],
           a.statement \in DOMAIN x[a.block][a.batch],
           NEW b, b.block = a.block,
           \/ b.batch = a.batch /\ b.statement = a.statement + 1
           \/ /\ b.batch = a.batch + 1 /\ b.statement = 1
              /\ \A i \in DOMAIN x[a.block][a.batch] : i <= a.statement
    PROVE  Sent(x, b) = Sent(x, a) \cup {x[a.block][a.batch][a.statement]}
  <1>0. a.block \in Nat /\ a.batch \in Nat /\ a.statement \in Nat
    BY DEF Numbered
  <1>1. ASSUME NEW k \in DOMAIN x, NEW c \in DOMAIN x[k], NEW i \in DOMAIN x[k][c]
        PROVE  Precedes(k, c, i, b) <=>
                  Precedes(k, c, i, a) \/ (k = a.block /\ c = a.batch /\ i = a.statement)
    <2>1. k \in Nat /\ c \in Nat /\ i \in Nat /\ i >= 1
      BY DEF Numbered
    <2>2. CASE b.batch = a.batch /\ b.statement = a.statement + 1
      BY <1>0, <2>1, <2>2 DEF Precedes
    <2>3. CASE /\ b.batch = a.batch + 1 /\ b.statement = 1
               /\ \A j \in DOMAIN x[a.block][a.batch] : j <= a.statement
      <3>1. k = a.block /\ c = a.batch => i <= a.statement
        BY <2>3
      <3> QED
        BY <1>0, <2>1, <2>3, <3>1 DEF Precedes
    <2> QED
      BY <2>2, <2>3
  <1>2. ASSUME NEW s \in Sent(x, b) PROVE s \in Sent(x, a) \cup {x[a.block][a.batch][a.statement]}
    <2>1. PICK k \in DOMAIN x : \E c \in DOMAIN x[k] : \E i \in DOMAIN x[k][c] :
             Precedes(k, c, i, b) /\ s = x[k][c][i]
      BY <1>2, SentIs
    <2>a. PICK c \in DOMAIN x[k] : \E i \in DOMAIN x[k][c] : Precedes(k, c, i, b) /\ s = x[k][c][i]
      BY <2>1
    <2>2. PICK i \in DOMAIN x[k][c] : Precedes(k, c, i, b) /\ s = x[k][c][i]
      BY <2>a
    <2>3. Precedes(k, c, i, a) => s \in Sent(x, a)
      BY <2>2, SentIs
    <2> QED
      BY <1>1, <2>2, <2>3
  <1>3. ASSUME NEW s \in Sent(x, a) PROVE s \in Sent(x, b)
    <2>1. PICK k \in DOMAIN x : \E c \in DOMAIN x[k] : \E i \in DOMAIN x[k][c] :
             Precedes(k, c, i, a) /\ s = x[k][c][i]
      BY <1>3, SentIs
    <2>a. PICK c \in DOMAIN x[k] : \E i \in DOMAIN x[k][c] : Precedes(k, c, i, a) /\ s = x[k][c][i]
      BY <2>1
    <2>2. PICK i \in DOMAIN x[k][c] : Precedes(k, c, i, a) /\ s = x[k][c][i]
      BY <2>a
    <2>3. Precedes(k, c, i, b)
      BY <1>1, <2>2
    <2> QED
      BY <2>2, <2>3, SentIs
  <1>4. x[a.block][a.batch][a.statement] \in Sent(x, b)
    <2>1. Precedes(a.block, a.batch, a.statement, b)
      BY <1>1
    <2> QED
      BY <2>1, SentIs
  <1> QED
    BY <1>2, <1>3, <1>4

-----------------------------------------------------------------------------
(* Whose an object is.                                                     *)

\* An own object of a cell carries the name the cell writes to.
LEMMA ObjectNamesCell ==
    ASSUME NEW c, IsCell(c), ~UsesDefaultNames(c), NEW o \in Objects(RequestFor(c)),
           o.kind # "masterkey", IsOwn(o)
    PROVE  (IF o.kind = "table" THEN o.name[2][2] ELSE o.name[2]) = NamingCell(c)
  <1> DEFINE r == RequestFor(c)
  <1>1. ASSUME o.kind = "table" PROVE o.name # StagingTableName(r)
    <2>1. TableName(r)[2] = IdentityName(c, c.fixture) /\ TableName(r) = <<Schema, IdentityName(c, c.fixture)>>
      BY NamesAre
    <2>2. StagingTableName(r) = <<r.names.schema, <<"stg_">> \o TableName(r)[2]>>
      BY DEF StagingTableName
    <2> HIDE DEF r
    <2>3. (<<"stg_">> \o IdentityName(c, c.fixture))[1] = "stg_"
      <3>1. IdentityName(c, c.fixture) \in Seq({Prefix, NamingCell(c), c.fixture})
        BY DEF IdentityName
      <3>2. ASSUME NEW S, NEW n \in Seq(S) PROVE (<<"stg_">> \o n)[1] = "stg_"
        BY <3>2
      <3> QED
        BY <3>1, <3>2, Zenon
    <2>4. o.name[2][1] = Prefix
      BY <1>1 DEF IsOwn
    <2> QED
      BY <2>1, <2>2, <2>3, <2>4 DEF Prefix
  <1> QED
    BY <1>1, CellObjects DEF IsIdentity

\* Two cells that write to the same names are the same cell, or the two
\* complete documents, which are generated alike.
LEMMA SameNamesSameCell ==
    ASSUME NEW i \in DOMAIN MATRIX, NEW j \in DOMAIN MATRIX,
           NamingCell(MATRIX[i]) = NamingCell(MATRIX[j])
    PROVE  \/ i = j
           \/ /\ MATRIX[i].statement = "complete_ddl" /\ MATRIX[j].statement = "complete_ddl"
              /\ RequestFor(MATRIX[i]) = RequestFor(MATRIX[j])
  <1> DEFINE c == MATRIX[i]
             d == MATRIX[j]
  <1>1. IsCell(c) /\ IsCell(d) /\ (c.id = d.id => i = j)
    BY MatrixIs DEF Distinct
  <1>2. c.id = d.id \/ (c.id \in {"C28", "C29"} /\ d.id \in {"C28", "C29"})
    BY DEF NamingCell
  <1> SUFFICES ASSUME c.id \in {"C28", "C29"}, d.id \in {"C28", "C29"}
               PROVE  /\ c.statement = "complete_ddl" /\ d.statement = "complete_ddl"
                      /\ RequestFor(c) = RequestFor(d)
    BY <1>1, <1>2
  <1>3. /\ c.statement = "complete_ddl" /\ c.access = "abs" /\ c.fixture = "csv_scalar"
        /\ d.statement = "complete_ddl" /\ d.access = "abs" /\ d.fixture = "csv_scalar"
    BY <1>1 DEF IsCell
  <1>4. /\ AuthMethod(c) = AuthMethod(d) /\ ~UsesDefaultNames(c) /\ ~UsesDefaultNames(d)
        /\ NamingCell(c) = NamingCell(d)
    BY DEF AuthMethod, UsesDefaultNames
  <1> HIDE DEF c, d
  <1>5. /\ MetadataFor(c, plan.staging) = MetadataFor(d, plan.staging)
        /\ Url(plan.staging, c.access) = Url(plan.staging, d.access)
    BY <1>3 DEF MetadataFor, Remote
  <1>6. Names(c) = Names(d)
    <2>1. \A part : IdentityName(c, part) = IdentityName(d, part)
      BY <1>4 DEF IdentityName
    <2> QED
      BY <1>3, <1>4, <2>1 DEF Names
  <1>7. RequestFor(c) = RequestFor(d)
    BY <1>3, <1>4, <1>5, <1>6 DEF RequestFor
  <1> QED
    BY <1>3, <1>7

\* The objects of a cell are told apart by kind and name.
LEMMA CellObjectsAgree ==
    ASSUME plan \in Plans, NEW c, IsCell(c), ~UsesDefaultNames(c), ~Unstaged(c, plan),
           NEW o \in Objects(RequestFor(c)), NEW p \in Objects(RequestFor(c)),
           o.kind = p.kind, o.name = p.name
    PROVE  o.def = p.def
  <1> DEFINE r == RequestFor(c)
  <1>1. /\ IsRequest(r)
        /\ TableName(r) = <<Schema, IdentityName(c, c.fixture)>>
        /\ ExternalTableName(r) = <<Schema, IdentityName(c, "ext")>>
        /\ c.fixture # "ext"
    BY NamesAre, RequestIs, FixtureIs DEF IsCell
  <1>2. StagingTableName(r)[2] = <<"stg_">> \o IdentityName(c, c.fixture)
    BY <1>1 DEF StagingTableName
  <1> HIDE DEF r
  <1>3. ExternalTableName(r) # TableName(r)
    BY <1>1 DEF IdentityName
  <1>4. ExternalTableName(r) # StagingTableName(r)
    <2>1. (<<"stg_">> \o IdentityName(c, c.fixture))[1] = "stg_"
      <3>1. IdentityName(c, c.fixture) \in Seq({Prefix, NamingCell(c), c.fixture})
        BY DEF IdentityName
      <3>2. ASSUME NEW S, NEW n \in Seq(S) PROVE (<<"stg_">> \o n)[1] = "stg_"
        BY <3>2
      <3> QED
        BY <3>1, <3>2, Zenon
    <2>2. ExternalTableName(r)[2][1] = Prefix
      BY <1>1 DEF IdentityName
    <2> QED
      BY <1>2, <2>1, <2>2 DEF Prefix
  <1> QED
    BY <1>1, <1>3, <1>4, ObjectsAgree DEF r

-----------------------------------------------------------------------------
(* A READY cell is not refused.                                            *)

\* All that a complete document creates is guarded.
LEMMA DocumentIsGuarded ==
    ASSUME plan \in Plans, NEW c, IsCell(c), ~Unstaged(c, plan),
           c.statement = "complete_ddl"
    PROVE  \A k \in DOMAIN PlanCell(c).sends : AllGuarded(PlanCell(c).sends[k])
  <1> DEFINE r == RequestFor(c)
             x == <<CompleteDdl(r), <<>>>>
  <1>1. SetupFor(c) = <<>> /\ OwnSql(c) = CompleteDdl(r) /\ VerificationSql(c) = <<>>
    BY CellSends DEF BlocksAre
  <1>2. PlanCell(c).sends = SetupFor(c) \o <<OwnSql(c), VerificationSql(c)>>
    BY SendsAre
  <1>3. AllGuarded(CompleteDdl(r))
    BY RequestIs, DocumentFits DEF AllGuarded
  <1> HIDE DEF r
  <1>4. DOMAIN x = {1, 2} /\ x[1] = CompleteDdl(r) /\ x[2] = <<>>
    OBVIOUS
  <1>5. PlanCell(c).sends = x
    BY <1>1, <1>2, NothingThenTwo
  <1> HIDE DEF x
  <1> QED
    BY <1>3, <1>4, <1>5, NoBlock

\* What is planned for a cell that is READY.
LEMMA PlannedReady ==
    ASSUME PlannedAsGenerated, NEW i \in DOMAIN planned, planned[i].verdict = "READY"
    PROVE  LET c == MATRIX[i]
               x == planned[i].sends
           IN  /\ i \in DOMAIN MATRIX /\ i \in Positive /\ plan \in Plans
               /\ IsCell(c) /\ ~UsesDefaultNames(c) /\ ~Unstaged(c, plan)
               /\ RequestFor(c).platform # "fabric_sql_db"
               /\ Numbered(x)
               /\ ~LoadsNobodysTable(c) => Supplied(x) /\ CreatedOnce(x)
               /\ c.statement = "complete_ddl" => \A k \in DOMAIN x : AllGuarded(x[k])
  <1> DEFINE c == MATRIX[i]
             x == planned[i].sends
  <1>1. /\ i \in Positive /\ IsCell(c) /\ ~Unstaged(c, plan)
        /\ x = PlanCell(c).sends /\ PlanCell(c).verdict = "READY"
    BY PlannedBlocks
  <1>2. plan \in Plans /\ i \in DOMAIN MATRIX /\ plan.target \in Targets(c)
    BY DEF PlannedAsGenerated, Entries, EntriesFor
  <1>3. Numbered(x)
    BY PlannedBlocks DEF Numbered
  <1> HIDE DEF c, x
  <1>4. ~UsesDefaultNames(c)
    BY <1>1, <1>2, ControlIsBlocked DEF Unstaged
  <1>5. RequestFor(c).platform # "fabric_sql_db"
    BY <1>1, <1>2, PlatformIs, RequestIs DEF SqlServer
  <1>6. ~LoadsNobodysTable(c) => Supplied(x) /\ CreatedOnce(x)
    BY <1>1, <1>2, ReadyIsSupplied
  <1>7. c.statement = "complete_ddl" => \A k \in DOMAIN x : AllGuarded(x[k])
    BY <1>1, <1>2, DocumentIsGuarded
  <1> QED
    BY <1>1, <1>2, <1>3, <1>4, <1>5, <1>6, <1>7 DEF c, x

\* What the cell that runs has sent.
SentNow == Sent(planned[at.cell].sends, at)

\* An object is of the cell that made it.
MadeFor(o, j) ==
    /\ j \in DOMAIN planned /\ planned[j].verdict = "READY" /\ j <= at.cell
    /\ o.kind # "masterkey" /\ o \in Objects(RequestFor(MATRIX[j]))
    /\ j = at.cell => \E s \in SentNow : s.verb = "create" /\ s.kind = o.kind /\ s.name = o.name

MadeInv == \A o \in catalog \ Prohibited : \E j \in DOMAIN planned : MadeFor(o, j)

RefusedInv == refused \subseteq 1..at.cell /\ (at.cell \in refused => ~InCell)

\* What a cell has created, if it was not refused, is there.
FoundInv ==
    at.cell # 0 /\ at.cell \notin refused =>
       \A s \in SentNow : s.verb = "create" => Finds(catalog, Use(s.kind, s.name, s.def.type))

ReadyInv == OwnInv /\ MadeInv /\ RefusedInv /\ FoundInv /\ ReadyCellsRun

\* The place of the statement that is sent next.
LEMMA CurrentIs ==
    ASSUME PlaceInv, InBlock
    PROVE  LET x == planned[at.cell].sends
           IN  /\ at.cell \in DOMAIN planned /\ planned[at.cell].verdict = "READY" /\ at.cell # 0
               /\ at.block \in DOMAIN x /\ at.batch \in DOMAIN x[at.block]
               /\ at.statement \in DOMAIN x[at.block][at.batch]
               /\ Current = x[at.block][at.batch][at.statement]
               /\ OfRequest(RequestFor(MATRIX[at.cell]), Current)
               /\ Makes(Current) => Current.verb = "create"
  <1>1. /\ at.cell \in DOMAIN planned /\ planned[at.cell].verdict = "READY"
        /\ OfRequest(RequestFor(MATRIX[at.cell]), Current)
    BY SentStatement DEF PlaceInv
  <1>2. RequestFor(MATRIX[at.cell]).platform # "fabric_sql_db"
    BY <1>1, PlannedReady DEF PlaceInv
  <1>3. Makes(Current) => Current.verb = "create"
    BY <1>1, <1>2 DEF Makes, OfRequest
  <1> QED
    BY <1>1, <1>3, SentStatement DEF PlaceInv, Block, Batch, Current, InBlock, InCell

\* What has the name of what is created next is the same, and made by the same
\* cell or by the document it is a second run of.
LEMMA ExistingIsTheSame ==
    ASSUME ReadyInv, \A p \in Prohibited : ~IsOwn(p), InBlock, Makes(Current),
           NEW o \in Existing(catalog, Current.kind, Current.name)
    PROVE  /\ o.def = Current.def
           /\ \E j \in DOMAIN planned :
                 /\ MadeFor(o, j)
                 /\ j = at.cell \/ MATRIX[at.cell].statement = "complete_ddl"
  <1> DEFINE q == Object(Current.kind, Current.name, Current.def)
             c == MATRIX[at.cell]
  <1>0. PlaceInv
    BY DEF ReadyInv, OwnInv
  <1>1. /\ q.kind = Current.kind /\ q.name = Current.name /\ q.def = Current.def
        /\ q.kind # "masterkey" /\ IsOwn(q)
    BY <1>0, MadeIsOwn
  <1>2. o \in catalog /\ o.kind = q.kind /\ o.name = q.name
    BY <1>1 DEF Existing
  <1>3. q \in Objects(RequestFor(c))
    BY <1>0, CurrentIs DEF OfRequest
  <1>4. /\ at.cell \in DOMAIN MATRIX /\ plan \in Plans /\ IsCell(c) /\ ~UsesDefaultNames(c)
        /\ ~Unstaged(c, plan)
    BY <1>0, CurrentIs, PlannedReady DEF PlaceInv
  <1> HIDE DEF q, c
  <1>5. IsOwn(o)
    BY <1>1, <1>2 DEF IsOwn
  <1>6. PICK j \in DOMAIN planned : MadeFor(o, j)
    BY <1>2, <1>5 DEF ReadyInv, MadeInv
  <1> DEFINE d == MATRIX[j]
  <1>7. j \in DOMAIN MATRIX /\ IsCell(d) /\ ~UsesDefaultNames(d) /\ o \in Objects(RequestFor(d))
    BY <1>0, <1>6, PlannedReady DEF PlaceInv, MadeFor
  <1> HIDE DEF d
  <1>8. NamingCell(c) = NamingCell(d)
    <2>1. (IF o.kind = "table" THEN o.name[2][2] ELSE o.name[2]) = NamingCell(d)
      BY <1>1, <1>2, <1>5, <1>7, ObjectNamesCell
    <2>2. (IF q.kind = "table" THEN q.name[2][2] ELSE q.name[2]) = NamingCell(c)
      BY <1>1, <1>3, <1>4, ObjectNamesCell
    <2> QED
      BY <1>2, <2>1, <2>2
  <1>9. \/ at.cell = j
        \/ c.statement = "complete_ddl" /\ RequestFor(c) = RequestFor(d)
    BY <1>4, <1>7, <1>8, SameNamesSameCell DEF c, d
  <1>10. o \in Objects(RequestFor(c))
    BY <1>7, <1>9 DEF c, d
  <1>11. o.def = q.def
    BY <1>2, <1>3, <1>4, <1>10, CellObjectsAgree
  <1> QED
    BY <1>1, <1>6, <1>9, <1>11 DEF c

\* So the only cell that may be refused is one that loads a table of the user's.
LEMMA OnlyLoadsAreRefused ==
    ASSUME ReadyInv, \A p \in Prohibited : ~IsOwn(p), InBlock, Refuses(catalog, Current)
    PROVE  LoadsNobodysTable(MATRIX[at.cell])
  <1> DEFINE c == MATRIX[at.cell]
             x == planned[at.cell].sends
             s == Current
  <1> SUFFICES ASSUME ~LoadsNobodysTable(c) PROVE FALSE
    OBVIOUS
  <1>0. PlaceInv /\ PlannedAsGenerated
    BY DEF ReadyInv, OwnInv, PlaceInv
  <1>1. /\ at.cell \in DOMAIN planned /\ planned[at.cell].verdict = "READY" /\ at.cell # 0
        /\ at.block \in DOMAIN x /\ at.batch \in DOMAIN x[at.block]
        /\ at.statement \in DOMAIN x[at.block][at.batch]
        /\ s = x[at.block][at.batch][at.statement]
        /\ OfRequest(RequestFor(c), s) /\ (Makes(s) => s.verb = "create")
    BY <1>0, CurrentIs
  <1>2. /\ Numbered(x) /\ Supplied(x) /\ CreatedOnce(x)
        /\ c.statement = "complete_ddl" => \A k \in DOMAIN x : AllGuarded(x[k])
    BY <1>0, <1>1, PlannedReady
  <1>3. \A t \in SentNow : t.verb = "create" => Finds(catalog, Use(t.kind, t.name, t.def.type))
    BY <1>1 DEF ReadyInv, FoundInv, RefusedInv, InBlock
  <1>4. SentNow = Sent(x, at)
    BY DEF SentNow
  <1> HIDE DEF c, x, s
  <1>5. \A u \in s.uses : Finds(catalog, u)
    <2> SUFFICES ASSUME NEW u \in s.uses PROVE Finds(catalog, u)
      OBVIOUS
    <2>1. PICK t \in Sent(x, at) : t.verb = "create" /\ Use(t.kind, t.name, t.def.type) = u
      BY <1>1, <1>2, GivenBefore
    <2> QED
      BY <1>3, <1>4, <2>1
  <1>6. s.verb = "truncate" => s.guarded
    BY <1>1 DEF OfRequest
  <1>7. ASSUME Makes(s), ~s.guarded, NEW o \in Existing(catalog, s.kind, s.name) PROVE FALSE
    <2>1. PICK j \in DOMAIN planned : MadeFor(o, j) /\ (j = at.cell \/ c.statement = "complete_ddl")
      BY <1>7, ExistingIsTheSame DEF c, s
    <2>2. c.statement # "complete_ddl"
      BY <1>1, <1>2, <1>7 DEF AllGuarded
    <2>3. PICK t \in SentNow : t.verb = "create" /\ t.kind = o.kind /\ t.name = o.name
      BY <2>1, <2>2 DEF MadeFor
    <2>4. o.kind = s.kind /\ o.name = s.name
      BY <1>7 DEF Existing
    <2>5. ~(t.kind = s.kind /\ t.name = s.name)
      BY <1>1, <1>2, <1>4, <1>7, <2>3, NotMadeBefore
    <2> QED
      BY <2>3, <2>4, <2>5
  <1> QED
    BY <1>5, <1>6, <1>7 DEF Refuses, s

\* A statement that is executed is what has been sent since.
LEMMA SentExecuted ==
    ASSUME PlaceInv, InBlock, planned' = planned, at' = NextStatement
    PROVE  SentNow' = SentNow \cup {Current}
  <1> DEFINE x == planned[at.cell].sends
  <1>1. /\ at.cell \in DOMAIN planned /\ planned[at.cell].verdict = "READY"
        /\ at.block \in DOMAIN x /\ at.batch \in DOMAIN x[at.block]
        /\ at.statement \in DOMAIN x[at.block][at.batch]
        /\ Current = x[at.block][at.batch][at.statement]
    BY CurrentIs
  <1>2. Numbered(x)
    BY <1>1, PlannedReady DEF PlaceInv
  <1>3. /\ DOMAIN x[at.block][at.batch] = 1..Len(x[at.block][at.batch])
        /\ Len(x[at.block][at.batch]) \in Nat
    BY <1>1, PlannedBlocks DEF PlaceInv
  <1>4. Batch = x[at.block][at.batch]
    BY DEF Batch, Block
  <1>5. at \in [cell : Nat, block : Positive, batch : Positive, statement : Positive]
    BY DEF PlaceInv, Placed, IsPlace
  <1>6. NextStatement.cell = at.cell
    BY NextIsPlace
  <1> HIDE DEF x
  <1>7. /\ NextStatement.block = at.block
        /\ \/ NextStatement.batch = at.batch /\ NextStatement.statement = at.statement + 1
           \/ /\ NextStatement.batch = at.batch + 1 /\ NextStatement.statement = 1
              /\ \A i \in DOMAIN x[at.block][at.batch] : i <= at.statement
    <2>1. CASE at.statement < Len(Batch)
      BY <1>5, <2>1 DEF NextStatement
    <2>2. CASE ~(at.statement < Len(Batch))
      <3>1. \A i \in DOMAIN x[at.block][at.batch] : i <= at.statement
        BY <1>3, <1>4, <1>5, <2>2 DEF Positive
      <3>2. NextStatement = [at EXCEPT !.batch = @ + 1, !.statement = 1]
        BY <2>2 DEF NextStatement
      <3>3. /\ NextStatement.block = at.block /\ NextStatement.batch = at.batch + 1
            /\ NextStatement.statement = 1
        BY <1>5, <3>2
      <3> QED
        BY <3>1, <3>3
    <2> QED
      BY <2>1, <2>2
  <1>8. Sent(x, NextStatement) = Sent(x, at) \cup {Current}
    BY <1>1, <1>2, <1>7, SentHere
  <1>9. SentNow' = Sent(x, NextStatement) /\ SentNow = Sent(x, at)
    BY <1>6 DEF SentNow, x
  <1> QED
    BY <1>8, <1>9

\* An object stays of the cell that made it.
LEMMA MadeForStays ==
    ASSUME NEW o, NEW j \in DOMAIN planned, j \in Positive, MadeFor(o, j), plan' = plan,
           j \in DOMAIN planned', planned'[j] = planned[j],
           at.cell \in Nat, at'.cell \in Nat, at.cell <= at'.cell,
           at.cell # 0 /\ at'.cell = at.cell => SentNow \subseteq SentNow'
    PROVE  MadeFor(o, j)'
  <1>1. RequestFor(MATRIX[j])' = RequestFor(MATRIX[j])
    BY PlanKept
  <1>2. /\ planned[j].verdict = "READY" /\ j <= at.cell
        /\ o.kind # "masterkey" /\ o \in Objects(RequestFor(MATRIX[j]))
        /\ j = at.cell => \E s \in SentNow : s.verb = "create" /\ s.kind = o.kind /\ s.name = o.name
    BY DEF MadeFor
  <1>3. (o \in Objects(RequestFor(MATRIX[j])))'
    BY <1>1, <1>2
  <1>4. j <= at'.cell /\ (j = at'.cell => j = at.cell /\ at.cell # 0 /\ at'.cell = at.cell)
    BY <1>2 DEF Positive
  <1> QED
    BY <1>2, <1>3, <1>4 DEF MadeFor

\* A step of a run keeps the invariant.
LEMMA ReadyStep ==
    ASSUME \A p \in Prohibited : ~IsOwn(p), ReadyInv, [Next]_vars
    PROVE  ReadyInv'
  <1> DEFINE x == planned[at.cell].sends
  <1>1. OwnInv'
    BY OwnStep DEF ReadyInv
  <1>2. /\ PlaceInv /\ PlaceInv' /\ PlannedAsGenerated
        /\ MadeInv /\ RefusedInv /\ FoundInv /\ ReadyCellsRun
    BY <1>1 DEF ReadyInv, OwnInv, PlaceInv
  <1>3. /\ at \in [cell : Nat, block : Positive, batch : Positive, statement : Positive]
        /\ at'.cell \in Nat /\ at'.block \in Positive /\ at'.batch \in Positive
        /\ at.cell # 0 => at.cell \in DOMAIN planned /\ planned[at.cell].verdict = "READY"
    BY <1>2 DEF PlaceInv, Placed, IsPlace
  <1>4. at.cell # 0 => Numbered(x) /\ Len(x) \in Nat /\ DOMAIN x = 1..Len(x)
    BY <1>2, <1>3, PlannedReady, PlannedBlocks
  <1>5. ASSUME plan' = plan, at.cell <= at'.cell,
               \A j \in DOMAIN planned : j \in DOMAIN planned' /\ planned'[j] = planned[j],
               at.cell # 0 /\ at'.cell = at.cell => SentNow \subseteq SentNow'
        PROVE  \A o \in catalog \ Prohibited : \E j \in DOMAIN planned' : MadeFor(o, j)'
    <2> SUFFICES ASSUME NEW o \in catalog \ Prohibited
                 PROVE  \E j \in DOMAIN planned' : MadeFor(o, j)'
      OBVIOUS
    <2>1. PICK j \in DOMAIN planned : MadeFor(o, j)
      BY <1>2 DEF MadeInv
    <2>2. j \in Positive
      BY <1>2, <2>1, PlannedReady DEF MadeFor
    <2>3. MadeFor(o, j)'
      BY <1>3, <1>5, <2>1, <2>2, MadeForStays
    <2> QED
      BY <1>5, <2>1, <2>3
  <1>6. CASE PlanNext
    <2>1. /\ DOMAIN planned \subseteq DOMAIN planned'
          /\ \A i \in DOMAIN planned : planned'[i] = planned[i]
          /\ plan' = plan /\ at' = at /\ catalog' = catalog /\ refused' = refused
      BY <1>2, <1>6, PlanStep
    <2>2. at.cell # 0 => planned'[at.cell] = planned[at.cell]
      BY <1>3, <2>1
    <2>3. at.cell # 0 => SentNow' = SentNow /\ InCell' = InCell
      BY <2>1, <2>2 DEF SentNow, InCell
    <2>4. MadeInv'
      BY <1>3, <1>5, <2>1, <2>3 DEF MadeInv
    <2>5. RefusedInv'
      BY <1>2, <1>3, <2>1, <2>3 DEF RefusedInv
    <2>6. FoundInv'
      BY <1>2, <2>1, <2>3 DEF FoundInv
    <2>7. ReadyCellsRun'
      BY <1>2, <2>1 DEF ReadyCellsRun
    <2> QED
      BY <1>1, <2>4, <2>5, <2>6, <2>7 DEF ReadyInv
  <1>7. CASE TakeNextCell
    <2>1. /\ plan' = plan /\ planned' = planned /\ catalog' = catalog /\ refused' = refused
          /\ \E i \in Ready : at.cell < i /\ at' = [Nowhere EXCEPT !.cell = i]
      BY <1>7 DEF TakeNextCell
    <2>2. PICK i \in Ready : at.cell < i /\ at' = [Nowhere EXCEPT !.cell = i]
      BY <2>1
    <2>3. i \in DOMAIN planned /\ planned[i].verdict = "READY" /\ i \in Nat
      BY <1>2, <2>2, PlannedReady DEF Ready, Positive
    <2>4. at'.cell = i /\ at'.block = 1 /\ at'.batch = 1 /\ at'.statement = 1
      BY <2>2 DEF Nowhere
    <2>5. SentNow' = {}
      <3>1. Numbered(planned[i].sends)
        BY <1>2, <2>3, PlannedReady
      <3>2. Sent(planned[i].sends, at') = {}
        BY <2>4, <3>1, NothingSentFirst
      <3> QED
        BY <2>1, <2>4, <3>2 DEF SentNow
    <2>6. MadeInv'
      BY <1>3, <1>5, <2>1, <2>2, <2>3, <2>4 DEF MadeInv
    <2>7. i \notin refused /\ refused \subseteq 1..i
      BY <1>2, <1>3, <2>2, <2>3 DEF RefusedInv
    <2>8. RefusedInv'
      BY <2>1, <2>4, <2>7 DEF RefusedInv
    <2>9. FoundInv'
      BY <2>5 DEF FoundInv
    <2>10. ReadyCellsRun'
      BY <1>2, <2>1 DEF ReadyCellsRun
    <2> QED
      BY <1>1, <2>6, <2>8, <2>9, <2>10 DEF ReadyInv
  <1>8. CASE TakeNextBlock
    <2>1. /\ plan' = plan /\ planned' = planned /\ catalog' = catalog /\ refused' = refused
          /\ InCell /\ ~InBlock
          /\ at' = [at EXCEPT !.block = @ + 1, !.batch = 1, !.statement = 1]
      BY <1>8 DEF TakeNextBlock
    <2>2. /\ at'.cell = at.cell /\ at'.block = at.block + 1 /\ at'.batch = 1 /\ at'.statement = 1
      BY <1>3, <2>1
    <2>3. at.cell # 0 /\ at.cell \notin refused
      BY <1>2, <2>1 DEF RefusedInv, InCell
    <2>4. SentNow' = SentNow
      <3>1. at.block \in DOMAIN x
        BY <1>3, <1>4, <2>1, <2>3 DEF InCell, Positive
      <3>2. at.batch \notin DOMAIN x[at.block] /\ at.batch >= 1 /\ at.batch \in Nat
        <4>1. ~(at.batch <= Len(x[at.block]))
          BY <2>1 DEF InBlock, Block
        <4>2. Len(x[at.block]) \in Nat /\ DOMAIN x[at.block] = 1..Len(x[at.block])
          BY <1>2, <1>3, <2>3, <3>1, PlannedBlocks
        <4> HIDE DEF x
        <4> QED
          BY <1>3, <4>1, <4>2 DEF Positive
      <3>3. Sent(x, at') \subseteq Sent(x, at)
        BY <1>4, <2>2, <2>3, <3>1, <3>2, SentInBlock
      <3>4. at.block \in Nat /\ at.statement \in Nat /\ at'.block \in Nat /\ at'.batch \in Nat
            /\ at.block < at'.block
        BY <1>3, <2>2 DEF Positive
      <3>5. Sent(x, at) \subseteq Sent(x, at')
        BY <1>4, <2>3, <3>2, <3>4, SentStays
      <3> QED
        BY <2>1, <2>2, <3>3, <3>5 DEF SentNow
    <2>5. MadeInv'
      BY <1>3, <1>5, <2>1, <2>2, <2>4 DEF MadeInv
    <2>6. RefusedInv' /\ FoundInv' /\ ReadyCellsRun'
      BY <1>2, <2>1, <2>2, <2>3, <2>4 DEF RefusedInv, FoundInv, ReadyCellsRun
    <2> QED
      BY <1>1, <2>5, <2>6 DEF ReadyInv
  <1>9. CASE ExecuteStatement
    <2>1. /\ plan' = plan /\ planned' = planned /\ refused' = refused /\ at' = NextStatement
          /\ InBlock /\ ~Refuses(catalog, Current)
          /\ catalog' = catalog \cup Created(catalog, Current)
      BY <1>9 DEF ExecuteStatement
    <2>2. at'.cell = at.cell /\ at.cell # 0 /\ at.cell \notin refused
      BY <1>2, <2>1, NextIsPlace DEF RefusedInv, InBlock, InCell
    <2>3. SentNow' = SentNow \cup {Current}
      BY <1>2, <2>1, SentExecuted
    <2>4. /\ OfRequest(RequestFor(MATRIX[at.cell]), Current)
          /\ Makes(Current) => Current.verb = "create"
      BY <1>2, <2>1, CurrentIs
    <2> PICK q : q = Object(Current.kind, Current.name, Current.def)
      OBVIOUS
    <2> PICK i : i = at.cell
      OBVIOUS
    <2>5. q.kind = Current.kind /\ q.name = Current.name /\ q.def = Current.def
      BY DEF Object
    <2>6. \A o \in catalog' : o \in catalog \/ (Makes(Current) /\ o = q)
      BY <2>1 DEF Created
    <2>7. Makes(Current) => MadeFor(q, i)'
      <3> SUFFICES ASSUME Makes(Current) PROVE MadeFor(q, i)'
        OBVIOUS
      <3>1. q.kind # "masterkey" /\ q \in Objects(RequestFor(MATRIX[i]))
        BY <1>2, <2>1, <2>4, MadeIsOwn DEF OfRequest
      <3>2. RequestFor(MATRIX[i])' = RequestFor(MATRIX[i])
        BY <2>1, PlanKept
      <3>3. (q \in Objects(RequestFor(MATRIX[i])))'
        BY <3>1, <3>2
      <3>4. Current \in SentNow'
        BY <2>3
      <3>5. /\ i \in DOMAIN planned' /\ planned'[i].verdict = "READY" /\ i <= at'.cell
            /\ \E s \in SentNow' : s.verb = "create" /\ s.kind = q.kind /\ s.name = q.name
        BY <1>3, <2>1, <2>2, <2>4, <2>5, <3>4
      <3> QED
        BY <3>1, <3>3, <3>5 DEF MadeFor
    <2>8. MadeInv'
      <3>1. \A o \in catalog \ Prohibited : \E j \in DOMAIN planned' : MadeFor(o, j)'
        BY <1>3, <1>5, <2>1, <2>2, <2>3
      <3>2. Makes(Current) => i \in DOMAIN planned'
        BY <1>3, <2>1, <2>2
      <3>3. \A o \in catalog' \ Prohibited : \E j \in DOMAIN planned' : MadeFor(o, j)'
        BY <2>6, <2>7, <3>1, <3>2
      <3> QED
        BY <3>3 DEF MadeInv
    <2>9. Makes(Current) => Finds(catalog', Use(Current.kind, Current.name, Current.def.type))
      <3> SUFFICES ASSUME Makes(Current)
                   PROVE  Finds(catalog', Use(Current.kind, Current.name, Current.def.type))
        OBVIOUS
      <3>1. \E o \in Existing(catalog', Current.kind, Current.name) : o.def = Current.def
        <4>1. CASE Existing(catalog, Current.kind, Current.name) = {}
          <5>1. q \in catalog'
            BY <2>1, <4>1 DEF Created
          <5> QED
            BY <2>5, <5>1 DEF Existing
        <4>2. CASE Existing(catalog, Current.kind, Current.name) # {}
          <5>1. PICK o \in Existing(catalog, Current.kind, Current.name) : TRUE
            BY <4>2
          <5>2. o.def = Current.def
            BY <2>1, <5>1, ExistingIsTheSame
          <5>3. o \in Existing(catalog', Current.kind, Current.name)
            BY <2>1, <5>1 DEF Existing
          <5> QED
            BY <5>2, <5>3
        <4> QED
          BY <4>1, <4>2
      <3> QED
        BY <3>1 DEF Finds, Use
    <2>10. \A u : Finds(catalog, u) => Finds(catalog', u)
      BY <2>1 DEF Finds, Existing
    <2>11. FoundInv'
      <3>1. \A s \in SentNow : s.verb = "create" => Finds(catalog, Use(s.kind, s.name, s.def.type))
        BY <1>2, <2>2 DEF FoundInv
      <3>2. Current.verb = "create" => Makes(Current)
        BY DEF Makes
      <3>3. \A s \in SentNow' : s.verb = "create" => Finds(catalog', Use(s.kind, s.name, s.def.type))
        BY <2>3, <2>9, <2>10, <3>1, <3>2
      <3> QED
        BY <3>3 DEF FoundInv
    <2>12. RefusedInv' /\ ReadyCellsRun'
      BY <1>2, <2>1, <2>2 DEF RefusedInv, ReadyCellsRun
    <2> QED
      BY <1>1, <2>8, <2>11, <2>12 DEF ReadyInv
  <1>10. CASE RefuseStatement
    <2>1. /\ plan' = plan /\ planned' = planned /\ catalog' = catalog
          /\ InBlock /\ Refuses(catalog, Current) /\ refused' = refused \cup {at.cell}
          /\ at' = [Nowhere EXCEPT !.cell = at.cell, !.block = Len(x) + 1]
      BY <1>10 DEF RefuseStatement
    <2>2. at.cell # 0 /\ InCell /\ at.block <= Len(x)
      BY <2>1 DEF InBlock, InCell
    <2>3. at'.cell = at.cell /\ at'.block = Len(x) + 1 /\ at'.batch = 1
      <3> HIDE DEF x
      <3> QED
        BY <2>1 DEF Nowhere
    <2>4. SentNow \subseteq SentNow'
      <3>1. /\ at.block \in Nat /\ at.batch \in Nat /\ at.statement \in Nat
            /\ at'.block \in Nat /\ at'.batch \in Nat /\ at.block < at'.block
        BY <1>3, <1>4, <2>2, <2>3 DEF Positive
      <3>2. Sent(x, at) \subseteq Sent(x, at')
        BY <1>4, <2>2, <3>1, SentStays
      <3> QED
        BY <2>1, <2>3, <3>2 DEF SentNow
    <2>5. MadeInv'
      BY <1>3, <1>5, <2>1, <2>3, <2>4 DEF MadeInv
    <2>6. at.cell \in refused' /\ refused' \subseteq 1..at.cell /\ ~InCell'
      <3>1. at.cell \in 1..at.cell
        BY <1>3, <2>2
      <3>2. ~InCell'
        <4>1. planned'[at'.cell].sends = x /\ at'.block = Len(x) + 1
          BY <2>1, <2>3
        <4>2. ~(at'.block <= Len(x))
          BY <1>4, <2>2, <2>3
        <4> QED
          BY <4>1, <4>2 DEF InCell
      <3> QED
        BY <1>2, <2>1, <3>1, <3>2 DEF RefusedInv
    <2>7. RefusedInv' /\ FoundInv'
      BY <2>3, <2>6 DEF RefusedInv, FoundInv
    <2>8. ReadyCellsRun'
      <3>1. LoadsNobodysTable(MATRIX[at.cell])
        BY <2>1, OnlyLoadsAreRefused
      <3> QED
        BY <1>2, <2>1, <3>1 DEF ReadyCellsRun
    <2> QED
      BY <1>1, <2>5, <2>7, <2>8 DEF ReadyInv
  <1>11. CASE UNCHANGED vars
    <2>1. plan' = plan /\ planned' = planned /\ at' = at /\ catalog' = catalog /\ refused' = refused
      BY <1>11 DEF vars
    <2>2. SentNow' = SentNow /\ InCell' = InCell
      BY <2>1 DEF SentNow, InCell
    <2>3. MadeInv'
      BY <1>3, <1>5, <2>1, <2>2 DEF MadeInv
    <2> QED
      BY <1>1, <1>2, <2>1, <2>2, <2>3 DEF ReadyInv, RefusedInv, FoundInv, ReadyCellsRun
  <1> QED
    BY <1>6, <1>7, <1>8, <1>9, <1>10, <1>11 DEF Next

\* For any plans, on any database in which nothing passes for the run's own:
\* what READY promises.  A cell's statements find every object they use and
\* create none twice, and only the JSON functions, which load a table that the
\* user is told to create, are ever refused.
THEOREM ReadyCells ==
    ASSUME \A p \in Prohibited : ~IsOwn(p)
    PROVE  Spec => []ReadyCellsRun
  <1>1. Init => ReadyInv
    <2> SUFFICES ASSUME Init PROVE ReadyInv
      OBVIOUS
    <2>1. catalog = Prohibited /\ refused = {} /\ at.cell = 0
      BY DEF Init, Nowhere
    <2>2. OwnInv
      BY PlaceInit DEF Init, OwnInv, OnlyOwnObjects
    <2> QED
      BY <2>1, <2>2 DEF ReadyInv, MadeInv, RefusedInv, FoundInv, ReadyCellsRun
  <1>2. ReadyInv /\ [Next]_vars => ReadyInv'
    BY ReadyStep
  <1>3. ReadyInv => ReadyCellsRun
    BY DEF ReadyInv
  <1> QED
    BY <1>1, <1>2, <1>3, PTL DEF Spec

=============================================================================
