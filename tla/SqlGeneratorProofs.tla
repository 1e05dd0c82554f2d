------------------------- MODULE SqlGeneratorProofs -------------------------
(***************************************************************************)
(* For any request: which statements the sections of SqlGenerator hold,    *)
(* that each statement of a document finds what it needs among those       *)
(* before it (DocumentFits), that a target is created, emptied and loaded  *)
(* in this order (DocumentIsPrepared), and that the names it derives do    *)
(* not clash (ObjectsAgree).  GeneratedScriptProofs and                    *)
(* CertificationPlanProofs rest on these lemmas.                           *)
(***************************************************************************)
EXTENDS SqlGenerator, Database, TLAPS

\* (Zenon writes a numeral as successors of zero: large ones stay named.)
LEMMA LargeNumbers == MAX \in Nat /\ MAX > 4000 /\ NoLength \in Int /\ NoLength <= 0
  BY SMT DEF MAX, NoLength

\* _map_type_to_sql and the helpers around it, one column at a time.
LEMMA TypesHold ==
    ASSUME NEW r, NEW c \in r.columns, IsRequest(r)
    PROVE  LET sql == ColumnType(r, c)
           IN  /\ c.type.name = "string" /\ c.length # NoLength => c.length <= sql.size
               /\ c.type.name = "decimal" =>
                     \/ IsLob(sql)
                     \/ c.type.precision + c.type.below <= sql.size
               /\ c.type.name = "bool" => sql.size \in {1, 5} \/ IsLob(sql)
  <1> DEFINE sql == ColumnType(r, c)
  <1> USE LargeNumbers DEF IsRequest
  <1>1. CASE Sampled(r)
    BY <1>1 DEF ColumnType, Lob, IsLob
  <1>2. CASE ~Sampled(r) /\ c.type.name = "string"
    <2>1. sql = MapType(c.type, c.length)
      BY <1>2 DEF ColumnType
    <2>2. CASE c.length > 4000
      BY <1>2, <2>1, <2>2 DEF MapType, Lob
    <2>3. CASE c.length <= 200
      BY <1>2, <2>1, <2>3 DEF MapType, Lob
    <2>4. CASE c.length > 200 /\ c.length <= 4000
      <3>1. c.length <= RoundUp(c.length)
        BY <2>4 DEF RoundUp
      <3>2. sql.size = IF RoundUp(c.length) < 4000 THEN RoundUp(c.length) ELSE 4000
        BY <1>2, <2>1, <2>4 DEF MapType
      <3> QED
        BY <1>2, <2>4, <3>1, <3>2 DEF RoundUp
    <2> QED
      BY <1>2, <2>2, <2>3, <2>4
  <1>3. CASE ~Sampled(r) /\ c.type.name = "decimal"
    <2>1. sql = MapType(c.type, c.length)
      BY <1>3 DEF ColumnType
    <2> QED
      BY <1>3, <2>1 DEF MapType, Lob, IsLob
  <1>4. CASE ~Sampled(r) /\ c.type.name = "bool"
    BY <1>4 DEF ColumnType, MapType
  <1> QED
    BY <1>1, <1>2, <1>3, <1>4

-----------------------------------------------------------------------------
(* What a document is made of.                                             *)

IsScript(x) == \E S : x \in Seq(Seq(S))

Offers(batch, u) ==
    \E i \in DOMAIN batch : /\ batch[i].verb = "create"
                            /\ Use(batch[i].kind, batch[i].name, batch[i].def.type) = u

Gives(x, u) == \E b \in DOMAIN x : Offers(x[b], u)

IsStatement(s) ==
    DOMAIN s = {"verb", "kind", "name", "uses", "def", "hole", "guarded"}

\* The objects that the document of r may make.
Objects(r) ==
    {Object("masterkey", NoName, Undefined),
     Object("credential", CredentialName(r), [type |-> StorageAuth(r)]),
     Object("credential", BulkCredentialName(r), [type |-> BulkAuth(r)]),
     Object("source", SourceName(r),
            [type |-> VirtualType(r.platform), location |-> ExternalSourceLocation(r)]),
     Object("source", BulkSourceName(r),
            [type |-> "blob", location |-> AzureBulkLocation(r.url)]),
     Object("format", FormatName(r), FormatConfig(r)),
     Object("table", ExternalTableName(r), [type |-> "external"]),
     Object("table", TableName(r), [type |-> "rows"]),
     Object("table", StagingTableName(r), [type |-> "rows"])}

\* The statements that the document of r may hold.
OfRequest(r, s) ==
    /\ IsStatement(s)
    /\ Makes(s) => Object(s.kind, s.name, s.def) \in Objects(r)
    /\ \/ /\ s.verb = "create"
          /\ s.kind = "masterkey" => StorageAuth(r) \notin SecretFree
          /\ s.kind = "source" /\ SaysWhere(r.url) => s.def.location.root = r.url.root
          /\ s.kind = "table" => \/ s.name = ExternalTableName(r)
                                 \/ s.name = TableName(r) /\ s.uses = {}
       \/ s.verb = "select"
       \/ /\ s.verb = "selectinto" /\ r.platform = "fabric_sql_db"
          /\ s.kind = "table" /\ s.name = StagingTableName(r)
       \/ s.verb = "load" /\ s.kind = "table" /\ s.name = TableName(r)
       \/ /\ s.verb = "truncate" /\ s.guarded /\ s.kind = "table" /\ s.name = TableName(r)
          /\ s.def = Undefined /\ s.uses = {} /\ r.rerun /\ OwnsLoadTarget(r)

\* A section of the document of r that may use what is in K.
Section(r, K, x) ==
    /\ IsScript(x)
    /\ \A b \in DOMAIN x :
          /\ x[b] # <<>>
          /\ \A i \in DOMAIN x[b] :
                /\ OfRequest(r, x[b][i])
                /\ x[b][i].verb = "create" => Len(x[b]) = 1
                /\ \A u \in x[b][i].uses : u \in K \/ \E c \in 1..(b - 1) : Offers(x[c], u)

\* Sections one after the other: the batches of the second follow the first's.
LEMMA JoinScripts ==
    ASSUME NEW x, NEW y, IsScript(x), IsScript(y)
    PROVE  /\ IsScript(x \o y)
           /\ Len(x \o y) = Len(x) + Len(y) /\ DOMAIN (x \o y) = 1..(Len(x) + Len(y))
           /\ \A b \in 1..Len(x) : (x \o y)[b] = x[b]
           /\ \A b \in 1..Len(y) : (x \o y)[Len(x) + b] = y[b]
           /\ Len(x) \in Nat /\ Len(y) \in Nat /\ DOMAIN x = 1..Len(x) /\ DOMAIN y = 1..Len(y)
  <1>1. PICK S : x \in Seq(Seq(S))
    BY DEF IsScript
  <1>2. PICK T : y \in Seq(Seq(T))
    BY DEF IsScript
  <1>3. Seq(S) \subseteq Seq(S \cup T) /\ Seq(T) \subseteq Seq(S \cup T)
    OBVIOUS
  <1>4. x \in Seq(Seq(S \cup T)) /\ y \in Seq(Seq(S \cup T))
    BY <1>1, <1>2, <1>3
  <1>5. x \o y \in Seq(Seq(S \cup T))
    BY <1>4
  <1> QED
    BY <1>4, <1>5 DEF IsScript

\* A section of one batch of one statement, of two, and of none.
LEMMA OneBatch ==
    ASSUME NEW s
    PROVE  /\ IsScript(<<<<s>>>>) /\ Len(<<<<s>>>>) = 1 /\ DOMAIN <<<<s>>>> = {1}
           /\ <<<<s>>>>[1] = <<s>>
           /\ Len(<<s>>) = 1 /\ DOMAIN <<s>> = {1} /\ <<s>>[1] = s /\ <<s>> # <<>>
  <1>1. <<s>> \in Seq({s})
    OBVIOUS
  <1>2. <<<<s>>>> \in Seq(Seq({s}))
    BY <1>1
  <1>3. IsScript(<<<<s>>>>)
    BY <1>2 DEF IsScript
  <1> QED
    BY <1>3

LEMMA TwoInABatch ==
    ASSUME NEW s, NEW t
    PROVE  /\ IsScript(<<<<s, t>>>>) /\ Len(<<<<s, t>>>>) = 1 /\ DOMAIN <<<<s, t>>>> = {1}
           /\ <<<<s, t>>>>[1] = <<s, t>>
           /\ Len(<<s, t>>) = 2 /\ DOMAIN <<s, t>> = {1, 2} /\ <<s, t>>[1] = s /\ <<s, t>>[2] = t /\ <<s, t>> # <<>>
  <1>1. <<s, t>> \in Seq({s, t})
    OBVIOUS
  <1>2. <<<<s, t>>>> \in Seq(Seq({s, t}))
    BY <1>1
  <1>3. IsScript(<<<<s, t>>>>)
    BY <1>2 DEF IsScript
  <1> QED
    BY <1>3

LEMMA NoBatch == IsScript(<<>>) /\ Len(<<>>) = 0 /\ DOMAIN <<>> = {}
  <1>1. <<>> \in Seq(Seq({}))
    OBVIOUS
  <1> QED
    BY <1>1 DEF IsScript

\* Together, sections give what either gives.
LEMMA JoinGives ==
    ASSUME NEW x, NEW y, IsScript(x), IsScript(y), NEW u
    PROVE  Gives(x \o y, u) <=> Gives(x, u) \/ Gives(y, u)
  <1> DEFINE z == x \o y
  <1>1. /\ DOMAIN z = 1..(Len(x) + Len(y))
        /\ \A b \in 1..Len(x) : z[b] = x[b]
        /\ \A b \in 1..Len(y) : z[Len(x) + b] = y[b]
        /\ Len(x) \in Nat /\ Len(y) \in Nat /\ DOMAIN x = 1..Len(x) /\ DOMAIN y = 1..Len(y)
    BY JoinScripts
  <1> HIDE DEF z
  <1>2. ASSUME NEW b \in DOMAIN z, Offers(z[b], u) PROVE Gives(x, u) \/ Gives(y, u)
    <2>1. CASE b <= Len(x)
      BY <1>1, <1>2, <2>1 DEF Gives
    <2>2. CASE b > Len(x)
      <3>1. b - Len(x) \in 1..Len(y) /\ z[b] = y[b - Len(x)]
        BY <1>1, <2>2
      <3> QED
        BY <1>1, <1>2, <3>1 DEF Gives
    <2> QED
      BY <1>1, <2>1, <2>2
  <1>3. ASSUME NEW b \in DOMAIN x, Offers(x[b], u) PROVE Gives(z, u)
    BY <1>1, <1>3 DEF Gives
  <1>4. ASSUME NEW b \in DOMAIN y, Offers(y[b], u) PROVE Gives(z, u)
    <2>1. Len(x) + b \in DOMAIN z /\ z[Len(x) + b] = y[b]
      BY <1>1
    <2> QED
      BY <1>4, <2>1 DEF Gives
  <1> QED
    BY <1>2, <1>3, <1>4 DEF Gives, z

\* The second section may use what the first one gives.
LEMMA JoinSections ==
    ASSUME NEW r, NEW K, NEW L, NEW x, NEW y, Section(r, K, x), Section(r, L, y),
           \A u \in L : u \in K \/ Gives(x, u)
    PROVE  /\ Section(r, K, x \o y)
           /\ \A u : Gives(x \o y, u) <=> Gives(x, u) \/ Gives(y, u)
  <1> DEFINE z == x \o y
  <1>0. IsScript(x) /\ IsScript(y)
    BY DEF Section
  <1> HIDE DEF z
  <1>1. /\ IsScript(z)
        /\ Len(z) = Len(x) + Len(y) /\ DOMAIN z = 1..(Len(x) + Len(y))
        /\ \A b \in 1..Len(x) : z[b] = x[b]
        /\ \A b \in 1..Len(y) : z[Len(x) + b] = y[b]
        /\ Len(x) \in Nat /\ Len(y) \in Nat /\ DOMAIN x = 1..Len(x) /\ DOMAIN y = 1..Len(y)
    BY <1>0, JoinScripts DEF z
  <1>2. ASSUME NEW u PROVE Gives(z, u) <=> Gives(x, u) \/ Gives(y, u)
    BY <1>0, JoinGives DEF z
  <1>3. ASSUME NEW b \in DOMAIN z
        PROVE  /\ z[b] # <<>>
               /\ \A i \in DOMAIN z[b] :
                    /\ OfRequest(r, z[b][i])
                    /\ z[b][i].verb = "create" => Len(z[b]) = 1
                    /\ \A u \in z[b][i].uses : u \in K \/ \E c \in 1..(b - 1) : Offers(z[c], u)
    <2>1. CASE b <= Len(x)
      <3>1. b \in DOMAIN x /\ z[b] = x[b] /\ \A c \in 1..(b - 1) : z[c] = x[c]
        BY <1>1, <2>1
      <3> QED
        BY <3>1 DEF Section
    <2>2. CASE b > Len(x)
      <3> DEFINE a == b - Len(x)
      <3>1. a \in DOMAIN y /\ z[b] = y[a] /\ \A c \in 1..(a - 1) : Len(x) + c \in 1..(b - 1) /\ z[Len(x) + c] = y[c]
        BY <1>1, <2>2
      <3>2. \A c \in DOMAIN x : c \in 1..(b - 1) /\ z[c] = x[c]
        BY <1>1, <2>2
      <3> HIDE DEF a
      <3>3. ASSUME NEW i \in DOMAIN y[a], NEW u \in y[a][i].uses
            PROVE  u \in K \/ \E c \in 1..(b - 1) : Offers(z[c], u)
        <4>1. CASE u \in L
          BY <4>1, <3>2 DEF Gives
        <4>2. CASE \E c \in 1..(a - 1) : Offers(y[c], u)
          BY <4>2, <3>1
        <4> QED
          BY <4>1, <4>2, <3>1, <3>3 DEF Section
      <3> QED
        BY <3>1, <3>3 DEF Section
    <2> QED
      BY <2>1, <2>2, <1>1
  <1> QED
    BY <1>1, <1>2, <1>3 DEF Section, z

\* Two sections that may use the same.
LEMMA JoinAlike ==
    ASSUME NEW r, NEW K, NEW x, NEW y, Section(r, K, x), Section(r, K, y)
    PROVE  /\ Section(r, K, x \o y)
           /\ \A u : Gives(x \o y, u) <=> Gives(x, u) \/ Gives(y, u)
  <1>1. \A u \in K : u \in K \/ Gives(x, u)
    OBVIOUS
  <1> QED
    BY <1>1, JoinSections

\* Guidance runs nothing and is a section of every document.
LEMMA NothingFits ==
    ASSUME NEW r, NEW K PROVE Section(r, K, <<>>) /\ \A u : ~Gives(<<>>, u)
  BY NoBatch DEF Section, Gives

\* One statement, and two that create nothing, in one batch.
LEMMA OneFits ==
    ASSUME NEW r, NEW K, NEW s, OfRequest(r, s), \A u \in s.uses : u \in K
    PROVE  /\ Section(r, K, <<<<s>>>>)
           /\ s.verb = "create" => Gives(<<<<s>>>>, Use(s.kind, s.name, s.def.type))
  BY OneBatch DEF Section, Gives, Offers

LEMMA TwoFit ==
    ASSUME NEW r, NEW K, NEW s, NEW t, OfRequest(r, s), OfRequest(r, t),
           \A u \in s.uses : u \in K, \A u \in t.uses : u \in K,
           s.verb # "create", t.verb # "create"
    PROVE  Section(r, K, <<<<s, t>>>>)
  BY TwoInABatch DEF Section

\* A section may be allowed more than it uses.
LEMMA MoreFits ==
    ASSUME NEW r, NEW K, NEW L, NEW x, Section(r, K, x), \A u \in K : u \in L
    PROVE  Section(r, L, x)
  BY DEF Section

\* What the document of any other request uses and does not create: an Excel
\* file's sources, and Fabric's credential for public storage.
Missing(r) ==
    {u \in {UseSource(r), UseBulkSource(r), Use("credential", CredentialName(r), StorageAuth(r))} :
        ~HasItsSources(r)}

Formatted(r) == FormatSupported(r) \/ FormatType[r.type] \in FORMATS_READ_WITHOUT_FILE_FORMAT

\* Of what a storage URL is when _storage_url_kind has classified it.
LEMMA KindTells ==
    ASSUME NEW url
    PROVE  /\ StorageUrlKind(url) = "s3" => url.scheme = "s3"
           /\ StorageUrlKind(url) = "onelake" => IsOneLake(url)
           /\ StorageUrlKind(url) = "azure" =>
                 \/ url.scheme = "azure"
                 \/ url.scheme \in BlobSchemes \cup Http /\ url.host = "blob"
                 \/ url.scheme \in DfsSchemes \cup Http /\ url.host = "dfs"
  BY DEF StorageUrlKind

\* Where the platform reads the URL, every location that is derived from it
\* names the container of the URL.
LEMMA SourcesSayWhere ==
    ASSUME NEW r, IsRequest(r), Compatible(r), SaysWhere(r.url)
    PROVE  /\ ExternalSourceLocation(r).root = r.url.root
           /\ BulkSourceSupported(r) => AzureBulkLocation(r.url).root = r.url.root
  <1> DEFINE blob == r.url.scheme \in BlobSchemes \cup {"https"} /\ r.url.host = "blob"
             dfs  == r.url.scheme \in DfsSchemes \cup {"https"} /\ r.url.host = "dfs"
  <1>1. StorageUrlKind(r.url) = "azure" => blob \/ dfs
    BY KindTells DEF SaysWhere, Http
  <1>2. /\ r.platform = "fabric_sql_db" => StorageUrlKind(r.url) = "onelake"
        /\ r.platform \in AzureSql => StorageUrlKind(r.url) = "azure"
        /\ r.platform \in SqlServer => StorageUrlKind(r.url) \in {"azure", "s3"}
        /\ r.platform = "sql_server_2019" => StorageUrlKind(r.url) = "azure"
    BY DEF Compatible, StorageUrlSupported, SaysWhere, AzureSql, SqlServer
  <1>3. blob \/ dfs => AzureContainer(r.url) = r.url.root
    BY DEF AzureContainer, Http
  <1>4. BulkSourceSupported(r) => AzureBulkLocation(r.url).root = r.url.root
    BY <1>1, <1>2, <1>3 DEF BulkSourceSupported, AzureBulkLocation, Location
  <1>5. CASE r.platform = "fabric_sql_db"
    <2>1. r.url.host = "onelake"
      BY <1>2, <1>5, KindTells DEF IsOneLake, SaysWhere
    <2> QED
      BY <1>2, <1>4, <1>5, <2>1 DEF ExternalSourceLocation, FabricLocation, Location
  <1>6. CASE r.platform \in AzureSql
    BY <1>1, <1>2, <1>3, <1>4, <1>6 DEF AzureSql, ExternalSourceLocation, AzureVirtualizationLocation, Location
  <1>7. CASE r.platform \in SqlServer
    <2>1. ExternalSourceLocation(r) = SqlServerLocation(r.url, r.platform)
      BY <1>7 DEF ExternalSourceLocation, SqlServer, AzureSql
    <2>2. blob \/ dfs => SqlServerLocation(r.url, r.platform).root = r.url.root
      BY DEF SqlServerLocation, Location, BlobSchemes, DfsSchemes
    <2>3. r.url.scheme = "s3" /\ r.platform # "sql_server_2019"
            => SqlServerLocation(r.url, r.platform).root = r.url.root
      BY DEF SqlServerLocation, Location, BlobSchemes, DfsSchemes
    <2> QED
      BY <1>1, <1>2, <1>4, <1>7, <2>1, <2>2, <2>3, KindTells
  <1> QED
    BY <1>4, <1>5, <1>6, <1>7 DEF IsRequest, PLATFORMS

\* A credential is created unless the storage is public.
LEMMA CredentialFits ==
    ASSUME NEW r, NEW name, NEW method, Object("credential", name, [type |-> method]) \in Objects(r)
    PROVE  /\ Section(r, {}, CredentialDdl(name, method))
           /\ method # "public" => Gives(CredentialDdl(name, method), Use("credential", name, method))
  <1>1. CASE method = "public"
    BY <1>1, NothingFits DEF CredentialDdl
  <1>2. CASE method # "public"
    <2> DEFINE s == Create("credential", name, {}, [type |-> method], method \notin SecretFree)
    <2>1. /\ IsStatement(s) /\ s.verb = "create" /\ s.kind = "credential" /\ s.name = name /\ s.uses = {}
          /\ s.def = [type |-> method] /\ s.def.type = method
      BY DEF Create, Statement, IsStatement
    <2>2. OfRequest(r, s)
      BY <2>1 DEF OfRequest
    <2> HIDE DEF s
    <2>3. Section(r, {}, <<<<s>>>>) /\ Gives(<<<<s>>>>, Use("credential", name, method))
      BY <2>1, <2>2, OneFits
    <2> QED
      BY <1>2, <2>3 DEF CredentialDdl, s
  <1> QED
    BY <1>1, <1>2

\* A data source names the credential it is reached with.
LEMMA SourceFits ==
    ASSUME NEW r, NEW name, NEW type, NEW location, NEW uses,
           Object("source", name, [type |-> type, location |-> location]) \in Objects(r),
           SaysWhere(r.url) => location.root = r.url.root
    PROVE  /\ Section(r, uses, SourceDdl(name, type, location, uses))
           /\ Gives(SourceDdl(name, type, location, uses), Use("source", name, type))
  <1> DEFINE s == Create("source", name, uses, [type |-> type, location |-> location],
                         location.root = Unknown)
  <1>1. /\ IsStatement(s) /\ s.verb = "create" /\ s.kind = "source" /\ s.name = name /\ s.uses = uses
        /\ s.def = [type |-> type, location |-> location]
        /\ s.def.type = type /\ s.def.location = location
    BY DEF Create, Statement, IsStatement
  <1>2. OfRequest(r, s)
    BY <1>1 DEF OfRequest
  <1> HIDE DEF s
  <1>3. Section(r, uses, <<<<s>>>>) /\ Gives(<<<<s>>>>, Use("source", name, type))
    BY <1>1, <1>2, OneFits
  <1> QED
    BY <1>3 DEF SourceDdl, s

\* A credential, and the source that is reached with it.
LEMMA SourceWithCredentialFits ==
    ASSUME NEW r, NEW credential, NEW method, NEW name, NEW type, NEW location,
           Object("credential", credential, [type |-> method]) \in Objects(r),
           Object("source", name, [type |-> type, location |-> location]) \in Objects(r),
           SaysWhere(r.url) => location.root = r.url.root
    PROVE  LET x == CredentialDdl(credential, method)
                    \o SourceDdl(name, type, location, CredentialClause(credential, method))
           IN  Section(r, {}, x) /\ Gives(x, Use("source", name, type))
  <1> DEFINE c == CredentialDdl(credential, method)
             u == CredentialClause(credential, method)
             s == SourceDdl(name, type, location, u)
  <1>1. Section(r, {}, c) /\ (method # "public" => Gives(c, Use("credential", credential, method)))
    BY CredentialFits
  <1>2. Section(r, u, s) /\ Gives(s, Use("source", name, type))
    BY SourceFits
  <1>3. \A v \in u : v \in {} \/ Gives(c, v)
    BY <1>1 DEF CredentialClause
  <1> HIDE DEF c, u, s
  <1>4. /\ Section(r, {}, c \o s)
        /\ \A v : Gives(c \o s, v) <=> Gives(c, v) \/ Gives(s, v)
    <2>1. Section(r, {}, c) /\ Section(r, u, s)
      BY <1>1, <1>2
    <2> QED
      BY <1>3, <2>1, JoinSections
  <1> QED
    BY <1>2, <1>4 DEF c, u, s

\* _bulk_data_source_block brings its own credential.
LEMMA BulkSourceFits ==
    ASSUME NEW r, IsRequest(r), Compatible(r)
    PROVE  /\ Section(r, {}, BulkSourceDdl(r))
           /\ BulkSourceSupported(r) => Gives(BulkSourceDdl(r), UseBulkSource(r))
  <1>1. CASE ~BulkSourceSupported(r)
    BY <1>1, NothingFits DEF BulkSourceDdl, Guidance
  <1>2. CASE BulkSourceSupported(r)
    <2>1. SaysWhere(r.url) => AzureBulkLocation(r.url).root = r.url.root
      BY <1>2, SourcesSayWhere
    <2>2. /\ Object("credential", BulkCredentialName(r), [type |-> BulkAuth(r)]) \in Objects(r)
          /\ Object("source", BulkSourceName(r), [type |-> "blob", location |-> AzureBulkLocation(r.url)])
                \in Objects(r)
      BY DEF Objects
    <2> QED
      BY <1>2, <2>1, <2>2, SourceWithCredentialFits DEF BulkSourceDdl, UseBulkSource
  <1> QED
    BY <1>1, <1>2

\* credential_setup creates the credential before the source that uses it, and the
\* BLOB_STORAGE source where row formats and JSON may be read through it.
LEMMA SetupFits ==
    ASSUME NEW r, IsRequest(r)
    PROVE  /\ Section(r, Missing(r), CredentialSetup(r))
           /\ Compatible(r) /\ Formatted(r) => Gives(CredentialSetup(r), UseSource(r))
           /\ Compatible(r) /\ Formatted(r) /\ BulkSourceSupported(r) /\ r.type \in {"csv", "text", "json"}
                 => Gives(CredentialSetup(r), UseBulkSource(r))
  <1>0. /\ Object("credential", CredentialName(r), [type |-> StorageAuth(r)]) \in Objects(r)
        /\ Object("source", SourceName(r),
                  [type |-> VirtualType(r.platform), location |-> ExternalSourceLocation(r)]) \in Objects(r)
    BY DEF Objects
  <1>1. CASE ~(Compatible(r) /\ Formatted(r))
    BY <1>1, NothingFits DEF CredentialSetup, Guidance, Formatted
  <1>2. CASE Compatible(r) /\ Formatted(r) /\ r.platform = "fabric_sql_db"
    <2> DEFINE c == CredentialDdl(CredentialName(r), StorageAuth(r))
               u == {Use("credential", CredentialName(r), StorageAuth(r))}
               s == SourceDdl(SourceName(r), "virtual", ExternalSourceLocation(r), u)
    <2>1. StorageAuth(r) = "public" => ~HasItsSources(r)
      BY <1>2 DEF StorageAuth, ResolveAuth, HasItsSources, AzureSql
    <2>2. CredentialSetup(r) = c \o s
      BY <1>2 DEF CredentialSetup, Formatted
    <2>3. /\ Section(r, {}, c)
          /\ StorageAuth(r) # "public"
                => Gives(c, Use("credential", CredentialName(r), StorageAuth(r)))
      BY <1>0, CredentialFits
    <2>4. SaysWhere(r.url) => ExternalSourceLocation(r).root = r.url.root
      BY <1>2, SourcesSayWhere
    <2>5. Section(r, u, s) /\ Gives(s, Use("source", SourceName(r), "virtual"))
      BY <1>0, <1>2, <2>4, SourceFits DEF VirtualType
    <2>6. \A v \in u : v \in Missing(r) \/ Gives(c, v)
      BY <2>1, <2>3 DEF Missing
    <2> HIDE DEF c, u, s
    <2>7. Section(r, Missing(r), c)
      BY <2>3, MoreFits
    <2>8. /\ Section(r, Missing(r), c \o s)
          /\ \A v : Gives(c \o s, v) <=> Gives(c, v) \/ Gives(s, v)
      BY <2>5, <2>6, <2>7, JoinSections
    <2>9. ~BulkSourceSupported(r) /\ UseSource(r) = Use("source", SourceName(r), "virtual")
      BY <1>2 DEF BulkSourceSupported, SqlServer, AzureSql, UseSource, VirtualType
    <2> QED
      BY <2>2, <2>5, <2>8, <2>9
  <1>3. CASE Compatible(r) /\ Formatted(r) /\ r.platform # "fabric_sql_db"
    <2> DEFINE key == [Create("masterkey", NoName, {}, Undefined, TRUE) EXCEPT !.guarded = TRUE]
               m == IF StorageAuth(r) \in SecretFree THEN <<>> ELSE <<<<key>>>>
               c == CredentialDdl(CredentialName(r), StorageAuth(r))
               u == CredentialClause(CredentialName(r), StorageAuth(r))
               s == SourceDdl(SourceName(r), VirtualType(r.platform), ExternalSourceLocation(r), u)
               b == IF r.type \in {"csv", "text", "json"} THEN BulkSourceDdl(r) ELSE <<>>
    <2>1. Section(r, {}, m)
      <3>0. CASE StorageAuth(r) \in SecretFree
        BY <3>0, NothingFits
      <3>1. /\ IsStatement(key) /\ key.verb = "create" /\ key.kind = "masterkey" /\ key.uses = {}
            /\ key.name = NoName /\ key.def = Undefined
        BY DEF Create, Statement, IsStatement
      <3>2. CASE StorageAuth(r) \notin SecretFree
        <4>1. OfRequest(r, key)
          BY <3>1, <3>2 DEF OfRequest, Objects
        <4> HIDE DEF key
        <4> QED
          BY <3>1, <3>2, <4>1, OneFits
      <3> QED
        BY <3>0, <3>2
    <2>2. Section(r, {}, c)
          /\ (StorageAuth(r) # "public" => Gives(c, Use("credential", CredentialName(r), StorageAuth(r))))
      BY <1>0, CredentialFits
    <2>3. Section(r, u, s) /\ Gives(s, UseSource(r))
      <3>1. SaysWhere(r.url) => ExternalSourceLocation(r).root = r.url.root
        BY <1>3, SourcesSayWhere
      <3> QED
        BY <1>0, <3>1, SourceFits DEF UseSource
    <2>4. \A v \in u : Gives(c, v)
      BY <2>2 DEF CredentialClause
    <2>5. Section(r, {}, b) /\ (BulkSourceSupported(r) /\ r.type \in {"csv", "text", "json"}
                                  => Gives(b, UseBulkSource(r)))
      BY <1>3, BulkSourceFits, NothingFits
    <2>6. CredentialSetup(r) = ((m \o c) \o s) \o b
      BY <1>3 DEF CredentialSetup, Formatted
    <2> HIDE DEF m, c, u, s, b
    <2>7. Section(r, {}, m \o c) /\ \A v : Gives(m \o c, v) <=> Gives(m, v) \/ Gives(c, v)
      BY <2>1, <2>2, JoinAlike
    <2>8. \A v \in u : v \in {} \/ Gives(m \o c, v)
      BY <2>4, <2>7
    <2>9. /\ Section(r, {}, (m \o c) \o s)
          /\ \A v : Gives((m \o c) \o s, v) <=> Gives(m \o c, v) \/ Gives(s, v)
      BY <2>3, <2>7, <2>8, JoinSections
    <2>10. /\ Section(r, {}, ((m \o c) \o s) \o b)
           /\ \A v : Gives(((m \o c) \o s) \o b, v) <=> Gives((m \o c) \o s, v) \/ Gives(b, v)
      BY <2>5, <2>9, JoinAlike
    <2>11. Section(r, Missing(r), CredentialSetup(r))
      BY <2>6, <2>10, MoreFits
    <2> QED
      BY <2>3, <2>5, <2>6, <2>9, <2>10, <2>11
  <1> QED
    BY <1>1, <1>2, <1>3

-----------------------------------------------------------------------------

\* The sources that the setup creates for the sections that follow.
Sources(r) ==
    {u \in {UseSource(r), UseBulkSource(r)} :
        \/ Compatible(r) /\ Formatted(r) /\ u = UseSource(r)
        \/ /\ Compatible(r) /\ Formatted(r) /\ r.type \in {"csv", "text", "json"}
           /\ BulkSourceSupported(r) /\ u = UseBulkSource(r)
        \/ u \in Missing(r)}

\* What the sections before the load create for it.
Available(r) == {UseTable(r)} \cup Sources(r)

\* What One makes of the statements given to it here.
LEMMA BatchesOf ==
    ASSUME NEW s, NEW t
    PROVE  One(<<s>>) = <<<<s>>>> /\ One(<<s, t>>) = <<<<s, t>>>>
  BY DEF One

\* A query uses only the sources it reads.
LEMMA SelectFits ==
    ASSUME NEW r, NEW K, NEW uses, \A u \in uses : u \in K
    PROVE  LET s == Select(uses)
           IN  /\ OfRequest(r, s) /\ \A u \in s.uses : u \in K
               /\ s.verb = "select"
  BY DEF Select, Statement, OfRequest, IsStatement, Makes

\* Queries of OPENROWSET, one and two in a batch.
LEMMA OneSelectFits ==
    ASSUME NEW r, NEW K, NEW uses, \A u \in uses : u \in K
    PROVE  Section(r, K, One(<<Select(uses)>>))
  <1> DEFINE s == Select(uses)
  <1>1. OfRequest(r, s) /\ \A u \in s.uses : u \in K
    BY SelectFits
  <1> HIDE DEF s
  <1>2. Section(r, K, <<<<s>>>>)
    BY <1>1, OneFits
  <1> QED
    BY <1>2, BatchesOf DEF s

LEMMA TwoSelectsFit ==
    ASSUME NEW r, NEW K, NEW uses, NEW more, \A u \in uses : u \in K, \A u \in more : u \in K
    PROVE  Section(r, K, One(<<Select(uses), Select(more)>>))
  <1> DEFINE s == Select(uses)
             t == Select(more)
  <1>1. /\ OfRequest(r, s) /\ OfRequest(r, t) /\ s.verb # "create" /\ t.verb # "create"
        /\ \A u \in s.uses : u \in K
        /\ \A u \in t.uses : u \in K
    BY SelectFits
  <1> HIDE DEF s, t
  <1>2. Section(r, K, <<<<s, t>>>>)
    BY <1>1, TwoFit
  <1> QED
    BY <1>2, BatchesOf DEF s, t

\* OPENROWSET reads through sources that the setup has created: what each platform
\* needs is what its setup creates for that format.
LEMMA OpenRowsetFits ==
    ASSUME NEW r, IsRequest(r), ~r.wide
    PROVE  Section(r, Sources(r), OpenRowset(r))
  <1> DEFINE K == Sources(r)
  <1> SUFFICES Section(r, K, OpenRowset(r))
    OBVIOUS
  <1>1. Section(r, K, Guidance)
    BY NothingFits DEF Guidance
  <1>2. /\ Section(r, K, One(<<Select({})>>))
        /\ Section(r, K, One(<<Select({}), Select({})>>))
    BY OneSelectFits, TwoSelectsFit
  <1>3. UseSource(r) \in K =>
           /\ Section(r, K, One(<<Select({UseSource(r)})>>))
           /\ Section(r, K, One(<<Select({UseSource(r)}), Select({UseSource(r)})>>))
    BY OneSelectFits, TwoSelectsFit
  <1>4. UseBulkSource(r) \in K => Section(r, K, One(<<Select({UseBulkSource(r)})>>))
    BY OneSelectFits
  <1>5. UseSource(r) \in K /\ UseBulkSource(r) \in K =>
           Section(r, K, One(<<Select({UseSource(r)}), Select({UseBulkSource(r)})>>))
    BY TwoSelectsFit
  <1>6. Compatible(r) /\ Formatted(r) => UseSource(r) \in K
    BY DEF Sources
  <1>7. Compatible(r) /\ Formatted(r) /\ r.type \in {"csv", "text", "json"} /\ BulkSourceSupported(r)
           => UseBulkSource(r) \in K
    BY DEF Sources
  <1>e. r.type = "excel" /\ ~(r.platform \in SqlServer /\ r.url = NoUrl)
           => UseSource(r) \in K /\ UseBulkSource(r) \in K
    BY DEF Sources, Missing, HasItsSources
  <1> HIDE DEF K
  <1>8. Section(r, K, OpenRowsetLocal(r))
    BY <1>1, <1>2 DEF OpenRowsetLocal
  <1>9. r.type \in {"csv", "text", "json"} => Formatted(r)
    BY DEF Formatted, FormatSupported, FormatType, EXTERNAL_FORMAT_PLATFORMS, IsRequest, FORMATS_READ_WITHOUT_FILE_FORMAT
  <1>10. r.type = "parquet" /\ r.platform # "sql_server_2019" => Formatted(r)
    BY DEF Formatted, FormatSupported, FormatType, EXTERNAL_FORMAT_PLATFORMS, IsRequest, PLATFORMS
  <1>11. r.type = "delta" /\ r.platform \in {"sql_server_2022", "sql_server_2025", "azure_sql_db"}
            => Formatted(r)
    BY DEF Formatted, FormatSupported, FormatType, EXTERNAL_FORMAT_PLATFORMS
  <1>12. r.type \in {"csv", "text", "json", "parquet", "delta", "orc", "rc", "iceberg", "excel"}
    BY DEF IsRequest, FileTypes, FormatType
  <1>13. CASE ~Compatible(r) \/ r.type \in {"orc", "rc", "iceberg"}
    BY <1>1, <1>13 DEF OpenRowset
  <1>14. CASE Compatible(r) /\ r.type \notin {"orc", "rc", "iceberg"} /\ r.platform = "fabric_sql_db"
    <2>1. OpenRowset(r) = OpenRowsetFabric(r) /\ r.platform \notin SqlServer
      BY <1>14 DEF OpenRowset, SqlServer
    <2> QED
      BY <1>e, <1>1, <1>3, <1>6, <1>9, <1>10, <1>12, <1>14, <2>1 DEF OpenRowsetFabric
  <1>15. CASE Compatible(r) /\ r.type \notin {"orc", "rc", "iceberg"} /\ r.platform \in AzureSql
    <2>1. OpenRowset(r) = OpenRowsetAzure(r) /\ r.platform \notin SqlServer /\ BulkSourceSupported(r)
      BY <1>15 DEF OpenRowset, SqlServer, AzureSql, BulkSourceSupported
    <2>2. r.platform \in {"azure_sql_db", "azure_sql_mi"}
      BY <1>15 DEF AzureSql
    <2> QED
      BY <1>e, <1>1, <1>3, <1>4, <1>5, <1>6, <1>7, <1>9, <1>10, <1>11, <1>12, <1>15, <2>1, <2>2
         DEF OpenRowsetAzure
  <1>16. CASE Compatible(r) /\ r.type \notin {"orc", "rc", "iceberg"} /\ r.platform = "sql_server_2019"
    <2>1. OpenRowset(r) = OpenRowset2019(r)
      BY <1>16 DEF OpenRowset, AzureSql
    <2>2. StorageUrlKind(r.url) = "azure" => r.url # NoUrl /\ BulkSourceSupported(r)
      BY <1>16 DEF StorageUrlKind, NoUrl, BulkSourceSupported, SqlServer
    <2>3. StorageUrlKind(r.url) = "azure" /\ r.type \notin {"parquet", "delta"}
             => r.type \in {"csv", "text", "json", "excel"}
      BY <1>12, <1>16
    <2> QED
      BY <1>e, <1>1, <1>4, <1>7, <1>8, <1>9, <1>16, <2>1, <2>2, <2>3
         DEF OpenRowset2019, OpenRowsetBlobStorageBulk
  <1>17. CASE /\ Compatible(r) /\ r.type \notin {"orc", "rc", "iceberg"}
              /\ r.platform \in {"sql_server_2022", "sql_server_2025"}
    <2>1. OpenRowset(r) = IF r.type \in {"parquet", "delta"} \/ r.url # NoUrl
                          THEN OpenRowsetObjectStorage(r) ELSE OpenRowsetLocal(r)
      BY <1>17 DEF OpenRowset, AzureSql
    <2>2. StorageUrlKind(r.url) = "azure" => BulkSourceSupported(r)
      BY <1>17 DEF BulkSourceSupported, SqlServer
    <2>4. r.type \in {"parquet", "delta"} \/ r.url # NoUrl => Section(r, K, OpenRowsetObjectStorage(r))
      BY <1>1, <1>3, <1>4, <1>5, <1>6, <1>7, <1>9, <1>10, <1>11, <1>12, <1>17, <1>e, <2>2, BatchesOf
         DEF OpenRowsetObjectStorage
    <2> QED
      BY <1>8, <2>1, <2>4
  <1> QED
    BY <1>13, <1>14, <1>15, <1>16, <1>17 DEF IsRequest, PLATFORMS, SqlServer, AzureSql, K

\* external_file_format creates the format that the external table names.
LEMMA FileFormatFits ==
    ASSUME NEW r
    PROVE  /\ Section(r, {}, ExternalFileFormat(r))
           /\ FormatSupported(r) /\ ~NoEncoding(r) =>
                 Gives(ExternalFileFormat(r), Use("format", FormatName(r), FormatType[r.type]))
  <1>1. CASE ~FormatSupported(r) \/ NoEncoding(r)
    BY <1>1, NothingFits DEF ExternalFileFormat, Guidance
  <1>2. CASE FormatSupported(r) /\ ~NoEncoding(r)
    <2> DEFINE s == Create("format", FormatName(r), {}, FormatConfig(r), FALSE)
    <2>1. /\ IsStatement(s) /\ s.verb = "create" /\ s.kind = "format" /\ s.name = FormatName(r) /\ s.uses = {}
          /\ s.def = FormatConfig(r)
      BY DEF Create, Statement, IsStatement
    <2>2. OfRequest(r, s)
      BY <2>1 DEF OfRequest, Objects
    <2> HIDE DEF s
    <2>a. FormatConfig(r).type = FormatType[r.type]
      BY DEF FormatConfig
    <2>3. s.def.type = FormatType[r.type]
      BY <2>1, <2>a
    <2>4. Section(r, {}, <<<<s>>>>) /\ Gives(<<<<s>>>>, Use("format", FormatName(r), FormatType[r.type]))
      BY <2>1, <2>2, <2>3, OneFits
    <2> QED
      BY <1>2, <2>4, BatchesOf DEF ExternalFileFormat, s
  <1> QED
    BY <1>1, <1>2

\* create_external_table comes out only when there is a source and a format.
LEMMA ExternalTableFits ==
    ASSUME NEW r, IsRequest(r), NEW K,
           Compatible(r) /\ Formatted(r) => UseSource(r) \in K,
           FormatSupported(r) /\ ~NoEncoding(r) => Use("format", FormatName(r), FormatType[r.type]) \in K
    PROVE  Section(r, K, ExternalTable(r))
  <1> DEFINE uses == {UseSource(r), Use("format", FormatName(r), FormatType[r.type])}
             s == Create("table", ExternalTableName(r), uses, [type |-> "external"], FALSE)
  <1>1. CASE ExternalTable(r) = Guidance
    BY <1>1, NothingFits DEF Guidance
  <1>2. CASE ExternalTable(r) # Guidance
    <2>1. Compatible(r) /\ FormatSupported(r) /\ ~NoEncoding(r) /\ ExternalTable(r) = One(<<s>>)
      BY <1>2 DEF ExternalTable
    <2>2. \A u \in uses : u \in K
      BY <2>1 DEF Formatted
    <2>3. IsStatement(s) /\ s.verb = "create" /\ s.kind = "table" /\ s.name = ExternalTableName(r) /\ s.uses = uses
          /\ s.def = [type |-> "external"]
      BY DEF Create, Statement, IsStatement
    <2> HIDE DEF s, uses
    <2>4. OfRequest(r, s)
      <3>1. Object("table", ExternalTableName(r), [type |-> "external"]) \in Objects(r)
        BY DEF Objects
      <3>2. Object(s.kind, s.name, s.def) \in Objects(r)
        BY <2>3, <3>1
      <3> QED
        BY <2>3, <3>2 DEF OfRequest
    <2>5. Section(r, K, <<<<s>>>>)
      BY <2>2, <2>3, <2>4, OneFits
    <2> QED
      BY <2>1, <2>5, BatchesOf
  <1> QED
    BY <1>1, <1>2

\* create_table makes the target.
LEMMA CreateTableFits ==
    ASSUME NEW r, ~r.wide
    PROVE  Section(r, {}, CreateTable(r)) /\ Gives(CreateTable(r), UseTable(r))
  <1> DEFINE s == Create("table", TableName(r), {}, [type |-> "rows"], FALSE)
  <1>1. /\ IsStatement(s) /\ s.verb = "create" /\ s.kind = "table" /\ s.name = TableName(r) /\ s.uses = {}
        /\ s.def = [type |-> "rows"] /\ s.def.type = "rows"
    BY DEF Create, Statement, IsStatement
  <1>2. OfRequest(r, s)
    BY <1>1 DEF OfRequest, Objects
  <1>3. CreateTable(r) = One(<<s>>)
    BY DEF CreateTable
  <1> HIDE DEF s
  <1>4. Section(r, {}, <<<<s>>>>) /\ Gives(<<<<s>>>>, Use("table", TableName(r), "rows"))
    BY <1>1, <1>2, OneFits
  <1> QED
    BY <1>3, <1>4, BatchesOf DEF UseTable

\* The target is emptied by a guarded statement, or not at all.
LEMMA TruncateFits ==
    ASSUME NEW r
    PROVE  /\ Section(r, {}, <<>>)
           /\ Section(r, {}, TruncateBeforeLoad(r))
  <1> DEFINE s == [Statement("truncate", "table", TableName(r), {}, Undefined, FALSE)
                   EXCEPT !.guarded = TRUE]
  <1>1. CASE r.rerun /\ OwnsLoadTarget(r)
    <2>1. /\ IsStatement(s) /\ s.verb = "truncate" /\ s.kind = "table" /\ s.name = TableName(r) /\ s.uses = {}
          /\ s.guarded /\ s.def = Undefined
      BY DEF Statement, IsStatement
    <2>2. OfRequest(r, s)
      BY <1>1, <2>1 DEF OfRequest, Makes
    <2>3. TruncateBeforeLoad(r) = <<<<s>>>>
      BY <1>1 DEF TruncateBeforeLoad
    <2> HIDE DEF s
    <2> QED
      BY <2>1, <2>2, <2>3, OneFits, NothingFits
  <1>2. CASE ~(r.rerun /\ OwnsLoadTarget(r))
    BY <1>2, NothingFits DEF TruncateBeforeLoad
  <1> QED
    BY <1>1, <1>2

\* A load goes into the target, and reads the sources given.
LEMMA LoadStatement ==
    ASSUME NEW r, NEW uses, NEW hole
    PROVE  LET s == Load(r, uses, hole)
           IN  /\ OfRequest(r, s) /\ s.verb = "load" /\ s.name = TableName(r)
               /\ s.uses = uses \cup {UseTable(r)}
  BY DEF Load, Statement, OfRequest, IsStatement, Makes

\* Fabric's load patterns: the staging table, and INSERT SELECT.
LEMMA FabricLoadFits ==
    ASSUME NEW r, NEW K, UseTable(r) \in K, UseSource(r) \in K,
           r.platform = "fabric_sql_db"
    PROVE  Section(r, K, BulkInsertFabric(r))
  <1> DEFINE i == Statement("selectinto", "table", StagingTableName(r), {UseSource(r)},
                            [type |-> "rows"], FALSE)
             l == Load(r, {UseSource(r)}, FALSE)
  <1>1. /\ IsStatement(i) /\ i.verb = "selectinto" /\ i.kind = "table" /\ i.name = StagingTableName(r)
        /\ i.uses = {UseSource(r)} /\ i.def = [type |-> "rows"]
    BY DEF Statement, IsStatement
  <1>2. OfRequest(r, i)
    BY <1>1 DEF OfRequest, Objects
  <1> HIDE DEF i
  <1>3. OfRequest(r, l) /\ l.verb = "load" /\ l.uses = {UseSource(r)} \cup {UseTable(r)}
    BY DEF Load, Statement, OfRequest, IsStatement, Makes
  <1>4. BulkInsertFabric(r) \in {Guidance, One(<<l>>), One(<<i, l>>)}
    BY DEF BulkInsertFabric, i
  <1> HIDE DEF l
  <1>5. Section(r, K, <<<<l>>>>)
    BY <1>3, OneFits
  <1>6. Section(r, K, <<<<i, l>>>>)
    BY <1>1, <1>2, <1>3, TwoFit
  <1> QED
    BY <1>4, <1>5, <1>6, BatchesOf, NothingFits DEF Guidance

\* bulk_insert reads through the sources it can count on.
LEMMA LoadFits ==
    ASSUME NEW r, NEW prerequisites, IsRequest(r), ~r.wide
    PROVE  Section(r, Available(r), BulkInsert(r, prerequisites))
  <1> DEFINE K == Available(r)
  <1> SUFFICES Section(r, K, BulkInsert(r, prerequisites))
    OBVIOUS
  <1>1. Section(r, K, Guidance)
    BY NothingFits DEF Guidance
  <1>2. UseTable(r) \in K
    BY DEF Available, Sources
  <1>3. Compatible(r) /\ Formatted(r) => UseSource(r) \in K
    BY DEF Available, Sources
  <1>4. Compatible(r) /\ Formatted(r) /\ r.type \in {"csv", "text", "json"} /\ BulkSourceSupported(r)
           => UseBulkSource(r) \in K
    BY DEF Available, Sources
  <1>5. r.type \in {"csv", "text", "json"} => Formatted(r)
    BY DEF Formatted, FormatSupported, FormatType, EXTERNAL_FORMAT_PLATFORMS, IsRequest, FORMATS_READ_WITHOUT_FILE_FORMAT
  <1>6. r.type = "parquet" /\ r.platform = "fabric_sql_db" => Formatted(r)
    BY DEF Formatted, FormatSupported, FormatType, EXTERNAL_FORMAT_PLATFORMS, PLATFORMS
  <1>7. r.type \in {"csv", "text", "json", "parquet", "delta", "orc", "rc", "iceberg", "excel"}
    BY DEF IsRequest, FileTypes, FormatType
  <1>8. ASSUME NEW uses, NEW hole, \A u \in uses : u \in K
        PROVE  Section(r, K, One(<<Load(r, uses, hole), Select({UseTable(r)})>>))
    <2> DEFINE l == Load(r, uses, hole)
               s == Select({UseTable(r)})
    <2>1. OfRequest(r, l) /\ l.verb = "load" /\ l.uses = uses \cup {UseTable(r)}
      BY LoadStatement
    <2>2. OfRequest(r, s) /\ s.verb = "select" /\ \A u \in s.uses : u \in K
      BY <1>2, SelectFits
    <2>3. \A u \in l.uses : u \in K
      BY <1>2, <1>8, <2>1
    <2> HIDE DEF l, s, K
    <2>4. Section(r, K, <<<<l, s>>>>)
      BY <2>1, <2>2, <2>3, TwoFit
    <2> QED
      BY <2>4, BatchesOf DEF l, s
  <1> HIDE DEF K
  <1>9. CASE ~Compatible(r) \/ r.type \in {"orc", "rc", "iceberg"}
    BY <1>1, <1>9 DEF BulkInsert
  <1>10. CASE /\ Compatible(r) /\ r.type \notin {"orc", "rc", "iceberg"}
              /\ r.platform \notin BulkInsertPlatforms
    <2>1. r.platform = "fabric_sql_db"
      BY <1>10 DEF BulkInsertPlatforms, IsRequest, PLATFORMS
    <2>2. r.type = "excel" => UseSource(r) \in K
      BY <2>1 DEF K, Available, Sources, Missing, HasItsSources, SqlServer
    <2>3. BulkInsert(r, prerequisites) = BulkInsertFabric(r)
      BY <1>10 DEF BulkInsert
    <2>4. CASE r.type = "delta"
      BY <1>1, <2>3, <2>4 DEF BulkInsertFabric
    <2>5. CASE r.type # "delta"
      <3>1. UseSource(r) \in K
        BY <1>3, <1>5, <1>6, <1>7, <1>10, <2>1, <2>2, <2>5
      <3> QED
        BY <1>2, <2>1, <2>3, <3>1, FabricLoadFits
    <2> QED
      BY <2>4, <2>5
  <1>11. CASE /\ Compatible(r) /\ r.type \notin {"orc", "rc", "iceberg"}
              /\ r.platform \in BulkInsertPlatforms
    <2>1. CASE r.type \notin {"csv", "text"}
      BY <1>1, <1>11, <2>1 DEF BulkInsert
    <2>2. CASE r.type \in {"csv", "text"} /\ BulkSourceSupported(r)
      <3> DEFINE p == IF prerequisites THEN BulkSourceDdl(r) ELSE <<>>
                 l == One(<<Load(r, {UseBulkSource(r)}, FALSE), Select({UseTable(r)})>>)
      <3>1. Section(r, {}, p)
        BY <1>11, BulkSourceFits, NothingFits
      <3>2. Section(r, K, p)
        BY <3>1, MoreFits
      <3>3. Section(r, K, l)
        BY <1>4, <1>5, <1>8, <1>11, <2>2
      <3>4. BulkInsert(r, prerequisites) = p \o l
        BY <1>11, <2>2 DEF BulkInsert
      <3> HIDE DEF p, l
      <3> QED
        BY <3>2, <3>3, <3>4, JoinAlike
    <2>3. CASE r.type \in {"csv", "text"} /\ ~BulkSourceSupported(r)
      <3>1. BulkInsert(r, prerequisites)
               = One(<<Load(r, {}, StorageUrlKind(r.url) # "local"), Select({UseTable(r)})>>)
        BY <1>11, <2>3 DEF BulkInsert
      <3> QED
        BY <1>8, <3>1
    <2> QED
      BY <2>1, <2>2, <2>3
  <1> QED
    BY <1>9, <1>10, <1>11

\* Guarding changes nothing else of a statement.
LEMMA GuardedIsTheSame ==
    ASSUME NEW r, NEW s, OfRequest(r, s)
    PROVE  LET t == GuardStatement(s)
           IN  /\ t.verb = s.verb /\ t.kind = s.kind /\ t.name = s.name
               /\ t.uses = s.uses /\ t.def = s.def /\ OfRequest(r, t)
               /\ s.verb = "create" => t.guarded
  <1>1. CASE s.verb = "create" 
    <2>1. GuardStatement(s) = [s EXCEPT !.guarded = TRUE]
      BY <1>1 DEF GuardStatement
    <2> DEFINE t == GuardStatement(s)
    <2>2. /\ t.verb = s.verb /\ t.kind = s.kind /\ t.name = s.name
          /\ t.uses = s.uses /\ t.def = s.def /\ t.guarded
          /\ DOMAIN t = DOMAIN s
      BY <2>1 DEF OfRequest, IsStatement
    <2> HIDE DEF t
    <2>3. OfRequest(r, t)
      BY <1>1, <2>2 DEF OfRequest, IsStatement, Makes
    <2> QED
      BY <2>2, <2>3 DEF t
  <1>2. CASE s.verb # "create"
    BY <1>2 DEF GuardStatement
  <1> QED
    BY <1>1, <1>2

\* Guarding keeps the batches.
LEMMA GuardedBatches ==
    ASSUME NEW x
    PROVE  /\ DOMAIN GuardCreates(x) = DOMAIN x
           /\ \A b \in DOMAIN x :
                 /\ DOMAIN GuardCreates(x)[b] = DOMAIN x[b]
                 /\ \A i \in DOMAIN x[b] : GuardCreates(x)[b][i] = GuardStatement(x[b][i])
  BY DEF GuardCreates

\* A guarded section gives and uses what it did.
LEMMA GuardingChangesNothing ==
    ASSUME NEW r, NEW K, NEW x, Section(r, K, x)
    PROVE  /\ Section(r, K, GuardCreates(x))
           /\ \A u : Gives(GuardCreates(x), u) <=> Gives(x, u)
  <1> DEFINE g == GuardCreates(x)
  <1>1. PICK S : x \in Seq(Seq(S))
    BY DEF Section, IsScript
  <1>2. /\ DOMAIN g = DOMAIN x
        /\ \A b \in DOMAIN x : /\ DOMAIN g[b] = DOMAIN x[b]
                               /\ \A i \in DOMAIN x[b] : g[b][i] = GuardStatement(x[b][i])
    BY GuardedBatches
  <1>3. /\ x \in [1..Len(x) -> Seq(S)] /\ Len(x) \in Nat /\ DOMAIN x = 1..Len(x)
        /\ \A b \in DOMAIN x : x[b] \in Seq(S) /\ DOMAIN x[b] = 1..Len(x[b]) /\ Len(x[b]) \in Nat
    BY <1>1
  <1>4. g = [b \in 1..Len(x) |-> [i \in 1..Len(x[b]) |-> GuardStatement(x[b][i])]]
    BY <1>3 DEF GuardCreates
  <1> HIDE DEF g
  <1> DEFINE T == {GuardStatement(s) : s \in S}
  <1>5. ASSUME NEW b \in DOMAIN x
        PROVE  /\ g[b] \in Seq(T) /\ Len(g[b]) = Len(x[b])
               /\ x[b] # <<>> => g[b] # <<>>
    <2>1. g[b] = [i \in 1..Len(x[b]) |-> GuardStatement(x[b][i])]
      BY <1>3, <1>4
    <2>2. \A i \in 1..Len(x[b]) : GuardStatement(x[b][i]) \in T
      BY <1>3
    <2> HIDE DEF T
    <2>3. g[b] \in [1..Len(x[b]) -> T]
      BY <2>1, <2>2
    <2>4. g[b] \in Seq(T) /\ Len(g[b]) = Len(x[b])
      BY <1>3, <2>3
    <2> QED
      BY <1>3, <2>4
  <1>6. IsScript(g)
    <2>1. g \in [1..Len(x) -> Seq(T)]
      BY <1>3, <1>4, <1>5
    <2> HIDE DEF T
    <2>2. g \in Seq(Seq(T))
      BY <1>3, <2>1
    <2> QED
      BY <2>2 DEF IsScript
  <1>7. ASSUME NEW s, OfRequest(r, s)
        PROVE  LET t == GuardStatement(s)
               IN  /\ t.verb = s.verb /\ t.kind = s.kind /\ t.name = s.name
                   /\ t.uses = s.uses /\ t.def = s.def /\ OfRequest(r, t)
    BY <1>7, GuardedIsTheSame
  <1>8. ASSUME NEW b \in DOMAIN x, NEW u PROVE Offers(g[b], u) <=> Offers(x[b], u)
    BY <1>2, <1>7 DEF Offers, Section
  <1>9. ASSUME NEW b \in DOMAIN g
        PROVE  /\ g[b] # <<>>
               /\ \A i \in DOMAIN g[b] :
                    /\ OfRequest(r, g[b][i])
                    /\ g[b][i].verb = "create" => Len(g[b]) = 1
                    /\ \A u \in g[b][i].uses : u \in K \/ \E c \in 1..(b - 1) : Offers(g[c], u)
    <2>1. b \in DOMAIN x /\ \A c \in 1..(b - 1) : c \in DOMAIN x
      BY <1>2, <1>3
    <2> QED
      BY <1>2, <1>5, <1>7, <1>8, <2>1 DEF Section
  <1>10. ASSUME NEW u PROVE Gives(g, u) <=> Gives(x, u)
    BY <1>2, <1>8 DEF Gives
  <1> QED
    BY <1>2, <1>6, <1>9, <1>10 DEF Section, g

\* The sections of a document in their order, its creates not yet guarded.
Unguarded(r) ==
    LET setup == CredentialSetup(r)
        load  == BulkInsert(r, ~Creates(setup, "source", BulkSourceName(r)))
    IN  setup \o ExternalFileFormat(r) \o ExternalTable(r) \o CreateTable(r)
        \o (IF LoadsInto(load, r) THEN TruncateBeforeLoad(r) ELSE <<>>)
        \o load \o OpenRowset(r)

\* The sections in the order of generate_complete_ddl: each uses what those before
\* it have given.
LEMMA SectionsFit ==
    ASSUME NEW r, IsRequest(r), ~r.wide
    PROVE  Section(r, Missing(r), Unguarded(r))
  <1> DEFINE M  == Missing(r)
             x1 == CredentialSetup(r)
             x2 == x1 \o ExternalFileFormat(r)
             x3 == x2 \o ExternalTable(r)
             x4 == x3 \o CreateTable(r)
             load == BulkInsert(r, ~Creates(CredentialSetup(r), "source", BulkSourceName(r)))
             empty == IF LoadsInto(load, r) THEN TruncateBeforeLoad(r) ELSE <<>>
             x5 == x4 \o empty
             x6 == x5 \o load
             x7 == x6 \o OpenRowset(r)
             format == Use("format", FormatName(r), FormatType[r.type])
  <1>1. Unguarded(r) = x7
    BY DEF Unguarded
  <1>2. /\ Section(r, M, x1)
        /\ Compatible(r) /\ Formatted(r) => Gives(x1, UseSource(r))
        /\ Compatible(r) /\ Formatted(r) /\ BulkSourceSupported(r) /\ r.type \in {"csv", "text", "json"}
              => Gives(x1, UseBulkSource(r))
    BY SetupFits
  <1> HIDE DEF x1, M
  <1>3. Section(r, M, ExternalFileFormat(r)) /\ (FormatSupported(r) /\ ~NoEncoding(r) =>
           Gives(ExternalFileFormat(r), format))
    BY FileFormatFits, MoreFits
  <1>4. Section(r, M, x2) /\ \A u : Gives(x2, u) <=> Gives(x1, u) \/ Gives(ExternalFileFormat(r), u)
    BY <1>2, <1>3, JoinAlike
  <1> HIDE DEF x2
  <1> DEFINE K3 == {u \in {UseSource(r), format} : Gives(x2, u)}
  <1>5. Section(r, K3, ExternalTable(r))
    <2>1. Compatible(r) /\ Formatted(r) => UseSource(r) \in K3
      BY <1>2, <1>4
    <2>2. FormatSupported(r) /\ ~NoEncoding(r) => format \in K3
      BY <1>3, <1>4
    <2> HIDE DEF K3
    <2> QED
      BY <2>1, <2>2, ExternalTableFits
  <1>6. \A u \in K3 : u \in M \/ Gives(x2, u)
    OBVIOUS
  <1> HIDE DEF K3, format
  <1>7. Section(r, M, x3) /\ \A u : Gives(x3, u) <=> Gives(x2, u) \/ Gives(ExternalTable(r), u)
    <2>1. Section(r, M, x2) /\ IsScript(x2) /\ IsScript(ExternalTable(r))
      BY <1>4, <1>5 DEF Section
    <2>2. Section(r, M, x2 \o ExternalTable(r))
      BY <1>5, <1>6, <2>1, JoinSections
    <2>3. \A u : Gives(x2 \o ExternalTable(r), u) <=> Gives(x2, u) \/ Gives(ExternalTable(r), u)
      BY <2>1, JoinGives
    <2> QED
      BY <2>2, <2>3
  <1> HIDE DEF x3
  <1>8. Section(r, M, CreateTable(r)) /\ Gives(CreateTable(r), UseTable(r))
    BY CreateTableFits, MoreFits
  <1>9. Section(r, M, x4) /\ \A u : Gives(x4, u) <=> Gives(x3, u) \/ Gives(CreateTable(r), u)
    BY <1>7, <1>8, JoinAlike
  <1> HIDE DEF x4
  <1>10. Section(r, M, empty)
    BY TruncateFits, MoreFits
  <1>11. Section(r, M, x5) /\ \A u : Gives(x5, u) <=> Gives(x4, u) \/ Gives(empty, u)
    BY <1>9, <1>10, JoinAlike
  <1> HIDE DEF x5
  <1>12. \A u \in Available(r) : u \in M \/ Gives(x5, u)
    BY <1>2, <1>4, <1>7, <1>8, <1>9, <1>11 DEF Available, Sources, M
  <1>13. Section(r, Available(r), load)
    BY LoadFits
  <1> HIDE DEF load, empty
  <1>14. Section(r, M, x6) /\ \A u : Gives(x6, u) <=> Gives(x5, u) \/ Gives(load, u)
    <2>1. Section(r, M, x5)
      BY <1>11
    <2>2. Section(r, M, x5 \o load)
      BY <1>12, <1>13, <2>1, JoinSections
    <2>3. \A u : Gives(x5 \o load, u) <=> Gives(x5, u) \/ Gives(load, u)
      BY <1>11, <1>13, JoinGives DEF Section
    <2> QED
      BY <2>2, <2>3
  <1> HIDE DEF x6
  <1>15. \A u \in Available(r) : u \in M \/ Gives(x6, u)
    BY <1>12, <1>14
  <1>16. Section(r, Available(r), OpenRowset(r))
    BY OpenRowsetFits, MoreFits DEF Available
  <1>17. Section(r, M, x7)
    BY <1>14, <1>15, <1>16, JoinSections
  <1> QED
    BY <1>1, <1>17 DEF M

\* What a complete document does: statements for its request, which use what
\* the batches before have created.
LEMMA DocumentFits ==
    ASSUME NEW r, IsRequest(r)
    PROVE  /\ Section(r, Missing(r), CompleteDdl(r))
           /\ \A b \in DOMAIN CompleteDdl(r) : \A i \in DOMAIN CompleteDdl(r)[b] :
                 CompleteDdl(r)[b][i].verb = "create" => CompleteDdl(r)[b][i].guarded
  <1>1. CASE r.wide
    BY <1>1, NothingFits DEF CompleteDdl, Guidance
  <1>2. CASE ~r.wide
    <2>1. CompleteDdl(r) = GuardCreates(Unguarded(r))
      BY <1>2 DEF CompleteDdl, Unguarded
    <2>2. Section(r, Missing(r), Unguarded(r))
      BY <1>2, SectionsFit
    <2>3. Section(r, Missing(r), CompleteDdl(r))
      BY <2>1, <2>2, GuardingChangesNothing
    <2> DEFINE x == Unguarded(r)
               g == GuardCreates(x)
    <2>4. ASSUME NEW b \in DOMAIN g, NEW i \in DOMAIN g[b], g[b][i].verb = "create"
          PROVE  g[b][i].guarded
      <3>1. /\ DOMAIN g = DOMAIN x
            /\ \A c \in DOMAIN x : /\ DOMAIN g[c] = DOMAIN x[c]
                                   /\ \A j \in DOMAIN x[c] : g[c][j] = GuardStatement(x[c][j])
        BY GuardedBatches
      <3> HIDE DEF g, x
      <3>2. b \in DOMAIN x /\ i \in DOMAIN x[b] /\ g[b][i] = GuardStatement(x[b][i])
        BY <3>1
      <3>3. OfRequest(r, x[b][i])
        BY <2>2, <3>2 DEF Section, x
      <3> QED
        BY <2>4, <3>2, <3>3, GuardedIsTheSame
    <2> QED
      BY <2>1, <2>3, <2>4
  <1> QED
    BY <1>1, <1>2

-----------------------------------------------------------------------------
(* One file's names.                                                       *)

\* The names that the code derives are not the names it derives them from.
LEMMA DerivedNamesDiffer ==
    ASSUME NEW r, IsRequest(r)
    PROVE  BulkSourceName(r) # SourceName(r) /\ BulkCredentialName(r) # CredentialName(r)
  <1>1. ASSUME NEW S, NEW n \in Seq(S)
        PROVE  /\ n \o <<"_Bulk">> # n
               /\ <<"cred_">> \o (n \o <<"_Bulk">>) # <<"cred_">> \o n
    <2> DEFINE T == S \cup {"_Bulk", "cred_"}
               m == n \o <<"_Bulk">>
    <2>1. n \in Seq(T) /\ <<"_Bulk">> \in Seq(T) /\ <<"cred_">> \in Seq(T)
      OBVIOUS
    <2>2. m \in Seq(T) /\ Len(m) = Len(n) + 1
      BY <2>1
    <2> HIDE DEF m
    <2>3. Len(<<"cred_">> \o m) = Len(m) + 1 /\ Len(<<"cred_">> \o n) = Len(n) + 1
      BY <2>1, <2>2
    <2>4. Len(n) \in Nat
      OBVIOUS
    <2>5. m # n
      BY <2>2, <2>4
    <2>6. <<"cred_">> \o m # <<"cred_">> \o n
      BY <2>2, <2>3, <2>4
    <2> QED
      BY <2>5, <2>6 DEF m
  <1>2. (\E S : SourceName(r) \in Seq(S)) /\ (\E S : r.names.credential \in Seq(S))
    <2>1. <<"MyDataSource">> \in Seq({"MyDataSource"})
      OBVIOUS
    <2>2. (\E S : r.names.source \in Seq(S)) /\ (\E S : r.names.credential \in Seq(S))
      BY DEF IsRequest, IsName
    <2> QED
      BY <2>1, <2>2 DEF SourceName, Named
  <1>3. BulkSourceName(r) # SourceName(r)
    BY <1>1, <1>2 DEF BulkSourceName
  <1>4. BulkCredentialName(r) # CredentialName(r)
    BY <1>1, <1>2 DEF BulkCredentialName, CredentialName, Named, BulkSourceName
  <1> QED
    BY <1>3, <1>4

\* What each object of a document is, by its name.
LEMMA ObjectIs ==
    ASSUME NEW r, NEW q \in Objects(r)
    PROVE  \/ q.kind = "masterkey" /\ q.def = Undefined
           \/ /\ q.kind = "credential"
              /\ \/ q.name = CredentialName(r) /\ q.def = [type |-> StorageAuth(r)]
                 \/ q.name = BulkCredentialName(r) /\ q.def = [type |-> BulkAuth(r)]
           \/ /\ q.kind = "source"
              /\ \/ /\ q.name = SourceName(r)
                    /\ q.def = [type |-> VirtualType(r.platform), location |-> ExternalSourceLocation(r)]
                 \/ /\ q.name = BulkSourceName(r)
                    /\ q.def = [type |-> "blob", location |-> AzureBulkLocation(r.url)]
           \/ q.kind = "format" /\ q.name = FormatName(r) /\ q.def = FormatConfig(r)
           \/ /\ q.kind = "table"
              /\ \/ q.name = ExternalTableName(r) /\ q.def = [type |-> "external"]
                 \/ q.name \in {TableName(r), StagingTableName(r)} /\ q.def = [type |-> "rows"]
  <1>1. \A kind, name, def : LET o == Object(kind, name, def)
                            IN  o.kind = kind /\ o.name = name /\ o.def = def
    BY DEF Object
  <1> QED
    BY <1>1 DEF Objects

\* With its own external table named apart, one document's names do not clash.
LEMMA ObjectsAgree ==
    ASSUME NEW r, IsRequest(r), ExternalTableName(r) \notin {TableName(r), StagingTableName(r)},
           NEW o \in Objects(r), NEW p \in Objects(r), o.kind = p.kind, o.name = p.name
    PROVE  o.def = p.def
  <1>1. BulkSourceName(r) # SourceName(r) /\ BulkCredentialName(r) # CredentialName(r)
    BY DerivedNamesDiffer
  <1> QED
    BY <1>1, ObjectIs

-----------------------------------------------------------------------------
(* What is loaded, and what is emptied before.                             *)

\* A section that neither loads nor empties a table.
Calm(x) ==
    \A b \in DOMAIN x : \A i \in DOMAIN x[b] : x[b][i].verb \notin {"load", "truncate"}

\* A section that empties nothing and loads at most once.
LoadsAtMostOnce(x) ==
    \A b \in DOMAIN x : \A i \in DOMAIN x[b] :
        /\ x[b][i].verb # "truncate"
        /\ x[b][i].verb = "load" =>
              \A c \in DOMAIN x : \A j \in DOMAIN x[c] : x[c][j].verb = "load" => c = b /\ j = i

\* Sections that neither load nor empty, one after the other.
LEMMA JoinCalm ==
    ASSUME NEW x, NEW y, IsScript(x), IsScript(y), Calm(x), Calm(y)
    PROVE  Calm(x \o y)
  <1> DEFINE z == x \o y
  <1>1. /\ DOMAIN z = 1..(Len(x) + Len(y))
        /\ \A b \in 1..Len(x) : z[b] = x[b]
        /\ \A b \in 1..Len(y) : z[Len(x) + b] = y[b]
        /\ Len(x) \in Nat /\ Len(y) \in Nat /\ DOMAIN x = 1..Len(x) /\ DOMAIN y = 1..Len(y)
    BY JoinScripts
  <1> HIDE DEF z
  <1>2. ASSUME NEW b \in DOMAIN z, NEW i \in DOMAIN z[b]
        PROVE  z[b][i].verb \notin {"load", "truncate"}
    <2>1. CASE b <= Len(x)
      BY <1>1, <2>1 DEF Calm
    <2>2. CASE b > Len(x)
      <3>1. b - Len(x) \in 1..Len(y) /\ z[b] = y[b - Len(x)]
        BY <1>1, <2>2
      <3> QED
        BY <1>1, <3>1 DEF Calm
    <2> QED
      BY <1>1, <2>1, <2>2
  <1> QED
    BY <1>2 DEF Calm, z

\* What comes first neither loads nor empties.
LEMMA CalmThenLoad ==
    ASSUME NEW x, NEW y, IsScript(x), IsScript(y), Calm(x), LoadsAtMostOnce(y)
    PROVE  LoadsAtMostOnce(x \o y)
  <1> DEFINE z == x \o y
  <1>1. /\ DOMAIN z = 1..(Len(x) + Len(y))
        /\ \A b \in 1..Len(x) : z[b] = x[b]
        /\ \A b \in 1..Len(y) : z[Len(x) + b] = y[b]
        /\ Len(x) \in Nat /\ Len(y) \in Nat /\ DOMAIN x = 1..Len(x) /\ DOMAIN y = 1..Len(y)
    BY JoinScripts
  <1> HIDE DEF z
  <1>2. ASSUME NEW b \in DOMAIN z, NEW i \in DOMAIN z[b], z[b][i].verb \in {"load", "truncate"}
        PROVE  b - Len(x) \in DOMAIN y /\ z[b] = y[b - Len(x)]
    <2>1. ~(b <= Len(x))
      BY <1>1, <1>2 DEF Calm
    <2>2. b - Len(x) \in 1..Len(y) /\ Len(x) + (b - Len(x)) = b
      BY <1>1, <2>1
    <2> QED
      BY <1>1, <2>2
  <1>3. ASSUME NEW b \in DOMAIN z, NEW i \in DOMAIN z[b] PROVE z[b][i].verb # "truncate"
    BY <1>2 DEF LoadsAtMostOnce
  <1>4. ASSUME NEW b \in DOMAIN z, NEW i \in DOMAIN z[b], z[b][i].verb = "load",
               NEW c \in DOMAIN z, NEW j \in DOMAIN z[c], z[c][j].verb = "load"
        PROVE  c = b /\ j = i
    <2>1. /\ b - Len(x) \in DOMAIN y /\ z[b] = y[b - Len(x)]
          /\ c - Len(x) \in DOMAIN y /\ z[c] = y[c - Len(x)]
      BY <1>2, <1>4
    <2>2. c - Len(x) = b - Len(x) /\ j = i
      BY <1>4, <2>1 DEF LoadsAtMostOnce
    <2> QED
      BY <1>1, <2>2
  <1> QED
    BY <1>3, <1>4 DEF LoadsAtMostOnce, z

\* Batches without such a statement.
LEMMA CalmBatches ==
    /\ Calm(<<>>)
    /\ \A s : s.verb \notin {"load", "truncate"} => Calm(<<<<s>>>>)
    /\ \A s, t : s.verb \notin {"load", "truncate"} /\ t.verb \notin {"load", "truncate"}
                    => Calm(<<<<s, t>>>>)
  <1>1. Calm(<<>>)
    BY NoBatch DEF Calm
  <1>2. ASSUME NEW s, s.verb \notin {"load", "truncate"} PROVE Calm(<<<<s>>>>)
    BY <1>2, OneBatch DEF Calm
  <1>3. ASSUME NEW s, NEW t, s.verb \notin {"load", "truncate"}, t.verb \notin {"load", "truncate"}
        PROVE  Calm(<<<<s, t>>>>)
    BY <1>3, TwoInABatch DEF Calm
  <1> QED
    BY <1>1, <1>2, <1>3

\* Credentials and sources,
LEMMA CreatingIsCalm ==
    ASSUME NEW name, NEW method, NEW type, NEW location, NEW uses
    PROVE  /\ Calm(CredentialDdl(name, method)) /\ IsScript(CredentialDdl(name, method))
           /\ Calm(SourceDdl(name, type, location, uses)) /\ IsScript(SourceDdl(name, type, location, uses))
  <1>1. \A kind, n, u, def, hole : Create(kind, n, u, def, hole).verb = "create"
    BY DEF Create, Statement
  <1>2. Calm(CredentialDdl(name, method)) /\ IsScript(CredentialDdl(name, method))
    BY <1>1, CalmBatches, NoBatch, OneBatch DEF CredentialDdl
  <1>3. Calm(SourceDdl(name, type, location, uses)) /\ IsScript(SourceDdl(name, type, location, uses))
    BY <1>1, CalmBatches, NoBatch, OneBatch DEF SourceDdl
  <1> QED
    BY <1>2, <1>3

\* the bulk source,
LEMMA BulkSourceIsCalm ==
    ASSUME NEW r PROVE Calm(BulkSourceDdl(r)) /\ IsScript(BulkSourceDdl(r))
  <1> DEFINE c == CredentialDdl(BulkCredentialName(r), BulkAuth(r))
             s == SourceDdl(BulkSourceName(r), "blob", AzureBulkLocation(r.url),
                            CredentialClause(BulkCredentialName(r), BulkAuth(r)))
  <1>1. Calm(c) /\ IsScript(c) /\ Calm(s) /\ IsScript(s)
    BY CreatingIsCalm
  <1>2. BulkSourceDdl(r) = IF ~BulkSourceSupported(r) THEN <<>> ELSE c \o s
    BY DEF BulkSourceDdl, Guidance
  <1> HIDE DEF c, s
  <1>3. Calm(c \o s) /\ IsScript(c \o s)
    BY <1>1, JoinCalm, JoinScripts
  <1> QED
    BY <1>2, <1>3, CalmBatches, NoBatch

\* the whole setup,
LEMMA SetupIsCalm ==
    ASSUME NEW r PROVE Calm(CredentialSetup(r))
  <1> DEFINE key == [Create("masterkey", NoName, {}, Undefined, TRUE) EXCEPT !.guarded = TRUE]
             m == IF StorageAuth(r) \in SecretFree THEN <<>> ELSE <<<<key>>>>
             c == CredentialDdl(CredentialName(r), StorageAuth(r))
             f == SourceDdl(SourceName(r), "virtual", ExternalSourceLocation(r),
                            {Use("credential", CredentialName(r), StorageAuth(r))})
             s == SourceDdl(SourceName(r), VirtualType(r.platform), ExternalSourceLocation(r),
                            CredentialClause(CredentialName(r), StorageAuth(r)))
             b == IF r.type \in {"csv", "text", "json"} THEN BulkSourceDdl(r) ELSE <<>>
  <1>1. CredentialSetup(r) \in {<<>>, c \o f, ((m \o c) \o s) \o b}
    BY DEF CredentialSetup, Guidance
  <1>2. Calm(m) /\ IsScript(m)
    <2>1. key.verb = "create"
      BY DEF Create, Statement
    <2> HIDE DEF key
    <2> QED
      BY <2>1, CalmBatches, NoBatch, OneBatch
  <1>3. Calm(c) /\ IsScript(c) /\ Calm(f) /\ IsScript(f) /\ Calm(s) /\ IsScript(s)
    BY CreatingIsCalm
  <1>4. Calm(b) /\ IsScript(b)
    BY BulkSourceIsCalm, CalmBatches, NoBatch
  <1> HIDE DEF m, c, f, s, b
  <1>5. Calm(c \o f) /\ Calm(m \o c) /\ IsScript(m \o c)
    BY <1>2, <1>3, JoinCalm, JoinScripts
  <1>6. Calm((m \o c) \o s) /\ IsScript((m \o c) \o s)
    BY <1>3, <1>5, JoinCalm, JoinScripts
  <1>7. Calm(((m \o c) \o s) \o b)
    BY <1>4, <1>6, JoinCalm
  <1> QED
    BY <1>1, <1>5, <1>7, CalmBatches

\* the format and the tables,
LEMMA DefiningIsCalm ==
    ASSUME NEW r
    PROVE  Calm(ExternalFileFormat(r)) /\ Calm(ExternalTable(r)) /\ Calm(CreateTable(r))
  <1>1. \A kind, n, u, def, hole : Create(kind, n, u, def, hole).verb = "create"
    BY DEF Create, Statement
  <1>2. \A kind, n, u, def, hole : Calm(One(<<Create(kind, n, u, def, hole)>>))
    BY <1>1, CalmBatches, BatchesOf
  <1>3. Calm(Guidance)
    BY CalmBatches DEF Guidance
  <1> QED
    BY <1>2, <1>3 DEF ExternalFileFormat, ExternalTable, CreateTable

\* and the queries neither load nor empty.
LEMMA OpenRowsetIsCalm ==
    ASSUME NEW r PROVE Calm(OpenRowset(r))
  <1>1. \A u : Select(u).verb = "select"
    BY DEF Select, Statement
  <1>2. \A u : Calm(One(<<Select(u)>>))
    BY <1>1, CalmBatches, BatchesOf
  <1>3. ASSUME NEW u, NEW v PROVE Calm(One(<<Select(u), Select(v)>>))
    <2> DEFINE s == Select(u)
               t == Select(v)
    <2>1. s.verb = "select" /\ t.verb = "select"
      BY <1>1
    <2> HIDE DEF s, t
    <2>2. Calm(<<<<s, t>>>>)
      BY <2>1, CalmBatches
    <2> QED
      BY <2>2, BatchesOf DEF s, t
  <1>4. Calm(Guidance)
    BY CalmBatches DEF Guidance
  <1>5. Calm(OpenRowsetLocal(r)) /\ Calm(OpenRowsetFabric(r))
    BY <1>2, <1>3, <1>4 DEF OpenRowsetLocal, OpenRowsetFabric
  <1>6. Calm(OpenRowset2019(r))
    BY <1>2, <1>4, <1>5 DEF OpenRowset2019, OpenRowsetBlobStorageBulk
  <1>7. Calm(OpenRowsetAzure(r))
    BY <1>2, <1>3, <1>4 DEF OpenRowsetAzure
  <1>8. Calm(OpenRowsetObjectStorage(r))
    BY <1>2, <1>3, <1>4 DEF OpenRowsetObjectStorage
  <1> QED
    BY <1>4, <1>5, <1>6, <1>7, <1>8 DEF OpenRowset

\* One load, alone in its section or after the prerequisites.
LEMMA LoadIsOne ==
    ASSUME NEW r, NEW prerequisites
    PROVE  LoadsAtMostOnce(BulkInsert(r, prerequisites))
  <1>1. ASSUME NEW s, s.verb # "truncate" PROVE LoadsAtMostOnce(<<<<s>>>>)
    BY <1>1, OneBatch DEF LoadsAtMostOnce
  <1>2. ASSUME NEW s, NEW t, s.verb \in {"select", "selectinto", "load"},
               t.verb \in {"select", "selectinto", "load"}, ~(s.verb = "load" /\ t.verb = "load")
        PROVE  LoadsAtMostOnce(<<<<s, t>>>>)
    BY <1>2, TwoInABatch DEF LoadsAtMostOnce
  <1>3. LoadsAtMostOnce(<<>>)
    BY NoBatch DEF LoadsAtMostOnce
  <1>4. /\ \A u, h : Load(r, u, h).verb = "load"
        /\ \A u : Select(u).verb = "select"
    BY DEF Load, Select, Statement
  <1>5. LoadsAtMostOnce(BulkInsertFabric(r))
    <2> DEFINE i == Statement("selectinto", "table", StagingTableName(r), {UseSource(r)},
                              [type |-> "rows"], FALSE)
               l == Load(r, {UseSource(r)}, FALSE)
    <2>1. BulkInsertFabric(r) \in {<<>>, One(<<l>>), One(<<i, l>>)}
      BY DEF BulkInsertFabric, Guidance
    <2>2. i.verb = "selectinto" /\ l.verb = "load"
      BY <1>4 DEF Statement
    <2> HIDE DEF i, l
    <2>3. LoadsAtMostOnce(<<<<l>>>>)
      BY <1>1, <2>2
    <2>4. LoadsAtMostOnce(<<<<i, l>>>>)
      BY <1>2, <2>2
    <2> QED
      BY <1>3, <2>1, <2>3, <2>4, BatchesOf
  <1>6. ASSUME NEW u, NEW h
        PROVE  /\ LoadsAtMostOnce(One(<<Load(r, u, h), Select({UseTable(r)})>>))
               /\ IsScript(One(<<Load(r, u, h), Select({UseTable(r)})>>))
    <2> DEFINE s == Load(r, u, h)
               t == Select({UseTable(r)})
    <2>1. s.verb = "load" /\ t.verb = "select"
      BY <1>4
    <2> HIDE DEF s, t
    <2>2. LoadsAtMostOnce(<<<<s, t>>>>) /\ IsScript(<<<<s, t>>>>)
      BY <1>2, <2>1, TwoInABatch
    <2> QED
      BY <2>2, BatchesOf DEF s, t
  <1> DEFINE p == IF prerequisites THEN BulkSourceDdl(r) ELSE <<>>
             l == One(<<Load(r, {UseBulkSource(r)}, FALSE), Select({UseTable(r)})>>)
  <1>8. LoadsAtMostOnce(p \o l)
    <2>1. Calm(p) /\ IsScript(p)
      BY BulkSourceIsCalm, CalmBatches, NoBatch
    <2>2. LoadsAtMostOnce(l) /\ IsScript(l)
      BY <1>6
    <2> HIDE DEF p, l
    <2> QED
      BY <2>1, <2>2, CalmThenLoad
  <1>9. \/ BulkInsert(r, prerequisites) \in {<<>>, BulkInsertFabric(r), p \o l}
        \/ BulkInsert(r, prerequisites)
              = One(<<Load(r, {}, StorageUrlKind(r.url) # "local"), Select({UseTable(r)})>>)
    BY DEF BulkInsert, Guidance
  <1> QED
    BY <1>3, <1>5, <1>6, <1>8, <1>9

IsAt(x, b, i, verb) == b \in DOMAIN x /\ i \in DOMAIN x[b] /\ x[b][i].verb = verb

\* A document loads once, into a table that is created before; and when the
\* target is to be emptied, that is done in between, in a batch of its own.
Prepared(r, x) ==
    /\ \A b, i, c, j : IsAt(x, b, i, "load") /\ IsAt(x, c, j, "load") => b = c /\ i = j
    /\ \A b, i, c, j : IsAt(x, b, i, "truncate") /\ IsAt(x, c, j, "load") => b < c
    /\ \A b, i : IsAt(x, b, i, "truncate") =>
          /\ Len(x[b]) = 1
          /\ \A c, j : IsAt(x, c, j, "truncate") => c = b
          /\ \E c \in 1..(b - 1) : Offers(x[c], UseTable(r))
    /\ \A b, i : IsAt(x, b, i, "load") /\ r.rerun /\ OwnsLoadTarget(r) /\ ~r.names.spaced =>
          \E t, j : IsAt(x, t, j, "truncate")

\* A document as four parts: what comes before the load, the emptying, the load,
\* and the queries after it.
LEMMA FourSections ==
    ASSUME NEW r, NEW pre, NEW empty, NEW load, NEW open,
           IsScript(pre), IsScript(empty), IsScript(load), IsScript(open),
           Calm(pre), LoadsAtMostOnce(load), Calm(open), Gives(pre, UseTable(r)),
           empty = <<>> \/ (\E s : s.verb = "truncate" /\ empty = <<<<s>>>>),
           (\E b, i : IsAt(load, b, i, "load")) /\ r.rerun /\ OwnsLoadTarget(r)
               /\ ~r.names.spaced => empty # <<>>
    PROVE  Prepared(r, ((pre \o empty) \o load) \o open)
  <1> DEFINE y == pre \o empty
             w == y \o load
             z == w \o open
             n == Len(pre)
             m == Len(y)
  <1>1. /\ n \in Nat /\ DOMAIN pre = 1..n
        /\ m = n + Len(empty) /\ Len(empty) \in Nat /\ DOMAIN empty = 1..Len(empty)
        /\ IsScript(y) /\ DOMAIN y = 1..m
        /\ \A b \in 1..n : y[b] = pre[b]
        /\ \A b \in 1..Len(empty) : y[n + b] = empty[b]
    BY JoinScripts
  <1> HIDE DEF y, n
  <1>2. /\ m \in Nat /\ Len(w) = m + Len(load) /\ Len(load) \in Nat /\ DOMAIN load = 1..Len(load)
        /\ IsScript(w) /\ DOMAIN w = 1..Len(w)
        /\ \A b \in 1..m : w[b] = y[b]
        /\ \A b \in 1..Len(load) : w[m + b] = load[b]
    BY <1>1, JoinScripts
  <1> HIDE DEF w, m
  <1>3. /\ Len(w) \in Nat /\ Len(z) = Len(w) + Len(open) /\ Len(open) \in Nat /\ DOMAIN open = 1..Len(open)
        /\ DOMAIN z = 1..Len(z)
        /\ \A b \in 1..Len(w) : z[b] = w[b]
        /\ \A b \in 1..Len(open) : z[Len(w) + b] = open[b]
    BY <1>2, JoinScripts
  <1> HIDE DEF z
  <1>4. Len(empty) \in {0, 1}
    BY OneBatch, NoBatch
  <1>5. ASSUME NEW b \in DOMAIN z, NEW i \in DOMAIN z[b], z[b][i].verb \in {"load", "truncate"}
        PROVE  \/ b = n + 1 /\ Len(empty) = 1 /\ z[b] = empty[1]
               \/ b > m /\ b - m \in DOMAIN load /\ z[b] = load[b - m]
    <2>1. b > n
      <3>1. b <= n => b \in 1..Len(w) /\ b \in 1..m /\ z[b] = pre[b]
        BY <1>1, <1>2, <1>3
      <3> QED
        BY <1>1, <1>3, <1>5, <3>1 DEF Calm
    <2>2. b <= Len(w)
      <3>1. b > Len(w) => b - Len(w) \in 1..Len(open) /\ z[b] = open[b - Len(w)]
        BY <1>3
      <3> QED
        BY <1>3, <1>5, <3>1 DEF Calm
    <2>3. CASE b <= m
      <3>1. b = n + 1 /\ Len(empty) = 1
        BY <1>1, <1>3, <1>4, <2>1, <2>3
      <3>2. z[b] = empty[1]
        BY <1>1, <1>2, <1>3, <2>2, <2>3, <3>1
      <3> QED
        BY <3>1, <3>2
    <2>4. CASE b > m
      <3>1. b - m \in 1..Len(load) /\ z[b] = load[b - m]
        BY <1>2, <1>3, <2>2, <2>4
      <3> QED
        BY <1>2, <2>4, <3>1
    <2> QED
      BY <1>2, <1>3, <2>3, <2>4
  <1>6. Len(empty) = 1 =>
           /\ n + 1 \in DOMAIN z /\ z[n + 1] = empty[1] /\ Len(empty[1]) = 1
           /\ DOMAIN empty[1] = {1} /\ empty[1][1].verb = "truncate"
    <2>1. ASSUME Len(empty) = 1 PROVE n + 1 \in DOMAIN z /\ z[n + 1] = empty[1]
      <3>1. n + 1 \in 1..m /\ n + 1 \in 1..Len(w) /\ n + 1 \in 1..Len(z)
        BY <1>1, <1>2, <1>3, <2>1
      <3> QED
        BY <1>1, <1>2, <1>3, <2>1, <3>1
    <2>2. Len(empty) = 1 => Len(empty[1]) = 1 /\ DOMAIN empty[1] = {1} /\ empty[1][1].verb = "truncate"
      BY OneBatch, NoBatch
    <2> QED
      BY <2>1, <2>2
  <1>7. ASSUME NEW b, NEW i, IsAt(z, b, i, "truncate") PROVE b = n + 1 /\ Len(z[b]) = 1
    BY <1>5, <1>6, <1>7 DEF IsAt, LoadsAtMostOnce
  <1>8. ASSUME NEW b, NEW i, IsAt(z, b, i, "load")
        PROVE  /\ b > m /\ b - m \in DOMAIN load /\ z[b] = load[b - m]
               /\ IsAt(load, b - m, i, "load")
    BY <1>5, <1>6, <1>8 DEF IsAt
  <1>9. ASSUME NEW b, NEW i, NEW c, NEW j, IsAt(z, b, i, "load"), IsAt(z, c, j, "load")
        PROVE  b = c /\ i = j
    <2>1. b - m = c - m /\ i = j
      BY <1>8, <1>9 DEF LoadsAtMostOnce, IsAt
    <2>2. b \in Int /\ c \in Int
      BY <1>3, <1>9 DEF IsAt
    <2> QED
      BY <1>2, <2>1, <2>2
  <1>10. ASSUME NEW b, NEW i, NEW c, NEW j, IsAt(z, b, i, "truncate"), IsAt(z, c, j, "load")
         PROVE  b < c
    <2>1. b = n + 1 /\ c > m /\ Len(empty) = 1
      BY <1>5, <1>7, <1>8, <1>10 DEF IsAt, LoadsAtMostOnce
    <2>2. c \in Int
      BY <1>3, <1>10 DEF IsAt
    <2> QED
      BY <1>1, <1>2, <2>1, <2>2
  <1>11. \E c \in 1..n : Offers(z[c], UseTable(r))
    <2>1. PICK c \in DOMAIN pre : Offers(pre[c], UseTable(r))
      BY DEF Gives
    <2>2. c \in 1..n /\ c \in 1..m /\ c \in 1..Len(w) /\ z[c] = pre[c]
      BY <1>1, <1>2, <1>3
    <2> QED
      BY <2>1, <2>2
  <1>12. ASSUME NEW b, NEW i, IsAt(z, b, i, "load"), r.rerun, OwnsLoadTarget(r),
                ~r.names.spaced
         PROVE  \E t, j : IsAt(z, t, j, "truncate")
    <2>1. empty # <<>>
      BY <1>8, <1>12
    <2>2. Len(empty) = 1
      BY <2>1, OneBatch
    <2> QED
      BY <1>6, <2>2 DEF IsAt
  <1>13. ASSUME NEW b, NEW i, IsAt(z, b, i, "truncate")
         PROVE  /\ Len(z[b]) = 1
                /\ \A c, j : IsAt(z, c, j, "truncate") => c = b
                /\ \E c \in 1..(b - 1) : Offers(z[c], UseTable(r))
    <2>1. b = n + 1 /\ b - 1 = n
      BY <1>1, <1>7, <1>13
    <2> QED
      BY <1>7, <1>11, <1>13, <2>1
  <1>14. Prepared(r, z)
    BY <1>9, <1>10, <1>12, <1>13 DEF Prepared
  <1> QED
    BY <1>14 DEF z, w, y

\* Guarding moves no statement.
LEMMA GuardedIsPrepared ==
    ASSUME NEW r, NEW K, NEW x, Section(r, K, x), Prepared(r, x)
    PROVE  Prepared(r, GuardCreates(x))
  <1> DEFINE g == GuardCreates(x)
  <1>1. /\ DOMAIN g = DOMAIN x
        /\ \A b \in DOMAIN x : DOMAIN g[b] = DOMAIN x[b]
        /\ \A b \in DOMAIN x : \A i \in DOMAIN x[b] : g[b][i] = GuardStatement(x[b][i])
    BY DEF GuardCreates
  <1>2. ASSUME NEW b \in DOMAIN x, NEW i \in DOMAIN x[b]
        PROVE  g[b][i].verb = x[b][i].verb /\ g[b][i].kind = x[b][i].kind
               /\ g[b][i].name = x[b][i].name /\ g[b][i].def = x[b][i].def
    <2>1. OfRequest(r, x[b][i])
      BY DEF Section
    <2> QED
      BY <1>1, <2>1, GuardedIsTheSame
  <1>3. ASSUME NEW b \in DOMAIN x PROVE Len(g[b]) = Len(x[b])
    <2>1. PICK S : x \in Seq(Seq(S))
      BY DEF Section, IsScript
    <2>2. x[b] \in Seq(S)
      BY <2>1
    <2>3. g[b] = [i \in 1..Len(x[b]) |-> GuardStatement(x[b][i])]
      BY <2>2 DEF GuardCreates
    <2> DEFINE T == {GuardStatement(x[b][i]) : i \in 1..Len(x[b])}
    <2>4. g[b] \in [1..Len(x[b]) -> T]
      BY <2>3
    <2> HIDE DEF T, g
    <2>5. g[b] \in Seq(T)
      BY <2>2, <2>4
    <2> QED
      BY <2>2, <2>4, <2>5
  <1> HIDE DEF g
  <1>4. \A b, i, verb : IsAt(g, b, i, verb) <=> IsAt(x, b, i, verb)
    BY <1>1, <1>2 DEF IsAt
  <1>5. \A b \in DOMAIN x : \A u : Offers(g[b], u) <=> Offers(x[b], u)
    BY <1>1, <1>2 DEF Offers
  <1>6. ASSUME NEW b, NEW i, IsAt(x, b, i, "truncate")
        PROVE  /\ Len(g[b]) = 1
               /\ \A c, j : IsAt(x, c, j, "truncate") => c = b
               /\ \E c \in 1..(b - 1) : Offers(g[c], UseTable(r))
    <2>1. b \in DOMAIN x /\ Len(x[b]) = 1
      BY <1>6 DEF Prepared, IsAt
    <2>2. PICK c \in 1..(b - 1) : Offers(x[c], UseTable(r))
      BY <1>6 DEF Prepared
    <2>3. c \in DOMAIN x
      <3>1. PICK S : x \in Seq(Seq(S))
        BY DEF Section, IsScript
      <3> QED
        BY <2>1, <3>1
    <2> QED
      BY <1>3, <1>5, <1>6, <2>1, <2>2, <2>3 DEF Prepared
  <1>7. Prepared(r, g)
    BY <1>4, <1>6 DEF Prepared
  <1> QED
    BY <1>7 DEF g

\* _truncate_before_load puts the emptying between the target and its load.
LEMMA DocumentIsPrepared ==
    ASSUME NEW r, IsRequest(r)
    PROVE  Prepared(r, CompleteDdl(r))
  <1> DEFINE x1 == CredentialSetup(r)
             x2 == x1 \o ExternalFileFormat(r)
             x3 == x2 \o ExternalTable(r)
             x4 == x3 \o CreateTable(r)
             load == BulkInsert(r, ~Creates(CredentialSetup(r), "source", BulkSourceName(r)))
             empty == IF LoadsInto(load, r) THEN TruncateBeforeLoad(r) ELSE <<>>
             open == OpenRowset(r)
  <1>1. CASE r.wide
    BY <1>1 DEF CompleteDdl, Guidance, Prepared, IsAt
  <1>2. CASE ~r.wide
    <2>1. /\ CompleteDdl(r) = GuardCreates(Unguarded(r))
          /\ Unguarded(r) = ((x4 \o empty) \o load) \o open
      BY <1>2 DEF CompleteDdl, Unguarded
    <2>2. Section(r, Available(r), load) /\ Section(r, Available(r), open)
      BY <1>2, LoadFits, OpenRowsetFits, MoreFits DEF Available
    <2>3. LoadsAtMostOnce(load) /\ Calm(open)
      BY LoadIsOne, OpenRowsetIsCalm
    <2>4. IsScript(x1) /\ Calm(x1)
      BY SetupFits, SetupIsCalm DEF Section
    <2>5. IsScript(ExternalFileFormat(r)) /\ Calm(ExternalFileFormat(r))
      BY FileFormatFits, DefiningIsCalm DEF Section
    <2>6. IsScript(ExternalTable(r)) /\ Calm(ExternalTable(r))
      <3> DEFINE K == {UseSource(r), Use("format", FormatName(r), FormatType[r.type])}
      <3>1. UseSource(r) \in K /\ Use("format", FormatName(r), FormatType[r.type]) \in K
        OBVIOUS
      <3> HIDE DEF K
      <3>2. Section(r, K, ExternalTable(r))
        BY <3>1, ExternalTableFits
      <3> QED
        BY <3>2, DefiningIsCalm DEF Section
    <2>7. IsScript(CreateTable(r)) /\ Calm(CreateTable(r)) /\ Gives(CreateTable(r), UseTable(r))
      BY <1>2, CreateTableFits, DefiningIsCalm DEF Section
    <2>8. IsScript(x2) /\ Calm(x2)
      BY <2>4, <2>5, JoinScripts, JoinCalm
    <2>9. IsScript(x3) /\ Calm(x3)
      BY <2>6, <2>8, JoinScripts, JoinCalm
    <2> HIDE DEF x3
    <2>10. IsScript(x4) /\ Calm(x4) /\ Gives(x4, UseTable(r))
      BY <2>7, <2>9, JoinScripts, JoinCalm, JoinGives
    <2>11. empty = <<>> \/ (\E s : s.verb = "truncate" /\ empty = <<<<s>>>>)
      <3> DEFINE s == [Statement("truncate", "table", TableName(r), {}, Undefined, FALSE)
                       EXCEPT !.guarded = TRUE]
      <3>1. s.verb = "truncate"
        BY DEF Statement
      <3>2. empty \in {<<>>, <<<<s>>>>}
        BY DEF TruncateBeforeLoad
      <3> HIDE DEF s, empty
      <3> QED
        BY <3>1, <3>2
    <2>12. ASSUME NEW b, NEW i, IsAt(load, b, i, "load"), r.rerun, OwnsLoadTarget(r),
                  ~r.names.spaced
           PROVE  empty # <<>>
      <3>1. OfRequest(r, load[b][i])
        BY <2>2, <2>12 DEF Section, IsAt
      <3>2. load[b][i].name = TableName(r)
        BY <2>12, <3>1 DEF OfRequest, IsAt
      <3> HIDE DEF load
      <3>3. LoadsInto(load, r)
        BY <2>12, <3>2 DEF LoadsInto, IsAt
      <3> DEFINE s == [Statement("truncate", "table", TableName(r), {}, Undefined, FALSE)
                       EXCEPT !.guarded = TRUE]
      <3>4. empty = <<<<s>>>>
        BY <2>12, <3>3 DEF TruncateBeforeLoad
      <3> HIDE DEF s, empty
      <3> QED
        BY <3>4, OneBatch, NoBatch
    <2>13. IsScript(empty)
      BY <2>11, NoBatch, OneBatch
    <2>14. IsScript(load) /\ IsScript(open)
      BY <2>2 DEF Section
    <2> HIDE DEF x4, load, empty, open
    <2>15. Prepared(r, ((x4 \o empty) \o load) \o open)
      BY <2>3, <2>10, <2>11, <2>12, <2>13, <2>14, FourSections
    <2>16. Section(r, Missing(r), Unguarded(r))
      BY <1>2, SectionsFit
    <2> QED
      BY <2>1, <2>15, <2>16, GuardedIsPrepared
  <1> QED
    BY <1>1, <1>2

\* A staging table is not the target it is named after.
LEMMA StagingDiffers ==
    ASSUME NEW r, IsRequest(r)
    PROVE  StagingTableName(r) # TableName(r)
  <1> DEFINE n == TableName(r)[2]
  <1>1. PICK S : n \in Seq(S)
    <2>1. <<r.file>> \in Seq({r.file})
      OBVIOUS
    <2>2. \E S : r.names.table \in Seq(S)
      BY DEF IsRequest, IsName
    <2> QED
      BY <2>1, <2>2 DEF TableName, Named
  <1>2. StagingTableName(r)[2] = <<"stg_">> \o n
    BY DEF StagingTableName
  <1> HIDE DEF n
  <1>3. <<"stg_">> \o n # n
    <2> DEFINE T == S \cup {"stg_"}
    <2>1. n \in Seq(T) /\ <<"stg_">> \in Seq(T)
      BY <1>1
    <2>2. Len(<<"stg_">> \o n) = Len(n) + 1 /\ Len(n) \in Nat
      BY <2>1
    <2> QED
      BY <2>2
  <1> QED
    BY <1>2, <1>3 DEF n

-----------------------------------------------------------------------------
(* The sections that stand alone.                                          *)

\* A local file of SQL Server is read where it lies, with nothing created before.
LEMMA LocalRowsetFits ==
    ASSUME NEW r, r.platform \in SqlServer, r.url = NoUrl, r.type = "csv", ~r.wide
    PROVE  Section(r, {}, OpenRowset(r))
  <1>1. StorageUrlKind(r.url) = "local" /\ Compatible(r)
    <2>1. r.url.scheme = "none"
      BY DEF NoUrl
    <2>2. StorageUrlKind(r.url) = "local"
      BY <2>1 DEF StorageUrlKind, BlobSchemes, DfsSchemes, Http
    <2> QED
      BY <2>2 DEF Compatible, StorageUrlSupported
  <1>2. OpenRowset(r) = OpenRowsetLocal(r)
    BY <1>1 DEF OpenRowset, OpenRowset2019, SqlServer, AzureSql
  <1>3. OpenRowsetLocal(r) = One(<<Select({}), Select({})>>)
    BY DEF OpenRowsetLocal
  <1> QED
    BY <1>2, <1>3, TwoSelectsFit

\* FOR JSON reads the target table.
LEMMA ForJsonFits ==
    ASSUME NEW r PROVE Section(r, {UseTable(r)}, ForJson(r))
  BY OneSelectFits, NothingFits DEF ForJson, Guidance

\* The JSON functions read through the sources, insert into the target and
\* create nothing.
LEMMA JsonFunctionsFit ==
    ASSUME NEW r
    PROVE  /\ Section(r, {UseTable(r), UseSource(r), UseBulkSource(r)}, JsonFunctions(r))
           /\ \A kind, name : ~Creates(JsonFunctions(r), kind, name)
  <1> DEFINE K == {UseTable(r), UseSource(r), UseBulkSource(r)}
             hole == (r.platform \notin SqlServer \/ r.url # NoUrl) /\ r.url = NoUrl
             Parse(uses) == Statement("select", "rows", NoName, uses, Undefined, hole)
             read == IF ~(r.platform \notin SqlServer \/ r.url # NoUrl) THEN {}
                     ELSE IF ~r.lines /\ BulkSourceSupported(r) THEN {UseBulkSource(r)}
                     ELSE {UseSource(r)}
             first == IF (r.platform \notin SqlServer \/ r.url # NoUrl) /\ r.lines
                      THEN <<Parse(read)>> ELSE <<>>
             again == IF r.platform \notin SqlServer THEN <<Parse({UseSource(r)})>> ELSE <<>>
             load == IF TypedProjection(r) THEN <<Load(r, {}, FALSE)>> ELSE <<>>
             batch == ((first \o <<Parse(read)>>) \o again) \o load
             S == {s \in {Parse(read), Parse({UseSource(r)}), Load(r, {}, FALSE)} : TRUE}
  <1>1. JsonFunctions(r) \in {<<>>, One(batch)}
    BY DEF JsonFunctions, Guidance
  <1>2. \A uses \in {read, {UseSource(r)}} :
           OfRequest(r, Parse(uses)) /\ Parse(uses).verb = "select" /\ Parse(uses).uses \subseteq K
    BY DEF Statement, OfRequest, IsStatement, Makes
  <1>3. /\ OfRequest(r, Load(r, {}, FALSE)) /\ Load(r, {}, FALSE).verb = "load"
        /\ Load(r, {}, FALSE).uses \subseteq K
    <2>1. Load(r, {}, FALSE).uses = {} \cup {UseTable(r)}
      BY LoadStatement
    <2> QED
      BY <2>1, LoadStatement
  <1>4. \A s \in S : OfRequest(r, s) /\ s.verb # "create" /\ s.uses \subseteq K
    BY <1>2, <1>3
  <1>5. /\ first \in Seq(S) /\ <<Parse(read)>> \in Seq(S) /\ again \in Seq(S) /\ load \in Seq(S)
        /\ Len(<<Parse(read)>>) = 1
    <2>1. /\ Parse(read) \in S /\ Parse({UseSource(r)}) \in S /\ Load(r, {}, FALSE) \in S
      OBVIOUS
    <2> HIDE DEF S, Parse, read
    <2>3. ASSUME NEW s \in S PROVE <<s>> \in Seq(S) /\ Len(<<s>>) = 1
      OBVIOUS
    <2>4. <<>> \in Seq(S)
      OBVIOUS
    <2>2. <<Parse(read)>> \in Seq(S) /\ <<Parse({UseSource(r)})>> \in Seq(S)
          /\ <<Load(r, {}, FALSE)>> \in Seq(S) /\ <<>> \in Seq(S) /\ Len(<<Parse(read)>>) = 1
      BY <2>1, <2>3, <2>4
    <2> QED
      BY <2>2
  <1> HIDE DEF S, first, again, load, read, K, Parse
  <1>6. batch \in Seq(S) /\ batch # <<>>
    <2>1. /\ first \o <<Parse(read)>> \in Seq(S) /\ Len(first \o <<Parse(read)>>) > 0
      BY <1>5
    <2>2. /\ (first \o <<Parse(read)>>) \o again \in Seq(S)
          /\ Len((first \o <<Parse(read)>>) \o again) > 0
      BY <1>5, <2>1
    <2>3. batch \in Seq(S) /\ Len(batch) > 0
      BY <1>5, <2>2
    <2> QED
      BY <2>3
  <1> HIDE DEF batch
  <1>7. One(batch) = <<batch>>
    BY <1>6 DEF One
  <1>8. Section(r, K, <<batch>>) /\ \A kind, name : ~Creates(<<batch>>, kind, name)
    <2>1. <<batch>> \in Seq(Seq(S)) /\ DOMAIN <<batch>> = {1} /\ <<batch>>[1] = batch
      BY <1>6
    <2>2. \A i \in DOMAIN batch : batch[i] \in S
      BY <1>6
    <2>3. IsScript(<<batch>>)
      BY <2>1 DEF IsScript
    <2> QED
      BY <1>4, <1>6, <2>1, <2>2, <2>3 DEF Section, Creates
  <1>9. \A kind, name : ~Creates(<<>>, kind, name)
    BY NoBatch DEF Creates
  <1> QED
    BY <1>1, <1>7, <1>8, <1>9, NothingFits DEF K

-----------------------------------------------------------------------------
(* What a section creates, and that it creates nothing twice.              *)

CreatesOnce(x) ==
    \A b \in DOMAIN x : \A c \in DOMAIN x : \A i \in DOMAIN x[b] : \A j \in DOMAIN x[c] :
        /\ x[b][i].verb = "create" /\ x[c][j].verb = "create"
        /\ x[b][i].kind = x[c][j].kind /\ x[b][i].name = x[c][j].name
        => b = c /\ i = j

\* Sections that create different objects.
LEMMA JoinOnce ==
    ASSUME NEW x, NEW y, IsScript(x), IsScript(y), CreatesOnce(x), CreatesOnce(y),
           \A kind, name : ~(Creates(x, kind, name) /\ Creates(y, kind, name))
    PROVE  /\ CreatesOnce(x \o y)
           /\ \A kind, name : Creates(x \o y, kind, name)
                                 => Creates(x, kind, name) \/ Creates(y, kind, name)
  <1> DEFINE z == x \o y
  <1>1. /\ DOMAIN z = 1..(Len(x) + Len(y))
        /\ \A b \in 1..Len(x) : z[b] = x[b]
        /\ \A b \in 1..Len(y) : z[Len(x) + b] = y[b]
        /\ Len(x) \in Nat /\ Len(y) \in Nat /\ DOMAIN x = 1..Len(x) /\ DOMAIN y = 1..Len(y)
    BY JoinScripts
  <1> HIDE DEF z
  <1>2. ASSUME NEW b \in DOMAIN z
        PROVE  \/ b \in DOMAIN x /\ z[b] = x[b]
               \/ b - Len(x) \in DOMAIN y /\ z[b] = y[b - Len(x)]
    <2>1. CASE b <= Len(x)
      BY <1>1, <2>1
    <2>2. CASE b > Len(x)
      <3>1. b - Len(x) \in 1..Len(y) /\ Len(x) + (b - Len(x)) = b
        BY <1>1, <2>2
      <3> QED
        BY <1>1, <3>1
    <2> QED
      BY <1>1, <2>1, <2>2
  <1>3. ASSUME NEW b \in DOMAIN z, NEW i \in DOMAIN z[b], z[b][i].verb = "create"
        PROVE  \/ /\ b \in DOMAIN x /\ z[b] = x[b]
                  /\ Creates(x, z[b][i].kind, z[b][i].name)
               \/ /\ b - Len(x) \in DOMAIN y /\ z[b] = y[b - Len(x)]
                  /\ Creates(y, z[b][i].kind, z[b][i].name)
    BY <1>2, <1>3 DEF Creates
  <1>4. ASSUME NEW b \in DOMAIN z, NEW c \in DOMAIN z, NEW i \in DOMAIN z[b], NEW j \in DOMAIN z[c],
               z[b][i].verb = "create", z[c][j].verb = "create",
               z[b][i].kind = z[c][j].kind, z[b][i].name = z[c][j].name
        PROVE  b = c /\ i = j
    <2>1. CASE b \in DOMAIN x /\ z[b] = x[b] /\ Creates(x, z[b][i].kind, z[b][i].name)
      <3>1. c \in DOMAIN x /\ z[c] = x[c]
        BY <1>3, <1>4, <2>1
      <3> QED
        BY <1>4, <2>1, <3>1 DEF CreatesOnce
    <2>2. CASE /\ b - Len(x) \in DOMAIN y /\ z[b] = y[b - Len(x)]
               /\ Creates(y, z[b][i].kind, z[b][i].name)
      <3>1. c - Len(x) \in DOMAIN y /\ z[c] = y[c - Len(x)]
        BY <1>3, <1>4, <2>2
      <3>2. b - Len(x) = c - Len(x) /\ i = j
        BY <1>4, <2>2, <3>1 DEF CreatesOnce
      <3> QED
        BY <1>1, <3>2
    <2> QED
      BY <1>3, <1>4, <2>1, <2>2
  <1>5. \A kind, name : Creates(z, kind, name) => Creates(x, kind, name) \/ Creates(y, kind, name)
    BY <1>3 DEF Creates
  <1> QED
    BY <1>4, <1>5 DEF CreatesOnce, z

\* A section of one statement, of two that create nothing, and of none.
LEMMA OneOnce ==
    ASSUME NEW s
    PROVE  /\ CreatesOnce(<<<<s>>>>)
           /\ \A kind, name : Creates(<<<<s>>>>, kind, name) =>
                 s.verb = "create" /\ s.kind = kind /\ s.name = name
  BY OneBatch DEF CreatesOnce, Creates

LEMMA NothingOnce == CreatesOnce(<<>>) /\ \A kind, name : ~Creates(<<>>, kind, name)
  BY NoBatch DEF CreatesOnce, Creates

\* A credential unless the storage is public, and a source.
LEMMA CredentialOnce ==
    ASSUME NEW name, NEW method
    PROVE  /\ CreatesOnce(CredentialDdl(name, method))
           /\ \A k, n : Creates(CredentialDdl(name, method), k, n) => k = "credential" /\ n = name
  <1> DEFINE s == Create("credential", name, {}, [type |-> method], method \notin SecretFree)
  <1>1. s.kind = "credential" /\ s.name = name
    BY DEF Create, Statement
  <1>2. CredentialDdl(name, method) \in {<<>>, <<<<s>>>>}
    BY DEF CredentialDdl
  <1> HIDE DEF s
  <1> QED
    BY <1>1, <1>2, OneOnce, NothingOnce

LEMMA SourceOnce ==
    ASSUME NEW name, NEW type, NEW location, NEW uses
    PROVE  /\ CreatesOnce(SourceDdl(name, type, location, uses))
           /\ \A k, n : Creates(SourceDdl(name, type, location, uses), k, n)
                           => k = "source" /\ n = name
  <1> DEFINE s == Create("source", name, uses, [type |-> type, location |-> location],
                         location.root = Unknown)
  <1>1. s.kind = "source" /\ s.name = name
    BY DEF Create, Statement
  <1>2. SourceDdl(name, type, location, uses) = <<<<s>>>>
    BY DEF SourceDdl
  <1> HIDE DEF s
  <1> QED
    BY <1>1, <1>2, OneOnce

LEMMA BulkSourceOnce ==
    ASSUME NEW r
    PROVE  /\ CreatesOnce(BulkSourceDdl(r))
           /\ \A k, n : Creates(BulkSourceDdl(r), k, n) =>
                 \/ k = "credential" /\ n = BulkCredentialName(r)
                 \/ k = "source" /\ n = BulkSourceName(r)
  <1> DEFINE c == CredentialDdl(BulkCredentialName(r), BulkAuth(r))
             s == SourceDdl(BulkSourceName(r), "blob", AzureBulkLocation(r.url),
                            CredentialClause(BulkCredentialName(r), BulkAuth(r)))
  <1>1. BulkSourceDdl(r) = IF ~BulkSourceSupported(r) THEN <<>> ELSE c \o s
    BY DEF BulkSourceDdl, Guidance
  <1>2. /\ CreatesOnce(c) /\ \A k, n : Creates(c, k, n) => k = "credential" /\ n = BulkCredentialName(r)
        /\ CreatesOnce(s) /\ \A k, n : Creates(s, k, n) => k = "source" /\ n = BulkSourceName(r)
        /\ IsScript(c) /\ IsScript(s)
    BY CredentialOnce, SourceOnce, CreatingIsCalm
  <1> HIDE DEF c, s
  <1>3. CreatesOnce(c \o s) /\ \A k, n : Creates(c \o s, k, n) => Creates(c, k, n) \/ Creates(s, k, n)
    BY <1>2, JoinOnce
  <1> QED
    BY <1>1, <1>2, <1>3, NothingOnce

\* What credential_setup creates outside Fabric: a master key only where the
\* method needs a secret, and two names apart for each kind.
LEMMA SetupOnce ==
    ASSUME NEW r, IsRequest(r), r.platform # "fabric_sql_db"
    PROVE  /\ CreatesOnce(CredentialSetup(r))
           /\ \A k, n : Creates(CredentialSetup(r), k, n) =>
                 \/ k = "masterkey" /\ StorageAuth(r) \notin SecretFree
                 \/ k = "credential" /\ n \in {CredentialName(r), BulkCredentialName(r)}
                 \/ k = "source" /\ n \in {SourceName(r), BulkSourceName(r)}
  <1> DEFINE key == [Create("masterkey", NoName, {}, Undefined, TRUE) EXCEPT !.guarded = TRUE]
             m == IF StorageAuth(r) \in SecretFree THEN <<>> ELSE <<<<key>>>>
             c == CredentialDdl(CredentialName(r), StorageAuth(r))
             s == SourceDdl(SourceName(r), VirtualType(r.platform), ExternalSourceLocation(r),
                            CredentialClause(CredentialName(r), StorageAuth(r)))
             b == IF r.type \in {"csv", "text", "json"} THEN BulkSourceDdl(r) ELSE <<>>
  <1>1. CredentialSetup(r) \in {<<>>, ((m \o c) \o s) \o b}
    BY DEF CredentialSetup, Guidance
  <1>2. /\ CreatesOnce(m) /\ IsScript(m)
        /\ \A k, n : Creates(m, k, n) => k = "masterkey" /\ StorageAuth(r) \notin SecretFree
    <2>1. key.kind = "masterkey"
      BY DEF Create, Statement
    <2> HIDE DEF key
    <2> QED
      BY <2>1, OneOnce, NothingOnce, OneBatch, NoBatch
  <1>3. /\ CreatesOnce(c) /\ \A k, n : Creates(c, k, n) => k = "credential" /\ n = CredentialName(r)
        /\ CreatesOnce(s) /\ \A k, n : Creates(s, k, n) => k = "source" /\ n = SourceName(r)
        /\ IsScript(c) /\ IsScript(s)
    BY CredentialOnce, SourceOnce, CreatingIsCalm
  <1>4. /\ CreatesOnce(b) /\ IsScript(b)
        /\ \A k, n : Creates(b, k, n) =>
              \/ k = "credential" /\ n = BulkCredentialName(r)
              \/ k = "source" /\ n = BulkSourceName(r)
    BY BulkSourceOnce, BulkSourceIsCalm, NothingOnce, NoBatch
  <1>5. BulkSourceName(r) # SourceName(r) /\ BulkCredentialName(r) # CredentialName(r)
    BY DerivedNamesDiffer
  <1> HIDE DEF m, c, s, b
  <1>6. /\ CreatesOnce(m \o c) /\ IsScript(m \o c)
        /\ \A k, n : Creates(m \o c, k, n) => Creates(m, k, n) \/ Creates(c, k, n)
    BY <1>2, <1>3, JoinOnce, JoinScripts
  <1>7. /\ CreatesOnce((m \o c) \o s) /\ IsScript((m \o c) \o s)
        /\ \A k, n : Creates((m \o c) \o s, k, n) => Creates(m \o c, k, n) \/ Creates(s, k, n)
    <2>1. \A k, n : ~(Creates(m \o c, k, n) /\ Creates(s, k, n))
      BY <1>2, <1>3, <1>6
    <2> QED
      BY <1>3, <1>6, <2>1, JoinOnce, JoinScripts
  <1>8. /\ CreatesOnce(((m \o c) \o s) \o b)
        /\ \A k, n : Creates(((m \o c) \o s) \o b, k, n) => Creates((m \o c) \o s, k, n) \/ Creates(b, k, n)
    <2>1. \A k, n : ~(Creates((m \o c) \o s, k, n) /\ Creates(b, k, n))
      BY <1>2, <1>3, <1>4, <1>5, <1>6, <1>7
    <2> QED
      BY <1>4, <1>7, <2>1, JoinOnce
  <1> DEFINE z == ((m \o c) \o s) \o b
  <1>9. \A k, n : Creates(z, k, n) =>
           \/ k = "masterkey" /\ StorageAuth(r) \notin SecretFree
           \/ k = "credential" /\ n \in {CredentialName(r), BulkCredentialName(r)}
           \/ k = "source" /\ n \in {SourceName(r), BulkSourceName(r)}
    BY <1>2, <1>3, <1>4, <1>6, <1>7, <1>8
  <1>10. CreatesOnce(z)
    BY <1>8
  <1> HIDE DEF z
  <1>11. CASE CredentialSetup(r) = <<>>
    BY <1>11, NothingOnce
  <1>12. CASE CredentialSetup(r) = z
    BY <1>9, <1>10, <1>12
  <1>13. CredentialSetup(r) \in {<<>>, z}
    BY <1>1 DEF z
  <1> QED
    BY <1>11, <1>12, <1>13

CreatesNothing(x) == \A kind, name : ~Creates(x, kind, name)

\* A format, and a table.
LEMMA DefiningOnce ==
    ASSUME NEW r
    PROVE  /\ CreatesOnce(ExternalFileFormat(r)) /\ CreatesOnce(ExternalTable(r))
           /\ CreatesOnce(CreateTable(r))
           /\ \A k, n : Creates(ExternalFileFormat(r), k, n) => k = "format"
           /\ \A k, n : Creates(ExternalTable(r), k, n) => k = "table"
           /\ \A k, n : Creates(CreateTable(r), k, n) => k = "table"
  <1>1. ASSUME NEW kind, NEW name, NEW uses, NEW def
        PROVE  LET x == One(<<Create(kind, name, uses, def, FALSE)>>)
               IN  CreatesOnce(x) /\ \A k, n : Creates(x, k, n) => k = kind
    <2> DEFINE s == Create(kind, name, uses, def, FALSE)
    <2>1. s.kind = kind
      BY DEF Create, Statement
    <2> HIDE DEF s
    <2>2. CreatesOnce(<<<<s>>>>) /\ \A k, n : Creates(<<<<s>>>>, k, n) => k = kind
      BY <2>1, OneOnce
    <2> QED
      BY <2>2, BatchesOf DEF s
  <1>2. CreatesOnce(Guidance) /\ \A k, n : ~Creates(Guidance, k, n)
    BY NothingOnce DEF Guidance
  <1> QED
    BY <1>1, <1>2 DEF ExternalFileFormat, ExternalTable, CreateTable

\* Batches of statements that create nothing.
LEMMA NothingCreated ==
    /\ CreatesNothing(<<>>)
    /\ \A s : s.verb # "create" => CreatesNothing(<<<<s>>>>)
    /\ \A s, t : s.verb # "create" /\ t.verb # "create" => CreatesNothing(<<<<s, t>>>>)
    /\ \A x : CreatesNothing(x) => CreatesOnce(x)
  <1>1. ASSUME NEW s, s.verb # "create" PROVE CreatesNothing(<<<<s>>>>)
    BY <1>1, OneOnce DEF CreatesNothing
  <1>2. ASSUME NEW s, NEW t, s.verb # "create", t.verb # "create"
        PROVE  CreatesNothing(<<<<s, t>>>>)
    BY <1>2, TwoInABatch DEF CreatesNothing, Creates
  <1>3. ASSUME NEW x, CreatesNothing(x) PROVE CreatesOnce(x)
    BY <1>3 DEF CreatesNothing, CreatesOnce, Creates
  <1> QED
    BY <1>1, <1>2, <1>3, NothingOnce DEF CreatesNothing

\* Queries create nothing,
LEMMA QueriesCreateNothing ==
    ASSUME NEW r
    PROVE  /\ CreatesNothing(OpenRowset(r)) /\ CreatesNothing(ForJson(r))
           /\ \A u : CreatesNothing(One(<<Select(u)>>))
  <1>1. \A u : Select(u).verb = "select"
    BY DEF Select, Statement
  <1>2. \A u : CreatesNothing(One(<<Select(u)>>))
    BY <1>1, NothingCreated, BatchesOf
  <1>3. ASSUME NEW u, NEW v PROVE CreatesNothing(One(<<Select(u), Select(v)>>))
    <2> DEFINE s == Select(u)
               t == Select(v)
    <2>1. s.verb # "create" /\ t.verb # "create"
      BY <1>1
    <2> HIDE DEF s, t
    <2>2. CreatesNothing(<<<<s, t>>>>)
      BY <2>1, NothingCreated
    <2> QED
      BY <2>2, BatchesOf DEF s, t
  <1>4. CreatesNothing(Guidance)
    BY NothingCreated DEF Guidance
  <1>5. CreatesNothing(OpenRowsetLocal(r)) /\ CreatesNothing(OpenRowsetFabric(r))
    BY <1>2, <1>3, <1>4 DEF OpenRowsetLocal, OpenRowsetFabric
  <1>6. CreatesNothing(OpenRowset2019(r))
    BY <1>2, <1>4, <1>5 DEF OpenRowset2019, OpenRowsetBlobStorageBulk
  <1>7. CreatesNothing(OpenRowsetAzure(r))
    BY <1>2, <1>3, <1>4 DEF OpenRowsetAzure
  <1>8. CreatesNothing(OpenRowsetObjectStorage(r))
    BY <1>2, <1>3, <1>4 DEF OpenRowsetObjectStorage
  <1>9. CreatesNothing(OpenRowset(r))
    BY <1>4, <1>5, <1>6, <1>7, <1>8 DEF OpenRowset
  <1> QED
    BY <1>2, <1>4, <1>9 DEF ForJson

\* nor does a load whose sources are there already.
LEMMA LoadCreatesNothing ==
    ASSUME NEW r, r.platform \in BulkInsertPlatforms
    PROVE  CreatesNothing(BulkInsert(r, FALSE))
  <1>1. \A u, h : Load(r, u, h).verb = "load"
    BY DEF Load, Statement
  <1>2. \A u : Select(u).verb = "select"
    BY DEF Select, Statement
  <1>3. ASSUME NEW u, NEW h, NEW v PROVE CreatesNothing(One(<<Load(r, u, h), Select(v)>>))
    <2> DEFINE s == Load(r, u, h)
               t == Select(v)
    <2>1. s.verb # "create" /\ t.verb # "create"
      BY <1>1, <1>2
    <2> HIDE DEF s, t
    <2>2. CreatesNothing(<<<<s, t>>>>)
      BY <2>1, NothingCreated
    <2> QED
      BY <2>2, BatchesOf DEF s, t
  <1>4. CreatesNothing(Guidance)
    BY NothingCreated DEF Guidance
  <1> DEFINE l == One(<<Load(r, {UseBulkSource(r)}, FALSE), Select({UseTable(r)})>>)
  <1>5. <<>> \o l = l
    <2>1. l = <<<<Load(r, {UseBulkSource(r)}, FALSE), Select({UseTable(r)})>>>>
      BY BatchesOf
    <2>2. \E S : l \in Seq(S)
      <3> DEFINE s == Load(r, {UseBulkSource(r)}, FALSE)
                 t == Select({UseTable(r)})
      <3> HIDE DEF s, t
      <3>1. IsScript(<<<<s, t>>>>)
        BY TwoInABatch
      <3> QED
        BY <2>1, <3>1 DEF IsScript, s, t
    <2> HIDE DEF l
    <2> QED
      BY <2>2
  <1>6. CreatesNothing(<<>> \o l)
    BY <1>3, <1>5
  <1> HIDE DEF l
  <1>7. \/ BulkInsert(r, FALSE) = Guidance
        \/ BulkInsert(r, FALSE) = <<>> \o l
        \/ BulkInsert(r, FALSE) = One(<<Load(r, {}, StorageUrlKind(r.url) # "local"), Select({UseTable(r)})>>)
    BY DEF BulkInsert, l
  <1> QED
    BY <1>3, <1>4, <1>6, <1>7

=============================================================================
