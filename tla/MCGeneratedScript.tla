-------------------------- MODULE MCGeneratedScript --------------------------
(***************************************************************************)
(* The requests the scripts are generated from: every platform with every  *)
(* kind of storage and format, the names left to the generator or given,   *)
(* columns at the lengths where the type changes, and exports of two files.*)
(***************************************************************************)
EXTENDS GeneratedScript

MCNoNames ==
    [schema |-> "dbo", spaced |-> FALSE, table |-> NoName, external |-> NoName,
     source |-> NoName, format |-> NoName, credential |-> NoName]

MCOwnNames ==
    [schema |-> "own", spaced |-> FALSE, table |-> <<"t">>, external |-> <<"e">>,
     source |-> <<"s">>, format |-> <<"f">>, credential |-> <<"c">>]

MCUrl(scheme, host) == [scheme |-> scheme, host |-> host, root |-> "here"]

MCUrls ==
    {NoUrl, MCUrl("https", "blob"), MCUrl("https", "dfs"), MCUrl("abs", "blob"),
     MCUrl("adls", "dfs"), MCUrl("s3", "bucket"), MCUrl("azure", "none"),
     MCUrl("abfss", "onelake"), MCUrl("https", "onelake_root")}

MCType(name) == [name |-> name]

MCText(length) == [type |-> MCType("string"), length |-> length, int64 |-> FALSE]

MCDecimal(precision, below) ==
    [type |-> [name |-> "decimal", precision |-> precision, scale |-> 2, below |-> below],
     length |-> NoLength, int64 |-> FALSE]

MCPlain ==
    {[type |-> MCType("int64"), length |-> NoLength, int64 |-> FALSE],
     [type |-> MCType("bool"), length |-> NoLength, int64 |-> FALSE]}

MCEdges ==
    {MCText(n) : n \in {0, 200, 201, 249, 250, 3949, 3950, 3999, 4000, 4001, 100000, NoLength}}
        \cup {MCDecimal(p, b) : p \in {1, 37, 38, 39}, b \in {0, 1}}

MCFile(platform, type, url, auth, columns) ==
    [platform |-> platform, type |-> type, url |-> url, auth |-> auth, wide |-> FALSE,
     encoding |-> "utf8", columns |-> columns, lines |-> FALSE, sampled |-> FALSE,
     unsafe |-> FALSE, options |-> "semicolon", names |-> MCNoNames, rerun |-> FALSE,
     file |-> "orders"]

MCFiles ==
    {MCFile(p, t, u, a, MCPlain) :
        p \in PLATFORMS, t \in FileTypes, u \in MCUrls, a \in {"public", "sas"}}

MCVariants ==
    UNION {{[f EXCEPT !.names = MCOwnNames, !.rerun = TRUE],
            [f EXCEPT !.names = [MCOwnNames EXCEPT !.spaced = TRUE], !.rerun = TRUE],
            [f EXCEPT !.names.table = <<"t">>, !.rerun = TRUE],
            [f EXCEPT !.names.schema = "own", !.rerun = TRUE],
            [f EXCEPT !.encoding = "cp932"],
            [f EXCEPT !.lines = TRUE],
            [f EXCEPT !.columns = MCEdges],
            [f EXCEPT !.columns = MCEdges, !.sampled = TRUE]} :
        f \in {MCFile(p, t, u, "sas", MCPlain) :
                  p \in PLATFORMS, t \in {"csv", "json", "parquet"},
                  u \in {NoUrl, MCUrl("https", "blob")}}}

\* Two files of one export lie in one container and share the options.
MCPairs ==
    {<<[MCFile(p, t, u, "sas", MCPlain) EXCEPT !.names.table = <<"a">>],
       [MCFile(p, v, u, "sas", MCPlain) EXCEPT !.names.table = <<"b">>]>> :
        p \in PLATFORMS, t \in {"csv", "json", "parquet"}, v \in {"csv", "json", "parquet"},
        u \in {MCUrl("https", "blob"), MCUrl("s3", "bucket")}}

MCDocuments ==
    {d \in {<<r>> : r \in MCFiles \cup MCVariants} \cup MCPairs : Complete(d)}

ASSUME MCDocumentsAssumption == \A d \in MCDocuments : Agreeing(d) /\ Apart(d)

=============================================================================
