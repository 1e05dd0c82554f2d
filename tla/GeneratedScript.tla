--------------------------- MODULE GeneratedScript ---------------------------
(***************************************************************************)
(* A script of SqlGenerator running on a database: the complete document   *)
(* of one file (generate_complete_ddl) or the export of several            *)
(* (export_results), run from the top, cut off anywhere, and run again.    *)
(*                                                                         *)
(* The database and the client are external to the code.  After a refused  *)
(* statement the batch goes on or ends, as the error has it, and the       *)
(* client sends the next one.  Placeholders are filled in before the       *)
(* script is run.                                                          *)
(***************************************************************************)
EXTENDS SqlGenerator, Database

CONSTANTS
    Documents,     \* the sequences of requests one script may be made of
    MaxRuns        \* bound: how often the script is run

ASSUME MaxRunsAssumption == MaxRuns \in Nat \ {0}

ASSUME DocumentsAssumption ==
    \A d \in Documents :
        /\ d # <<>> /\ d \in Seq(Range(d))
        /\ \A k \in DOMAIN d : IsRequest(d[k])

VARIABLES
    requests,      \* what the script was generated from
    script,        \* per request, the batches that run
    at,            \* the statement to run next: file, batch, statement
    runs,          \* runs begun
    catalog,       \* the objects that exist
    rows,          \* per table, what was loaded into it
    refused        \* the statements the database has refused

vars == <<requests, script, at, runs, catalog, rows, refused>>

Start == [file |-> 1, batch |-> 1, statement |-> 1]

\* Rows are noted by the file that loaded them; these were there before.
Theirs == 0

-----------------------------------------------------------------------------

Running == at.file <= Len(script)

AtBatch == Running /\ at.batch <= Len(script[at.file])

Batch == script[at.file][at.batch]

InBatch == AtBatch /\ Batch # Comment

Current == Batch[at.statement]

Request == requests[at.file]

NextFile == [file |-> at.file + 1, batch |-> 1, statement |-> 1]

NextBatch == [at EXCEPT !.batch = @ + 1, !.statement = 1]

NextStatement ==
    IF at.statement < Len(Batch)
    THEN [at EXCEPT !.statement = @ + 1] ELSE NextBatch

\* A target table may be somebody else's, with rows in it.
Init ==
    /\ requests \in Documents
    /\ script = ExportResults(requests)
    /\ at = Start
    /\ runs = 1
    /\ catalog \in {{}, {Object("table", TableName(requests[1]), [type |-> "rows"])}}
    /\ rows = [t \in {o.name : o \in catalog} |-> <<Theirs>>]
    /\ refused = {}

Loaded(s) ==
    [t \in DOMAIN rows \cup {o.name : o \in {n \in Created(catalog, s) : n.def.type = "rows"}} |->
        LET old == IF t \in DOMAIN rows THEN rows[t] ELSE <<>>
        IN  IF t # s.name THEN old
            ELSE IF s.verb = "truncate" THEN <<>>
            ELSE IF s.verb \in {"load", "selectinto"}
            THEN Append(old, at.file)
            ELSE old]

ExecuteStatement ==
    /\ InBatch
    /\ ~Refuses(catalog, Current)
    /\ catalog' = catalog \cup Created(catalog, Current)
    /\ rows' = Loaded(Current)
    /\ at' = NextStatement
    /\ UNCHANGED <<requests, script, runs, refused>>

RefuseStatement ==
    /\ InBatch
    /\ Refuses(catalog, Current)
    /\ refused' = refused \cup {Current}
    /\ at' \in {NextStatement, NextBatch}
    /\ UNCHANGED <<requests, script, runs, catalog, rows>>

PassComment ==
    /\ AtBatch
    /\ Batch = Comment
    /\ at' = NextBatch
    /\ UNCHANGED <<requests, script, runs, catalog, rows, refused>>

GoToNextFile ==
    /\ Running /\ ~AtBatch
    /\ at' = NextFile
    /\ UNCHANGED <<requests, script, runs, catalog, rows, refused>>

\* Cut off anywhere (a lost connection, a fix made three sections down) or
\* finished, the script is run again from the top.
RunAgain ==
    /\ runs < MaxRuns
    /\ at # Start
    /\ at' = Start
    /\ runs' = runs + 1
    /\ UNCHANGED <<requests, script, catalog, rows, refused>>

Next ==
    \/ ExecuteStatement
    \/ RefuseStatement
    \/ PassComment
    \/ GoToNextFile
    \/ RunAgain

Spec == Init /\ [][Next]_vars

-----------------------------------------------------------------------------
(* What an export must be for its scripts to keep their promises.          *)

Complete(d) == \A k \in DOMAIN d : HasItsSources(d[k])

\* What the scripts of d can make, or find there.
MadeBy(d) ==
    {Object("table", TableName(d[1]), [type |-> "rows"])}
        \cup {Object(s.kind, s.name, s.def) :
                 s \in {t \in UNION {Range(b) : b \in UNION {Range(CompleteDdl(d[k])) : k \in DOMAIN d}} :
                           Makes(t)}}

\* The files of an export give one name to one thing only.
Agreeing(d) ==
    \A o \in MadeBy(d) : \A p \in MadeBy(d) :
        o.kind = p.kind /\ o.name = p.name => o.def = p.def

\* The target of each file is its own.
Apart(d) ==
    \A j \in DOMAIN d : \A k \in DOMAIN d :
        /\ TableName(d[k]) # ExternalTableName(d[j])
        /\ j # k => TableName(d[k]) \notin {TableName(d[j]), StagingTableName(d[j])}

-----------------------------------------------------------------------------
(* What the scripts promise.                                               *)

\* generate_complete_ddl: "The document is rerunnable."  Whatever was already
\* done, the database refuses nothing.
Rerunnable == refused = {}

\* The same, but for the staging table of Fabric's load patterns: no statement
\* creates what exists, and every statement finds the objects it reads, of the
\* type it needs.  Sections are in dependency order, an object the bulk load
\* needs is created by the setup or by the load, and a batch is left out of an
\* export only if everything in it was created before.
OnlyStagingIsRefused == \A s \in refused : s.verb = "selectinto"

\* TRUNCATE before a load makes the row count stable: however often the
\* script was cut off, a run that has finished leaves each row exactly once in
\* a target that the caller named and asked to have emptied.  In a schema whose
\* name has a blank the load is not recognised (_LOAD_RE) and nothing is emptied.
RerunLoadsOnce ==
    ~Running =>
        \A k \in DOMAIN requests :
            LET r == requests[k]
            IN  r.rerun /\ OwnsLoadTarget(r) /\ LoadsInto(script[k], r)
                => \/ rows[TableName(r)] = <<k>>
                   \/ refused # {} /\ Len(rows[TableName(r)]) <= 1

\* Rows that were there before the script stay, unless the caller named both
\* the table and its schema and asked for it to be emptied.
TheirRowsStay ==
    [][\A t \in DOMAIN rows :
          Theirs \in Range(rows[t]) /\ Theirs \notin Range(rows'[t])
              => /\ Request.rerun
                 /\ t[1] # "dbo"
                 /\ Request.names.schema = t[1]
                 /\ Request.names.table = t[2]]_vars

\* What a statement reads is its own file's, whatever other file of the export
\* has created an object of the same name.  When the request gives a storage URL
\* that names its container, every source points there; and the format an
\* external table names says the file's type, encoding and options.
UsesItsOwnObjects ==
    InBatch /\ ~Refuses(catalog, Current) =>
        \A u \in Current.uses : \A o \in Existing(catalog, u.kind, u.name) :
            /\ u.kind = "source" /\ SaysWhere(Request.url)
                 => o.def.location.root = Request.url.root
            /\ u.kind = "format" => o.def = FormatConfig(Request)

\* The type chosen for a column of the target table holds every value that
\* was seen while the file was analysed, at the lengths where the choice
\* changes as well.
ColumnsHoldTheirValues ==
    \A k \in DOMAIN requests : \A c \in requests[k].columns :
        LET sql == ColumnType(requests[k], c)
        IN  /\ c.type.name = "string" /\ c.length # NoLength => c.length <= sql.size
            /\ c.type.name = "decimal" =>
                  \/ IsLob(sql)
                  \/ c.type.precision + c.type.below <= sql.size
            /\ c.type.name = "bool" => sql.size \in {1, 5} \/ IsLob(sql)

=============================================================================
