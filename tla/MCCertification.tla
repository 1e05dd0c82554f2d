-------------------------- MODULE MCCertification --------------------------
(* A small instance of Certification: one object of each kind a cell can   *)
(* make, leftovers of the same and of another run, and what others own.    *)
EXTENDS Certification

MCIdentity == [schema |-> <<"run">>, prefix |-> "run_", database |-> <<"run">>]
MCHere == <<"run">>
Dbo == <<"dbo">>

Obj(kind, name, owner) == [kind |-> kind, name |-> Denoted(kind, name), owner |-> owner]
Run(kind) ==
    IF kind = "schema" THEN Schema
    ELSE Obj(kind, IF Gate!SchemaScoped(kind) THEN << <<"run">>, <<"run_", kind>> >>
                   ELSE << <<"run_", kind>> >>, "run")

Victim == Obj("table", << <<"sales">>, <<"victim">> >>, "user")
Copy == Obj("table", << <<"sales">>, <<"copy">> >>, "user")
Stray == Obj("table", << <<"run_", "stray">> >>, "user")
OtherRun == Obj("external data source", << <<"other_", "source">> >>, "other run")
MCUnseen == {Copy}

MCObjects == {Run(k) : k \in {"external table", "external file format",
                              "external data source", "database scoped credential",
                              "table", "schema"}}
               \cup {OtherRun, Victim, Copy, Stray}

MCNeeds == [o \in MCObjects |->
    IF ~Owns(o) THEN {}
    ELSE CASE o.kind = "external table" ->
                {Run("external file format"), Run("external data source"), Schema}
           [] o.kind = "external data source" -> {Run("database scoped credential")}
           [] o.kind = "table" -> {Schema}
           [] OTHER -> {}]

\* Statements as the generator writes them, one to a line.
Says(verb, kind, names) ==
    [verb |-> verb, kind |-> kind, names |-> names, readable |-> TRUE, head |-> "line"]
Creates(o) ==
    Says("create", o.kind, << IF Gate!SchemaScoped(o.kind)
                              THEN << o.name.schema, o.name.object >>
                              ELSE << o.name.object >> >>)

Sql(statements) ==
    [statements |-> statements, words |-> {}, references |-> {}, secrets |-> FALSE,
     hosts |-> {}, placeholders |-> FALSE, repeat |-> 1]

Batch_(stage, statements) == [stage |-> stage, text |-> Sql(statements), raw |-> TRUE]

Cell_ ==
    [plan |-> "READY", unstaged |-> FALSE, substituted |-> FALSE, counted |-> FALSE,
     written |-> TRUE, catalog |-> {}, accepts |-> {"PASS"}, expected |-> {},
     steps |-> << >>]

\* CREATE EXTERNAL TABLE with its prerequisites, its check and its catalog.
ExternalTableCell ==
    [Cell_ EXCEPT
        !.counted = TRUE, !.catalog = {Run("external table")},
        !.steps = << Batch_("setup", {Creates(Run("database scoped credential")),
                                      Creates(Run("external data source"))}),
                     Batch_("setup", {Creates(Run("external file format"))}),
                     Batch_("own", {Creates(Run("external table"))}),
                     Batch_("check", {}) >>]

\* A cell the platform is expected to refuse.
RefusedCell ==
    [Cell_ EXCEPT
        !.accepts = {"UNSUPPORTED_EXPECTED", "NOT_EXECUTABLE"}, !.expected = {"expected"},
        !.steps = << Batch_("own", {Creates(Run("table"))}) >>]

\* Cells of a manifest edited by hand, which says READY: one writes a table
\* where the gate's patterns do not read it, then another in the login's
\* default schema; one drops a list that goes on to somebody else's table.
EditedCell ==
    [Cell_ EXCEPT
        !.substituted = TRUE, !.accepts = {"PASS", "BLOCKED"},
        !.steps = << Batch_("setup", {Creates(Run("table"))}),
                     Batch_("own",
                        {[Says("selectinto", "table", << << <<"sales">>, <<"copy">> >> >>)
                             EXCEPT !.readable = FALSE]}),
                     Batch_("own", {Says("create", "table", << << Stray.name.object >> >>)}) >>]
ListCell ==
    [Cell_ EXCEPT
        !.accepts = {"BLOCKED"},
        !.steps = << Batch_("own",
            {Says("drop", "table", << << <<"run">>, <<"run_", "table">> >>,
                                      << <<"sales">>, <<"victim">> >> >>)}) >>]

\* The negative control, and a cell of a manifest planned without --emit-sql.
ControlCell == [Cell_ EXCEPT !.plan = "BLOCKED", !.accepts = {"BLOCKED"}]
RedactedCell ==
    [Cell_ EXCEPT
        !.accepts = {"PASS", "NOT_EXECUTABLE"},
        !.steps = << [Batch_("own", {}) EXCEPT !.raw = FALSE] >>]

MCCells == << ExternalTableCell, RefusedCell, EditedCell, ListCell, ControlCell,
              RedactedCell >>

Foreign == {OtherRun, Victim}
\* The vm database is absent; the Azure database holds other people's objects
\* and, when a run id is reused, what its first run left.
MCServers ==
    [vm \in BOOLEAN |->
       IF vm THEN {[db |-> FALSE, objs |-> {}],
                   [db |-> TRUE, objs |-> {Run("table"), Schema}]}
             ELSE {[db |-> TRUE, objs |-> Foreign],
                   [db |-> TRUE, objs |-> Foreign \cup {Run("table"), Schema}]}]

Denied == [unavailable |-> FALSE, numbers |-> << AuthError >>, transport |-> FALSE]
Busy == [unavailable |-> FALSE, numbers |-> << BusyError >>, transport |-> FALSE]
Timeout == [unavailable |-> FALSE, numbers |-> << >>, transport |-> TRUE]
Unclear == [Timeout EXCEPT !.transport = FALSE]
Missing == [unavailable |-> TRUE, numbers |-> << >>, transport |-> FALSE]

\* pymssql and pyodbc, or one of them, each with one number at most.
MCReports == {<< a, b >> : a, b \in {Denied, Busy, Timeout, Unclear, Missing}}
               \cup {<< a >> : a \in {Denied, Busy}}
=============================================================================
