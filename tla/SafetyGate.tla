------------------------------ MODULE SafetyGate ------------------------------
(***************************************************************************)
(* The static gate of the certification harness (safety.py): what it finds *)
(* wrong with one batch of SQL under the policy of one run.                *)
(*                                                                         *)
(* A batch is its statements, and what else the scanners find in its       *)
(* masked text.  A statement has a verb, a kind of object and the names it *)
(* gives as the server reads them.  "readable" says whether the patterns   *)
(* read the same names and find behind them what they look for: FROM or a  *)
(* parenthesis after SELECT ... INTO, white space, a semicolon or the end  *)
(* after a list.  "head" says where it stands: at the start of the batch   *)
(* or after a semicolon, at the start of a line, or inside one.  A name is *)
(* the sequence of its parts as _lex_qname splits it, a part the sequence  *)
(* of its fragments, an omitted part the empty sequence.                   *)
(***************************************************************************)
EXTENDS Naturals, Sequences

Omitted == <<>>

Dbo == <<"dbo">>

TPCH_PROTECTED_NAMES ==
    {<<"orders">>, <<"lineitem">>, <<"customer">>, <<"part">>,
     <<"partsupp">>, <<"supplier">>, <<"nation">>, <<"region">>}

-----------------------------------------------------------------------------
(* Layer 1: the verbs and kinds a statement may begin with, where the      *)
(* scanner looks for a statement.                                          *)

SimpleHeads ==
    {"select", "selectinto", "with", "insert", "bulk insert", "set", "declare", "if",
     "else", "begin", "end", "print", "use", "open", "close", "return"}

OtherHeads ==
    {"create", "drop", "alter", "delete", "update", "merge", "truncate", "exec", "grant",
     "deny", "revoke", "backup", "restore", "dbcc", "kill", "shutdown", "reconfigure",
     "waitfor"}

ObjectKinds ==
    {"table", "view", "schema", "external table", "external data source",
     "external file format", "database scoped credential", "master key", "database"}

\* Known verbs are looked for at every line start, unknown ones only where a
\* statement must begin.
HeadViolations(s) ==
    IF s.head = "inside" \/ s.verb \in SimpleHeads THEN {}
    ELSE IF s.verb \notin OtherHeads
    THEN IF s.head = "start" THEN {"UNKNOWN_STATEMENT"} ELSE {}
    ELSE IF s.verb \in {"create", "drop"}
    THEN IF s.kind \in ObjectKinds THEN {} ELSE {"UNKNOWN_OBJECT_KIND"}
    ELSE IF s.verb = "truncate" /\ s.kind = "table" THEN {}
    ELSE {"STATEMENT_NOT_ALLOWED"}

-----------------------------------------------------------------------------
(* Layer 2: what is refused wherever it stands.                            *)

ForbiddenVerbs ==
    {"dbcc", "kill", "shutdown", "reconfigure", "exec", "openquery", "grant", "deny",
     "revoke", "delete", "update", "merge", "waitfor"}

Principals == {"login", "user", "role", "server role", "application role"}

AlterObject ==
    {"table", "schema", "index", "view", "procedure", "function", "trigger", "sequence",
     "type", "assembly", "partition", "fulltext", "symmetric key", "asymmetric key",
     "certificate", "queue", "service", "resource", "column", "constraint"}

UnmanagedDrop ==
    {"index", "statistics", "synonym", "sequence", "procedure", "function", "trigger",
     "type", "aggregate", "assembly", "default", "rule", "partition", "fulltext",
     "symmetric key", "asymmetric key", "certificate", "queue", "service", "contract",
     "route", "endpoint", "column", "constraint"}

BackedUp == {"database", "log", "service", "master key", "certificate", "symmetric key"}

ListKinds ==
    {"table", "view", "external table", "schema", "external file format",
     "external data source", "database scoped credential"}

\* ALTER DATABASE has no exception for what is scoped to one.
Forbidden(s) ==
    \/ s.verb \in ForbiddenVerbs
    \/ s.verb = "alter" /\ s.kind \in AlterObject \cup
            {"database", "database scoped credential", "server", "availability group",
             "master key"}
    \/ s.verb = "drop" /\ s.kind \in UnmanagedDrop \cup {"database", "master key"}
    \/ s.verb \in {"create", "alter", "drop"} /\ s.kind \in Principals \cup {"credential"}
    \/ s.verb \in {"backup", "restore"} /\ s.kind \in BackedUp
    \/ s.verb = "truncate" /\ s.kind # "table"

\* The verbs that take a list of objects.
ListVerb(s) ==
    \/ s.verb = "drop" /\ s.kind \in ListKinds
    \/ s.verb = "truncate" /\ s.kind = "table"

MultiTarget(s) == ListVerb(s) /\ Len(s.names) > 1

-----------------------------------------------------------------------------
(* Layer 3: every name a statement creates, drops, empties or fills is the *)
(* run's own.                                                              *)

StartsWithPrefix(policy, part) == part # Omitted /\ Head(part) = policy.prefix

Fills(s) == s.verb \in {"bulk insert", "insert", "selectinto"}

\* CREATE OR ALTER VIEW is no head the scanner knows, but it has a target.
KindOf(s) ==
    IF Fills(s) \/ s.verb = "truncate" THEN "table"
    ELSE IF s.kind = "or alter view" THEN "view" ELSE s.kind

SchemaScoped(kind) == kind \in {"table", "view", "external table"}

\* Whether one of the target rules captures the names of the statement.
HasTargets(s) ==
    /\ s.readable
    /\ \/ Fills(s)
       \/ ListVerb(s)
       \/ s.verb = "create" /\ KindOf(s) \in ListKinds

\* What is left of a name when the database in front of it is taken off.
WithoutDatabase(name) == IF Len(name) >= 3 THEN Tail(name) ELSE name

\* A table may be named without its schema.
ScopeViolationUnqualified(policy, s, name) ==
    LET parts == WithoutDatabase(name)
        object == parts[Len(parts)]
    IN  \/ name = <<>>
        \/ \E i \in DOMAIN name : name[i] = Omitted
        \/ Len(name) >= 3 /\ name[1] \notin policy.databases
        \/ Len(parts) > 1 /\ parts[Len(parts) - 1] # policy.schema
        \/ IF KindOf(s) = "schema" THEN object # policy.schema
           ELSE ~StartsWithPrefix(policy, object)

ScopeViolation(policy, s, name) ==
    LET parts == WithoutDatabase(name)
        object == parts[Len(parts)]
    IN  \/ name = <<>>
        \/ \E i \in DOMAIN name : name[i] = Omitted
        \/ Len(name) >= 3 /\ name[1] \notin policy.databases
        \/ SchemaScoped(KindOf(s)) /\ Len(parts) < 2
        \/ Len(parts) > 1 /\ parts[Len(parts) - 1] # policy.schema
        \/ IF KindOf(s) = "schema" THEN object # policy.schema
           ELSE ~StartsWithPrefix(policy, object)

ScopeViolations(policy, s) ==
    IF \E i \in DOMAIN s.names : ScopeViolation(policy, s, s.names[i])
    THEN {"OUT_OF_SCOPE"} ELSE {}

\* A list is read to its end, or refused.
UnreadableTail(s) == ListVerb(s) /\ ~s.readable

\* A protected name is refused as the object of any reference.
ReferenceViolations(batch) ==
    (IF Dbo \in batch.words THEN {"FORBIDDEN_SCHEMA_DBO"} ELSE {})
    \cup (IF \E n \in batch.references : \E i \in DOMAIN n : n[i] \in TPCH_PROTECTED_NAMES
          THEN {"PROTECTED_OBJECT"} ELSE {})

\* CREATE DATABASE, CREATE MASTER KEY and USE depend on the policy.
PolicyViolations(policy, s) ==
    (IF s.verb = "create" /\ s.kind = "database" /\ s.readable
           /\ (~policy.create_database \/ s.names # <<<<policy.database>>>>)
     THEN {"CREATE_DATABASE"} ELSE {})
    \cup (IF s.verb = "create" /\ s.kind = "master key" /\ ~policy.master_key
          THEN {"MASTER_KEY_NOT_ALLOWED"} ELSE {})
    \cup (IF s.verb = "use" /\ s.readable
                /\ \E i \in DOMAIN s.names : Head(s.names[i]) \notin policy.databases
          THEN {"FOREIGN_DATABASE"} ELSE {})

\* An empty allowlist of hosts allows every host.
ForeignHost(policy, batch) ==
    policy.hosts # {} /\ \E h \in batch.hosts : h \notin policy.hosts

-----------------------------------------------------------------------------
(* The verdict on a batch.                                                 *)

StatementViolations(policy, s) ==
    HeadViolations(s)
    \cup (IF Forbidden(s) THEN {"FORBIDDEN"} ELSE {})
    \cup (IF MultiTarget(s) THEN {"MULTI_TARGET"} ELSE {})
    \cup (IF HasTargets(s) THEN ScopeViolations(policy, s) ELSE {})
    \cup (IF UnreadableTail(s) THEN {"UNPARSED_TARGET_LIST"} ELSE {})
    \cup PolicyViolations(policy, s)

Violations(policy, batch) ==
    (UNION {StatementViolations(policy, s) : s \in batch.statements})
    \cup ReferenceViolations(batch)
    \cup (IF batch.secrets THEN {"SECRET_MATERIAL"} ELSE {})
    \cup (IF ForeignHost(policy, batch) THEN {"FOREIGN_HOST"} ELSE {})

\* evaluate_script adds what GO says; the planner looks at batches one by one.
ScriptViolations(policy, batch) ==
    Violations(policy, batch) \cup (IF batch.repeat # 1 THEN {"GO_REPEAT_COUNT"} ELSE {})

Allowed(policy, batch) == Violations(policy, batch) = {} /\ ~batch.placeholders

RequiresSubstitution(policy, batch) ==
    Violations(policy, batch) = {} /\ batch.placeholders

-----------------------------------------------------------------------------
(* What the gate is for.                                                   *)

\* What a name of up to three parts means to a server in a database; an
\* omitted schema is the default one.
Resolve(database, default, name) ==
    [database |-> IF Len(name) = 3 THEN name[1] ELSE database,
     schema   |-> IF Len(name) = 1 \/ name[Len(name) - 1] = Omitted
                  THEN default ELSE name[Len(name) - 1],
     object   |-> name[Len(name)]]

\* The object is the run's own: in its database or one of the policy, and
\* under its prefix in its schema, or under its prefix, or its schema.
OwnObject(policy, database, kind, o) ==
    /\ o.database \in policy.databases \cup {database}
    /\ SchemaScoped(kind) => o.schema = policy.schema
    /\ IF kind = "schema" THEN o.object = policy.schema
       ELSE StartsWithPrefix(policy, o.object)

\* The statement is one the scanners see as the server does: it begins where
\* they look for its verb, and its names are read, none with a linked server.
InSight(s) ==
    /\ \/ s.head = "start"
       \/ s.head = "line" /\ s.verb \in SimpleHeads \cup OtherHeads
    /\ s.readable
    /\ \A i \in DOMAIN s.names : Len(s.names[i]) \in 1..3

\* It makes, drops, empties or fills what it names.
ChangesObjects(s) ==
    \/ Fills(s)
    \/ s.verb = "truncate"
    \/ s.verb \in {"create", "drop"} /\ KindOf(s) \in ListKinds

=============================================================================
