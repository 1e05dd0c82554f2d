--------------------------- MODULE Certification ---------------------------
(***************************************************************************)
(* One live certification run (scripts/certification): `execute` connects  *)
(* with retries, makes the disposable database and the run schema, sends   *)
(* each planned cell batch by batch through the safety gate, sweeps away   *)
(* what the run owns, reads the inventory again, and drops the database in *)
(* a finally.  Every call can fail, can fail after the server has already  *)
(* done the work, can lose the connection, or can be cut short by Ctrl-C.  *)
(*                                                                         *)
(* A batch is what SafetyGate.tla judges, and what it does on the server   *)
(* follows from the names in it.                                           *)
(***************************************************************************)
EXTENDS Naturals, Sequences, FiniteSets

Gate == INSTANCE SafetyGate

CONSTANTS
    Identity,       \* RunIdentity: the schema, prefix and database of the run
    Here,           \* the database the run works in
    Default,        \* the schema the server takes for a name without one
    Hosts,          \* manifest['hosts']
    Objects,        \* every object that can be there: its kind, full name and owner
    Unseen,         \* what text names that the gate's scanners do not see
    Needs,          \* Needs[o]: the objects o refers to, which the server keeps
    Cells,          \* the cells of the manifest, in execution order
    ServersBefore,  \* per target, what the server may hold when the run starts
    Targets,        \* manifest['allow_create_database']: TRUE on the vm target
    Reports,        \* what the installed drivers may answer when all fail
    Rounds,         \* CONNECT_ATTEMPTS
    MaxFaults,      \* bound: calls that fail for no reason the model names
    MaxInterrupts   \* bound: Ctrl-C

None == "none"

\* RunIdentity.owns, with the inventory queries that list the tables of the
\* run's own schema only.
Owns(o) == o.owner = "run"
Owned == {o \in Objects : Owns(o)}

\* The full name a name stands for; only some kinds live in a schema.
Denoted(kind, name) ==
    LET full == Gate!Resolve(Here, Default, name)
    IN  IF Gate!SchemaScoped(kind) THEN full ELSE [full EXCEPT !.schema = Default]

Schema == [kind |-> "schema", name |-> Denoted("schema", << Identity.schema >>),
           owner |-> "run"]

\* Data sources before the tables that read them.
CleanupOrderSourcesFirst == << "external data source", "external table",
                               "external file format", "database scoped credential",
                               "view", "table", "schema" >>

CleanupOrder == << "external table", "external file format",
                   "external data source", "database scoped credential",
                   "view", "table", "schema" >>
Kinds == {CleanupOrder[n] : n \in DOMAIN CleanupOrder}
Rank(o) == CHOOSE n \in DOMAIN CleanupOrder : CleanupOrder[n] = o.kind

Verdicts == {"PASS", "EXEC_AFTER_SUBSTITUTION", "UNSUPPORTED_EXPECTED", "FAIL",
             "BLOCKED", "NOT_EXECUTABLE", "DRY_RUN_ACCEPTED"}

\* The batches of a cell, and of a cell what the plan and the matrix say of it;
\* "written": the static assertions on its text hold.
Part == Seq(STRING)
Statement == [verb : STRING, kind : STRING, names : Seq(Seq(Part)), readable : BOOLEAN,
              head : {"start", "line", "inside"}]
Text == [statements : SUBSET Statement, words : SUBSET Part, references : SUBSET Seq(Part),
         secrets : BOOLEAN, hosts : SUBSET STRING, placeholders : BOOLEAN, repeat : Nat]
Step == [stage : {"setup", "own", "check"}, text : Text, raw : BOOLEAN]
Cell == [plan : {"READY", "BLOCKED", "NOT_EXECUTABLE"}, steps : Seq(Step),
         catalog : SUBSET Objects, accepts : SUBSET Verdicts,
         expected : SUBSET {"expected"}, substituted : BOOLEAN,
         counted : BOOLEAN, unstaged : BOOLEAN, written : BOOLEAN]

\* What the statements with one of some verbs name.
NamedBy(text, verbs) ==
    {o \in Objects :
        \E t \in text.statements :
            /\ t.verb \in verbs
            /\ o.kind = Gate!KindOf(t)
            /\ \E i \in DOMAIN t.names : o.name = Denoted(o.kind, t.names[i])}
Makes(text) == NamedBy(text, {"create", "selectinto"})
Drops(text) == NamedBy(text, {"drop"})

InSight(text) == \A t \in text.statements : Gate!InSight(t)

\* What the run owns is what bears its names.
Naming == [databases |-> {Identity.database}, schema |-> Identity.schema,
           prefix |-> Identity.prefix]
ASSUME ObjectsAssumption ==
    /\ \A o \in Objects :
          /\ o.kind \in Kinds /\ o.name.object \in Part
          /\ Owns(o) <=> Gate!OwnObject(Naming, Here, o.kind, o.name)
    /\ Schema \in Objects
    /\ Needs \in [Objects -> SUBSET Objects]
ASSUME CellsAssumption == Cells \in Seq(Cell)
\* Neither generator writes text that the scanners do not see as the server
\* does; a manifest edited by hand may have some.
ASSUME UnseenAssumption ==
    \A i \in DOMAIN Cells : \A k \in DOMAIN Cells[i].steps :
        LET text == Cells[i].steps[k].text
        IN  InSight(text) \/ Makes(text) \cup Drops(text) \subseteq Unseen
ASSUME ServersAssumption ==
    ServersBefore \in [Targets -> SUBSET [db : BOOLEAN, objs : SUBSET Objects]]
\* Only the run's own objects can be in the run's own database, and nothing
\* that is not the run's refers to a name of the run.
ASSUME ForeignAssumption ==
    /\ TRUE \in Targets => \A s \in ServersBefore[TRUE] : s.objs \subseteq Owned
    /\ \A o \in Objects \ Owned : Needs[o] \cap Owned = {}
ASSUME BoundsAssumption ==
    /\ Targets \subseteq BOOLEAN
    /\ Rounds \in Nat \ {0}
    /\ MaxFaults \in Nat
    /\ MaxInterrupts \in Nat

VARIABLES
    phase,      \* where run_session and cmd_execute stand
    server,     \* the database the run works in, and the objects in it
    conn,       \* the admin and the work connection
    database,   \* may the run create its database, and did it
    login,      \* connect_with_retry: rounds failed, and a login was refused
    at,         \* the cell and the batch being executed, and how it fares
    verdicts,   \* the verdict of each cell, None before it has one
    excused,    \* cells whose prerequisite_failed is set
    todo,       \* objects the sweep has still to drop
    swept,      \* "idle", "clean" or "failed": did every drop so far succeed
    verified,   \* evidence.cleanup_verified
    raised,     \* what is on its way out: None, "exception" or "interrupt"
    exit,       \* the exit status, None while running
    ran,        \* the batches that completed, as <<cell, batch>>
    seen,       \* the cells whose object the catalog showed
    refusals,   \* the cells whose SQL was refused with a number nobody predicted
    faults, interrupts

vars == << phase, server, conn, database, login, at, verdicts, excused, todo, swept,
           verified, raised, exit, ran, seen, refusals, faults, interrupts >>

lifecycle == << database, verified, raised, exit >>
cellState == << at, verdicts, excused, ran, seen, refusals >>
sweepState == << todo, swept >>

Phases == {"start", "connect admin", "create", "connect work", "schema", "cells",
           "sweep", "close work", "drop database", "close admin", "end", "done"}

Start == [i |-> 1, k |-> 1, failed |-> FALSE, refused |-> FALSE]

Init ==
    /\ phase = "start"
    /\ conn = [admin |-> None, work |-> None]
    /\ database \in [allowed : Targets, created : {FALSE}]
    /\ server \in ServersBefore[database.allowed]
    /\ login = [tries |-> 0, denied |-> FALSE]
    /\ at = Start
    /\ verdicts = [i \in DOMAIN Cells |-> None] /\ excused = {}
    /\ todo = {} /\ swept = "idle"
    /\ verified = FALSE /\ raised = None /\ exit = None
    /\ ran = {} /\ seen = {} /\ refusals = {}
    /\ faults = 0 /\ interrupts = 0

-----------------------------------------------------------------------------
(* The server.  A CREATE guarded by IF NOT EXISTS succeeds when what it    *)
(* needs is there; a DROP is rejected while another object needs the name. *)

Feasible(makes, drops) ==
    /\ \A o \in makes : Needs[o] \subseteq server.objs \cup makes
    /\ \A p \in server.objs \ drops : Needs[p] \cap drops = {}

Applied(makes, drops) == [server EXCEPT !.objs = (@ \cup makes) \ drops]

\* One statement on the work connection (external: the driver and the server).
\* "number" is the class of the error number: predicted by the matrix or not.
Executes(makes, drops, ok, number) ==
    \/ /\ ok /\ number = None
       /\ conn.work = "open" /\ Feasible(makes, drops)
       /\ server' = Applied(makes, drops)
       /\ UNCHANGED << conn, faults >>
    \/ /\ ~ok /\ number = "other"
       /\ \/ conn.work = "lost"
          \/ conn.work = "open" /\ ~Feasible(makes, drops)
       /\ UNCHANGED << server, conn, faults >>
    \/ /\ ~ok /\ number \in {"expected", "other"}
       /\ conn.work = "open"
       /\ faults < MaxFaults /\ faults' = faults + 1
       /\ server' \in {server, Applied(makes, drops)}
       /\ conn' \in {conn, [conn EXCEPT !.work = "lost"]}

\* The kinds an inventory cannot read: all of them once the connection is lost.
Unreadable(kinds) ==
    \/ /\ conn.work = "lost" /\ kinds = Kinds /\ UNCHANGED faults
    \/ /\ conn.work = "open" /\ kinds = {} /\ UNCHANGED faults
    \/ /\ conn.work = "open" /\ kinds # {}
       /\ faults < MaxFaults /\ faults' = faults + 1

-----------------------------------------------------------------------------
(* adapters.py: one login round tries every installed driver.              *)

AuthError == "auth"
BusyError == "busy"

\* A driver's failure: raised by this module as permanent, or an exception
\* with the numbers it carries (their classes) and what its text looks like.
IsTransientConnectError(f) ==
    /\ ~f.unavailable
    /\ AuthError \notin {f.numbers[n] : n \in DOMAIN f.numbers}
    /\ f.numbers = << >> => f.transport

\* connect() keeps the first number of each driver: _error_number.
NumbersKept(r) == {r[d].numbers[1] : d \in {e \in DOMAIN r : r[e].numbers # << >>}}

\* Any driver's busy error is enough.
WorthRetryingLoosely(r) == \E d \in DOMAIN r : IsTransientConnectError(r[d])

\* The aggregate AdapterUnavailable is worth another round.
WorthRetrying(r) ==
    /\ \E d \in DOMAIN r : IsTransientConnectError(r[d])
    /\ AuthError \notin NumbersKept(r)

LoginRefused(r) ==
    \E d \in DOMAIN r : AuthError \in {r[d].numbers[n] : n \in DOMAIN r[d].numbers}

Raise == /\ phase' = "close work"
         /\ raised' = "exception"

ConnectFails(r) ==
    /\ phase \in {"connect admin", "connect work"}
    /\ login' = [tries |-> login.tries + 1, denied |-> login.denied \/ LoginRefused(r)]
    /\ IF WorthRetrying(r) /\ login.tries + 1 < Rounds
         THEN UNCHANGED << phase, raised >>
         ELSE Raise
    /\ UNCHANGED << server, conn, database, cellState, sweepState, verified, exit,
                    faults, interrupts >>

ConnectAdmin ==
    /\ phase = "connect admin"
    /\ conn' = [conn EXCEPT !.admin = "open"]
    /\ login' = [tries |-> 0, denied |-> FALSE]
    /\ phase' = "create"
    /\ UNCHANGED << server, lifecycle, cellState, sweepState, faults, interrupts >>

ConnectWork ==
    /\ phase = "connect work"
    /\ conn' = [conn EXCEPT !.work = "open"]
    /\ login' = [tries |-> 0, denied |-> FALSE]
    /\ phase' = "schema"
    /\ UNCHANGED << server, lifecycle, cellState, sweepState, faults, interrupts >>

-----------------------------------------------------------------------------
(* run_session up to the cells.                                            *)

RunSession ==
    /\ phase = "start"
    /\ phase' = IF database.allowed THEN "connect admin" ELSE "connect work"
    /\ UNCHANGED << server, conn, login, lifecycle, cellState, sweepState, faults,
                    interrupts >>

\* IF DB_ID(..) IS NULL CREATE DATABASE: it succeeds on an existing one too.
CreateRunDatabase ==
    /\ phase = "create"
    /\ \/ /\ server' = [server EXCEPT !.db = TRUE]
          /\ database' = [database EXCEPT !.created = TRUE]
          /\ phase' = "connect work"
          /\ UNCHANGED faults
       \/ /\ faults < MaxFaults /\ faults' = faults + 1
          /\ server' \in {server, [server EXCEPT !.db = TRUE]}
          /\ phase' = "close work"
          /\ UNCHANGED database
    /\ UNCHANGED << conn, login, verified, raised, exit, cellState, sweepState, interrupts >>

EnsureSchema ==
    /\ phase = "schema"
    /\ \E ok \in BOOLEAN, number \in {None, "other"} :
         /\ Executes({Schema}, {}, ok, number)
         /\ phase' = IF ok THEN "cells" ELSE "close work"
    /\ UNCHANGED << login, lifecycle, cellState, sweepState, interrupts >>

\* cmd_execute --dry-run: nothing is opened and no batch is sent.
DryRun ==
    /\ phase = "start"
    /\ verdicts' = [i \in DOMAIN Cells |->
                      IF Cells[i].plan = "READY" THEN "DRY_RUN_ACCEPTED" ELSE Cells[i].plan]
    /\ verified' = TRUE /\ exit' = "0" /\ phase' = "done"
    /\ UNCHANGED << server, conn, database, login, at, excused, sweepState, raised,
                    ran, seen, refusals, faults, interrupts >>

-----------------------------------------------------------------------------
(* execute_cell.                                                           *)

\* The policy cmd_execute builds from the manifest.
Policy ==
    [databases |-> Naming.databases, database |-> Identity.database,
     schema |-> Identity.schema, prefix |-> Identity.prefix, hosts |-> Hosts,
     create_database |-> database.allowed, master_key |-> FALSE]

EvaluateBatch(text) == Gate!Allowed(Policy, text)

Plan == Cells[at.i]
Batch == Plan.steps[at.k]
Running == phase = "cells" /\ at.i \in DOMAIN Cells
Sending == Running /\ Plan.plan = "READY" /\ at.k \in DOMAIN Plan.steps
FirstCheck == CHOOSE k \in 1 .. Len(Plan.steps) + 1 :
                 /\ k = Len(Plan.steps) + 1 \/ Plan.steps[k].stage = "check"
                 /\ \A j \in 1 .. k - 1 : Plan.steps[j].stage # "check"

Conclude(verdict) ==
    /\ verdicts' = [verdicts EXCEPT ![at.i] = verdict]
    /\ at' = [Start EXCEPT !.i = at.i + 1]

PrerequisiteFails ==
    /\ Conclude("NOT_EXECUTABLE")
    /\ excused' = excused \cup {at.i}

CellFails ==
    /\ at' = [at EXCEPT !.failed = TRUE, !.k = Len(Plan.steps) + 1]
    /\ UNCHANGED << verdicts, excused >>

\* Any refusal of a cell that may be refused is the predicted one.
PredictedLoosely(number) == "UNSUPPORTED_EXPECTED" \in Plan.accepts

\* A refusal is evidence only when it is the one the matrix predicted.
Predicted(number) ==
    /\ "UNSUPPORTED_EXPECTED" \in Plan.accepts
    /\ Plan.expected = {} \/ number \in Plan.expected

\* A cell the plan refused is recorded, never sent.
RecordRefusedPlan ==
    /\ Running /\ Plan.plan # "READY"
    /\ Conclude(Plan.plan)
    /\ UNCHANGED << phase, server, conn, login, lifecycle, sweepState, excused, ran,
                    seen, refusals, faults, interrupts >>

\* _run_batches and the cell's own loop stop before sending a batch whose text
\* is missing or that the gate refuses now, whatever the manifest says.
WithholdBatch ==
    /\ Sending
    /\ ~Batch.raw \/ ~EvaluateBatch(Batch.text)
    /\ CASE Batch.stage = "setup" -> PrerequisiteFails
         [] Batch.stage = "own" ->
              /\ Conclude(IF Batch.raw THEN "BLOCKED" ELSE "NOT_EXECUTABLE")
              /\ UNCHANGED excused
         [] OTHER -> CellFails
    /\ UNCHANGED << phase, server, conn, login, lifecycle, sweepState, ran, seen,
                    refusals, faults, interrupts >>

SendBatch ==
    /\ Sending
    /\ Batch.raw /\ EvaluateBatch(Batch.text)
    /\ \E ok \in BOOLEAN, number \in {None, "expected", "other"} :
         /\ Executes(Makes(Batch.text), Drops(Batch.text), ok, number)
         /\ ran' = IF ok THEN ran \cup {<< at.i, at.k >>} ELSE ran
         /\ refusals' = IF number = "other" /\ Batch.stage # "setup"
                           THEN refusals \cup {at.i} ELSE refusals
         /\ CASE ok -> /\ at' = [at EXCEPT !.k = @ + 1]
                       /\ UNCHANGED << verdicts, excused >>
              [] ~ok /\ Batch.stage = "setup" -> PrerequisiteFails
              [] ~ok /\ Batch.stage = "own" /\ Predicted(number) ->
                   /\ at' = [at EXCEPT !.refused = TRUE, !.k = FirstCheck]
                   /\ UNCHANGED << verdicts, excused >>
              [] OTHER -> CellFails
    /\ UNCHANGED << phase, login, lifecycle, sweepState, seen, interrupts >>

\* The catalog answers TRUE or FALSE, or cannot be asked (None), which must
\* not fail the cell; counts compare what came back with what was staged, and a
\* static assertion that fails is one of the cell's too.
JudgeCell ==
    /\ Running /\ Plan.plan = "READY" /\ at.k \notin DOMAIN Plan.steps
    /\ \E answer \in {None, "present", "absent"}, counts \in BOOLEAN :
         /\ answer = "present" =>
              /\ Plan.catalog # {} /\ ~at.failed /\ conn.work = "open"
              /\ Plan.catalog \subseteq server.objs
         /\ answer = "absent" =>
              /\ Plan.catalog # {} /\ ~at.failed /\ conn.work = "open"
              /\ Plan.catalog \cap server.objs = {}
         /\ answer = None => \/ Plan.catalog = {} \/ at.failed
                             \/ conn.work # "open" \/ faults < MaxFaults
         /\ faults' = IF /\ answer = None /\ Plan.catalog # {}
                         /\ ~at.failed /\ conn.work = "open"
                        THEN faults + 1 ELSE faults
         /\ ~Plan.counted => counts
         /\ seen' = IF answer = "present" THEN seen \cup {at.i} ELSE seen
         /\ Conclude(IF at.failed \/ answer = "absent" \/ ~counts \/ ~Plan.written
                     THEN "FAIL"
                     ELSE IF at.refused THEN "UNSUPPORTED_EXPECTED"
                     ELSE IF Plan.substituted THEN "EXEC_AFTER_SUBSTITUTION"
                     ELSE "PASS")
    /\ UNCHANGED << phase, server, conn, login, lifecycle, sweepState, excused, ran,
                    refusals, interrupts >>

-----------------------------------------------------------------------------
(* run_cleanup.                                                            *)

\* explicit_cleanup_statements: only what the run owns, each name once.
ExplicitCleanup(inventory) == {o \in inventory : Owns(o)}

ReadInventory ==
    /\ phase = "cells" /\ at.i \notin DOMAIN Cells
    /\ \E kinds \in SUBSET Kinds :
         /\ Unreadable(kinds)
         /\ todo' = ExplicitCleanup({o \in server.objs : o.kind \notin kinds})
         /\ swept' = IF kinds = {} THEN "clean" ELSE "failed"
    /\ phase' = "sweep"
    /\ UNCHANGED << server, conn, login, lifecycle, cellState, interrupts >>

\* The earliest kind of CLEANUP_ORDER that is left.
NextToDrop(o) == o \in todo /\ \A p \in todo : Rank(o) <= Rank(p)

CleanupStatement(o) ==
    [verb |-> "drop", kind |-> o.kind, readable |-> TRUE, head |-> "start",
     names |-> << IF o.kind = "schema" THEN << Identity.schema >>
                  ELSE IF Gate!SchemaScoped(o.kind) THEN << Identity.schema, o.name.object >>
                  ELSE << o.name.object >> >>]

CleanupText(o) ==
    LET s == CleanupStatement(o)
    IN  [statements |-> {s}, words |-> {}, references |-> {s.names[1]}, secrets |-> FALSE,
         hosts |-> {}, placeholders |-> FALSE, repeat |-> 1]

\* The gate looks at what is read back off the server, too.
DropObject(o) ==
    /\ phase = "sweep" /\ NextToDrop(o)
    /\ todo' = todo \ {o}
    /\ IF EvaluateBatch(CleanupText(o))
         THEN \E ok \in BOOLEAN, number \in {None, "other"} :
                /\ Executes({}, {o}, ok, number)
                /\ swept' = IF ok THEN swept ELSE "failed"
         ELSE /\ swept' = "failed"
              /\ UNCHANGED << server, conn, faults >>
    /\ UNCHANGED << phase, login, lifecycle, cellState, interrupts >>

\* The inventory after the sweep: residue is what the run still owns, and a
\* kind that could not be read proves nothing.
VerifyCleanup ==
    /\ phase = "sweep" /\ todo = {}
    /\ \E kinds \in SUBSET Kinds :
         /\ Unreadable(kinds)
         /\ LET residue == {o \in server.objs : o.kind \notin kinds /\ Owns(o)}
            IN verified' = (residue = {} /\ kinds = {})
    /\ phase' = "close work"
    /\ UNCHANGED << server, conn, login, database, raised, exit, cellState, sweepState,
                    interrupts >>

-----------------------------------------------------------------------------
(* The finally of run_session, and cmd_execute.                            *)

CloseWork ==
    /\ phase = "close work"
    /\ conn' = [conn EXCEPT !.work = IF @ = None THEN None ELSE "closed"]
    /\ phase' = IF database.created THEN "drop database" ELSE "close admin"
    /\ UNCHANGED << server, login, lifecycle, cellState, sweepState, faults, interrupts >>

\* A database that is still there is not told to the evidence.
DropRunDatabaseQuietly ==
    /\ phase = "drop database"
    /\ \E gone \in BOOLEAN :
         \/ /\ gone
            /\ server' = [server EXCEPT !.db = FALSE, !.objs = {}]
            /\ UNCHANGED faults
         \/ /\ ~gone
            /\ faults < MaxFaults /\ faults' = faults + 1
            /\ UNCHANGED server
    /\ phase' = "close admin"
    /\ UNCHANGED << conn, login, lifecycle, cellState, sweepState, interrupts >>

\* drop_run_database believes only the DB_ID it reads back.
DropRunDatabase ==
    /\ phase = "drop database"
    /\ \E gone \in BOOLEAN :
         \/ /\ gone
            /\ server' = [server EXCEPT !.db = FALSE, !.objs = {}]
            /\ UNCHANGED << faults, verified >>
         \/ /\ ~gone
            /\ faults < MaxFaults /\ faults' = faults + 1
            /\ server' \in {server, [server EXCEPT !.db = FALSE, !.objs = {}]}
            /\ verified' = FALSE
    /\ phase' = "close admin"
    /\ UNCHANGED << conn, login, database, raised, exit, cellState, sweepState, interrupts >>

CloseAdmin ==
    /\ phase = "close admin"
    /\ conn' = [conn EXCEPT !.admin = IF @ = None THEN None ELSE "closed"]
    /\ phase' = "end"
    /\ UNCHANGED << server, login, lifecycle, cellState, sweepState, faults, interrupts >>

\* CellResult.is_defect: neither accepted nor excused.  Text that breaks one of
\* its static assertions is a defect, whatever the verdict.
Accepted(i) == /\ verdicts[i] # "DRY_RUN_ACCEPTED"
               /\ Cells[i].written
               /\ verdicts[i] \in Cells[i].accepts
NotCertified(i) == /\ verdicts[i] = "NOT_EXECUTABLE"
                   /\ Cells[i].unstaged \/ i \in excused
IsDefect(i) == /\ verdicts[i] \notin {"DRY_RUN_ACCEPTED", None}
               /\ ~NotCertified(i) /\ ~Accepted(i)

\* An exception skips the reports and is told by main; main does not catch a
\* Ctrl-C, and the interpreter ends with a status of its own.
CmdExecuteReturns ==
    /\ phase = "end"
    /\ exit' = IF raised = "interrupt" THEN "interrupted"
               ELSE IF raised = "exception" THEN "2"
               ELSE IF verified /\ \A i \in DOMAIN Cells : ~IsDefect(i) THEN "0"
               ELSE "1"
    /\ phase' = "done"
    /\ UNCHANGED << server, conn, login, database, verified, raised, cellState, sweepState,
                    faults, interrupts >>

\* Ctrl-C passes every `except Exception`.  The call in flight may already
\* have reached the server; inside the finally nothing else of it runs.
InFlight ==
    CASE phase = "create" -> {server, [server EXCEPT !.db = TRUE]}
      [] phase = "schema" -> {server, Applied({Schema}, {})}
      [] phase = "cells" /\ Sending ->
           IF Batch.raw /\ EvaluateBatch(Batch.text)
             THEN {server, Applied(Makes(Batch.text), Drops(Batch.text))} ELSE {server}
      [] phase = "sweep" -> {server} \cup {Applied({}, {o}) : o \in {p \in todo : NextToDrop(p)}}
      [] phase = "drop database" -> {server, [server EXCEPT !.db = FALSE, !.objs = {}]}
      [] OTHER -> {server}

KeyboardInterrupt ==
    /\ phase \notin {"start", "end", "done"}
    /\ interrupts < MaxInterrupts /\ interrupts' = interrupts + 1
    /\ server' \in InFlight
    /\ raised' = "interrupt"
    /\ phase' = IF phase \in {"close work", "drop database", "close admin"}
                  THEN "end" ELSE "close work"
    /\ UNCHANGED << conn, database, login, cellState, sweepState, verified, exit, faults >>

Done == phase = "done" /\ UNCHANGED vars

Progress ==
    \/ DryRun \/ RunSession \/ ConnectAdmin \/ ConnectWork
    \/ \E r \in Reports : ConnectFails(r)
    \/ CreateRunDatabase \/ EnsureSchema
    \/ RecordRefusedPlan \/ WithholdBatch \/ SendBatch \/ JudgeCell
    \/ ReadInventory \/ (\E o \in Objects : DropObject(o)) \/ VerifyCleanup
    \/ CloseWork \/ DropRunDatabase \/ CloseAdmin \/ CmdExecuteReturns

Next == Progress \/ KeyboardInterrupt \/ Done

Spec == Init /\ [][Next]_vars /\ WF_vars(Progress)

-----------------------------------------------------------------------------
(* Properties.                                                             *)

LiveRun == conn.work # None

TypeOK ==
    /\ phase \in Phases
    /\ server \in [db : BOOLEAN, objs : SUBSET Objects]
    /\ conn \in [admin : {None, "open", "closed"},
                 work : {None, "open", "lost", "closed"}]
    /\ database \in [allowed : BOOLEAN, created : BOOLEAN]
    /\ login \in [tries : 0 .. Rounds, denied : BOOLEAN]
    /\ at \in [i : 1 .. Len(Cells) + 1, k : Nat \ {0}, failed : BOOLEAN, refused : BOOLEAN]
    /\ verdicts \in [DOMAIN Cells -> Verdicts \cup {None}]
    /\ excused \subseteq DOMAIN Cells
    /\ todo \subseteq Objects /\ swept \in {"idle", "clean", "failed"}
    /\ verified \in BOOLEAN /\ raised \in {None, "exception", "interrupt"}
    /\ exit \in {None, "0", "1", "2", "interrupted"}
    /\ ran \subseteq (DOMAIN Cells) \X (Nat \ {0})
    /\ seen \subseteq DOMAIN Cells /\ refusals \subseteq DOMAIN Cells
    /\ faults \in 0 .. MaxFaults /\ interrupts \in 0 .. MaxInterrupts

(* What the run does not own is neither dropped nor made, by its cells,    *)
(* whoever edited the manifest, by its sweep or by the end of its database *)
(* (evaluate_batch on the text of every batch, identity.owns in            *)
(* explicit_cleanup_statements).  The exception is what is named by text   *)
(* that the gate's scanners do not see as the server does.                 *)
ForeignUntouched ==
    [][server'.objs \ (Owned \cup Unseen) = server.objs \ (Owned \cup Unseen)]_vars

(* A cell passes only if every one of its batches, prerequisites and the   *)
(* verification query included, was sent and completed, and - when nothing *)
(* went wrong with the questions - the catalog showed what it made.  And   *)
(* "accepting any error at all would let a typo in the generated SQL       *)
(* masquerade as a platform limitation": a cell with predicted errors that *)
(* was refused with another number fails (execute_cell, is_defect).        *)
VerdictsAreEarned ==
    \A i \in DOMAIN Cells :
      /\ verdicts[i] \in {"PASS", "EXEC_AFTER_SUBSTITUTION"} =>
           /\ \A k \in DOMAIN Cells[i].steps : << i, k >> \in ran
           /\ faults = 0 /\ Cells[i].catalog # {} => i \in seen
      /\ i \in refusals /\ verdicts[i] # None /\ Cells[i].expected # {} =>
           verdicts[i] = "FAIL"

(* CLEANUP_ORDER is an order the server accepts: while the inventory was   *)
(* read completely and every drop so far succeeded, the next one is not    *)
(* rejected because another object still needs the name.                   *)
OrderAllowsEveryDrop ==
    phase = "sweep" /\ swept = "clean" =>
      \A o \in todo : NextToDrop(o) => Feasible({}, {o})

(* Once a driver reported that the login was refused, the round is not     *)
(* repeated (AUTH_ERROR_NUMBERS, is_transient_connect_error).              *)
AuthErrorStops == [][login.denied => login'.tries <= login.tries]_vars

(* The run as its owner sees it.  Things are the run's objects and its     *)
(* database; exit status 0 of a live run is the claim "clean".             *)
RunDatabase == [kind |-> "database", owner |-> "run"]
Made == (server.objs \cap Owned)
          \cup {d \in {RunDatabase} : database.allowed /\ server.db}
Promise == INSTANCE CertificationPromise
    WITH Things <- Owned \cup {RunDatabase},
         made <- Made,
         others <- server.objs \ (Owned \cup Unseen),
         claim <- CASE exit = None -> "none"
                    [] exit = "0" /\ LiveRun -> "clean"
                    [] OTHER -> "unproved"

(* Every run keeps the promise of CertificationPromise: what is not the    *)
(* run's and not hidden from the gate is never touched, the run ends, and  *)
(* it ends with exit status 0 only when nothing of it is left              *)
(* (run_session, run_cleanup, cmd_execute).                                *)
KeepsPromise == Promise!Spec
=============================================================================
