------------------------- MODULE CertificationProofs -------------------------
(***************************************************************************)
(* For every matrix, every server and any number of failing calls and      *)
(* interrupts: what is not the run's is untouched, the run implements the  *)
(* safety part of CertificationPromise, and its verdicts are earned.       *)
(***************************************************************************)
EXTENDS Certification, TLAPS

-----------------------------------------------------------------------------
(* The gate, for every policy and every batch.                             *)

\* The statements of an allowed batch have no violation of their own.
LEMMA AllowedStatement ==
    ASSUME NEW policy, NEW batch, Gate!Allowed(policy, batch), NEW s \in batch.statements
    PROVE  Gate!StatementViolations(policy, s) = {}
  BY DEF Gate!Allowed, Gate!Violations

\* A name that passes the scope rule means an object of the run to a server
\* that works in some database, whatever schema it takes by default.
LEMMA InScopeIsOwn ==
    ASSUME NEW policy, NEW s, NEW P, NEW name \in Seq(P), Len(name) \in 1..3,
           ~Gate!ScopeViolation(policy, s, name), NEW db, NEW default
    PROVE  Gate!OwnObject(policy, db, Gate!KindOf(s), Gate!Resolve(db, default, name))
  <1> DEFINE o == Gate!Resolve(db, default, name)
             parts == Gate!WithoutDatabase(name)
             kind == Gate!KindOf(s)
  <1>1. /\ \A i \in DOMAIN name : name[i] # Gate!Omitted
        /\ Len(name) >= 3 => name[1] \in policy.databases
        /\ Gate!SchemaScoped(kind) => Len(parts) >= 2
        /\ Len(parts) > 1 => parts[Len(parts) - 1] = policy.schema
        /\ IF kind = "schema" THEN parts[Len(parts)] = policy.schema
           ELSE Gate!StartsWithPrefix(policy, parts[Len(parts)])
    <2>1. Len(parts) \in Nat
      BY DEF Gate!WithoutDatabase
    <2> QED
      BY <2>1 DEF Gate!ScopeViolation
  <1>2. CASE Len(name) = 3
    <2>1. parts = Tail(name)
      BY <1>2 DEF Gate!WithoutDatabase
    <2>3. /\ Len(Tail(name)) = 2
          /\ Tail(name)[1] = name[2] /\ Tail(name)[2] = name[3]
      BY <1>2
    <2>2. o = [database |-> name[1], schema |-> name[2], object |-> name[3]]
      BY <1>1, <1>2 DEF Gate!Resolve
    <2>4. /\ o.database = name[1] /\ o.schema = name[2] /\ o.object = name[3]
      BY <2>2
    <2>7. /\ Len(parts) = 2 /\ parts[1] = name[2] /\ parts[2] = name[3]
      BY <2>1, <2>3
    <2>8. /\ Len(parts) > 1 /\ Len(parts) - 1 = 1 /\ Len(name) >= 3
      BY <2>7, <1>2
    <2> HIDE DEF parts, kind
    <2>5. /\ name[1] \in policy.databases
          /\ name[2] = policy.schema
          /\ IF kind = "schema" THEN name[3] = policy.schema
             ELSE Gate!StartsWithPrefix(policy, name[3])
      BY <1>1, <2>7, <2>8
    <2> HIDE DEF o
    <2>6. Gate!OwnObject(policy, db, kind, o)
      BY <2>4, <2>5 DEF Gate!OwnObject
    <2> QED
      BY <2>6 DEF o, kind
  <1>3. CASE Len(name) = 2
    <2>1. Gate!WithoutDatabase(name) = name
      BY <1>3 DEF Gate!WithoutDatabase
    <2>2. o = [database |-> db, schema |-> name[1], object |-> name[2]]
      BY <1>1, <1>3 DEF Gate!Resolve
    <2>4. Len(parts) = 2
      BY <1>3, <2>1
    <2>3. Len(parts) > 1 /\ Len(parts) - 1 = 1 /\ Len(parts) = 2
      <3> HIDE DEF parts
      <3> QED
        BY <2>4
    <2> QED
      BY <1>1, <2>1, <2>2, <2>3 DEF Gate!OwnObject
  <1>4. CASE Len(name) = 1
    <2>1. Gate!WithoutDatabase(name) = name
      BY <1>4 DEF Gate!WithoutDatabase
    <2>2. o = [database |-> db, schema |-> default, object |-> name[1]]
      BY <1>4 DEF Gate!Resolve
    <2>3. Len(parts) = 1
      BY <1>4, <2>1
    <2>4. ~Gate!SchemaScoped(kind)
      BY <1>1, <2>3
    <2> QED
      BY <1>1, <2>1, <2>2, <2>3, <2>4 DEF Gate!OwnObject
  <1> QED
    BY <1>2, <1>3, <1>4

\* A statement that begins where the scanners look for one, and that they let
\* through, is one of these.
LEMMA AllowedHeads ==
    ASSUME NEW policy, NEW s, Gate!InSight(s), Gate!StatementViolations(policy, s) = {}
    PROVE  \/ s.verb \in Gate!SimpleHeads /\ ~Gate!Fills(s)
           \/ s.verb = "create" /\ s.kind \in {"master key", "database"}
           \/ s.verb \in {"create", "drop"} /\ s.kind \in Gate!ListKinds
           \/ s.verb = "truncate" /\ s.kind = "table"
           \/ Gate!Fills(s)
  <1>1. Gate!HeadViolations(s) = {} /\ ~Gate!Forbidden(s)
    BY DEF Gate!StatementViolations
  <1>2. s.verb \in Gate!SimpleHeads \/ s.verb \in Gate!OtherHeads
    BY <1>1 DEF Gate!InSight, Gate!HeadViolations
  <1>3. ASSUME s.verb \notin Gate!SimpleHeads
        PROVE  \/ s.verb \in {"create", "drop"} /\ s.kind \in Gate!ObjectKinds
               \/ s.verb = "truncate" /\ s.kind = "table"
    <2>1. s.head # "inside"
      BY DEF Gate!InSight
    <2> QED
      BY <1>1, <1>2, <1>3, <2>1 DEF Gate!HeadViolations
  <1>4. s.verb = "drop" => s.kind \notin {"master key", "database"}
    BY <1>1 DEF Gate!Forbidden
  <1> QED
    BY <1>3, <1>4 DEF Gate!ObjectKinds, Gate!ListKinds

\* The gate's promise (safety.py: what it does not recognise, it refuses).
\* A statement of an allowed batch that the scanners see as the server does
\* either changes nothing; or makes the master key or the database that the
\* policy lets the run make; or it makes, drops, empties or fills objects of
\* kinds the cleanup knows, each of which is the run's own, in whatever
\* database the login works and whatever schema it takes by default, and
\* drops or empties no more than one.
THEOREM AllowedStaysInTheRun ==
    ASSUME NEW policy, NEW batch, Gate!Allowed(policy, batch),
           NEW s \in batch.statements, Gate!InSight(s),
           NEW P, s.names \in Seq(Seq(P)), NEW db, NEW default
    PROVE  \/ s.verb \in Gate!SimpleHeads /\ ~Gate!Fills(s)
           \/ s.verb = "create" /\ s.kind = "master key" /\ policy.master_key
           \/ /\ s.verb = "create" /\ s.kind = "database"
              /\ policy.create_database /\ s.names = <<<<policy.database>>>>
           \/ /\ Gate!ChangesObjects(s) /\ Gate!KindOf(s) \in Gate!ListKinds
              /\ s.verb \in {"drop", "truncate"} => Len(s.names) <= 1
              /\ \A i \in DOMAIN s.names :
                    Gate!OwnObject(policy, db, Gate!KindOf(s),
                                   Gate!Resolve(db, default, s.names[i]))
  <1>1. Gate!StatementViolations(policy, s) = {}
    BY AllowedStatement
  <1>2. /\ ~Gate!MultiTarget(s) /\ Gate!PolicyViolations(policy, s) = {}
        /\ Gate!HasTargets(s) => Gate!ScopeViolations(policy, s) = {}
    BY <1>1 DEF Gate!StatementViolations
  <1>3. s.readable /\ \A i \in DOMAIN s.names : Len(s.names[i]) \in 1..3
    BY DEF Gate!InSight
  <1>4. CASE s.verb = "create" /\ s.kind \in {"master key", "database"}
    BY <1>2, <1>3, <1>4 DEF Gate!PolicyViolations
  <1>5. ASSUME \/ s.verb \in {"create", "drop"} /\ s.kind \in Gate!ListKinds
               \/ s.verb = "truncate" /\ s.kind = "table"
               \/ Gate!Fills(s)
        PROVE  /\ Gate!ChangesObjects(s) /\ Gate!KindOf(s) \in Gate!ListKinds
               /\ s.verb \in {"drop", "truncate"} => Len(s.names) <= 1
               /\ \A i \in DOMAIN s.names :
                     Gate!OwnObject(policy, db, Gate!KindOf(s),
                                    Gate!Resolve(db, default, s.names[i]))
    <2>1. Gate!KindOf(s) \in Gate!ListKinds
      BY <1>5 DEF Gate!KindOf, Gate!ListKinds, Gate!Fills
    <2>2. Gate!ChangesObjects(s)
      BY <1>5, <2>1 DEF Gate!ChangesObjects
    <2>3. s.verb \in {"drop", "truncate"} => Gate!ListVerb(s)
      BY <1>5 DEF Gate!ListVerb, Gate!Fills
    <2>4. Gate!HasTargets(s)
      BY <1>3, <1>5, <2>1, <2>3 DEF Gate!HasTargets
    <2>5. s.verb \in {"drop", "truncate"} => Len(s.names) <= 1
      BY <1>2, <2>3 DEF Gate!MultiTarget
    <2>6. ASSUME NEW i \in DOMAIN s.names
          PROVE  Gate!OwnObject(policy, db, Gate!KindOf(s),
                                Gate!Resolve(db, default, s.names[i]))
      <3>1. ~Gate!ScopeViolation(policy, s, s.names[i])
        BY <1>2, <2>4 DEF Gate!ScopeViolations
      <3>2. s.names[i] \in Seq(P) /\ Len(s.names[i]) \in 1..3
        BY <1>3
      <3> QED
        BY <3>1, <3>2, InScopeIsOwn
    <2> QED
      BY <2>1, <2>2, <2>5, <2>6
  <1> QED
    BY <1>1, <1>4, <1>5, AllowedHeads

-----------------------------------------------------------------------------
(* The inductive invariant of the server and the run's lifecycle.          *)

\* What the run owns, and what text hidden from the gate may name.
InReach == Owned \cup Unseen

Working == {"connect work", "schema", "cells", "sweep"}
Closing == {"close work", "drop database", "close admin", "end", "done"}

Types ==
    /\ phase \in Phases
    /\ server \in [db : BOOLEAN, objs : SUBSET Objects]
    /\ database \in [allowed : BOOLEAN, created : BOOLEAN]
    /\ conn \in [admin : {None, "open", "closed"},
                 work : {None, "open", "lost", "closed"}]
    /\ verified \in BOOLEAN /\ raised \in {None, "exception", "interrupt"}
    /\ exit \in {None, "0", "1", "2", "interrupted"}

\* Where the run may be with its database, and the server with the objects:
\* a database of the run's own holds nothing else that the gate can see.
DatabaseIsOwn ==
    /\ phase \in {"connect admin", "create"} => database.allowed
    /\ phase = "drop database" => database.created
    /\ database.created => database.allowed
    /\ phase \in Working /\ database.allowed => database.created
    /\ database.allowed => server.objs \subseteq InReach

\* A cleanup that is verified: nothing of the run is left, and once the finally
\* is over its database is gone too.  A dry run opens no connection.
VerifiedIsClean ==
    /\ verified => phase \in Closing
    /\ verified /\ LiveRun => server.objs \cap Owned = {}
    /\ verified /\ LiveRun /\ raised = None /\ database.allowed =>
         /\ phase \in {"close work", "drop database"} => database.created
         /\ phase \in {"close admin", "end", "done"} => ~server.db
    /\ phase = "start" => conn.work = None /\ raised = None

\* The exit status is that of a run that is over; 0 is only given to a run that
\* was verified and raised nothing.
ExitIsFinal ==
    /\ exit = None <=> phase # "done"
    /\ exit = "0" => verified /\ raised = None

CInv == /\ Types /\ todo \subseteq Owned
        /\ DatabaseIsOwn /\ VerifiedIsClean /\ ExitIsFinal

LEMMA SchemaIsOwned == Schema \in Owned
  BY ObjectsAssumption DEF Owned, Owns, Schema

\* An object is the run's if a name that stands for it means one of the run.
LEMMA DenotedIsOwned ==
    ASSUME NEW o \in Objects, NEW name, o.name = Denoted(o.kind, name),
           Gate!OwnObject(Policy, Here, o.kind, Gate!Resolve(Here, Default, name))
    PROVE  o \in Owned
  <1> DEFINE full == Gate!Resolve(Here, Default, name)
  <1>1. full = [database |-> full.database, schema |-> full.schema, object |-> full.object]
    BY DEF Gate!Resolve
  <1>2. /\ o.name.database = full.database /\ o.name.object = full.object
        /\ Gate!SchemaScoped(o.kind) => o.name.schema = full.schema
    BY <1>1 DEF Denoted
  <1>3. /\ Policy.databases = Naming.databases /\ Policy.schema = Naming.schema
        /\ Policy.prefix = Naming.prefix
    BY DEF Policy, Naming
  <1> HIDE DEF full
  <1>4. Gate!OwnObject(Naming, Here, o.kind, o.name)
    BY <1>2, <1>3 DEF Gate!OwnObject, Gate!StartsWithPrefix, full
  <1> QED
    BY <1>4, ObjectsAssumption DEF Owned

\* What an allowed text makes or drops is the run's own, if the scanners see it.
LEMMA AllowedIsOwned ==
    ASSUME NEW text \in Text, EvaluateBatch(text), InSight(text)
    PROVE  Makes(text) \cup Drops(text) \subseteq Owned
  <1> SUFFICES ASSUME NEW o \in Makes(text) \cup Drops(text) PROVE o \in Owned
    OBVIOUS
  <1>1. PICK t \in text.statements :
           /\ t.verb \in {"create", "selectinto", "drop"} /\ o.kind = Gate!KindOf(t)
           /\ \E i \in DOMAIN t.names : o.name = Denoted(o.kind, t.names[i])
    BY DEF Makes, Drops, NamedBy
  <1>2. PICK i \in DOMAIN t.names : o.name = Denoted(o.kind, t.names[i])
    BY <1>1
  <1>3. o \in Objects /\ o.kind \in Kinds
    BY ObjectsAssumption DEF Makes, Drops, NamedBy
  <1>4. Kinds \subseteq Gate!ListKinds
    <2>1. DOMAIN CleanupOrder = 1..7
      BY DEF CleanupOrder
    <2>2. \A n \in 1..7 : CleanupOrder[n] \in Gate!ListKinds
      <3>1. /\ CleanupOrder[1] \in Gate!ListKinds /\ CleanupOrder[2] \in Gate!ListKinds
            /\ CleanupOrder[3] \in Gate!ListKinds /\ CleanupOrder[4] \in Gate!ListKinds
            /\ CleanupOrder[5] \in Gate!ListKinds /\ CleanupOrder[6] \in Gate!ListKinds
            /\ CleanupOrder[7] \in Gate!ListKinds
        BY DEF CleanupOrder, Gate!ListKinds
      <3>2. \A n \in 1..7 : n \in {1, 2, 3, 4, 5, 6, 7}
        OBVIOUS
      <3> QED
        BY <3>1, <3>2
    <2> QED
      BY <2>1, <2>2 DEF Kinds
  <1>5. t \in Statement /\ Gate!InSight(t) /\ t.names \in Seq(Seq(Part))
    BY DEF Text, Statement, InSight
  <1>6. ~(t.verb \in Gate!SimpleHeads /\ ~Gate!Fills(t))
    BY <1>1 DEF Gate!SimpleHeads, Gate!Fills
  <1>7. ~(t.verb = "create" /\ t.kind \in {"master key", "database"})
    BY <1>1, <1>3, <1>4 DEF Gate!KindOf, Gate!ListKinds, Gate!Fills
  <1>8. Gate!OwnObject(Policy, Here, o.kind, Gate!Resolve(Here, Default, t.names[i]))
    BY <1>1, <1>2, <1>5, <1>6, <1>7, AllowedStaysInTheRun DEF EvaluateBatch
  <1> QED
    BY <1>2, <1>3, <1>8, DenotedIsOwned

LEMMA BatchIsOfCell ==
    ASSUME Sending
    PROVE  /\ at.i \in DOMAIN Cells /\ at.k \in DOMAIN Plan.steps
           /\ Batch \in Step /\ Batch.text \in Text
  <1>1. at.i \in DOMAIN Cells /\ at.k \in DOMAIN Plan.steps
    BY DEF Sending, Running
  <1>2. Cells[at.i] \in Cell
    BY <1>1, CellsAssumption
  <1>3. Plan.steps \in Seq(Step)
    BY <1>2 DEF Plan, Cell
  <1>4. Plan.steps[at.k] \in Step
    BY <1>1, <1>3
  <1> QED
    BY <1>1, <1>4 DEF Batch, Step

\* What a batch that is sent makes and drops.
LEMMA SentInReach ==
    ASSUME Sending, EvaluateBatch(Batch.text)
    PROVE  /\ Makes(Batch.text) \in SUBSET (InReach \cap Objects)
           /\ Drops(Batch.text) \in SUBSET (InReach \cap Objects)
  <1>1. Makes(Batch.text) \cup Drops(Batch.text) \subseteq Objects
    BY DEF Makes, Drops, NamedBy
  <1>2. CASE InSight(Batch.text)
    <2>1. Makes(Batch.text) \cup Drops(Batch.text) \subseteq Owned
      BY <1>2, BatchIsOfCell, AllowedIsOwned
    <2> QED
      BY <1>1, <2>1 DEF InReach
  <1>3. CASE ~InSight(Batch.text)
    <2>1. Makes(Batch.text) \cup Drops(Batch.text) \subseteq Unseen
      BY <1>3, BatchIsOfCell, UnseenAssumption DEF Batch, Plan
    <2> QED
      BY <1>1, <2>1 DEF InReach
  <1> QED
    BY <1>2, <1>3

\* What making and dropping objects in reach leaves of the rest.
LEMMA AppliedInReach ==
    ASSUME Types, NEW makes \in SUBSET (InReach \cap Objects),
           NEW drops \in SUBSET (InReach \cap Objects)
    PROVE  /\ Applied(makes, drops) \in [db : BOOLEAN, objs : SUBSET Objects]
           /\ Applied(makes, drops).db = server.db
           /\ Applied(makes, drops).objs \ InReach = server.objs \ InReach
           /\ server.objs \subseteq InReach => Applied(makes, drops).objs \subseteq InReach
  <1>1. server.objs \in SUBSET Objects
    BY DEF Types
  <1>2. /\ Applied(makes, drops).db = server.db
        /\ Applied(makes, drops).objs = (server.objs \cup makes) \ drops
        /\ Applied(makes, drops) \in [db : BOOLEAN, objs : SUBSET Objects]
    BY <1>1 DEF Types, Applied
  <1> QED
    BY <1>1, <1>2

\* What a step does to the server, as far as the invariant needs it.
ServerStep ==
    /\ server' \in [db : BOOLEAN, objs : SUBSET Objects]
    /\ server'.objs \ InReach = server.objs \ InReach
    /\ server.objs \subseteq InReach => server'.objs \subseteq InReach

LEMMA UnchangedServer == ASSUME Types, server' = server PROVE ServerStep
  BY DEF Types, ServerStep

LEMMA ExecutesInReach ==
    ASSUME Types, NEW makes \in SUBSET (InReach \cap Objects),
           NEW drops \in SUBSET (InReach \cap Objects), NEW ok, NEW number,
           Executes(makes, drops, ok, number)
    PROVE  /\ ServerStep /\ server'.db = server.db
           /\ conn' = conn \/ conn' = [conn EXCEPT !.work = "lost"]
           /\ conn.work \in {"open", "lost"}
  <1>1. server' = server \/ server' = Applied(makes, drops)
    BY DEF Executes
  <1>2. ServerStep /\ server'.db = server.db
    BY <1>1, AppliedInReach, UnchangedServer DEF ServerStep
  <1>3. conn' = conn \/ conn' = [conn EXCEPT !.work = "lost"]
    BY DEF Executes
  <1>4. conn.work \in {"open", "lost"}
    BY DEF Executes
  <1> QED
    BY <1>2, <1>3, <1>4

\* A step of the cells or of the sweep that reaches no server.
LEMMA SameRunStep ==
    ASSUME CInv, phase' = phase, server' = server, conn' = conn, database' = database,
           verified' = verified, raised' = raised, exit' = exit, todo' = todo
    PROVE  ServerStep /\ CInv'
  <1>1. ServerStep
    BY UnchangedServer DEF CInv
  <1>2. Types' /\ DatabaseIsOwn'
    BY DEF CInv, Types, DatabaseIsOwn
  <1>3. VerifiedIsClean' /\ ExitIsFinal'
    BY DEF CInv, VerifiedIsClean, ExitIsFinal, LiveRun
  <1> QED
    BY <1>1, <1>2, <1>3 DEF CInv

-----------------------------------------------------------------------------
(* One lemma per action.                                                   *)

LEMMA DryRunStep ==
    ASSUME CInv, DryRun
    PROVE  ServerStep /\ CInv'
  <1>1. ServerStep
    BY UnchangedServer DEF CInv, DryRun
  <1>2. Types'
    BY <1>1 DEF CInv, ServerStep, DryRun, sweepState, Types, Phases, None
  <1>3. todo' \subseteq Owned
    BY DEF CInv, DryRun, sweepState
  <1>4. DatabaseIsOwn'
    BY <1>1 DEF CInv, ServerStep, DryRun, sweepState, Types, DatabaseIsOwn,
       Working
  <1>5. VerifiedIsClean'
    BY <1>1 DEF CInv, ServerStep, DryRun, sweepState, Types, VerifiedIsClean,
       DatabaseIsOwn, LiveRun, Working, Closing, None
  <1>6. ExitIsFinal'
    BY <1>1 DEF CInv, ServerStep, DryRun, sweepState, Types, ExitIsFinal,
       VerifiedIsClean, None
  <1> QED
    BY <1>1, <1>2, <1>3, <1>4, <1>5, <1>6 DEF CInv

LEMMA RunSessionStep ==
    ASSUME CInv, RunSession
    PROVE  ServerStep /\ CInv'
  <1>1. ServerStep
    BY UnchangedServer DEF CInv, RunSession
  <1>2. Types'
    BY <1>1 DEF CInv, ServerStep, RunSession, lifecycle, cellState,
       sweepState, Types, Phases, None
  <1>3. todo' \subseteq Owned
    BY DEF CInv, RunSession, lifecycle, cellState, sweepState
  <1>4. DatabaseIsOwn'
    BY <1>1 DEF CInv, ServerStep, RunSession, lifecycle, cellState,
       sweepState, Types, DatabaseIsOwn, Working
  <1>5. VerifiedIsClean'
    BY <1>1 DEF CInv, ServerStep, RunSession, lifecycle, cellState,
       sweepState, Types, VerifiedIsClean, DatabaseIsOwn, LiveRun, Working,
       Closing, None
  <1>6. ExitIsFinal'
    BY <1>1 DEF CInv, ServerStep, RunSession, lifecycle, cellState,
       sweepState, Types, ExitIsFinal, VerifiedIsClean, None
  <1> QED
    BY <1>1, <1>2, <1>3, <1>4, <1>5, <1>6 DEF CInv

LEMMA ConnectAdminStep ==
    ASSUME CInv, ConnectAdmin
    PROVE  ServerStep /\ CInv'
  <1>1. ServerStep
    BY UnchangedServer DEF CInv, ConnectAdmin
  <1>2. Types'
    BY <1>1 DEF CInv, ServerStep, ConnectAdmin, lifecycle, cellState,
       sweepState, Types, Phases, None
  <1>3. todo' \subseteq Owned
    BY DEF CInv, ConnectAdmin, lifecycle, cellState, sweepState
  <1>4. DatabaseIsOwn'
    BY <1>1 DEF CInv, ServerStep, ConnectAdmin, lifecycle, cellState,
       sweepState, Types, DatabaseIsOwn, Working
  <1>5. VerifiedIsClean'
    BY <1>1 DEF CInv, ServerStep, ConnectAdmin, lifecycle, cellState,
       sweepState, Types, VerifiedIsClean, DatabaseIsOwn, LiveRun, Working,
       Closing, None
  <1>6. ExitIsFinal'
    BY <1>1 DEF CInv, ServerStep, ConnectAdmin, lifecycle, cellState,
       sweepState, Types, ExitIsFinal, VerifiedIsClean, None
  <1> QED
    BY <1>1, <1>2, <1>3, <1>4, <1>5, <1>6 DEF CInv

LEMMA ConnectWorkStep ==
    ASSUME CInv, ConnectWork
    PROVE  ServerStep /\ CInv'
  <1>1. ServerStep
    BY UnchangedServer DEF CInv, ConnectWork
  <1>2. Types'
    BY <1>1 DEF CInv, ServerStep, ConnectWork, lifecycle, cellState,
       sweepState, Types, Phases, None
  <1>3. todo' \subseteq Owned
    BY DEF CInv, ConnectWork, lifecycle, cellState, sweepState
  <1>4. DatabaseIsOwn'
    BY <1>1 DEF CInv, ServerStep, ConnectWork, lifecycle, cellState,
       sweepState, Types, DatabaseIsOwn, Working
  <1>5. VerifiedIsClean'
    BY <1>1 DEF CInv, ServerStep, ConnectWork, lifecycle, cellState,
       sweepState, Types, VerifiedIsClean, DatabaseIsOwn, LiveRun, Working,
       Closing, None
  <1>6. ExitIsFinal'
    BY <1>1 DEF CInv, ServerStep, ConnectWork, lifecycle, cellState,
       sweepState, Types, ExitIsFinal, VerifiedIsClean, None
  <1> QED
    BY <1>1, <1>2, <1>3, <1>4, <1>5, <1>6 DEF CInv

LEMMA ConnectFailsStep ==
    ASSUME CInv, NEW rep \in Reports, ConnectFails(rep)
    PROVE  ServerStep /\ CInv'
  <1>1. ServerStep
    BY UnchangedServer DEF CInv, ConnectFails
  <1>2. Types'
    BY <1>1 DEF CInv, ServerStep, ConnectFails, cellState, sweepState, Raise,
       Types, Phases, None
  <1>3. todo' \subseteq Owned
    BY DEF CInv, ConnectFails, cellState, sweepState, Raise
  <1>4. DatabaseIsOwn'
    BY <1>1 DEF CInv, ServerStep, ConnectFails, cellState, sweepState, Raise,
       Types, DatabaseIsOwn, Working
  <1>5. VerifiedIsClean'
    BY <1>1 DEF CInv, ServerStep, ConnectFails, cellState, sweepState, Raise,
       Types, VerifiedIsClean, DatabaseIsOwn, LiveRun, Working, Closing, None
  <1>6. ExitIsFinal'
    BY <1>1 DEF CInv, ServerStep, ConnectFails, cellState, sweepState, Raise,
       Types, ExitIsFinal, VerifiedIsClean, None
  <1> QED
    BY <1>1, <1>2, <1>3, <1>4, <1>5, <1>6 DEF CInv

LEMMA CreateRunDatabaseStep ==
    ASSUME CInv, CreateRunDatabase
    PROVE  ServerStep /\ CInv'
  <1>1. ServerStep
    <2>1. server' \in {server, [server EXCEPT !.db = TRUE]}
      BY DEF CreateRunDatabase
    <2> QED
      BY <2>1 DEF CInv, Types, ServerStep
  <1>2. Types'
    BY <1>1 DEF CInv, ServerStep, CreateRunDatabase, cellState, sweepState,
       Types, Phases, None
  <1>3. todo' \subseteq Owned
    BY DEF CInv, CreateRunDatabase, cellState, sweepState
  <1>4. DatabaseIsOwn'
    BY <1>1 DEF CInv, ServerStep, CreateRunDatabase, cellState, sweepState,
       Types, DatabaseIsOwn, Working
  <1>5. VerifiedIsClean'
    BY <1>1 DEF CInv, ServerStep, CreateRunDatabase, cellState, sweepState,
       Types, VerifiedIsClean, DatabaseIsOwn, LiveRun, Working, Closing, None
  <1>6. ExitIsFinal'
    BY <1>1 DEF CInv, ServerStep, CreateRunDatabase, cellState, sweepState,
       Types, ExitIsFinal, VerifiedIsClean, None
  <1> QED
    BY <1>1, <1>2, <1>3, <1>4, <1>5, <1>6 DEF CInv

LEMMA EnsureSchemaStep ==
    ASSUME CInv, EnsureSchema
    PROVE  ServerStep /\ CInv'
  <1>0. /\ ServerStep /\ server'.db = server.db /\ conn.work # None
        /\ conn' = conn \/ conn' = [conn EXCEPT !.work = "lost"]
    <2>1. PICK ok \in BOOLEAN, number \in {None, "other"} : Executes({Schema}, {}, ok, number)
      BY DEF EnsureSchema
    <2> QED
      BY <2>1, SchemaIsOwned, ExecutesInReach DEF CInv, None, InReach, Owned
  <1>1. ServerStep
    BY <1>0
  <1>2. Types'
    BY <1>0, <1>1 DEF CInv, ServerStep, EnsureSchema, lifecycle, cellState,
       sweepState, Types, Phases, None
  <1>3. todo' \subseteq Owned
    BY DEF CInv, EnsureSchema, lifecycle, cellState, sweepState
  <1>4. DatabaseIsOwn'
    BY <1>0, <1>1 DEF CInv, ServerStep, EnsureSchema, lifecycle, cellState,
       sweepState, Types, DatabaseIsOwn, Working
  <1>5. VerifiedIsClean'
    BY <1>0, <1>1 DEF CInv, ServerStep, EnsureSchema, lifecycle, cellState,
       sweepState, Types, VerifiedIsClean, DatabaseIsOwn, LiveRun, Working,
       Closing, None
  <1>6. ExitIsFinal'
    BY <1>0, <1>1 DEF CInv, ServerStep, EnsureSchema, lifecycle, cellState,
       sweepState, Types, ExitIsFinal, VerifiedIsClean, None
  <1> QED
    BY <1>1, <1>2, <1>3, <1>4, <1>5, <1>6 DEF CInv

LEMMA RecordRefusedPlanStep ==
    ASSUME CInv, RecordRefusedPlan
    PROVE  ServerStep /\ CInv'
  BY SameRunStep DEF RecordRefusedPlan, lifecycle, sweepState

LEMMA WithholdBatchStep ==
    ASSUME CInv, WithholdBatch
    PROVE  ServerStep /\ CInv'
  BY SameRunStep DEF WithholdBatch, lifecycle, sweepState

LEMMA JudgeCellStep ==
    ASSUME CInv, JudgeCell
    PROVE  ServerStep /\ CInv'
  BY SameRunStep DEF JudgeCell, lifecycle, sweepState

LEMMA SendBatchStep ==
    ASSUME CInv, SendBatch
    PROVE  ServerStep /\ CInv'
  <1>0. /\ ServerStep /\ server'.db = server.db /\ conn.work # None
        /\ conn' = conn \/ conn' = [conn EXCEPT !.work = "lost"]
    <2>1. PICK ok \in BOOLEAN, number \in {None, "expected", "other"} :
             Executes(Makes(Batch.text), Drops(Batch.text), ok, number)
      BY DEF SendBatch
    <2>2. /\ Makes(Batch.text) \in SUBSET (InReach \cap Objects)
          /\ Drops(Batch.text) \in SUBSET (InReach \cap Objects)
      BY SentInReach DEF SendBatch
    <2> QED
      BY <2>1, <2>2, ExecutesInReach DEF CInv, None
  <1>1. ServerStep
    BY <1>0
  <1>2. Types'
    BY <1>0, <1>1 DEF CInv, ServerStep, SendBatch, lifecycle, sweepState,
       Types, Phases, None
  <1>3. todo' \subseteq Owned
    BY DEF CInv, SendBatch, lifecycle, sweepState
  <1>4. DatabaseIsOwn'
    BY <1>0, <1>1 DEF CInv, ServerStep, SendBatch, lifecycle, sweepState,
       Types, DatabaseIsOwn, Working
  <1>5. VerifiedIsClean'
    <2>1. phase = "cells" /\ phase' = "cells" /\ verified' = verified
      BY DEF SendBatch, Sending, Running, lifecycle
    <2>2. ~verified
      BY <2>1 DEF CInv, VerifiedIsClean, Closing
    <2> QED
      BY <2>1, <2>2 DEF VerifiedIsClean
  <1>6. ExitIsFinal'
    BY <1>0, <1>1 DEF CInv, ServerStep, SendBatch, lifecycle, sweepState,
       Types, ExitIsFinal, VerifiedIsClean, None
  <1> QED
    BY <1>1, <1>2, <1>3, <1>4, <1>5, <1>6 DEF CInv

LEMMA ReadInventoryStep ==
    ASSUME CInv, ReadInventory
    PROVE  ServerStep /\ CInv'
  <1>1. ServerStep
    BY UnchangedServer DEF CInv, ReadInventory
  <1>2. Types'
    BY <1>1 DEF CInv, ServerStep, ReadInventory, lifecycle, cellState, Types,
       Phases, None
  <1>3. todo' \subseteq Owned
    BY DEF CInv, ReadInventory, lifecycle, cellState, Types, ExplicitCleanup,
       Owned
  <1>4. DatabaseIsOwn'
    BY <1>1 DEF CInv, ServerStep, ReadInventory, lifecycle, cellState, Types,
       DatabaseIsOwn, Working
  <1>5. VerifiedIsClean'
    BY <1>1 DEF CInv, ServerStep, ReadInventory, lifecycle, cellState, Types,
       VerifiedIsClean, DatabaseIsOwn, LiveRun, Working, Closing, None
  <1>6. ExitIsFinal'
    BY <1>1 DEF CInv, ServerStep, ReadInventory, lifecycle, cellState, Types,
       ExitIsFinal, VerifiedIsClean, None
  <1> QED
    BY <1>1, <1>2, <1>3, <1>4, <1>5, <1>6 DEF CInv

LEMMA DropObjectStep ==
    ASSUME CInv, NEW o \in Objects, DropObject(o)
    PROVE  ServerStep /\ CInv'
  <1>0. /\ ServerStep /\ server'.db = server.db
        /\ conn' = conn \/ conn' = [conn EXCEPT !.work = "lost"]
    <2>1. CASE EvaluateBatch(CleanupText(o))
      <3>1. PICK ok \in BOOLEAN, number \in {None, "other"} : Executes({}, {o}, ok, number)
        BY <2>1 DEF DropObject
      <3>2. o \in Owned
        BY DEF DropObject, NextToDrop, CInv
      <3> QED
        BY <3>1, <3>2, ExecutesInReach DEF CInv, None, InReach
    <2>2. CASE ~EvaluateBatch(CleanupText(o))
      BY <2>2, UnchangedServer DEF DropObject, CInv
    <2> QED
      BY <2>1, <2>2
  <1>1. ServerStep
    BY <1>0
  <1>2. Types'
    BY <1>0, <1>1 DEF CInv, ServerStep, DropObject, lifecycle, cellState,
       Types, Phases, None
  <1>3. todo' \subseteq Owned
    BY DEF CInv, DropObject, lifecycle, cellState
  <1>4. DatabaseIsOwn'
    BY <1>0, <1>1 DEF CInv, ServerStep, DropObject, lifecycle, cellState,
       Types, DatabaseIsOwn, Working
  <1>5. VerifiedIsClean'
    BY <1>0, <1>1 DEF CInv, ServerStep, DropObject, lifecycle, cellState,
       Types, VerifiedIsClean, DatabaseIsOwn, LiveRun, Working, Closing, None
  <1>6. ExitIsFinal'
    BY <1>0, <1>1 DEF CInv, ServerStep, DropObject, lifecycle, cellState,
       Types, ExitIsFinal, VerifiedIsClean, None
  <1> QED
    BY <1>1, <1>2, <1>3, <1>4, <1>5, <1>6 DEF CInv

LEMMA VerifyCleanupStep ==
    ASSUME CInv, VerifyCleanup
    PROVE  ServerStep /\ CInv'
  <1>1. ServerStep
    BY UnchangedServer DEF CInv, VerifyCleanup
  <1>2. Types'
    BY <1>1 DEF CInv, ServerStep, VerifyCleanup, cellState, sweepState, Types,
       Phases, None
  <1>3. todo' \subseteq Owned
    BY DEF CInv, VerifyCleanup, cellState, sweepState
  <1>4. DatabaseIsOwn'
    BY <1>1 DEF CInv, ServerStep, VerifyCleanup, cellState, sweepState, Types,
       DatabaseIsOwn, Working
  <1>5. VerifiedIsClean'
    <2>1. /\ server' = server /\ database' = database /\ raised' = raised
          /\ phase = "sweep" /\ phase' = "close work" /\ conn' = conn
      BY DEF VerifyCleanup
    <2>2. verified' => server.objs \cap Owned = {}
      <3>1. ASSUME verified', NEW o \in server.objs, Owns(o) PROVE FALSE
        <4>1. PICK kinds \in SUBSET Kinds :
                 verified' = ({p \in server.objs : p.kind \notin kinds /\ Owns(p)} = {}
                              /\ kinds = {})
          BY DEF VerifyCleanup
        <4> QED
          BY <3>1, <4>1
      <3> QED
        BY <3>1 DEF Owned
    <2>3. database.allowed => database.created
      BY <2>1 DEF CInv, DatabaseIsOwn, Working
    <2> QED
      BY <2>1, <2>2, <2>3 DEF VerifiedIsClean, Closing, LiveRun
  <1>6. ExitIsFinal'
    BY <1>1 DEF CInv, ServerStep, VerifyCleanup, cellState, sweepState, Types,
       ExitIsFinal, VerifiedIsClean, None
  <1> QED
    BY <1>1, <1>2, <1>3, <1>4, <1>5, <1>6 DEF CInv

LEMMA CloseWorkStep ==
    ASSUME CInv, CloseWork
    PROVE  ServerStep /\ CInv'
  <1>1. ServerStep
    BY UnchangedServer DEF CInv, CloseWork
  <1>2. Types'
    BY <1>1 DEF CInv, ServerStep, CloseWork, lifecycle, cellState, sweepState,
       Types, Phases, None
  <1>3. todo' \subseteq Owned
    BY DEF CInv, CloseWork, lifecycle, cellState, sweepState
  <1>4. DatabaseIsOwn'
    BY <1>1 DEF CInv, ServerStep, CloseWork, lifecycle, cellState, sweepState,
       Types, DatabaseIsOwn, Working
  <1>5. VerifiedIsClean'
    BY <1>1 DEF CInv, ServerStep, CloseWork, lifecycle, cellState, sweepState,
       Types, VerifiedIsClean, DatabaseIsOwn, LiveRun, Working, Closing, None
  <1>6. ExitIsFinal'
    BY <1>1 DEF CInv, ServerStep, CloseWork, lifecycle, cellState, sweepState,
       Types, ExitIsFinal, VerifiedIsClean, None
  <1> QED
    BY <1>1, <1>2, <1>3, <1>4, <1>5, <1>6 DEF CInv

LEMMA DropRunDatabaseStep ==
    ASSUME CInv, DropRunDatabase
    PROVE  ServerStep /\ CInv'
  <1>1. ServerStep
    <2>1. server' \in {server, [server EXCEPT !.db = FALSE, !.objs = {}]}
      BY DEF DropRunDatabase
    <2>2. server.objs \subseteq InReach
      BY DEF CInv, DatabaseIsOwn, DropRunDatabase
    <2> QED
      BY <2>1, <2>2 DEF CInv, Types, ServerStep
  <1>2. Types'
    BY <1>1 DEF CInv, ServerStep, DropRunDatabase, cellState, sweepState,
       Types, Phases, None
  <1>3. todo' \subseteq Owned
    BY DEF CInv, DropRunDatabase, cellState, sweepState
  <1>4. DatabaseIsOwn'
    BY <1>1 DEF CInv, ServerStep, DropRunDatabase, cellState, sweepState,
       Types, DatabaseIsOwn, Working
  <1>5. VerifiedIsClean'
    BY <1>1 DEF CInv, ServerStep, DropRunDatabase, cellState, sweepState,
       Types, VerifiedIsClean, DatabaseIsOwn, LiveRun, Working, Closing, None
  <1>6. ExitIsFinal'
    BY <1>1 DEF CInv, ServerStep, DropRunDatabase, cellState, sweepState,
       Types, ExitIsFinal, VerifiedIsClean, None
  <1> QED
    BY <1>1, <1>2, <1>3, <1>4, <1>5, <1>6 DEF CInv

LEMMA CloseAdminStep ==
    ASSUME CInv, CloseAdmin
    PROVE  ServerStep /\ CInv'
  <1>1. ServerStep
    BY UnchangedServer DEF CInv, CloseAdmin
  <1>2. Types'
    BY <1>1 DEF CInv, ServerStep, CloseAdmin, lifecycle, cellState, sweepState,
       Types, Phases, None
  <1>3. todo' \subseteq Owned
    BY DEF CInv, CloseAdmin, lifecycle, cellState, sweepState
  <1>4. DatabaseIsOwn'
    BY <1>1 DEF CInv, ServerStep, CloseAdmin, lifecycle, cellState, sweepState,
       Types, DatabaseIsOwn, Working
  <1>5. VerifiedIsClean'
    BY <1>1 DEF CInv, ServerStep, CloseAdmin, lifecycle, cellState, sweepState,
       Types, VerifiedIsClean, DatabaseIsOwn, LiveRun, Working, Closing, None
  <1>6. ExitIsFinal'
    BY <1>1 DEF CInv, ServerStep, CloseAdmin, lifecycle, cellState, sweepState,
       Types, ExitIsFinal, VerifiedIsClean, None
  <1> QED
    BY <1>1, <1>2, <1>3, <1>4, <1>5, <1>6 DEF CInv

LEMMA CmdExecuteReturnsStep ==
    ASSUME CInv, CmdExecuteReturns
    PROVE  ServerStep /\ CInv'
  <1>1. ServerStep
    BY UnchangedServer DEF CInv, CmdExecuteReturns
  <1>2. Types'
    BY <1>1 DEF CInv, ServerStep, CmdExecuteReturns, cellState, sweepState,
       Types, Phases, None
  <1>3. todo' \subseteq Owned
    BY DEF CInv, CmdExecuteReturns, cellState, sweepState
  <1>4. DatabaseIsOwn'
    BY <1>1 DEF CInv, ServerStep, CmdExecuteReturns, cellState, sweepState,
       Types, DatabaseIsOwn, Working
  <1>5. VerifiedIsClean'
    BY <1>1 DEF CInv, ServerStep, CmdExecuteReturns, cellState, sweepState,
       Types, VerifiedIsClean, DatabaseIsOwn, LiveRun, Working, Closing, None
  <1>6. ExitIsFinal'
    <2>1. /\ phase' = "done" /\ verified' = verified /\ raised' = raised
      BY DEF CmdExecuteReturns
    <2>2. exit' \in {"0", "1", "2", "interrupted"} /\ (exit' = "0" => verified /\ raised = None)
      BY DEF CmdExecuteReturns, CInv, Types
    <2> QED
      BY <2>1, <2>2 DEF ExitIsFinal, None
  <1> QED
    BY <1>1, <1>2, <1>3, <1>4, <1>5, <1>6 DEF CInv

LEMMA KeyboardInterruptStep ==
    ASSUME CInv, KeyboardInterrupt
    PROVE  ServerStep /\ CInv'
  <1>0. /\ phase \in {"close work", "drop database", "close admin"} =>
             server'.objs = server.objs \/ server'.objs = {}
        /\ ServerStep
    <2>1. CASE server' = server
      BY <2>1, UnchangedServer DEF CInv
    <2>2. CASE phase = "create" /\ server' = [server EXCEPT !.db = TRUE]
      BY <2>2 DEF CInv, Types, ServerStep
    <2>3. CASE phase = "schema" /\ server' = Applied({Schema}, {})
      BY <2>3, AppliedInReach, SchemaIsOwned DEF CInv, ServerStep, InReach, Owned
    <2>4. CASE /\ phase = "cells" /\ Sending /\ EvaluateBatch(Batch.text)
               /\ server' = Applied(Makes(Batch.text), Drops(Batch.text))
      BY <2>4, SentInReach, AppliedInReach DEF CInv, ServerStep
    <2>5. CASE phase = "sweep" /\ \E o \in todo : server' = Applied({}, {o})
      <3>1. PICK o \in todo : server' = Applied({}, {o})
        BY <2>5
      <3>2. {o} \in SUBSET (InReach \cap Objects)
        BY <3>1 DEF CInv, InReach, Owned
      <3>3. {} \in SUBSET (InReach \cap Objects)
        OBVIOUS
      <3>4. /\ Applied({}, {o}) \in [db : BOOLEAN, objs : SUBSET Objects]
            /\ Applied({}, {o}).objs \ InReach = server.objs \ InReach
            /\ server.objs \subseteq InReach => Applied({}, {o}).objs \subseteq InReach
        BY <3>2, <3>3, AppliedInReach DEF CInv
      <3> QED
        BY <2>5, <3>1, <3>4 DEF ServerStep
    <2>6. CASE /\ phase = "drop database"
               /\ server' = [server EXCEPT !.db = FALSE, !.objs = {}]
      <3>1. server.objs \subseteq InReach
        BY <2>6 DEF CInv, DatabaseIsOwn
      <3> QED
        BY <2>6, <3>1 DEF CInv, Types, ServerStep
    <2> QED
      BY <2>1, <2>2, <2>3, <2>4, <2>5, <2>6 DEF KeyboardInterrupt, InFlight
  <1>1. ServerStep
    BY <1>0
  <1>2. Types'
    BY <1>0, <1>1 DEF CInv, ServerStep, KeyboardInterrupt, cellState,
       sweepState, Types, Phases, None
  <1>3. todo' \subseteq Owned
    BY DEF CInv, KeyboardInterrupt, cellState, sweepState
  <1>4. DatabaseIsOwn'
    BY <1>0, <1>1 DEF CInv, ServerStep, KeyboardInterrupt, cellState,
       sweepState, Types, DatabaseIsOwn, Working
  <1>5. VerifiedIsClean'
    <2>1. /\ phase \notin {"start", "end", "done"} /\ raised' = "interrupt"
          /\ verified' = verified /\ conn' = conn
          /\ phase' = (IF phase \in {"close work", "drop database", "close admin"}
                       THEN "end" ELSE "close work")
      BY DEF KeyboardInterrupt
    <2>2. verified => phase \in {"close work", "drop database", "close admin"}
      BY <2>1 DEF CInv, VerifiedIsClean, Closing
    <2> QED
      BY <1>0, <2>1, <2>2 DEF CInv, VerifiedIsClean, Closing, LiveRun, None
  <1>6. ExitIsFinal'
    BY <1>0, <1>1 DEF CInv, ServerStep, KeyboardInterrupt, cellState,
       sweepState, Types, ExitIsFinal, VerifiedIsClean, None
  <1> QED
    BY <1>1, <1>2, <1>3, <1>4, <1>5, <1>6 DEF CInv

-----------------------------------------------------------------------------
(* The invariant of the run.                                               *)

LEMMA InitInv == Init => CInv
  <1> SUFFICES ASSUME Init PROVE CInv
    OBVIOUS
  <1>1. database.allowed \in Targets /\ Targets \subseteq BOOLEAN
    BY BoundsAssumption DEF Init
  <1>2. /\ server \in [db : BOOLEAN, objs : SUBSET Objects]
        /\ database.allowed => server.objs \subseteq InReach
    BY <1>1, ServersAssumption, ForeignAssumption DEF Init, InReach
  <1>3. Types
    BY <1>1, <1>2 DEF Init, Types, Phases, None
  <1>4. DatabaseIsOwn
    BY <1>2 DEF Init, DatabaseIsOwn, Working
  <1>5. VerifiedIsClean /\ ExitIsFinal
    BY DEF Init, VerifiedIsClean, ExitIsFinal, None
  <1> QED
    BY <1>3, <1>4, <1>5 DEF Init, CInv

LEMMA ProgressPreserves == CInv /\ Progress => ServerStep /\ CInv'
  <1> SUFFICES ASSUME CInv, Progress PROVE ServerStep /\ CInv'
    OBVIOUS
  <1>1. CASE DryRun \/ RunSession
    BY <1>1, DryRunStep, RunSessionStep
  <1>2. CASE ConnectAdmin \/ ConnectWork \/ \E r \in Reports : ConnectFails(r)
    BY <1>2, ConnectAdminStep, ConnectWorkStep, ConnectFailsStep
  <1>3. CASE CreateRunDatabase \/ EnsureSchema
    BY <1>3, CreateRunDatabaseStep, EnsureSchemaStep
  <1>4. CASE RecordRefusedPlan \/ WithholdBatch \/ SendBatch \/ JudgeCell
    BY <1>4, RecordRefusedPlanStep, WithholdBatchStep, SendBatchStep, JudgeCellStep
  <1>5. CASE ReadInventory \/ (\E o \in Objects : DropObject(o)) \/ VerifyCleanup
    BY <1>5, ReadInventoryStep, DropObjectStep, VerifyCleanupStep
  <1>6. CASE CloseWork \/ DropRunDatabase \/ CloseAdmin \/ CmdExecuteReturns
    BY <1>6, CloseWorkStep, DropRunDatabaseStep, CloseAdminStep, CmdExecuteReturnsStep
  <1> QED
    BY <1>1, <1>2, <1>3, <1>4, <1>5, <1>6 DEF Progress

LEMMA StutterPreserves == CInv /\ UNCHANGED vars => ServerStep /\ CInv'
  BY SameRunStep DEF vars

LEMMA NextPreserves == CInv /\ [Next]_vars => ServerStep /\ CInv'
  BY ProgressPreserves, KeyboardInterruptStep, StutterPreserves DEF Next, Done

(* The lifecycle of a run keeps CInv: a cleanup that was verified leaves   *)
(* nothing of the run, and only a run that is over has an exit status      *)
(* (run_session, run_cleanup, cmd_execute).                                *)
THEOREM CertificationInvariant == Spec => []CInv
  <1>1. CInv /\ [Next]_vars => CInv'
    BY NextPreserves
  <1> QED
    BY InitInv, <1>1, PTL DEF Spec

(* Whatever an edited manifest asks for in text that the gate's scanners   *)
(* see as the server does, whichever call fails and whenever the run is    *)
(* interrupted: what it does not own is neither dropped nor made, because  *)
(* an allowed batch names only what is the run's (AllowedStaysInTheRun).   *)
(* What text hidden from the scanners names is excepted.                   *)
THEOREM NothingForeignIsTouched == Spec => ForeignUntouched
  <1>1. CInv /\ [Next]_vars
           => [server'.objs \ (Owned \cup Unseen) = server.objs \ (Owned \cup Unseen)]_vars
    BY NextPreserves DEF ServerStep, InReach
  <1> QED
    BY <1>1, CertificationInvariant, PTL DEF Spec, ForeignUntouched

-----------------------------------------------------------------------------
(* The run implements the safety part of CertificationPromise.             *)

ClaimOf(status, live) == CASE status = None -> "none"
                           [] status = "0" /\ live -> "clean"
                           [] OTHER -> "unproved"
Claim == ClaimOf(exit, LiveRun)

LEMMA MadeIsKnown == Made \subseteq Owned \cup {RunDatabase}
  BY DEF Made

LEMMA ClaimOfStatus ==
    ASSUME NEW status, NEW live \in BOOLEAN
    PROVE  /\ status = None => ClaimOf(status, live) = "none"
           /\ status # None => ClaimOf(status, live) \in {"clean", "unproved"}
           /\ ClaimOf(status, live) = "clean" => status = "0" /\ live
  <1>1. CASE status = None
    <2>1. status # "0"
      BY <1>1 DEF None
    <2> QED
      BY <1>1, <2>1 DEF ClaimOf
  <1>2. CASE status # None /\ status = "0" /\ live
    BY <1>2 DEF ClaimOf
  <1>3. CASE status # None /\ ~(status = "0" /\ live)
    BY <1>3 DEF ClaimOf
  <1> QED
    BY <1>1, <1>2, <1>3

LEMMA LiveIsBoolean == LiveRun \in BOOLEAN /\ LiveRun' \in BOOLEAN
  BY DEF LiveRun

\* The exit status is written once, by the step that ends the run.
LEMMA ExitIsWrittenOnce ==
    ASSUME CInv, [Next]_vars
    PROVE  \/ exit' = exit
           \/ exit = None /\ UNCHANGED << server, database >>
  <1>1. CASE DryRun \/ CmdExecuteReturns
    <2>1. exit = None
      BY <1>1 DEF DryRun, CmdExecuteReturns, CInv, ExitIsFinal
    <2> QED
      BY <1>1, <2>1 DEF DryRun, CmdExecuteReturns
  <1>2. CASE RunSession \/ ConnectAdmin \/ ConnectWork \/ \E r \in Reports : ConnectFails(r)
    BY <1>2 DEF RunSession, ConnectAdmin, ConnectWork, ConnectFails, lifecycle
  <1>3. CASE \/ CreateRunDatabase \/ EnsureSchema \/ CloseWork \/ DropRunDatabase
             \/ CloseAdmin \/ KeyboardInterrupt
    BY <1>3 DEF CreateRunDatabase, EnsureSchema, CloseWork, DropRunDatabase, CloseAdmin,
                KeyboardInterrupt, lifecycle
  <1>4. CASE RecordRefusedPlan \/ WithholdBatch \/ SendBatch \/ JudgeCell
    BY <1>4 DEF RecordRefusedPlan, WithholdBatch, SendBatch, JudgeCell, lifecycle
  <1>5. CASE ReadInventory \/ (\E o \in Objects : DropObject(o)) \/ VerifyCleanup
    BY <1>5 DEF ReadInventory, DropObject, VerifyCleanup, lifecycle
  <1>6. CASE UNCHANGED vars
    BY <1>6 DEF vars
  <1> QED
    BY <1>1, <1>2, <1>3, <1>4, <1>5, <1>6 DEF Next, Progress, Done

\* A run that is over changes nothing any more.
LEMMA OverIsOver ==
    ASSUME CInv, [Next]_vars, exit # None
    PROVE  UNCHANGED vars
  <1>1. phase = "done"
    BY DEF CInv, ExitIsFinal
  <1>2. ~KeyboardInterrupt
    BY <1>1 DEF KeyboardInterrupt
  <1>3. ~Progress
    BY <1>1 DEF Progress, DryRun, RunSession, ConnectAdmin, ConnectWork, ConnectFails,
                CreateRunDatabase, EnsureSchema, RecordRefusedPlan, WithholdBatch,
                SendBatch, JudgeCell, Sending, Running, ReadInventory, DropObject,
                VerifyCleanup, CloseWork, DropRunDatabase, CloseAdmin, CmdExecuteReturns
  <1> QED
    BY <1>2, <1>3 DEF Next, Done

\* Exit status 0 of a live run: neither its database nor anything in it is left.
LEMMA CleanLeavesNothing ==
    ASSUME CInv', exit' = "0", LiveRun'
    PROVE  Made' = {}
  <1>1. phase' = "done" /\ verified' /\ raised' = None
    BY DEF CInv, ExitIsFinal, None
  <1>2. server'.objs \cap Owned = {}
    BY <1>1 DEF CInv, VerifiedIsClean
  <1>3. ~(database'.allowed /\ server'.db)
    BY <1>1 DEF CInv, VerifiedIsClean
  <1> QED
    BY <1>2, <1>3 DEF Made

(* A run implements what CertificationPromise promises to the owner of the *)
(* server: what is not the run's stays as it is, and the claim "clean" is  *)
(* only made when nothing of the run is left (the liveness half is checked *)
(* by TLC).                                                                *)
THEOREM RunKeepsPromise == Spec => Promise!Safety
  <1>1. Init => Promise!Init
    <2> SUFFICES ASSUME Init PROVE Promise!Init
      OBVIOUS
    <2>1. exit = None /\ CInv
      BY InitInv DEF Init
    <2>2. Claim = "none"
      BY <2>1, ClaimOfStatus, LiveIsBoolean DEF Claim
    <2> QED
      BY <2>2, MadeIsKnown DEF Promise!Init, Claim, ClaimOf
  <1>2. CInv /\ CInv' /\ [Next]_vars => [Promise!Next]_(Promise!vars)
    <2> SUFFICES ASSUME CInv, CInv', [Next]_vars PROVE [Promise!Next]_(Promise!vars)
      OBVIOUS
    <2>1. server'.objs \ (Owned \cup Unseen) = server.objs \ (Owned \cup Unseen)
      BY NextPreserves DEF ServerStep, InReach
    <2>2. CASE exit # None
      <3>1. UNCHANGED vars
        BY <2>2, OverIsOver
      <3>2. Made' = Made /\ Claim' = Claim
        BY <3>1 DEF vars, Made, Claim, LiveRun
      <3> QED
        BY <2>1, <3>2 DEF Promise!vars, Claim, ClaimOf
    <2>3. CASE exit = None /\ exit' = None
      <3>1. Claim = "none" /\ Claim' = "none"
        BY <2>3, ClaimOfStatus, LiveIsBoolean DEF Claim
      <3>2. Promise!Work
        BY <2>1, <3>1, MadeIsKnown DEF Promise!Work, Claim, ClaimOf, Made
      <3> QED
        BY <3>2 DEF Promise!Next
    <2>4. CASE exit = None /\ exit' # None
      <3>1. UNCHANGED << server, database >>
        BY <2>4, ExitIsWrittenOnce
      <3>2. Made' = Made
        BY <3>1 DEF Made
      <3>3. Claim = "none" /\ Claim' \in {"clean", "unproved"}
        BY <2>4, ClaimOfStatus, LiveIsBoolean DEF Claim
      <3>4. Claim' = "clean" => Made' = {}
        BY CleanLeavesNothing, ClaimOfStatus, LiveIsBoolean DEF Claim
      <3>5. Promise!End
        BY <2>1, <3>2, <3>3, <3>4 DEF Promise!End, Claim, ClaimOf
      <3> QED
        BY <3>5 DEF Promise!Next
    <2> QED
      BY <2>2, <2>3, <2>4
  <1> QED
    BY <1>1, <1>2, CertificationInvariant, PTL DEF Spec, Promise!Safety

-----------------------------------------------------------------------------
(* The verdicts.                                                           *)

Before == {"start", "connect admin", "create", "connect work", "schema", "cells"}

\* The cell under way: no verdict yet from here on, a cell that failed sends
\* nothing more, and one that did not has completed every batch so far.
CellTypes ==
    /\ at \in [i : Nat \ {0}, k : {at.k}, failed : BOOLEAN, refused : BOOLEAN]
    /\ ~at.refused => at.k \in Nat \ {0}
    /\ verdicts \in [DOMAIN Cells -> Verdicts \cup {None}]
    /\ faults \in Nat

CellUnderWay ==
    /\ phase \in Before => \A i \in DOMAIN Cells : i >= at.i => verdicts[i] = None
    /\ at.failed /\ at.i \in DOMAIN Cells => at.k = Len(Cells[at.i].steps) + 1
    /\ ~at.failed /\ ~at.refused => \A k \in 1 .. at.k - 1 : << at.i, k >> \in ran

\* A refusal nobody predicted belongs to a cell that was sent and, while it is
\* under way, to one that has already failed.
RefusalsAreKept ==
    /\ phase = "start" => refusals = {}
    /\ \A i \in refusals :
         /\ i \in DOMAIN Cells /\ i <= at.i /\ Cells[i].plan = "READY"
         /\ i = at.i /\ Cells[i].expected # {} => at.failed

\* Without a fault the work connection stays open under the cells.
WorkIsOpen == phase \in {"schema", "cells"} /\ faults = 0 => conn.work = "open"

EInv == CellTypes /\ CellUnderWay /\ RefusalsAreKept /\ WorkIsOpen /\ VerdictsAreEarned

LEMMA CellsAreCells ==
    ASSUME NEW i \in DOMAIN Cells
    PROVE  /\ Cells[i] \in Cell /\ i \in Nat \ {0} /\ Len(Cells[i].steps) \in Nat
           /\ DOMAIN Cells[i].steps = 1 .. Len(Cells[i].steps)
  <1>1. Cells[i] \in Cell /\ i \in Nat \ {0}
    BY CellsAssumption
  <1>2. Cells[i].steps \in Seq(Step)
    BY <1>1 DEF Cell
  <1> QED
    BY <1>1, <1>2

LEMMA InitEarned == Init => EInv
  <1> SUFFICES ASSUME Init PROVE EInv
    OBVIOUS
  <1>1. CellTypes /\ CellUnderWay
    BY DEF Init, CellTypes, CellUnderWay, Start, None
  <1>2. RefusalsAreKept /\ WorkIsOpen /\ VerdictsAreEarned
    BY DEF Init, RefusalsAreKept, WorkIsOpen, VerdictsAreEarned, None
  <1> QED
    BY <1>1, <1>2 DEF EInv

\* A step that leaves the cells alone.
LEMMA SameCellsStep ==
    ASSUME EInv, UNCHANGED cellState, faults' \in {faults, faults + 1},
           phase' \in Before => phase \in Before, phase' # "start",
           phase' \in {"schema", "cells"} /\ faults' = 0 => conn'.work = "open"
    PROVE  EInv'
  <1>1. /\ at' = at /\ verdicts' = verdicts /\ ran' = ran /\ seen' = seen
        /\ refusals' = refusals
    BY DEF cellState
  <1>2. CellTypes' /\ CellUnderWay'
    BY <1>1 DEF EInv, CellTypes, CellUnderWay
  <1>3. RefusalsAreKept' /\ WorkIsOpen'
    BY <1>1 DEF EInv, RefusalsAreKept, WorkIsOpen
  <1>4. faults' = 0 => faults = 0
    BY DEF EInv, CellTypes
  <1>5. VerdictsAreEarned'
    BY <1>1, <1>4 DEF EInv, VerdictsAreEarned
  <1> QED
    BY <1>2, <1>3, <1>5 DEF EInv

LEMMA DryRunEarned == ASSUME EInv, DryRun PROVE EInv'
  <1>1. /\ at' = at /\ ran' = ran /\ seen' = seen /\ refusals' = refusals
        /\ faults' = faults /\ phase' = "done" /\ phase = "start"
    BY DEF DryRun
  <1>2. \A i \in DOMAIN Cells :
          verdicts'[i] \in {"DRY_RUN_ACCEPTED", "BLOCKED", "NOT_EXECUTABLE"}
    BY CellsAreCells DEF DryRun, Cell
  <1>3. CellTypes'
    <2>1. verdicts' = [i \in DOMAIN Cells |-> verdicts'[i]]
      BY DEF DryRun
    <2> QED
      BY <1>1, <1>2, <2>1 DEF EInv, CellTypes, Verdicts
  <1>4. CellUnderWay' /\ RefusalsAreKept' /\ WorkIsOpen'
    BY <1>1 DEF EInv, CellUnderWay, RefusalsAreKept, WorkIsOpen, Before
  <1>5. VerdictsAreEarned'
    <2>1. refusals' = {}
      BY <1>1 DEF EInv, RefusalsAreKept
    <2> QED
      BY <1>2, <2>1 DEF VerdictsAreEarned
  <1> QED
    BY <1>3, <1>4, <1>5 DEF EInv

\* A statement on the work connection can only lose it at the cost of a fault.
LEMMA ExecutesCountsFaults ==
    ASSUME EInv, NEW makes, NEW drops, NEW ok, NEW number, Executes(makes, drops, ok, number)
    PROVE  /\ faults' \in {faults, faults + 1}
           /\ faults' = 0 => conn' = conn
           /\ ok => conn'.work = "open"
           /\ ok <=> number = None
           /\ ~ok => number \in {"expected", "other"}
  BY DEF Executes, EInv, CellTypes, None

LEMMA SessionEarned ==
    ASSUME EInv, Types,
           \/ RunSession \/ ConnectAdmin \/ ConnectWork \/ CreateRunDatabase
           \/ EnsureSchema \/ \E r \in Reports : ConnectFails(r)
    PROVE  EInv'
  <1>1. CASE RunSession \/ ConnectAdmin \/ CreateRunDatabase
    <2>1. UNCHANGED cellState /\ faults' \in {faults, faults + 1} /\ phase \in Before
      BY <1>1 DEF RunSession, ConnectAdmin, CreateRunDatabase, Before
    <2>2. phase' \notin {"start", "schema", "cells"}
      BY <1>1 DEF RunSession, ConnectAdmin, CreateRunDatabase
    <2> QED
      BY <2>1, <2>2, SameCellsStep
  <1>2. CASE ConnectWork
    <2>1. UNCHANGED << cellState, faults >> /\ phase \in Before /\ phase' = "schema"
      BY <1>2 DEF ConnectWork, Before
    <2>2. conn'.work = "open"
      BY <1>2 DEF ConnectWork, Types
    <2> QED
      BY <2>1, <2>2, SameCellsStep
  <1>3. CASE EnsureSchema
    <2>1. PICK ok \in BOOLEAN, number \in {None, "other"} :
             /\ Executes({Schema}, {}, ok, number)
             /\ phase' = IF ok THEN "cells" ELSE "close work"
      BY <1>3 DEF EnsureSchema
    <2>2. UNCHANGED cellState /\ phase \in Before
      BY <1>3 DEF EnsureSchema, Before
    <2>3. faults' \in {faults, faults + 1} /\ (ok => conn'.work = "open")
      BY <2>1, ExecutesCountsFaults
    <2>4. phase' # "start" /\ (phase' \in {"schema", "cells"} => ok)
      BY <2>1
    <2> QED
      BY <2>2, <2>3, <2>4, SameCellsStep
  <1>4. CASE \E r \in Reports : ConnectFails(r)
    <2>1. UNCHANGED << cellState, faults >> /\ phase \in Before
      BY <1>4 DEF ConnectFails, Before
    <2>2. phase' \notin {"start", "schema", "cells"}
      BY <1>4 DEF ConnectFails, Raise
    <2> QED
      BY <2>1, <2>2, SameCellsStep
  <1> QED
    BY <1>1, <1>2, <1>3, <1>4

LEMMA AfterCellsEarned ==
    ASSUME EInv, \/ ReadInventory \/ (\E o \in Objects : DropObject(o)) \/ VerifyCleanup
                 \/ CloseWork \/ DropRunDatabase \/ CloseAdmin \/ CmdExecuteReturns \/ KeyboardInterrupt
    PROVE  EInv'
  <1>1. CASE ReadInventory \/ VerifyCleanup
    <2>1. UNCHANGED cellState /\ faults' \in {faults, faults + 1}
      BY <1>1 DEF ReadInventory, VerifyCleanup, Unreadable
    <2>2. phase' \notin Before
      BY <1>1 DEF ReadInventory, VerifyCleanup, Before
    <2> QED
      BY <2>1, <2>2, SameCellsStep DEF Before
  <1>2. CASE \E o \in Objects : DropObject(o)
    <2>1. UNCHANGED cellState /\ phase' = "sweep"
      BY <1>2 DEF DropObject
    <2>2. faults' \in {faults, faults + 1}
      BY <1>2, ExecutesCountsFaults DEF DropObject
    <2> QED
      BY <2>1, <2>2, SameCellsStep DEF Before
  <1>3. CASE CloseWork \/ DropRunDatabase \/ CloseAdmin \/ CmdExecuteReturns \/ KeyboardInterrupt
    <2>1. UNCHANGED cellState /\ faults' \in {faults, faults + 1}
      BY <1>3 DEF CloseWork, DropRunDatabase, CloseAdmin, CmdExecuteReturns, KeyboardInterrupt
    <2>2. phase' \notin Before
      BY <1>3 DEF CloseWork, DropRunDatabase, CloseAdmin, CmdExecuteReturns, KeyboardInterrupt, Before
    <2> QED
      BY <2>1, <2>2, SameCellsStep DEF Before
  <1> QED
    BY <1>1, <1>2, <1>3

\* The cell under way is concluded with a verdict it has earned.
LEMMA ConcludeEarned ==
    ASSUME EInv, Running, NEW verdict \in Verdicts, Conclude(verdict),
           phase' = "cells", ran' = ran, refusals' = refusals, seen \subseteq seen',
           faults' \in {faults, faults + 1}, faults' = 0 => conn' = conn,
           at.i \in refusals => Plan.expected = {} \/ verdict = "FAIL",
           verdict \in {"PASS", "EXEC_AFTER_SUBSTITUTION"} =>
             /\ \A k \in DOMAIN Plan.steps : << at.i, k >> \in ran
             /\ faults' = 0 /\ Plan.catalog # {} => at.i \in seen'
    PROVE  EInv'
  <1>1. /\ at' = [i |-> at.i + 1, k |-> 1, failed |-> FALSE, refused |-> FALSE]
        /\ verdicts' = [verdicts EXCEPT ![at.i] = verdict]
        /\ at.i \in DOMAIN Cells /\ at.i \in Nat \ {0} /\ phase = "cells"
    BY CellsAreCells DEF Conclude, Start, Running
  <1>2. /\ verdicts'[at.i] = verdict
        /\ \A i \in DOMAIN Cells \ {at.i} : verdicts'[i] = verdicts[i]
        /\ verdicts' \in [DOMAIN Cells -> Verdicts \cup {None}]
    BY <1>1 DEF EInv, CellTypes
  <1>3. CellTypes'
    BY <1>1, <1>2 DEF EInv, CellTypes
  <1>4. CellUnderWay'
    <2>1. \A i \in DOMAIN Cells : i >= at'.i => verdicts'[i] = None
      BY <1>1, <1>2, CellsAreCells DEF EInv, CellUnderWay, Before
    <2> QED
      BY <1>1, <2>1 DEF CellUnderWay
  <1>5. RefusalsAreKept'
    BY <1>1, CellsAreCells DEF EInv, RefusalsAreKept
  <1>6. WorkIsOpen'
    BY <1>1 DEF EInv, WorkIsOpen, CellTypes
  <1>7. VerdictsAreEarned'
    <2> SUFFICES ASSUME NEW i \in DOMAIN Cells
                 PROVE  /\ verdicts'[i] \in {"PASS", "EXEC_AFTER_SUBSTITUTION"} =>
                             /\ \A k \in DOMAIN Cells[i].steps : << i, k >> \in ran'
                             /\ faults' = 0 /\ Cells[i].catalog # {} => i \in seen'
                        /\ i \in refusals' /\ verdicts'[i] # None
                             /\ Cells[i].expected # {} => verdicts'[i] = "FAIL"
      BY DEF VerdictsAreEarned
    <2>1. CASE i = at.i
      BY <2>1, <1>2 DEF Plan
    <2>2. CASE i # at.i
      <3>1. verdicts'[i] = verdicts[i] /\ (faults' = 0 => faults = 0)
        BY <2>2, <1>2 DEF EInv, CellTypes
      <3> QED
        BY <3>1 DEF EInv, VerdictsAreEarned
    <2> QED
      BY <2>1, <2>2
  <1> QED
    BY <1>3, <1>4, <1>5, <1>6, <1>7 DEF EInv

\* The cell under way goes on: with its next batch, with its checks after a
\* predicted refusal, or, failed, with no batch at all.
LEMMA GoesOnEarned ==
    ASSUME EInv, Sending, verdicts' = verdicts, seen' = seen, phase' = "cells",
           faults' \in {faults, faults + 1}, faults' = 0 => conn' = conn,
           ran \subseteq ran', refusals \subseteq refusals', refusals' \subseteq refusals \cup {at.i},
           at' \in [i : {at.i}, k : {at'.k}, failed : BOOLEAN, refused : BOOLEAN],
           ~at'.refused => at'.k \in Nat \ {0},
           at'.failed => at'.k = Len(Plan.steps) + 1,
           ~at'.failed /\ ~at'.refused =>
             /\ ~at.refused /\ at'.k = at.k + 1 /\ << at.i, at.k >> \in ran',
           at.i \in refusals' => at'.failed \/ Plan.expected = {}
    PROVE  EInv'
  <1>1. /\ phase = "cells" /\ at.i \in DOMAIN Cells /\ Plan.plan = "READY"
        /\ at.k \in DOMAIN Plan.steps /\ at'.i = at.i
        /\ at.i \in Nat \ {0} /\ at.k \in Nat \ {0}
    BY CellsAreCells DEF Sending, Running, Plan
  <1>2. ~at.failed
    BY <1>1, CellsAreCells DEF EInv, CellUnderWay, Plan
  <1>3. CellTypes'
    BY <1>1 DEF EInv, CellTypes
  <1>4. CellUnderWay'
    <2>1. \A i \in DOMAIN Cells : i >= at'.i => verdicts'[i] = None
      BY <1>1 DEF EInv, CellUnderWay, Before
    <2>2. ~at'.failed /\ ~at'.refused => \A k \in 1 .. at'.k - 1 : << at'.i, k >> \in ran'
      <3> SUFFICES ASSUME ~at'.failed, ~at'.refused, NEW k \in 1 .. at'.k - 1
                   PROVE  << at.i, k >> \in ran'
        BY <1>1
      <3>1. at'.k = at.k + 1
        OBVIOUS
      <3>2. CASE k = at.k
        BY <3>2
      <3>3. CASE k # at.k
        <4>1. k \in 1 .. at.k - 1
          BY <1>1, <3>1, <3>3
        <4> QED
          BY <4>1, <1>2 DEF EInv, CellUnderWay
      <3> QED
        BY <3>2, <3>3
    <2> QED
      BY <1>1, <2>1, <2>2 DEF CellUnderWay, Plan
  <1>5. RefusalsAreKept'
    BY <1>1, <1>2 DEF EInv, RefusalsAreKept, Plan
  <1>6. WorkIsOpen'
    BY <1>1 DEF EInv, WorkIsOpen, CellTypes
  <1>7. VerdictsAreEarned'
    <2>1. verdicts[at.i] = None
      BY <1>1 DEF EInv, CellUnderWay, Before
    <2>2. faults' = 0 => faults = 0
      BY DEF EInv, CellTypes
    <2> QED
      BY <2>1, <2>2 DEF EInv, VerdictsAreEarned, None
  <1> QED
    BY <1>3, <1>4, <1>5, <1>6, <1>7 DEF EInv

\* A cell that still sends has not failed, so no refusal counts against it.
LEMMA SendingIsUnfailed ==
    ASSUME EInv, Sending
    PROVE  ~at.failed /\ (at.i \in refusals => Plan.expected = {})
  <1>1. ~at.failed
    BY CellsAreCells DEF EInv, CellUnderWay, Plan, Sending, Running
  <1> QED
    BY <1>1 DEF EInv, RefusalsAreKept, Plan

LEMMA FailsEarned ==
    ASSUME EInv, Sending, CellFails, seen' = seen, phase' = "cells",
           faults' \in {faults, faults + 1}, faults' = 0 => conn' = conn,
           ran \subseteq ran', refusals \subseteq refusals', refusals' \subseteq refusals \cup {at.i}
    PROVE  EInv'
  <1>1. Len(Plan.steps) \in Nat
    BY CellsAreCells DEF Plan, Sending, Running
  <1> DEFINE last == Len(Plan.steps) + 1
  <1>2. at' = [at EXCEPT !.failed = TRUE, !.k = last] /\ verdicts' = verdicts
    BY DEF CellFails
  <1>3. last \in Nat \ {0}
    BY <1>1
  <1> HIDE DEF last
  <1>4. /\ at' \in [i : {at.i}, k : {at'.k}, failed : BOOLEAN, refused : BOOLEAN]
        /\ at'.failed /\ at'.k = last
    BY <1>2 DEF EInv, CellTypes
  <1> QED
    BY <1>2, <1>3, <1>4, GoesOnEarned DEF last

LEMMA WithholdEarned == ASSUME EInv, WithholdBatch PROVE EInv'
  <1>1. /\ Sending /\ Running /\ phase' = "cells" /\ ran' = ran /\ refusals' = refusals
        /\ seen' = seen /\ faults' = faults /\ conn' = conn
    BY DEF WithholdBatch, Sending, Running
  <1>2. ~at.failed /\ (at.i \in refusals => Plan.expected = {})
    BY <1>1, SendingIsUnfailed
  <1>3. CASE Batch.stage = "setup"
    <2>1. Conclude("NOT_EXECUTABLE")
      BY <1>3 DEF WithholdBatch, PrerequisiteFails
    <2> QED
      BY <1>1, <1>2, <2>1, ConcludeEarned DEF Verdicts
  <1>4. CASE Batch.stage = "own"
    <2>1. Conclude("BLOCKED") \/ Conclude("NOT_EXECUTABLE")
      BY <1>4 DEF WithholdBatch
    <2> QED
      BY <1>1, <1>2, <2>1, ConcludeEarned DEF Verdicts
  <1>5. CASE Batch.stage \notin {"setup", "own"}
    <2>1. CellFails
      BY <1>5 DEF WithholdBatch
    <2> QED
      BY <1>1, <2>1, FailsEarned
  <1> QED
    BY <1>3, <1>4, <1>5

LEMMA RecordEarned == ASSUME EInv, RecordRefusedPlan PROVE EInv'
  <1>1. /\ Running /\ phase' = "cells" /\ ran' = ran /\ refusals' = refusals
        /\ seen' = seen /\ faults' = faults /\ conn' = conn /\ Conclude(Plan.plan)
    BY DEF RecordRefusedPlan, Running
  <1>2. Plan.plan \in {"BLOCKED", "NOT_EXECUTABLE"}
    BY CellsAreCells DEF RecordRefusedPlan, Plan, Running, Cell
  <1>3. at.i \notin refusals
    BY <1>2 DEF EInv, RefusalsAreKept, Plan
  <1> QED
    BY <1>1, <1>2, <1>3, ConcludeEarned DEF Verdicts

\* A prerequisite that fails may have lost the connection on its way.
LEMMA PrerequisiteEarned ==
    ASSUME EInv, Sending, Conclude("NOT_EXECUTABLE"), phase' = "cells", ran' = ran,
           refusals' = refusals, seen' = seen, faults' \in {faults, faults + 1},
           faults' = 0 => conn' = conn
    PROVE  EInv'
  <1>1. Running /\ (at.i \in refusals => Plan.expected = {})
    BY SendingIsUnfailed DEF Sending
  <1> QED
    BY <1>1, ConcludeEarned DEF Verdicts

LEMMA SendEarned == ASSUME EInv, SendBatch PROVE EInv'
  <1>1. /\ Sending /\ Running /\ phase' = "cells" /\ seen' = seen
    BY DEF SendBatch, Sending, Running
  <1>2. ~at.failed /\ (at.i \in refusals => Plan.expected = {})
    BY <1>1, SendingIsUnfailed
  <1>3. PICK ok \in BOOLEAN, number \in {None, "expected", "other"} :
         /\ Executes(Makes(Batch.text), Drops(Batch.text), ok, number)
         /\ ran' = IF ok THEN ran \cup {<< at.i, at.k >>} ELSE ran
         /\ refusals' = IF number = "other" /\ Batch.stage # "setup"
                           THEN refusals \cup {at.i} ELSE refusals
         /\ CASE ok -> /\ at' = [at EXCEPT !.k = @ + 1]
                       /\ UNCHANGED << verdicts, excused >>
              [] ~ok /\ Batch.stage = "setup" -> PrerequisiteFails
              [] ~ok /\ Batch.stage = "own" /\ Predicted(number) ->
                   /\ at' = [at EXCEPT !.refused = TRUE, !.k = FirstCheck]
                   /\ UNCHANGED << verdicts, excused >>
              [] OTHER -> CellFails
    BY DEF SendBatch
  <1>4. /\ faults' \in {faults, faults + 1} /\ (faults' = 0 => conn' = conn)
        /\ ok <=> number = None
    BY <1>3, ExecutesCountsFaults
  <1>5. CASE ok
    <2>1. /\ at' = [at EXCEPT !.k = @ + 1] /\ verdicts' = verdicts
          /\ refusals' = refusals /\ << at.i, at.k >> \in ran' /\ ran \subseteq ran'
      BY <1>3, <1>4, <1>5 DEF None
    <2>2. /\ at' \in [i : {at.i}, k : {at'.k}, failed : BOOLEAN, refused : BOOLEAN]
          /\ ~at'.refused => at'.k \in Nat \ {0}
          /\ at'.k = at.k + 1 /\ at'.failed = at.failed /\ at'.refused = at.refused
      BY <2>1 DEF EInv, CellTypes
    <2> QED
      BY <1>1, <1>2, <1>4, <2>1, <2>2, GoesOnEarned
  <1>6. CASE ~ok /\ Batch.stage = "setup"
    <2>1. PrerequisiteFails /\ ran' = ran /\ refusals' = refusals
      BY <1>3, <1>6
    <2>2. Conclude("NOT_EXECUTABLE")
      BY <2>1 DEF PrerequisiteFails
    <2> QED
      BY <1>1, <1>2, <1>4, <2>1, <2>2, PrerequisiteEarned
  <1>7. CASE ~ok /\ Batch.stage = "own" /\ Predicted(number)
    <2>1. /\ at' = [at EXCEPT !.refused = TRUE, !.k = FirstCheck]
          /\ verdicts' = verdicts /\ ran' = ran
          /\ refusals \subseteq refusals' /\ refusals' \subseteq refusals \cup {at.i}
      BY <1>3, <1>7
    <2>2. at.i \in refusals' => Plan.expected = {}
      <3>1. CASE at.i \in refusals
        BY <1>2, <3>1
      <3>2. CASE number = "other"
        <4>1. Plan.expected \subseteq {"expected"}
          BY <1>1, CellsAreCells DEF Plan, Running, Cell
        <4> QED
          BY <1>7, <3>2, <4>1 DEF Predicted
      <3> QED
        BY <1>3, <3>1, <3>2
    <2>3. /\ at' \in [i : {at.i}, k : {at'.k}, failed : BOOLEAN, refused : BOOLEAN]
          /\ at'.failed = at.failed /\ at'.refused
      BY <2>1 DEF EInv, CellTypes
    <2> QED
      BY <1>1, <1>2, <1>4, <2>1, <2>2, <2>3, GoesOnEarned
  <1>8. CASE ~ok /\ Batch.stage # "setup" /\ ~(Batch.stage = "own" /\ Predicted(number))
    <2>1. /\ CellFails /\ ran' = ran
          /\ refusals \subseteq refusals' /\ refusals' \subseteq refusals \cup {at.i}
      BY <1>3, <1>8
    <2> QED
      BY <1>1, <1>4, <2>1, FailsEarned
  <1> QED
    BY <1>5, <1>6, <1>7, <1>8

LEMMA JudgeEarned == ASSUME EInv, JudgeCell PROVE EInv'
  <1>1. /\ Running /\ phase' = "cells" /\ phase = "cells" /\ ran' = ran
        /\ refusals' = refusals /\ conn' = conn
        /\ at.i \in DOMAIN Cells /\ at.k \notin DOMAIN Plan.steps
    BY DEF JudgeCell, Running
  <1> DEFINE verdictOf(answer, counts) ==
        IF at.failed \/ answer = "absent" \/ ~counts THEN "FAIL"
        ELSE IF at.refused THEN "UNSUPPORTED_EXPECTED"
        ELSE IF Plan.substituted THEN "EXEC_AFTER_SUBSTITUTION"
        ELSE "PASS"
  <1>2. PICK answer \in {None, "present", "absent"}, counts \in BOOLEAN :
         /\ answer = None => \/ Plan.catalog = {} \/ at.failed
                             \/ conn.work # "open" \/ faults < MaxFaults
         /\ faults' = IF /\ answer = None /\ Plan.catalog # {}
                         /\ ~at.failed /\ conn.work = "open"
                        THEN faults + 1 ELSE faults
         /\ seen' = IF answer = "present" THEN seen \cup {at.i} ELSE seen
         /\ Conclude(verdictOf(answer, counts))
    BY DEF JudgeCell
  <1> DEFINE verdict == verdictOf(answer, counts)
  <1>3. /\ verdict \in Verdicts
        /\ verdict \in {"PASS", "EXEC_AFTER_SUBSTITUTION"} =>
             ~at.failed /\ ~at.refused /\ answer # "absent"
        /\ at.failed => verdict = "FAIL"
    BY DEF Verdicts
  <1>4. Conclude(verdict)
    BY <1>2
  <1> HIDE DEF verdict, verdictOf
  <1>5. at.i \in refusals => Plan.expected = {} \/ verdict = "FAIL"
    BY <1>3 DEF EInv, RefusalsAreKept, Plan
  <1>6. ASSUME verdict \in {"PASS", "EXEC_AFTER_SUBSTITUTION"}
        PROVE  \A k \in DOMAIN Plan.steps : << at.i, k >> \in ran
    <2>1. ~at.failed /\ ~at.refused
      BY <1>3, <1>6
    <2>2. \A k \in 1 .. at.k - 1 : << at.i, k >> \in ran
      BY <2>1 DEF EInv, CellUnderWay
    <2>3. at.k \in Nat \ {0} /\ Len(Plan.steps) \in Nat /\ DOMAIN Plan.steps = 1 .. Len(Plan.steps)
      BY <1>1, <2>1, CellsAreCells DEF EInv, CellTypes, Plan
    <2>4. DOMAIN Plan.steps \subseteq 1 .. at.k - 1
      BY <1>1, <2>3
    <2> QED
      BY <2>2, <2>4
  <1>7. ASSUME verdict \in {"PASS", "EXEC_AFTER_SUBSTITUTION"}, faults' = 0, Plan.catalog # {}
        PROVE  at.i \in seen'
    <2>1. ~at.failed /\ answer # "absent" /\ faults = 0
      BY <1>2, <1>3, <1>7 DEF EInv, CellTypes
    <2>2. conn.work = "open"
      BY <1>1, <2>1 DEF EInv, WorkIsOpen
    <2>3. answer # None
      BY <1>2, <1>7, <2>1, <2>2
    <2> QED
      BY <1>2, <2>1, <2>3
  <1>8. seen \subseteq seen' /\ faults' \in {faults, faults + 1}
    BY <1>2
  <1> QED
    BY <1>1, <1>3, <1>4, <1>5, <1>6, <1>7, <1>8, ConcludeEarned

LEMMA NextEarned == EInv /\ Types /\ [Next]_vars => EInv'
  <1> SUFFICES ASSUME EInv, Types, [Next]_vars PROVE EInv'
    OBVIOUS
  <1>1. CASE DryRun
    BY <1>1, DryRunEarned
  <1>2. CASE \/ RunSession \/ ConnectAdmin \/ ConnectWork \/ CreateRunDatabase
             \/ EnsureSchema \/ \E r \in Reports : ConnectFails(r)
    BY <1>2, SessionEarned
  <1>3. CASE RecordRefusedPlan \/ WithholdBatch \/ SendBatch \/ JudgeCell
    BY <1>3, RecordEarned, WithholdEarned, SendEarned, JudgeEarned
  <1>4. CASE \/ ReadInventory \/ (\E o \in Objects : DropObject(o)) \/ VerifyCleanup
             \/ CloseWork \/ DropRunDatabase \/ CloseAdmin \/ CmdExecuteReturns \/ KeyboardInterrupt
    BY <1>4, AfterCellsEarned
  <1>5. CASE UNCHANGED vars
    <2>1. UNCHANGED << phase, conn, at, verdicts, ran, seen, refusals, faults >>
      BY <1>5 DEF vars
    <2>2. CellTypes' /\ CellUnderWay' /\ RefusalsAreKept' /\ WorkIsOpen'
      BY <2>1 DEF EInv, CellTypes, CellUnderWay, RefusalsAreKept, WorkIsOpen
    <2>3. VerdictsAreEarned'
      BY <2>1 DEF EInv, VerdictsAreEarned
    <2> QED
      BY <2>2, <2>3 DEF EInv
  <1> QED
    BY <1>1, <1>2, <1>3, <1>4, <1>5 DEF Next, Progress, Done

(* No verdict is given away: a cell passes only when each of its batches   *)
(* completed and the catalog was not in doubt, and a refusal with a number *)
(* the matrix did not predict fails its cell (execute_cell).               *)
THEOREM NoVerdictIsGivenAway == Spec => []VerdictsAreEarned
  <1>1. CInv => Types
    BY DEF CInv
  <1>2. EInv => VerdictsAreEarned
    BY DEF EInv
  <1> QED
    BY <1>1, <1>2, InitEarned, NextEarned, CertificationInvariant, PTL DEF Spec

-----------------------------------------------------------------------------
(* A login that was refused ends the run's connecting.                     *)

\* The number a driver's error is known by tells that its login was refused.
FirstNumberTells == \A r \in Reports : LoginRefused(r) => AuthError \in NumbersKept(r)

RefusedIsClosing == /\ phase \in Phases /\ login.tries \in Nat
                    /\ login.denied => phase \in Closing

LEMMA ConnectFailsRefused ==
    ASSUME FirstNumberTells, RefusedIsClosing, NEW r \in Reports, ConnectFails(r)
    PROVE  RefusedIsClosing' /\ ~login.denied
  <1>1. phase \in {"connect admin", "connect work"}
    BY DEF ConnectFails
  <1>2. ~login.denied
    BY <1>1 DEF RefusedIsClosing, Closing
  <1>3. login' = [tries |-> login.tries + 1, denied |-> LoginRefused(r)]
    BY <1>2 DEF ConnectFails, RefusedIsClosing, LoginRefused
  <1>4. LoginRefused(r) => ~WorthRetrying(r)
    BY DEF FirstNumberTells, WorthRetrying
  <1>5. phase' \in {phase, "close work"} /\ (~WorthRetrying(r) => phase' = "close work")
    BY DEF ConnectFails, Raise
  <1>6. login'.tries = login.tries + 1 /\ (login'.denied => LoginRefused(r))
    BY <1>3
  <1>7. login'.tries \in Nat /\ phase' \in Phases
    <2>1. login.tries \in Nat /\ phase \in Phases
      BY DEF RefusedIsClosing
    <2>2. login'.tries \in Nat
      BY <1>6, <2>1
    <2> QED
      BY <1>5, <2>1, <2>2 DEF Phases
  <1>8. login'.denied => phase' \in Closing
    BY <1>4, <1>5, <1>6 DEF Closing
  <1> QED
    BY <1>2, <1>7, <1>8 DEF RefusedIsClosing

\* Nothing else counts a round, and a run that is closing connects no more.
LEMMA OtherStepsRefused ==
    ASSUME RefusedIsClosing, [Next]_vars, \A r \in Reports : ~ConnectFails(r)
    PROVE  RefusedIsClosing' /\ (login.denied => login' = login)
  <1>1. CASE ConnectAdmin \/ ConnectWork
    <2>0. login' = [tries |-> 0, denied |-> FALSE]
      BY <1>1 DEF ConnectAdmin, ConnectWork
    <2>1. login'.tries = 0 /\ ~login'.denied
      BY <2>0
    <2>2. phase' \in Phases /\ phase \notin Closing
      BY <1>1 DEF ConnectAdmin, ConnectWork, Phases, Closing
    <2> QED
      BY <2>1, <2>2 DEF RefusedIsClosing
  <1>2. CASE DryRun \/ RunSession \/ CreateRunDatabase \/ EnsureSchema
    BY <1>2 DEF DryRun, RunSession, CreateRunDatabase, EnsureSchema, RefusedIsClosing,
       Closing, Phases
  <1>3. CASE RecordRefusedPlan \/ WithholdBatch \/ SendBatch \/ JudgeCell
    BY <1>3 DEF RecordRefusedPlan, WithholdBatch, SendBatch, JudgeCell, RefusedIsClosing
  <1>4. CASE ReadInventory \/ (\E o \in Objects : DropObject(o)) \/ VerifyCleanup
    BY <1>4 DEF ReadInventory, DropObject, VerifyCleanup, RefusedIsClosing, Closing, Phases
  <1>5. CASE CloseWork \/ DropRunDatabase \/ CloseAdmin \/ CmdExecuteReturns \/ KeyboardInterrupt
    BY <1>5 DEF CloseWork, DropRunDatabase, CloseAdmin, CmdExecuteReturns, KeyboardInterrupt,
       RefusedIsClosing, Closing, Phases
  <1>6. CASE UNCHANGED vars
    BY <1>6 DEF vars, RefusedIsClosing
  <1> QED
    BY <1>1, <1>2, <1>3, <1>4, <1>5, <1>6 DEF Next, Progress, Done

(* As long as the number kept of a driver's error tells a refused login, a *)
(* refused login is not repeated, whatever the other drivers report        *)
(* (connect_with_retry, is_transient_connect_error).                       *)
THEOREM RefusedLoginIsNotRepeated ==
    ASSUME FirstNumberTells PROVE Spec => AuthErrorStops
  <1>1. Init => RefusedIsClosing
    BY DEF Init, RefusedIsClosing, Phases
  <1>2. RefusedIsClosing /\ [Next]_vars => /\ RefusedIsClosing'
                                           /\ [login.denied => login'.tries <= login.tries]_vars
    <2> SUFFICES ASSUME RefusedIsClosing, [Next]_vars
                 PROVE  /\ RefusedIsClosing'
                        /\ login.denied => login'.tries <= login.tries
      OBVIOUS
    <2>1. CASE \E r \in Reports : ConnectFails(r)
      BY <2>1, ConnectFailsRefused
    <2>2. CASE \A r \in Reports : ~ConnectFails(r)
      BY <2>2, OtherStepsRefused DEF RefusedIsClosing
    <2> QED
      BY <2>1, <2>2
  <1> QED
    BY <1>1, <1>2, PTL DEF Spec, AuthErrorStops

-----------------------------------------------------------------------------
(* The order in which the sweep drops.                                     *)

\* What an object of the run refers to is of a kind that is dropped later.
NeedsFollowTheOrder ==
    \A p \in Owned : \A o \in Needs[p] \cap Owned : Rank(p) < Rank(o)

\* A sweep to which nothing happened has on its list all that is left.
SweepKnowsAll == phase = "sweep" /\ swept = "clean" => server.objs \cap Owned \subseteq todo

LEMMA RankIsANumber == ASSUME NEW o \in Objects PROVE Rank(o) \in Nat
  <1>1. o.kind \in Kinds
    BY ObjectsAssumption
  <1>2. PICK n \in DOMAIN CleanupOrder : CleanupOrder[n] = o.kind
    BY <1>1 DEF Kinds
  <1>3. Rank(o) \in DOMAIN CleanupOrder
    BY <1>2 DEF Rank
  <1>4. DOMAIN CleanupOrder = 1 .. 7
    BY DEF CleanupOrder
  <1> QED
    BY <1>3, <1>4

LEMMA NextDropIsAllowed ==
    ASSUME NeedsFollowTheOrder, CInv, SweepKnowsAll, phase = "sweep", swept = "clean",
           NEW o \in todo, NextToDrop(o)
    PROVE  Feasible({}, {o})
  <1>1. o \in Owned /\ server.objs \subseteq Objects
    BY DEF CInv, Types
  <1>2. ASSUME NEW p \in server.objs \ {o}, o \in Needs[p] PROVE FALSE
    <2>1. p \in Owned
      BY <1>1, <1>2, ForeignAssumption
    <2>2. p \in todo /\ Rank(o) <= Rank(p)
      BY <2>1 DEF SweepKnowsAll, NextToDrop
    <2>3. Rank(p) < Rank(o)
      BY <1>1, <1>2, <2>1 DEF NeedsFollowTheOrder
    <2>4. Rank(o) \in Nat /\ Rank(p) \in Nat
      <3>1. o \in Objects /\ p \in Objects
        BY <1>1 DEF Owned
      <3> QED
        BY <3>1, RankIsANumber
    <2> QED
      BY <2>2, <2>3, <2>4
  <1> QED
    BY <1>2 DEF Feasible

LEMMA DropKeepsList ==
    ASSUME CInv, SweepKnowsAll, NEW o \in Objects, DropObject(o)
    PROVE  SweepKnowsAll'
  <1> SUFFICES ASSUME swept' = "clean" PROVE server'.objs \cap Owned \subseteq todo'
    BY DEF SweepKnowsAll
  <1>1. PICK ok \in BOOLEAN, number \in {None, "other"} :
          Executes({}, {o}, ok, number) /\ swept' = IF ok THEN swept ELSE "failed"
    BY DEF DropObject
  <1>2. ok /\ swept = "clean"
    BY <1>1
  <1>3. server' = Applied({}, {o})
    BY <1>1, <1>2 DEF Executes
  <1>4. server'.objs = server.objs \ {o}
    BY <1>3 DEF Applied, CInv, Types
  <1>5. server.objs \cap Owned \subseteq todo /\ todo' = todo \ {o}
    BY <1>2 DEF DropObject, SweepKnowsAll
  <1> QED
    BY <1>4, <1>5

LEMMA ListIsKept == ASSUME CInv, SweepKnowsAll, [Next]_vars PROVE SweepKnowsAll'
  <1>1. CASE ReadInventory
    <2>1. swept' = "clean" => todo' = {x \in server.objs : Owns(x)} /\ server' = server
      BY <1>1 DEF ReadInventory, ExplicitCleanup
    <2> QED
      BY <2>1 DEF SweepKnowsAll, Owned
  <1>2. CASE \E o \in Objects : DropObject(o)
    BY <1>2, DropKeepsList
  <1>3. CASE DryRun \/ RunSession \/ ConnectAdmin \/ CreateRunDatabase
    BY <1>3 DEF DryRun, RunSession, ConnectAdmin, CreateRunDatabase, SweepKnowsAll
  <1>4. CASE ConnectWork \/ EnsureSchema \/ \E r \in Reports : ConnectFails(r)
    BY <1>4 DEF ConnectWork, EnsureSchema, ConnectFails, Raise, SweepKnowsAll
  <1>5. CASE RecordRefusedPlan \/ WithholdBatch \/ SendBatch \/ JudgeCell
    BY <1>5 DEF RecordRefusedPlan, WithholdBatch, SendBatch, JudgeCell, Running, Sending,
       SweepKnowsAll
  <1>6. CASE \/ VerifyCleanup \/ CloseWork \/ DropRunDatabase \/ CloseAdmin \/ CmdExecuteReturns
             \/ KeyboardInterrupt
    BY <1>6 DEF VerifyCleanup, CloseWork, DropRunDatabase, CloseAdmin, CmdExecuteReturns,
       KeyboardInterrupt, SweepKnowsAll
  <1>7. CASE UNCHANGED vars
    BY <1>7 DEF vars, SweepKnowsAll
  <1> QED
    BY <1>1, <1>2, <1>3, <1>4, <1>5, <1>6, <1>7 DEF Next, Progress, Done

(* CLEANUP_ORDER is sufficient: if every kind is dropped before the kinds  *)
(* its objects refer to, then no drop of a sweep that has met no failure   *)
(* is rejected, whatever the run has created                               *)
(* (explicit_cleanup_statements).                                          *)
THEOREM EveryDropIsAllowed ==
    ASSUME NeedsFollowTheOrder PROVE Spec => []OrderAllowsEveryDrop
  <1>1. Init => SweepKnowsAll
    BY DEF Init, SweepKnowsAll
  <1>2. CInv /\ SweepKnowsAll /\ [Next]_vars => SweepKnowsAll'
    BY ListIsKept
  <1>3. CInv /\ SweepKnowsAll => OrderAllowsEveryDrop
    BY NextDropIsAllowed DEF OrderAllowsEveryDrop
  <1> QED
    BY <1>1, <1>2, <1>3, CertificationInvariant, PTL DEF Spec

=============================================================================
