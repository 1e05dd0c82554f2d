------------------------ MODULE GeneratedScriptProofs ------------------------
(***************************************************************************)
(* For any requests: what the scripts of SqlGenerator do on a database.    *)
(*                                                                         *)
(* Two invariants over runs that are cut off anywhere, from what is known  *)
(* of a document (SqlGeneratorProofs): SInv, what the catalog holds and    *)
(* what the position in the batch says of it, for the refusals; and LInv,  *)
(* which rows a target holds at that position, for the loads that are run  *)
(* again.                                                                  *)
(***************************************************************************)
EXTENDS GeneratedScript, SqlGeneratorProofs

\* The target's column types hold every value seen while the file was analysed
\* (_map_type_to_sql, _decimal_sql_type): whatever the lengths and digits.
THEOREM ColumnsAreWideEnough == Spec => []ColumnsHoldTheirValues
  <1>1. requests \in Documents => ColumnsHoldTheirValues
    BY TypesHold, DocumentsAssumption DEF ColumnsHoldTheirValues
  <1>2. Init => requests \in Documents
    BY DEF Init
  <1>3. requests \in Documents /\ [Next]_vars => (requests \in Documents)'
    BY DEF Next, vars, ExecuteStatement, RefuseStatement, PassComment, GoToNextFile, RunAgain
  <1> QED
    BY <1>1, <1>2, <1>3, PTL DEF Spec

-----------------------------------------------------------------------------
(* The export.                                                             *)

Doc(k) == CompleteDdl(requests[k])

ScriptInv == requests \in Documents /\ script = ExportResults(requests)

\* What is known of the document of file k.
LEMMA DocumentOf ==
    ASSUME ScriptInv, NEW k \in DOMAIN requests
    PROVE  /\ IsRequest(requests[k])
           /\ Section(requests[k], Missing(requests[k]), Doc(k))
           /\ Len(Doc(k)) \in Nat /\ DOMAIN Doc(k) = 1..Len(Doc(k))
           /\ \A b \in DOMAIN Doc(k) :
                 /\ Doc(k)[b] # <<>> /\ Len(Doc(k)[b]) \in Nat /\ DOMAIN Doc(k)[b] = 1..Len(Doc(k)[b])
                 /\ \A i \in DOMAIN Doc(k)[b] :
                       /\ OfRequest(requests[k], Doc(k)[b][i])
                       /\ Doc(k)[b][i].verb = "create" => Doc(k)[b][i].guarded
  <1>1. IsRequest(requests[k])
    BY DocumentsAssumption DEF ScriptInv
  <1>2. Section(requests[k], Missing(requests[k]), Doc(k))
    BY <1>1, DocumentFits DEF Doc
  <1>3. PICK S : Doc(k) \in Seq(Seq(S))
    BY <1>2 DEF Section, IsScript
  <1> QED
    BY <1>1, <1>2, <1>3, DocumentFits DEF Section, Doc

\* The script of each file is its document, but for the batches that are left
\* out.
LEMMA ExportOf ==
    ASSUME ScriptInv
    PROVE  /\ Len(requests) \in Nat \ {0} /\ DOMAIN requests = 1..Len(requests)
           /\ Len(script) = Len(requests) /\ DOMAIN script = DOMAIN requests
           /\ \A k \in DOMAIN requests :
                 /\ DOMAIN script[k] = DOMAIN Doc(k) /\ Len(script[k]) = Len(Doc(k))
                 /\ \A b \in DOMAIN Doc(k) :
                       \/ script[k][b] = Doc(k)[b]
                       \/ /\ script[k][b] = Comment
                          /\ SharedObjectsIn(Doc(k)[b]) # {}
                          /\ SharedObjectsIn(Doc(k)[b])
                                \subseteq Seen([j \in DOMAIN requests |-> Doc(j)], k, b)
  <1>1. /\ Len(requests) \in Nat \ {0} /\ DOMAIN requests = 1..Len(requests)
    BY DocumentsAssumption DEF ScriptInv
  <1> DEFINE docs == [j \in DOMAIN requests |-> Doc(j)]
             L(k, b) == LET shared == SharedObjectsIn(docs[k][b])
                        IN  IF shared # {} /\ shared \subseteq Seen(docs, k, b)
                            THEN Comment ELSE docs[k][b]
             f == [k \in DOMAIN docs |-> [b \in DOMAIN docs[k] |-> L(k, b)]]
  <1>2. script = f
    BY DEF ScriptInv, ExportResults, DeduplicateSharedPrerequisites, Doc
  <1>3. DOMAIN docs = DOMAIN requests /\ \A k \in DOMAIN requests : docs[k] = Doc(k)
    OBVIOUS
  <1> HIDE DEF docs
  <1>4. DOMAIN script = 1..Len(requests)
    BY <1>1, <1>2, <1>3
  <1>5. Len(script) = Len(requests)
    <2> DEFINE V == {f[k] : k \in 1..Len(requests)}
    <2>1. script \in [1..Len(requests) -> V]
      BY <1>1, <1>2, <1>3
    <2> HIDE DEF V
    <2>2. script \in Seq(V)
      BY <1>1, <2>1
    <2> QED
      BY <1>1, <1>4, <2>2
  <1>6. ASSUME NEW k \in DOMAIN requests
        PROVE  DOMAIN script[k] = DOMAIN Doc(k) /\ Len(script[k]) = Len(Doc(k))
    <2> DEFINE V == {L(k, b) : b \in DOMAIN Doc(k)}
    <2>1. script[k] = [b \in 1..Len(Doc(k)) |-> L(k, b)]
      BY <1>2, <1>3, DocumentOf
    <2>2. \A b \in DOMAIN Doc(k) : L(k, b) \in V
      OBVIOUS
    <2> HIDE DEF L, V
    <2>3. script[k] \in Seq(V)
      BY <2>1, <2>2, DocumentOf
    <2> QED
      BY <2>1, <2>3, DocumentOf
  <1>7. ASSUME NEW k \in DOMAIN requests, NEW b \in DOMAIN Doc(k)
        PROVE  script[k][b] = L(k, b)
    BY <1>2, <1>3
  <1>8. ASSUME NEW k \in DOMAIN requests, NEW b \in DOMAIN Doc(k)
        PROVE  \/ script[k][b] = Doc(k)[b]
               \/ /\ script[k][b] = Comment
                  /\ SharedObjectsIn(Doc(k)[b]) # {}
                  /\ SharedObjectsIn(Doc(k)[b]) \subseteq Seen(docs, k, b)
    BY <1>3, <1>7
  <1> QED
    BY <1>1, <1>3, <1>4, <1>5, <1>6, <1>8 DEF docs

\* Where a run stands.
AtInv ==
    /\ DOMAIN at = {"file", "batch", "statement"}
    /\ at.file \in Nat \ {0} /\ at.batch \in Nat \ {0} /\ at.statement \in Nat \ {0}
    /\ InBatch => at.statement \in DOMAIN Batch

RowsInv == \A t \in DOMAIN rows : rows[t] \in Seq(Nat)

\* The statement to run next is one of its own file's document.
LEMMA CurrentIs ==
    ASSUME ScriptInv, AtInv, InBatch
    PROVE  /\ at.file \in DOMAIN requests /\ at.batch \in DOMAIN Doc(at.file)
           /\ Batch = Doc(at.file)[at.batch] /\ at.statement \in DOMAIN Doc(at.file)[at.batch]
           /\ Current = Doc(at.file)[at.batch][at.statement]
           /\ OfRequest(Request, Current)
           /\ Current.verb = "create" => Current.guarded
  <1>1. at.file \in DOMAIN requests /\ at.batch \in DOMAIN Doc(at.file)
    BY ExportOf, DocumentOf DEF AtInv, InBatch, AtBatch, Running
  <1>2. Batch = Doc(at.file)[at.batch]
    BY <1>1, ExportOf DEF InBatch, Batch
  <1> QED
    BY <1>1, <1>2, DocumentOf DEF AtInv, Current, Request

\* A batch that is run has a first statement.
LEMMA FirstStatement ==
    ASSUME ScriptInv, NEW k \in DOMAIN script, NEW b \in DOMAIN script[k], script[k][b] # Comment
    PROVE  1 \in DOMAIN script[k][b] /\ Len(script[k][b]) \in Nat
           /\ DOMAIN script[k][b] = 1..Len(script[k][b])
  <1>1. k \in DOMAIN requests /\ b \in DOMAIN Doc(k) /\ script[k][b] = Doc(k)[b]
    BY ExportOf
  <1> QED
    BY <1>1, DocumentOf

\* Wherever it goes, the run comes to the first statement of a batch, or to the
\* next one of this batch.
LEMMA MovesOn ==
    ASSUME ScriptInv, AtInv, UNCHANGED <<requests, script>>,
           \/ InBatch /\ at' = NextStatement
           \/ at' \in {NextBatch, NextFile, Start}
           \/ at' = at
    PROVE  AtInv'
  <1>1. ASSUME InBatch', at'.statement = 1, at'.file \in Nat \ {0}, at'.batch \in Nat \ {0}
        PROVE  at'.statement \in DOMAIN Batch'
    <2>1. /\ at'.file \in DOMAIN script /\ at'.batch \in DOMAIN script[at'.file]
          /\ script[at'.file][at'.batch] # Comment
      BY <1>1, ExportOf, DocumentOf DEF InBatch, AtBatch, Running, Batch
    <2> QED
      BY <1>1, <2>1, FirstStatement DEF Batch
  <1>2. CASE InBatch /\ at' = [at EXCEPT !.statement = @ + 1] /\ at.statement < Len(Batch)
    <2>1. /\ DOMAIN at' = DOMAIN at /\ at'.file = at.file /\ at'.batch = at.batch
          /\ at'.statement = at.statement + 1
      BY <1>2 DEF AtInv
    <2>2. at.statement + 1 \in DOMAIN Batch
      <3>1. at.file \in DOMAIN requests /\ at.batch \in DOMAIN Doc(at.file)
            /\ Batch = Doc(at.file)[at.batch]
        BY <1>2, CurrentIs
      <3>2. Len(Batch) \in Nat /\ DOMAIN Batch = 1..Len(Batch)
        BY <3>1, DocumentOf
      <3> QED
        BY <1>2, <3>2 DEF AtInv
    <2>3. Batch' = Batch
      BY <2>1 DEF Batch
    <2> QED
      BY <2>1, <2>2, <2>3 DEF AtInv
  <1>3. CASE at' = NextBatch
    <2>1. /\ DOMAIN at' = DOMAIN at /\ at'.file = at.file /\ at'.batch = at.batch + 1
          /\ at'.statement = 1
      BY <1>3 DEF AtInv, NextBatch
    <2> QED
      BY <1>1, <2>1 DEF AtInv
  <1>4. CASE at' \in {NextFile, Start}
    <2>1. /\ DOMAIN at' = {"file", "batch", "statement"} /\ at'.batch = 1 /\ at'.statement = 1
          /\ at'.file \in {1, at.file + 1}
      BY <1>4 DEF NextFile, Start
    <2> QED
      BY <1>1, <2>1 DEF AtInv
  <1>5. CASE at' = at
    BY <1>5 DEF AtInv, InBatch, AtBatch, Running, Batch
  <1> QED
    BY <1>2, <1>3, <1>4, <1>5 DEF NextStatement

\* A run starts at the first statement of the first file.
LEMMA StartsWell == Init => ScriptInv /\ AtInv /\ RowsInv
  <1> SUFFICES ASSUME Init PROVE ScriptInv /\ AtInv /\ RowsInv
    OBVIOUS
  <1>1. ScriptInv
    BY DEF Init, ScriptInv
  <1>2. RowsInv
    <2>1. \A t \in DOMAIN rows : rows[t] = <<Theirs>>
      BY DEF Init
    <2>2. <<Theirs>> \in Seq(Nat)
      BY DEF Theirs
    <2> QED
      BY <2>1, <2>2 DEF RowsInv
  <1>3. at = Start /\ at.file = 1 /\ at.batch = 1 /\ at.statement = 1
    BY DEF Init, Start
  <1>4. InBatch => at.statement \in DOMAIN Batch
    <2> SUFFICES ASSUME InBatch PROVE 1 \in DOMAIN Batch
      BY <1>3
    <2>1. 1 \in DOMAIN script /\ 1 \in DOMAIN script[1] /\ script[1][1] # Comment
      BY <1>1, <1>3, ExportOf, DocumentOf DEF InBatch, AtBatch, Running, Batch
    <2> QED
      BY <1>1, <1>3, <2>1, FirstStatement DEF Batch
  <1> QED
    BY <1>1, <1>2, <1>3, <1>4 DEF AtInv, Start

\* What a statement does to the rows of a table.
LEMMA RowsStayRows ==
    ASSUME RowsInv, AtInv, ExecuteStatement PROVE RowsInv'
  <1> SUFFICES ASSUME NEW t \in DOMAIN rows' PROVE rows'[t] \in Seq(Nat)
    BY DEF RowsInv
  <1> DEFINE old == IF t \in DOMAIN rows THEN rows[t] ELSE <<>>
  <1>1. old \in Seq(Nat)
    BY DEF RowsInv
  <1>2. rows'[t] = IF t # Current.name THEN old
                   ELSE IF Current.verb = "truncate" THEN <<>>
                   ELSE IF Current.verb \in {"load", "selectinto"} THEN Append(old, at.file)
                   ELSE old
    BY DEF ExecuteStatement, Loaded
  <1> HIDE DEF old
  <1> QED
    BY <1>1, <1>2 DEF AtInv

\* Every step keeps what is known of the script, the place in it, and the rows.
LEMMA StepsWell == ScriptInv /\ AtInv /\ RowsInv /\ [Next]_vars => ScriptInv' /\ AtInv' /\ RowsInv'
  <1> SUFFICES ASSUME ScriptInv, AtInv, RowsInv, [Next]_vars
               PROVE  ScriptInv' /\ AtInv' /\ RowsInv'
    OBVIOUS
  <1> USE DEF ScriptInv
  <1>1. CASE ExecuteStatement
    <2>1. ScriptInv' /\ (at' = NextStatement)
      BY <1>1 DEF ExecuteStatement
    <2>2. RowsInv'
      BY <1>1, RowsStayRows
    <2>3. InBatch /\ UNCHANGED <<requests, script>>
      BY <1>1 DEF ExecuteStatement
    <2> QED
      BY <2>1, <2>2, <2>3, MovesOn
  <1>2. CASE RefuseStatement
    BY <1>2, MovesOn DEF RefuseStatement, RowsInv
  <1>3. CASE PassComment
    BY <1>3, MovesOn DEF PassComment, RowsInv
  <1>4. CASE GoToNextFile
    BY <1>4, MovesOn DEF GoToNextFile, RowsInv
  <1>5. CASE RunAgain
    BY <1>5, MovesOn DEF RunAgain, RowsInv
  <1>6. CASE UNCHANGED vars
    BY <1>6 DEF vars, AtInv, RowsInv, InBatch, AtBatch, Running, Batch
  <1> QED
    BY <1>1, <1>2, <1>3, <1>4, <1>5, <1>6 DEF Next

\* The rows that were there stay, unless the caller named the table and its
\* schema and asked for it to be emptied (_truncate_before_load,
\* _owns_load_target): whatever is exported, and wherever it is cut off.
THEOREM NothingOfOthersIsEmptied == Spec => TheirRowsStay
  <1>1. ScriptInv /\ AtInv /\ RowsInv /\ [Next]_vars =>
           [\A t \in DOMAIN rows :
              Theirs \in Range(rows[t]) /\ Theirs \notin Range(rows'[t])
                  => /\ Request.rerun
                     /\ t[1] # "dbo"
                     /\ Request.names.schema = t[1]
                     /\ Request.names.table = t[2]]_vars
    <2> SUFFICES ASSUME ScriptInv, AtInv, RowsInv, Next, NEW t \in DOMAIN rows,
                        Theirs \in Range(rows[t]), Theirs \notin Range(rows'[t])
                 PROVE  /\ Request.rerun
                        /\ t[1] # "dbo"
                        /\ Request.names.schema = t[1]
                        /\ Request.names.table = t[2]
      OBVIOUS
    <2>1. rows' # rows
      OBVIOUS
    <2>2. ExecuteStatement
      BY <2>1 DEF Next, RefuseStatement, PassComment, GoToNextFile, RunAgain
    <2>3. rows'[t] = IF t # Current.name THEN rows[t]
                     ELSE IF Current.verb = "truncate" THEN <<>>
                     ELSE IF Current.verb \in {"load", "selectinto"} THEN Append(rows[t], at.file)
                     ELSE rows[t]
      BY <2>2 DEF ExecuteStatement, Loaded
    <2>4. Theirs \in Range(Append(rows[t], at.file))
      <3>1. rows[t] \in Seq(Nat) /\ at.file \in Nat
        BY DEF RowsInv, AtInv
      <3>2. PICK i \in DOMAIN rows[t] : rows[t][i] = Theirs
        BY DEF Range
      <3>3. i \in DOMAIN Append(rows[t], at.file) /\ Append(rows[t], at.file)[i] = Theirs
        BY <3>1, <3>2
      <3> QED
        BY <3>3 DEF Range
    <2>5. t = Current.name /\ Current.verb = "truncate"
      BY <2>3, <2>4
    <2>6. /\ OfRequest(Request, Current)
      BY <2>2, CurrentIs DEF ExecuteStatement
    <2>7. t = TableName(Request) /\ Request.rerun /\ OwnsLoadTarget(Request)
      BY <2>5, <2>6 DEF OfRequest
    <2> QED
      BY <2>7 DEF TableName, Named, OwnsLoadTarget
  <1> QED
    BY <1>1, StartsWell, StepsWell, PTL DEF Spec, TheirRowsStay

-----------------------------------------------------------------------------
(* What exists when it is used.                                            *)

CatalogInv == catalog \subseteq MadeBy(requests)

\* This run is past the batch b of file k.
Passed(k, b) == k < at.file \/ (k = at.file /\ b < at.batch)

DoneInv ==
    \A k \in DOMAIN requests : \A b \in DOMAIN Doc(k) : Passed(k, b) =>
        \A i \in DOMAIN Doc(k)[b] :
            Doc(k)[b][i].verb = "create" =>
                Existing(catalog, Doc(k)[b][i].kind, Doc(k)[b][i].name) # {}

SInv == ScriptInv /\ AtInv /\ RowsInv /\ CatalogInv /\ DoneInv /\ OnlyStagingIsRefused

\* What a document creates is among what the export makes.
LEMMA MadeByDocument ==
    ASSUME ScriptInv, NEW k \in DOMAIN requests, NEW b \in DOMAIN Doc(k), NEW i \in DOMAIN Doc(k)[b],
           Makes(Doc(k)[b][i])
    PROVE  Object(Doc(k)[b][i].kind, Doc(k)[b][i].name, Doc(k)[b][i].def) \in MadeBy(requests)
  <1> DEFINE s == Doc(k)[b][i]
  <1>1. s \in Range(Doc(k)[b])
    BY DEF Range
  <1>2. Doc(k)[b] \in Range(CompleteDdl(requests[k]))
    BY DEF Doc, Range
  <1>3. Doc(k)[b] \in UNION {Range(CompleteDdl(requests[j])) : j \in DOMAIN requests}
    BY <1>2
  <1>4. s \in UNION {Range(c) : c \in UNION {Range(CompleteDdl(requests[j])) : j \in DOMAIN requests}}
    BY <1>1, <1>3
  <1> HIDE DEF s
  <1>5. Object(s.kind, s.name, s.def) \in MadeBy(requests)
    BY <1>4 DEF MadeBy, s
  <1> QED
    BY <1>5 DEF s

\* What a statement uses was created by its own document before.
LEMMA UsesAreServed ==
    ASSUME ScriptInv, AtInv, Complete(requests), InBatch, NEW u \in Current.uses
    PROVE  \E c \in DOMAIN Doc(at.file) :
              /\ Passed(at.file, c)
              /\ \E i \in DOMAIN Doc(at.file)[c] :
                    LET s == Doc(at.file)[c][i]
                    IN  /\ s.verb = "create" /\ s.kind = u.kind /\ s.name = u.name
                        /\ s.def.type = u.type
  <1>1. /\ at.file \in DOMAIN requests /\ at.batch \in DOMAIN Doc(at.file)
        /\ at.statement \in DOMAIN Doc(at.file)[at.batch]
        /\ Current = Doc(at.file)[at.batch][at.statement]
    BY CurrentIs
  <1>2. Missing(requests[at.file]) = {}
    BY <1>1 DEF Complete, Missing
  <1>3. \E c \in 1..(at.batch - 1) : Offers(Doc(at.file)[c], u)
    BY <1>1, <1>2, DocumentOf DEF Section
  <1>4. PICK c \in 1..(at.batch - 1) : Offers(Doc(at.file)[c], u)
    BY <1>3
  <1>5. c \in DOMAIN Doc(at.file) /\ Passed(at.file, c)
    BY <1>1, DocumentOf DEF AtInv, Passed
  <1>6. PICK i \in DOMAIN Doc(at.file)[c] :
           /\ Doc(at.file)[c][i].verb = "create"
           /\ Use(Doc(at.file)[c][i].kind, Doc(at.file)[c][i].name, Doc(at.file)[c][i].def.type) = u
    BY <1>4 DEF Offers
  <1>7. /\ Doc(at.file)[c][i].kind = u.kind /\ Doc(at.file)[c][i].name = u.name
        /\ Doc(at.file)[c][i].def.type = u.type
    BY <1>6 DEF Use
  <1> QED
    BY <1>5, <1>6, <1>7

\* ... and whatever has that name and kind now is what the document creates.
LEMMA FoundAsMade ==
    ASSUME SInv, Agreeing(requests), Complete(requests), InBatch, NEW u \in Current.uses
    PROVE  /\ Existing(catalog, u.kind, u.name) # {}
           /\ \A o \in Existing(catalog, u.kind, u.name) :
                 \E s : /\ OfRequest(Request, s) /\ s.verb = "create"
                        /\ s.kind = u.kind /\ s.name = u.name
                        /\ s.def.type = u.type /\ o.def = s.def
  <1>1. PICK c \in DOMAIN Doc(at.file) :
              /\ Passed(at.file, c)
              /\ \E i \in DOMAIN Doc(at.file)[c] :
                    LET s == Doc(at.file)[c][i]
                    IN  /\ s.verb = "create" /\ s.kind = u.kind /\ s.name = u.name
                        /\ s.def.type = u.type
    BY UsesAreServed DEF SInv
  <1>2. PICK i \in DOMAIN Doc(at.file)[c] :
           LET s == Doc(at.file)[c][i]
           IN  /\ s.verb = "create" /\ s.kind = u.kind /\ s.name = u.name
               /\ s.def.type = u.type
    BY <1>1
  <1> DEFINE s == Doc(at.file)[c][i]
  <1>3. at.file \in DOMAIN requests
    BY CurrentIs DEF SInv
  <1>4. Existing(catalog, u.kind, u.name) # {}
    BY <1>1, <1>2, <1>3 DEF SInv, DoneInv
  <1>5. OfRequest(Request, s)
    BY <1>3, DocumentOf DEF SInv, Request
  <1>6. Object(s.kind, s.name, s.def) \in MadeBy(requests)
    BY <1>2, <1>3, MadeByDocument DEF SInv, Makes
  <1> HIDE DEF s
  <1>7. ASSUME NEW o \in Existing(catalog, u.kind, u.name) PROVE o.def = s.def
    <2>1. o \in MadeBy(requests) /\ o.kind = u.kind /\ o.name = u.name
      BY DEF SInv, CatalogInv, Existing
    <2>2. s.kind = u.kind /\ s.name = u.name
      BY <1>2 DEF s
    <2> DEFINE p == Object(s.kind, s.name, s.def)
    <2>3. p.kind = s.kind /\ p.name = s.name /\ p.def = s.def
      BY DEF Object
    <2> HIDE DEF p
    <2> QED
      BY <1>6, <2>1, <2>2, <2>3 DEF Agreeing, p
  <1>8. s.verb = "create" /\ s.kind = u.kind /\ s.name = u.name /\ s.def.type = u.type
    BY <1>2 DEF s
  <1> QED
    BY <1>4, <1>5, <1>7, <1>8

\* All that is used is there, and all that is created is guarded, but for the
\* staging table.
LEMMA RefusedIsStaging ==
    ASSUME SInv, Agreeing(requests), Complete(requests), InBatch, Refuses(catalog, Current)
    PROVE  Current.verb = "selectinto"
  <1>1. OfRequest(Request, Current) /\ (Current.verb = "create" => Current.guarded)
    BY CurrentIs DEF SInv
  <1>2. ASSUME NEW u \in Current.uses PROVE Finds(catalog, u)
    <2>1. PICK o \in Existing(catalog, u.kind, u.name) : TRUE
      BY FoundAsMade
    <2>2. o.def.type = u.type
      BY <2>1, FoundAsMade
    <2> QED
      BY <2>1, <2>2 DEF Finds
  <1> QED
    BY <1>1, <1>2 DEF Refuses, Makes, OfRequest

\* The batches before the one that comes next were passed, or it was the last.
LEMMA PassedBefore ==
    ASSUME ScriptInv, AtInv, NEW k \in DOMAIN requests, NEW b \in DOMAIN Doc(k), Passed(k, b)',
           UNCHANGED <<requests, script>>
    PROVE  /\ at' = NextBatch => Passed(k, b) \/ (k = at.file /\ b = at.batch)
           /\ at' = NextFile /\ ~AtBatch /\ Running => Passed(k, b)
           /\ at' = Start => FALSE
           /\ at' = [at EXCEPT !.statement = @ + 1] => Passed(k, b)
  <1>1. k \in Nat \ {0} /\ b \in Nat \ {0}
    BY ExportOf, DocumentOf
  <1>2. at' = NextBatch => Passed(k, b) \/ (k = at.file /\ b = at.batch)
    BY <1>1 DEF Passed, NextBatch, AtInv
  <1>3. at' = Start => FALSE
    BY <1>1 DEF Passed, Start
  <1>4. at' = [at EXCEPT !.statement = @ + 1] => Passed(k, b)
    BY <1>1 DEF Passed, AtInv
  <1>5. ASSUME at' = NextFile, ~AtBatch, Running PROVE Passed(k, b)
    <2>1. k < at.file + 1
      BY <1>1, <1>5 DEF Passed, NextFile, AtInv
    <2>2. CASE k < at.file
      BY <2>2 DEF Passed
    <2>3. CASE k = at.file
      <3>1. at.batch > Len(Doc(k)) /\ b <= Len(Doc(k))
        BY <1>5, <2>3, ExportOf, DocumentOf DEF AtBatch, AtInv
      <3> QED
        BY <1>1, <2>3, <3>1, DocumentOf DEF Passed, AtInv
    <2> QED
      BY <1>1, <2>1, <2>2, <2>3 DEF AtInv
  <1> QED
    BY <1>2, <1>3, <1>4, <1>5

\* Going on, the run leaves behind what it has made.
LEMMA DoneStays ==
    ASSUME ScriptInv, AtInv, DoneInv, UNCHANGED <<requests, script>>, catalog \subseteq catalog',
           \/ at' = NextBatch
           \/ at' = NextFile /\ ~AtBatch /\ Running
           \/ at' = Start
           \/ at' = [at EXCEPT !.statement = @ + 1]
           \/ at' = at,
           at' = NextBatch /\ at.file \in DOMAIN requests /\ at.batch \in DOMAIN Doc(at.file) =>
              \A i \in DOMAIN Doc(at.file)[at.batch] :
                 Doc(at.file)[at.batch][i].verb = "create" =>
                    Existing(catalog', Doc(at.file)[at.batch][i].kind, Doc(at.file)[at.batch][i].name) # {}
    PROVE  DoneInv'
  <1> SUFFICES ASSUME NEW k \in DOMAIN requests, NEW b \in DOMAIN Doc(k), Passed(k, b)',
                      NEW i \in DOMAIN Doc(k)[b], Doc(k)[b][i].verb = "create"
               PROVE  Existing(catalog', Doc(k)[b][i].kind, Doc(k)[b][i].name) # {}
    BY DEF DoneInv, Doc
  <1>1. CASE Passed(k, b)
    <2>1. Existing(catalog, Doc(k)[b][i].kind, Doc(k)[b][i].name) # {}
      BY <1>1 DEF DoneInv
    <2> QED
      BY <2>1 DEF Existing
  <1>2. CASE at' = NextBatch /\ k = at.file /\ b = at.batch
    BY <1>2
  <1>3. at' = at => Passed(k, b)
    BY DEF Passed
  <1> QED
    BY <1>1, <1>2, <1>3, PassedBefore

\* A batch that creates something holds nothing else.
LEMMA CreatesAlone ==
    ASSUME ScriptInv, NEW k \in DOMAIN requests, NEW b \in DOMAIN Doc(k), NEW i \in DOMAIN Doc(k)[b],
           NEW j \in DOMAIN Doc(k)[b], Doc(k)[b][i].verb = "create"
    PROVE  Len(Doc(k)[b]) = 1 /\ j = 1 /\ i = 1
  <1>1. Len(Doc(k)[b]) = 1
    BY DocumentOf DEF Section
  <1> QED
    BY <1>1, DocumentOf

\* What a batch that is left out would have created is there.
LEMMA CommentsAreDone ==
    ASSUME ScriptInv, AtInv, DoneInv, AtBatch, Batch = Comment,
           NEW i \in DOMAIN Doc(at.file)[at.batch], Doc(at.file)[at.batch][i].verb = "create"
    PROVE  Existing(catalog, Doc(at.file)[at.batch][i].kind, Doc(at.file)[at.batch][i].name) # {}
  <1> DEFINE batch == Doc(at.file)[at.batch]
             docs == [j \in DOMAIN requests |-> Doc(j)]
  <1>1. at.file \in DOMAIN requests /\ at.batch \in DOMAIN Doc(at.file)
    BY ExportOf, DocumentOf DEF AtInv, AtBatch, Running
  <1>2. batch # Comment
    BY <1>1, DocumentOf DEF Comment
  <1>3. /\ SharedObjectsIn(batch) # {}
        /\ SharedObjectsIn(batch) \subseteq Seen(docs, at.file, at.batch)
    BY <1>1, <1>2, ExportOf DEF Batch
  <1>4. \A j \in DOMAIN batch : j = i
    BY <1>1, CreatesAlone
  <1>5. <<batch[i].kind, batch[i].name>> \in SharedObjectsIn(batch)
    BY <1>3, <1>4 DEF SharedObjectsIn
  <1> HIDE DEF batch, docs
  <1>6. PICK j \in 1..at.file :
           \E n \in DOMAIN docs[j] : /\ j < at.file \/ n < at.batch
                                     /\ <<batch[i].kind, batch[i].name>> \in SharedObjectsIn(docs[j][n])
    BY <1>3, <1>5 DEF Seen
  <1>7. j \in DOMAIN requests /\ docs[j] = Doc(j)
    BY <1>1, ExportOf DEF docs
  <1>8. PICK n \in DOMAIN Doc(j) :
           /\ j < at.file \/ n < at.batch
           /\ <<batch[i].kind, batch[i].name>> \in SharedObjectsIn(Doc(j)[n])
    BY <1>6, <1>7
  <1>9. PICK m \in DOMAIN Doc(j)[n] :
           /\ Doc(j)[n][m].verb = "create"
           /\ Doc(j)[n][m].kind = batch[i].kind /\ Doc(j)[n][m].name = batch[i].name
    BY <1>8 DEF SharedObjectsIn
  <1>10. Passed(j, n)
    BY <1>7, <1>8, ExportOf DEF AtInv, Passed
  <1>11. Existing(catalog, Doc(j)[n][m].kind, Doc(j)[n][m].name) # {}
    BY <1>7, <1>9, <1>10 DEF DoneInv
  <1> QED
    BY <1>9, <1>11 DEF batch

\* Nothing is made that is not the export's.
LEMMA MadeIsMadeBy ==
    ASSUME ScriptInv, AtInv, CatalogInv, InBatch
    PROVE  catalog \cup Created(catalog, Current) \subseteq MadeBy(requests)
  <1>1. Makes(Current) => Object(Current.kind, Current.name, Current.def) \in MadeBy(requests)
    BY CurrentIs, MadeByDocument
  <1> QED
    BY <1>1 DEF CatalogInv, Created

\* A statement that runs, and one that is refused.
LEMMA ExecuteKeeps ==
    ASSUME SInv, ExecuteStatement PROVE CatalogInv' /\ DoneInv' /\ OnlyStagingIsRefused'
  <1> USE DEF SInv
  <1>1. InBatch /\ UNCHANGED <<requests, script, refused>> /\ catalog' = catalog \cup Created(catalog, Current)
    BY DEF ExecuteStatement
  <1>2. CatalogInv'
    BY <1>1, MadeIsMadeBy DEF CatalogInv
  <1>3. ASSUME NEW i \in DOMAIN Doc(at.file)[at.batch], Doc(at.file)[at.batch][i].verb = "create"
        PROVE  Existing(catalog', Doc(at.file)[at.batch][i].kind, Doc(at.file)[at.batch][i].name) # {}
    <2>1. Current = Doc(at.file)[at.batch][i]
      BY <1>1, <1>3, CurrentIs, CreatesAlone
    <2>2. Makes(Current)
      BY <1>3, <2>1 DEF Makes
    <2>3. CASE Existing(catalog, Current.kind, Current.name) # {}
      BY <1>1, <2>1, <2>3 DEF Existing
    <2>4. CASE Existing(catalog, Current.kind, Current.name) = {}
      <3>1. Object(Current.kind, Current.name, Current.def) \in catalog'
        BY <1>1, <2>2, <2>4 DEF Created
      <3> QED
        BY <2>1, <3>1 DEF Existing, Object
    <2> QED
      BY <2>3, <2>4
  <1>4. at' = NextBatch \/ at' = [at EXCEPT !.statement = @ + 1]
    BY DEF ExecuteStatement, NextStatement
  <1>5. DoneInv'
    BY <1>1, <1>3, <1>4, DoneStays
  <1> QED
    BY <1>1, <1>2, <1>5 DEF OnlyStagingIsRefused

\* Only the staging table's statement is refused: no object is missed for it.
LEMMA RefuseKeeps ==
    ASSUME SInv, Agreeing(requests), Complete(requests), RefuseStatement
    PROVE  CatalogInv' /\ DoneInv' /\ OnlyStagingIsRefused'
  <1> USE DEF SInv
  <1>1. /\ InBatch /\ Refuses(catalog, Current)
        /\ UNCHANGED <<requests, script, catalog>> /\ refused' = refused \cup {Current}
    BY DEF RefuseStatement
  <1>2. Current.verb = "selectinto"
    BY <1>1, RefusedIsStaging
  <1>3. ASSUME NEW i \in DOMAIN Doc(at.file)[at.batch], Doc(at.file)[at.batch][i].verb = "create"
        PROVE  FALSE
    BY <1>1, <1>2, <1>3, CurrentIs, CreatesAlone
  <1>4. at' = NextBatch \/ at' = [at EXCEPT !.statement = @ + 1]
    BY DEF RefuseStatement, NextStatement
  <1>5. DoneInv'
    BY <1>1, <1>3, <1>4, DoneStays
  <1> QED
    BY <1>1, <1>2, <1>5 DEF CatalogInv, OnlyStagingIsRefused

\* Going on to the next batch is none of the other moves.
LEMMA NextBatchIsAhead ==
    ASSUME AtInv PROVE NextBatch # NextFile /\ NextBatch # Start /\ NextBatch # at
  <1>1. NextBatch.file = at.file /\ NextBatch.batch = at.batch + 1
    BY DEF NextBatch, AtInv
  <1>2. NextFile.file = at.file + 1 /\ Start.batch = 1
    BY DEF NextFile, Start
  <1>3. at.file \in Nat /\ at.batch \in Nat \ {0}
    BY DEF AtInv
  <1>4. at.file + 1 # at.file /\ at.batch + 1 # 1 /\ at.batch + 1 # at.batch
    BY <1>3
  <1>5. NextBatch # NextFile
    BY <1>1, <1>2, <1>4
  <1>6. NextBatch # Start
    BY <1>1, <1>2, <1>4
  <1>7. NextBatch # at
    BY <1>1, <1>4
  <1> QED
    BY <1>5, <1>6, <1>7

\* Every step keeps the invariant: the cases of Next.
LEMMA SInvStays ==
    ASSUME SInv, Agreeing(requests), Complete(requests), [Next]_vars PROVE SInv'
  <1> USE DEF SInv
  <1>1. ScriptInv' /\ AtInv' /\ RowsInv'
    BY StepsWell
  <1>2. CASE ExecuteStatement
    BY <1>1, <1>2, ExecuteKeeps
  <1>3. CASE RefuseStatement
    BY <1>1, <1>3, RefuseKeeps
  <1>4. CASE PassComment
    <2>1. DoneInv'
      BY <1>4, CommentsAreDone, DoneStays DEF PassComment
    <2> QED
      BY <1>1, <1>4, <2>1 DEF PassComment, CatalogInv, OnlyStagingIsRefused
  <1>5. CASE GoToNextFile
    <2>1. /\ Running /\ ~AtBatch /\ at' = NextFile /\ at' # NextBatch
          /\ UNCHANGED <<requests, script, catalog, refused>>
      BY <1>5, NextBatchIsAhead DEF GoToNextFile
    <2>2. DoneInv'
      BY <2>1, DoneStays
    <2> QED
      BY <1>1, <2>1, <2>2 DEF CatalogInv, OnlyStagingIsRefused
  <1>6. CASE RunAgain
    <2>1. at' # NextBatch
      BY <1>6, NextBatchIsAhead DEF RunAgain
    <2>2. DoneInv'
      BY <1>6, <2>1, DoneStays DEF RunAgain
    <2> QED
      BY <1>1, <1>6, <2>2 DEF RunAgain, CatalogInv, OnlyStagingIsRefused
  <1>7. CASE UNCHANGED vars
    <2>1. at' # NextBatch
      BY <1>7, NextBatchIsAhead DEF vars
    <2>2. DoneInv'
      BY <1>7, <2>1, DoneStays DEF vars
    <2> QED
      BY <1>1, <1>7, <2>2 DEF vars, CatalogInv, OnlyStagingIsRefused
  <1> QED
    BY <1>2, <1>3, <1>4, <1>5, <1>6, <1>7 DEF Next

\* It holds at the start, before anything was passed.
LEMMA StartsSound == Init => SInv
  <1> SUFFICES ASSUME Init PROVE SInv
    OBVIOUS
  <1>1. ScriptInv /\ AtInv /\ RowsInv
    BY StartsWell
  <1>2. CatalogInv
    BY DEF Init, CatalogInv, MadeBy
  <1>3. DoneInv
    <2>1. \A k \in DOMAIN requests : k \in Nat \ {0} /\ \A b \in DOMAIN Doc(k) : b \in Nat \ {0}
      BY <1>1, ExportOf, DocumentOf
    <2>2. at.file = 1 /\ at.batch = 1
      BY DEF Init, Start
    <2> QED
      BY <2>1, <2>2 DEF DoneInv, Passed
  <1>4. OnlyStagingIsRefused
    BY DEF Init, OnlyStagingIsRefused
  <1> QED
    BY <1>1, <1>2, <1>3, <1>4 DEF SInv

\* "The document is rerunnable" (generate_complete_ddl): cut off anywhere and run
\* again, over whatever it left, the database refuses nothing but the staging
\* table of Fabric's load patterns, when the requests bring their sources
\* (HasItsSources) and do not give one name to two things.
THEOREM NothingElseIsRefused ==
    ASSUME \A d \in Documents : Agreeing(d) /\ Complete(d)
    PROVE  Spec => []OnlyStagingIsRefused
  <1>1. SInv /\ [Next]_vars => SInv'
    BY SInvStays DEF SInv, ScriptInv
  <1>2. SInv => OnlyStagingIsRefused
    BY DEF SInv
  <1> QED
    BY <1>1, <1>2, StartsSound, PTL DEF Spec

\* ... and under the same conditions every source a statement reads points to the
\* container of its own file's URL, and every format says that file's type,
\* encoding and options (_external_source_parts, _azure_bulk_storage_parts,
\* _determine_format_config), whichever file of the export has created it.
THEOREM ReadsItsOwn ==
    ASSUME \A d \in Documents : Agreeing(d) /\ Complete(d)
    PROVE  Spec => []UsesItsOwnObjects
  <1>1. SInv /\ [Next]_vars => SInv'
    BY SInvStays DEF SInv, ScriptInv
  <1>2. SInv => UsesItsOwnObjects
    <2> SUFFICES ASSUME SInv, InBatch, NEW u \in Current.uses,
                        NEW o \in Existing(catalog, u.kind, u.name)
                 PROVE  /\ u.kind = "source" /\ SaysWhere(Request.url)
                             => o.def.location.root = Request.url.root
                        /\ u.kind = "format" => o.def = FormatConfig(Request)
      BY DEF UsesItsOwnObjects
    <2>1. Agreeing(requests) /\ Complete(requests)
      BY DEF SInv, ScriptInv
    <2>2. \E s : /\ OfRequest(Request, s) /\ s.verb = "create"
                 /\ s.kind = u.kind /\ s.name = u.name
                 /\ s.def.type = u.type /\ o.def = s.def
      BY <2>1, FoundAsMade
    <2>3. \A s : OfRequest(Request, s) /\ s.verb = "create" /\ s.kind = "format"
                   => s.def = FormatConfig(Request)
      BY DEF OfRequest, Makes, Objects, Object
    <2> QED
      BY <2>2, <2>3 DEF OfRequest
  <1> QED
    BY <1>1, <1>2, StartsSound, PTL DEF Spec

-----------------------------------------------------------------------------
(* One file alone.                                                         *)

\* A file exported alone gives each name to one thing.
LEMMA OneFileAgrees ==
    ASSUME NEW d \in Documents, Len(d) = 1,
           ExternalTableName(d[1]) \notin {TableName(d[1]), StagingTableName(d[1])}
    PROVE  Agreeing(d)
  <1> DEFINE r == d[1]
  <1>1. DOMAIN d = {1} /\ IsRequest(r)
    BY DocumentsAssumption
  <1>2. Section(r, Missing(r), CompleteDdl(r))
    BY <1>1, DocumentFits
  <1> HIDE DEF r
  <1>3. ASSUME NEW b \in Range(CompleteDdl(r)), NEW s \in Range(b), Makes(s)
        PROVE  Object(s.kind, s.name, s.def) \in Objects(r)
    <2>1. PICK n \in DOMAIN CompleteDdl(r) : b = CompleteDdl(r)[n]
      BY DEF Range
    <2>2. PICK i \in DOMAIN b : s = b[i]
      BY DEF Range
    <2>3. OfRequest(r, s)
      BY <1>2, <2>1, <2>2 DEF Section
    <2> QED
      BY <1>3, <2>3 DEF OfRequest
  <1>4. Object("table", TableName(r), [type |-> "rows"]) \in Objects(r)
    BY DEF Objects
  <1>5. MadeBy(d) \subseteq Objects(r)
    <2> SUFFICES ASSUME NEW o \in MadeBy(d) PROVE o \in Objects(r)
      OBVIOUS
    <2>1. CASE o = Object("table", TableName(r), [type |-> "rows"])
      BY <1>4, <2>1
    <2>2. CASE o # Object("table", TableName(r), [type |-> "rows"])
      <3>1. PICK s \in UNION {Range(b) : b \in UNION {Range(CompleteDdl(d[k])) : k \in DOMAIN d}} :
               Makes(s) /\ o = Object(s.kind, s.name, s.def)
        BY <2>2 DEF MadeBy, r
      <3>2. \A k \in DOMAIN d : d[k] = r
        BY <1>1 DEF r
      <3>3. PICK b \in Range(CompleteDdl(r)) : s \in Range(b)
        BY <3>1, <3>2
      <3> QED
        BY <1>3, <3>1, <3>3
    <2> QED
      BY <2>1, <2>2
  <1> QED
    BY <1>1, <1>5, ObjectsAgree DEF Agreeing, r

\* The document of a single file keeps both promises whatever names the caller
\* chose, unless the external table is given the name of the target or of its
\* staging table: no other names can clash (_bulk_data_source_names).
THEOREM OneFileIsRefusedNothing ==
    ASSUME \A d \in Documents :
              /\ Len(d) = 1 /\ Complete(d)
              /\ ExternalTableName(d[1]) \notin {TableName(d[1]), StagingTableName(d[1])}
    PROVE  Spec => [](OnlyStagingIsRefused /\ UsesItsOwnObjects)
  <1>1. \A d \in Documents : Agreeing(d) /\ Complete(d)
    BY OneFileAgrees
  <1>2. (Spec => []OnlyStagingIsRefused) /\ (Spec => []UsesItsOwnObjects)
    BY <1>1, NothingElseIsRefused, ReadsItsOwn
  <1> QED
    BY <1>2, PTL

-----------------------------------------------------------------------------
(* What is loaded, and what is emptied before.                             *)

\* This run is past the statement i of batch b of file k.
Beyond(k, b, i) ==
    \/ k < at.file
    \/ k = at.file /\ (b < at.batch \/ (b = at.batch /\ i < at.statement))

TablesHaveRows ==
    \A o \in catalog : o.kind = "table" /\ o.def.type = "rows" => o.name \in DOMAIN rows

TargetsHoldRows ==
    \A o \in catalog : \A k \in DOMAIN requests :
        o.kind = "table" /\ o.name = TableName(requests[k]) => o.def.type = "rows"

TargetsAreThere ==
    \A k \in DOMAIN requests : \A b \in DOMAIN Doc(k) :
        Passed(k, b) /\ Offers(Doc(k)[b], UseTable(requests[k]))
            => TableName(requests[k]) \in DOMAIN rows

\* From where a target was emptied until its load it is empty; then it holds
\* the load's rows, or the load was lost with what was refused.
LoadInv ==
    \A k \in DOMAIN requests : \A t, j, b, i :
        LET T == TableName(requests[k])
        IN  IsAt(Doc(k), t, j, "truncate") /\ IsAt(Doc(k), b, i, "load") /\ Passed(k, t) =>
               IF Beyond(k, b, i)
               THEN rows[T] = <<k>> \/ (rows[T] = <<>> /\ refused # {})
               ELSE rows[T] = <<>>

LInv ==
    /\ ScriptInv /\ AtInv /\ RowsInv
    /\ TablesHaveRows /\ TargetsHoldRows /\ TargetsAreThere /\ LoadInv

\* A batch that is left out only creates what is shared.
LEMMA CommentCreates ==
    ASSUME ScriptInv, AtInv, AtBatch, Batch = Comment
    PROVE  /\ at.file \in DOMAIN requests /\ at.batch \in DOMAIN Doc(at.file)
           /\ \A i \in DOMAIN Doc(at.file)[at.batch] :
                 LET s == Doc(at.file)[at.batch][i] IN s.verb = "create" /\ s.kind \in SharedKinds
  <1>1. at.file \in DOMAIN requests /\ at.batch \in DOMAIN Doc(at.file)
    BY ExportOf, DocumentOf DEF AtInv, AtBatch, Running
  <1>2. Doc(at.file)[at.batch] # Comment
    BY <1>1, DocumentOf DEF Comment
  <1>3. SharedObjectsIn(Doc(at.file)[at.batch]) # {}
    BY <1>1, <1>2, ExportOf DEF Batch
  <1>4. PICK i \in DOMAIN Doc(at.file)[at.batch] :
           Doc(at.file)[at.batch][i].verb = "create" /\ Doc(at.file)[at.batch][i].kind \in SharedKinds
    BY <1>3 DEF SharedObjectsIn
  <1> QED
    BY <1>1, <1>4, CreatesAlone

\* What is behind after a step was behind before it, or is what it passed; and
\* only a new run puts it ahead again.
LEMMA BeyondBefore ==
    ASSUME ScriptInv, AtInv, UNCHANGED <<requests, script>>,
           NEW k \in DOMAIN requests, NEW b \in DOMAIN Doc(k), NEW i \in DOMAIN Doc(k)[b]
    PROVE  /\ InBatch /\ at' = NextStatement =>
                 (Beyond(k, b, i)' <=> Beyond(k, b, i) \/ (k = at.file /\ b = at.batch /\ i = at.statement))
           /\ at' = NextBatch =>
                 /\ Beyond(k, b, i)' => Beyond(k, b, i) \/ (k = at.file /\ b = at.batch)
                 /\ Beyond(k, b, i) => Beyond(k, b, i)'
           /\ at' = NextFile /\ ~AtBatch /\ Running => (Beyond(k, b, i)' <=> Beyond(k, b, i))
  <1>1. /\ k \in Nat \ {0} /\ b \in Nat \ {0} /\ i \in Nat \ {0}
        /\ Len(Doc(k)[b]) \in Nat /\ i <= Len(Doc(k)[b]) /\ b <= Len(Doc(k)) /\ Len(Doc(k)) \in Nat
    BY ExportOf, DocumentOf
  <1>2. /\ at.file \in Nat \ {0} /\ at.batch \in Nat \ {0} /\ at.statement \in Nat \ {0}
    BY DEF AtInv
  <1>3. NextBatch.file = at.file /\ NextBatch.batch = at.batch + 1 /\ NextBatch.statement = 1
    BY DEF NextBatch, AtInv
  <1>4. at' = NextBatch =>
           /\ Beyond(k, b, i)' => Beyond(k, b, i) \/ (k = at.file /\ b = at.batch)
           /\ Beyond(k, b, i) => Beyond(k, b, i)'
    BY <1>1, <1>2, <1>3 DEF Beyond
  <1>5. ASSUME at' = NextFile, ~AtBatch, Running PROVE Beyond(k, b, i)' <=> Beyond(k, b, i)
    <2>1. at'.file = at.file + 1 /\ at'.batch = 1 /\ at'.statement = 1
      BY <1>5 DEF NextFile
    <2>2. k = at.file => b < at.batch
      BY <1>1, <1>2, <1>5, ExportOf DEF AtBatch
    <2> QED
      BY <1>1, <1>2, <2>1, <2>2 DEF Beyond
  <1>6. ASSUME InBatch, at' = NextStatement
        PROVE  Beyond(k, b, i)' <=> Beyond(k, b, i) \/ (k = at.file /\ b = at.batch /\ i = at.statement)
    <2>1. /\ Batch = Doc(at.file)[at.batch] /\ at.file \in DOMAIN requests
          /\ at.batch \in DOMAIN Doc(at.file) /\ at.statement \in DOMAIN Doc(at.file)[at.batch]
      BY <1>6, CurrentIs
    <2>2. Len(Batch) \in Nat /\ at.statement <= Len(Batch)
      BY <2>1, DocumentOf
    <2>3. CASE at.statement < Len(Batch)
      <3>1. at'.file = at.file /\ at'.batch = at.batch /\ at'.statement = at.statement + 1
        BY <1>6, <2>3 DEF NextStatement, AtInv
      <3> QED
        BY <1>1, <1>2, <3>1 DEF Beyond
    <2>4. CASE at.statement = Len(Batch)
      <3>1. at' = NextBatch
        BY <1>6, <2>2, <2>4 DEF NextStatement
      <3>2. k = at.file /\ b = at.batch => i <= at.statement
        BY <1>1, <2>1, <2>4
      <3> QED
        BY <1>1, <1>2, <1>3, <3>1, <3>2 DEF Beyond
    <2> QED
      BY <1>2, <2>2, <2>3, <2>4
  <1> QED
    BY <1>4, <1>5, <1>6

\* A statement is refused that is neither the emptying of a target nor the
\* making of one.
LEMMA TargetsAreNotRefused ==
    ASSUME ScriptInv, AtInv, InBatch, Apart(requests), Refuses(catalog, Current)
    PROVE  /\ Current.verb # "truncate"
           /\ ~(Current.verb = "create" /\ Current.kind = "table" /\ Current.name = TableName(Request))
  <1>1. OfRequest(Request, Current) /\ (Current.verb = "create" => Current.guarded)
    BY CurrentIs
  <1>2. TableName(Request) # ExternalTableName(Request)
    BY CurrentIs DEF Apart, Request
  <1> QED
    BY <1>1, <1>2 DEF Refuses, Makes, OfRequest

\* The batch that makes a target holds nothing else.
LEMMA TargetIsMade ==
    ASSUME ScriptInv, AtInv, InBatch, NEW k \in DOMAIN requests, k = at.file,
           Offers(Doc(k)[at.batch], UseTable(requests[k]))
    PROVE  /\ Current.verb = "create" /\ Current.kind = "table"
           /\ Current.name = TableName(requests[k]) /\ Current.def.type = "rows"
  <1>1. /\ at.batch \in DOMAIN Doc(k) /\ at.statement \in DOMAIN Doc(k)[at.batch]
        /\ Current = Doc(k)[at.batch][at.statement]
    BY CurrentIs
  <1>2. PICK i \in DOMAIN Doc(k)[at.batch] :
           /\ Doc(k)[at.batch][i].verb = "create"
           /\ Use(Doc(k)[at.batch][i].kind, Doc(k)[at.batch][i].name, Doc(k)[at.batch][i].def.type)
                 = UseTable(requests[k])
    BY DEF Offers
  <1>3. i = at.statement
    BY <1>1, <1>2, CreatesAlone
  <1> QED
    BY <1>1, <1>2, <1>3 DEF Use, UseTable

\* A batch is passed by going on from it.
LEMMA PassedByStep ==
    ASSUME ScriptInv, AtInv, NEW k \in DOMAIN requests, NEW b \in DOMAIN Doc(k), Passed(k, b)',
           UNCHANGED <<requests, script>>,
           \/ InBatch /\ at' = NextStatement
           \/ at' = NextBatch
    PROVE  Passed(k, b) \/ (k = at.file /\ b = at.batch /\ at' = NextBatch)
  BY PassedBefore DEF NextStatement

\* No table loses its entry.
LEMMA RowsStayThere ==
    ASSUME ExecuteStatement PROVE DOMAIN rows \subseteq DOMAIN rows'
  BY DEF ExecuteStatement, Loaded

\* A table is made with no rows in it.
LEMMA MadeTablesHaveRows ==
    ASSUME TablesHaveRows, ExecuteStatement PROVE TablesHaveRows'
  <1> SUFFICES ASSUME NEW o \in catalog', o.kind = "table", o.def.type = "rows"
               PROVE  o.name \in DOMAIN rows'
    BY DEF TablesHaveRows
  <1>1. catalog' = catalog \cup Created(catalog, Current)
    BY DEF ExecuteStatement
  <1>2. CASE o \in catalog
    BY <1>2, RowsStayThere DEF TablesHaveRows
  <1>3. CASE o \in Created(catalog, Current)
    BY <1>3 DEF ExecuteStatement, Loaded
  <1> QED
    BY <1>1, <1>2, <1>3

\* The name of a target is never given to an external table.
LEMMA MadeTargetsHoldRows ==
    ASSUME ScriptInv, AtInv, Apart(requests), TargetsHoldRows, ExecuteStatement
    PROVE  TargetsHoldRows'
  <1>1. /\ catalog' = catalog \cup Created(catalog, Current) /\ requests' = requests /\ InBatch
    BY DEF ExecuteStatement
  <1> SUFFICES ASSUME NEW o \in catalog', NEW k \in DOMAIN requests, o.kind = "table",
                      o.name = TableName(requests[k])
               PROVE  o.def.type = "rows"
    BY <1>1 DEF TargetsHoldRows
  <1>2. CASE o \in catalog
    BY <1>2 DEF TargetsHoldRows
  <1>3. CASE o \in Created(catalog, Current)
    <2>1. Makes(Current) /\ o = Object(Current.kind, Current.name, Current.def)
      BY <1>3 DEF Created
    <2>2. o \in Objects(Request) /\ at.file \in DOMAIN requests
      BY <1>1, <2>1, CurrentIs DEF OfRequest
    <2>3. o.name # ExternalTableName(Request)
      BY <2>2 DEF Apart, Request
    <2>4. o.def = [type |-> "rows"]
      BY <2>2, <2>3, ObjectIs
    <2> QED
      BY <2>4
  <1> QED
    BY <1>1, <1>2, <1>3

\* The batch that makes a target leaves it there, made now or before.
LEMMA MadeTargetsAreThere ==
    ASSUME ScriptInv, AtInv, TablesHaveRows, TargetsHoldRows, TargetsAreThere, ExecuteStatement
    PROVE  TargetsAreThere'
  <1>1. /\ InBatch /\ at' = NextStatement /\ UNCHANGED <<requests, script>>
        /\ catalog' = catalog \cup Created(catalog, Current)
    BY DEF ExecuteStatement
  <1> SUFFICES ASSUME NEW k \in DOMAIN requests, NEW b \in DOMAIN Doc(k), Passed(k, b)',
                      Offers(Doc(k)[b], UseTable(requests[k]))
               PROVE  TableName(requests[k]) \in DOMAIN rows'
    BY <1>1 DEF TargetsAreThere, Doc
  <1>2. CASE Passed(k, b)
    BY <1>2, RowsStayThere DEF TargetsAreThere
  <1>3. CASE k = at.file /\ b = at.batch
    <2>1. /\ Current.verb = "create" /\ Current.kind = "table"
          /\ Current.name = TableName(requests[k]) /\ Current.def.type = "rows"
      BY <1>1, <1>3, TargetIsMade
    <2>2. CASE Existing(catalog, Current.kind, Current.name) = {}
      <3>1. Object(Current.kind, Current.name, Current.def) \in Created(catalog, Current)
        BY <2>1, <2>2 DEF Created, Makes
      <3> DEFINE o == Object(Current.kind, Current.name, Current.def)
      <3>2. o.name = Current.name /\ o.def = Current.def
        BY DEF Object
      <3> HIDE DEF o
      <3>3. o \in Created(catalog, Current) /\ o.def.type = "rows" /\ o.name = TableName(requests[k])
        BY <2>1, <3>1, <3>2 DEF o
      <3> QED
        BY <3>3 DEF ExecuteStatement, Loaded
    <2>3. CASE Existing(catalog, Current.kind, Current.name) # {}
      <3>1. PICK o \in catalog : o.kind = "table" /\ o.name = TableName(requests[k])
        BY <2>1, <2>3 DEF Existing
      <3>2. o.name \in DOMAIN rows
        BY <3>1 DEF TargetsHoldRows, TablesHaveRows
      <3> QED
        BY <3>1, <3>2, RowsStayThere
    <2> QED
      BY <2>2, <2>3
  <1> QED
    BY <1>1, <1>2, <1>3, PassedByStep

\* A target is emptied, then loaded by its own file, and touched by no other
\* statement.
LEMMA ExecuteLoads ==
    ASSUME LInv, Apart(requests), ExecuteStatement PROVE LoadInv'
  <1> USE DEF LInv
  <1>1. /\ InBatch /\ at' = NextStatement /\ UNCHANGED <<requests, script, refused>>
    BY DEF ExecuteStatement
  <1> SUFFICES ASSUME NEW k \in DOMAIN requests, NEW t, NEW j, NEW b, NEW i,
                      IsAt(Doc(k), t, j, "truncate"), IsAt(Doc(k), b, i, "load"), Passed(k, t)'
               PROVE  IF Beyond(k, b, i)'
                      THEN \/ rows'[TableName(requests[k])] = <<k>>
                           \/ rows'[TableName(requests[k])] = <<>> /\ refused # {}
                      ELSE rows'[TableName(requests[k])] = <<>>
    BY <1>1 DEF LoadInv, Doc
  <1> DEFINE r == requests[k]
             T == TableName(r)
  <1>2. IsRequest(r) /\ Prepared(r, Doc(k))
    BY DocumentOf, DocumentIsPrepared DEF Doc
  <1>3. t < b /\ Len(Doc(k)[t]) = 1
    BY <1>2 DEF Prepared
  <1>4. /\ t \in DOMAIN Doc(k) /\ j \in DOMAIN Doc(k)[t] /\ b \in DOMAIN Doc(k) /\ i \in DOMAIN Doc(k)[b]
        /\ Doc(k)[t][j].verb = "truncate" /\ Doc(k)[b][i].verb = "load"
    BY DEF IsAt
  <1>5. PICK c \in 1..(t - 1) : Offers(Doc(k)[c], UseTable(r))
    BY <1>2 DEF Prepared
  <1>6. c \in DOMAIN Doc(k) /\ t \in Nat /\ c < t /\ b \in Nat /\ i \in Nat \ {0} /\ j = 1
    BY <1>3, <1>4, DocumentOf
  <1>7. Passed(k, t) \/ (k = at.file /\ t = at.batch) => Passed(k, c)
    BY <1>6 DEF Passed, AtInv
  <1>8. Passed(k, t) \/ (k = at.file /\ t = at.batch) => T \in DOMAIN rows
    BY <1>5, <1>6, <1>7 DEF TargetsAreThere
  <1>9. T \in DOMAIN rows =>
           rows'[T] = IF T # Current.name THEN rows[T]
                      ELSE IF Current.verb = "truncate" THEN <<>>
                      ELSE IF Current.verb \in {"load", "selectinto"} THEN Append(rows[T], at.file)
                      ELSE rows[T]
    BY DEF ExecuteStatement, Loaded
  <1>10. Current = Doc(at.file)[at.batch][at.statement]
         /\ at.file \in DOMAIN requests /\ at.batch \in DOMAIN Doc(at.file)
         /\ at.statement \in DOMAIN Doc(at.file)[at.batch] /\ OfRequest(Request, Current)
    BY <1>1, CurrentIs
  <1>11. Beyond(k, b, i)' <=> Beyond(k, b, i) \/ (k = at.file /\ b = at.batch /\ i = at.statement)
    BY <1>1, <1>4, BeyondBefore
  <1>12. CASE k = at.file /\ t = at.batch
    <2>1. at.statement = 1
      BY <1>3, <1>6, <1>10, <1>12, DocumentOf
    <2>2. Current.verb = "truncate"
      BY <1>4, <1>6, <1>10, <1>12, <2>1
    <2>3. Current.name = T
      BY <1>10, <1>12, <2>2 DEF OfRequest, Request
    <2>4. rows'[T] = <<>>
      BY <1>8, <1>9, <1>12, <2>2, <2>3
    <2>5. ~Beyond(k, b, i)'
      BY <1>3, <1>6, <1>11, <1>12 DEF Beyond, AtInv
    <2> QED
      BY <2>4, <2>5
  <1>13. CASE ~(k = at.file /\ t = at.batch)
    <2>1. Passed(k, t) /\ T \in DOMAIN rows
      BY <1>1, <1>4, <1>8, <1>13, PassedByStep
    <2>2. CASE k = at.file /\ b = at.batch /\ i = at.statement
      <3>1. Current.verb = "load"
        BY <1>4, <1>10, <2>2
      <3>2. Current.name = T
        BY <1>10, <2>2, <3>1 DEF OfRequest, Request
      <3>3. ~Beyond(k, b, i)
        BY <1>6, <2>2 DEF Beyond, AtInv
      <3>4. rows[T] = <<>>
        BY <2>1, <3>3 DEF LoadInv
      <3>5. rows'[T] = Append(<<>>, k)
        BY <1>9, <2>1, <2>2, <3>1, <3>2, <3>4
      <3>6. rows'[T] = <<k>>
        BY <3>5
      <3> QED
        BY <1>11, <2>2, <3>6
    <2>3. CASE ~(k = at.file /\ b = at.batch /\ i = at.statement)
      <3>1. Current.verb \in {"load", "truncate", "selectinto"} => Current.name # T
        <4>1. CASE at.file # k
          <5>1. T \notin {TableName(Request), StagingTableName(Request)}
            BY <1>10, <4>1 DEF Apart, Request
          <5> QED
            BY <1>10, <5>1 DEF OfRequest
        <4>2. CASE at.file = k
          <5>1. Current.verb # "load"
            BY <1>2, <1>10, <2>3, <4>2 DEF Prepared, IsAt
          <5>2. Current.verb # "truncate"
            BY <1>2, <1>10, <1>13, <4>2 DEF Prepared, IsAt
          <5>3. T # StagingTableName(Request)
            BY <1>2, <4>2, StagingDiffers DEF Request
          <5> QED
            BY <1>10, <5>1, <5>2, <5>3 DEF OfRequest
        <4> QED
          BY <4>1, <4>2
      <3>2. rows'[T] = rows[T]
        BY <1>9, <2>1, <3>1
      <3>3. Beyond(k, b, i)' <=> Beyond(k, b, i)
        BY <1>11, <2>3
      <3>4. IF Beyond(k, b, i)
            THEN rows[T] = <<k>> \/ (rows[T] = <<>> /\ refused # {})
            ELSE rows[T] = <<>>
        BY <2>1 DEF LoadInv
      <3> QED
        BY <3>2, <3>3, <3>4
    <2> QED
      BY <2>2, <2>3
  <1> QED
    BY <1>12, <1>13

\* Steps that change no row.
LEMMA OthersLoadNothing ==
    ASSUME LInv, UNCHANGED <<requests, script, rows>>, refused \subseteq refused',
           \A k \in DOMAIN requests : \A t, j, b, i :
              IsAt(Doc(k), t, j, "truncate") /\ IsAt(Doc(k), b, i, "load") /\ Passed(k, t)' =>
                 /\ Passed(k, t)
                 /\ Beyond(k, b, i) => Beyond(k, b, i)'
                 /\ Beyond(k, b, i)' => Beyond(k, b, i) \/ refused' # {}
    PROVE  LoadInv'
  <1> SUFFICES ASSUME NEW k \in DOMAIN requests, NEW t, NEW j, NEW b, NEW i,
                      IsAt(Doc(k), t, j, "truncate"), IsAt(Doc(k), b, i, "load"), Passed(k, t)'
               PROVE  IF Beyond(k, b, i)'
                      THEN \/ rows[TableName(requests[k])] = <<k>>
                           \/ rows[TableName(requests[k])] = <<>> /\ refused' # {}
                      ELSE rows[TableName(requests[k])] = <<>>
    BY DEF LoadInv, Doc
  <1>1. /\ Passed(k, t)
        /\ Beyond(k, b, i) => Beyond(k, b, i)'
        /\ Beyond(k, b, i)' => Beyond(k, b, i) \/ refused' # {}
    OBVIOUS
  <1>2. IF Beyond(k, b, i)
        THEN \/ rows[TableName(requests[k])] = <<k>>
             \/ rows[TableName(requests[k])] = <<>> /\ refused # {}
        ELSE rows[TableName(requests[k])] = <<>>
    BY <1>1 DEF LInv, LoadInv
  <1> QED
    BY <1>1, <1>2

\* A step that loads and makes nothing, and passes nothing that is refused,
\* leaves the targets as they are.
LEMMA OthersMakeNothing ==
    ASSUME LInv, UNCHANGED <<requests, script, catalog, rows>>,
           \A k \in DOMAIN requests : \A b \in DOMAIN Doc(k) :
              Passed(k, b)' /\ Offers(Doc(k)[b], UseTable(requests[k])) => Passed(k, b)
    PROVE  TablesHaveRows' /\ TargetsHoldRows' /\ TargetsAreThere'
  BY DEF LInv, TablesHaveRows, TargetsHoldRows, TargetsAreThere, Doc

\* A refused load leaves its target empty, and the emptying is never refused.
LEMMA RefuseLoads ==
    ASSUME LInv, Apart(requests), RefuseStatement
    PROVE  TablesHaveRows' /\ TargetsHoldRows' /\ TargetsAreThere' /\ LoadInv'
  <1> USE DEF LInv
  <1>1. /\ InBatch /\ Refuses(catalog, Current) /\ (at' = NextStatement \/ at' = NextBatch)
        /\ UNCHANGED <<requests, script, catalog, rows>> /\ refused' = refused \cup {Current}
    BY DEF RefuseStatement
  <1>2. /\ Current.verb # "truncate"
        /\ ~(Current.verb = "create" /\ Current.kind = "table" /\ Current.name = TableName(Request))
    BY <1>1, TargetsAreNotRefused
  <1>3. ASSUME NEW k \in DOMAIN requests, NEW b \in DOMAIN Doc(k), Passed(k, b)',
               Offers(Doc(k)[b], UseTable(requests[k]))
        PROVE  Passed(k, b)
    <2>1. k = at.file /\ b = at.batch => FALSE
      BY <1>1, <1>2, <1>3, TargetIsMade DEF Request
    <2> QED
      BY <1>1, <1>3, <2>1, PassedByStep
  <1>4. TablesHaveRows' /\ TargetsHoldRows' /\ TargetsAreThere'
    BY <1>1, <1>3, OthersMakeNothing
  <1>5. ASSUME NEW k \in DOMAIN requests, NEW t, NEW j, NEW b, NEW i,
               IsAt(Doc(k), t, j, "truncate"), IsAt(Doc(k), b, i, "load"), Passed(k, t)'
        PROVE  Passed(k, t) /\ (Beyond(k, b, i) => Beyond(k, b, i)')
    <2>1. k = at.file /\ t = at.batch => FALSE
      <3>1. ASSUME k = at.file, t = at.batch PROVE FALSE
        <4>1. Prepared(requests[k], Doc(k))
          BY DocumentOf, DocumentIsPrepared DEF Doc
        <4>2. Len(Doc(k)[t]) = 1 /\ t \in DOMAIN Doc(k) /\ j \in DOMAIN Doc(k)[t]
              /\ Doc(k)[t][j].verb = "truncate"
          BY <1>5, <4>1 DEF Prepared, IsAt
        <4>3. Current = Doc(k)[t][at.statement] /\ at.statement \in DOMAIN Doc(k)[t]
          BY <1>1, <3>1, CurrentIs
        <4>4. at.statement = j
          BY <4>2, <4>3, DocumentOf
        <4> QED
          BY <1>2, <4>2, <4>3, <4>4
      <3> QED
        BY <3>1
    <2>2. Passed(k, t)
      BY <1>1, <1>5, <2>1, PassedByStep DEF IsAt
    <2>3. Beyond(k, b, i) => Beyond(k, b, i)'
      BY <1>1, <1>5, BeyondBefore DEF IsAt
    <2> QED
      BY <2>2, <2>3
  <1>6. LoadInv'
    BY <1>1, <1>5, OthersLoadNothing
  <1> QED
    BY <1>4, <1>6

\* A batch that is left out is neither a target's, nor its emptying or load.
LEMMA PassLoads ==
    ASSUME LInv, PassComment
    PROVE  TablesHaveRows' /\ TargetsHoldRows' /\ TargetsAreThere' /\ LoadInv'
  <1> USE DEF LInv
  <1>1. /\ AtBatch /\ Batch = Comment /\ at' = NextBatch
        /\ UNCHANGED <<requests, script, catalog, rows, refused>>
    BY DEF PassComment
  <1>2. /\ at.file \in DOMAIN requests /\ at.batch \in DOMAIN Doc(at.file)
        /\ \A i \in DOMAIN Doc(at.file)[at.batch] :
              LET s == Doc(at.file)[at.batch][i] IN s.verb = "create" /\ s.kind \in SharedKinds
    BY <1>1, CommentCreates
  <1>3. ASSUME NEW k \in DOMAIN requests, NEW b \in DOMAIN Doc(k), Passed(k, b)',
               Offers(Doc(k)[b], UseTable(requests[k]))
        PROVE  Passed(k, b)
    <2>1. PICK i \in DOMAIN Doc(k)[b] : Doc(k)[b][i].kind = "table"
      BY <1>3 DEF Offers, Use, UseTable
    <2>2. ~(k = at.file /\ b = at.batch)
      BY <1>2, <2>1 DEF SharedKinds
    <2> QED
      BY <1>1, <1>3, <2>2, PassedByStep
  <1>4. TablesHaveRows' /\ TargetsHoldRows' /\ TargetsAreThere'
    BY <1>1, <1>3, OthersMakeNothing
  <1>5. ASSUME NEW k \in DOMAIN requests, NEW t, NEW j, NEW b, NEW i,
               IsAt(Doc(k), t, j, "truncate"), IsAt(Doc(k), b, i, "load"), Passed(k, t)'
        PROVE  /\ Passed(k, t)
               /\ Beyond(k, b, i) => Beyond(k, b, i)'
               /\ Beyond(k, b, i)' => Beyond(k, b, i)
    <2>1. ~(k = at.file /\ t = at.batch) /\ ~(k = at.file /\ b = at.batch)
      BY <1>2, <1>5 DEF IsAt
    <2>2. Passed(k, t)
      BY <1>1, <1>5, <2>1, PassedByStep DEF IsAt
    <2> QED
      BY <1>1, <1>5, <2>1, <2>2, BeyondBefore DEF IsAt
  <1>6. LoadInv'
    BY <1>1, <1>5, OthersLoadNothing
  <1> QED
    BY <1>4, <1>6

\* Between files nothing is loaded.
LEMMA NextFileLoads ==
    ASSUME LInv, GoToNextFile
    PROVE  TablesHaveRows' /\ TargetsHoldRows' /\ TargetsAreThere' /\ LoadInv'
  <1> USE DEF LInv
  <1>1. /\ ~AtBatch /\ Running /\ at' = NextFile
        /\ UNCHANGED <<requests, script, catalog, rows, refused>>
    BY DEF GoToNextFile
  <1>2. \A k \in DOMAIN requests : \A b \in DOMAIN Doc(k) : Passed(k, b)' => Passed(k, b)
    BY <1>1, PassedBefore
  <1>3. TablesHaveRows' /\ TargetsHoldRows' /\ TargetsAreThere'
    BY <1>1, <1>2, OthersMakeNothing
  <1>4. \A k \in DOMAIN requests : \A b \in DOMAIN Doc(k) : \A i \in DOMAIN Doc(k)[b] :
           Beyond(k, b, i)' <=> Beyond(k, b, i)
    BY <1>1, BeyondBefore
  <1>5. LoadInv'
    BY <1>1, <1>2, <1>4, OthersLoadNothing DEF IsAt
  <1> QED
    BY <1>3, <1>5

\* Run again from the top, everything lies ahead.
LEMMA AgainLoads ==
    ASSUME LInv, RunAgain
    PROVE  TablesHaveRows' /\ TargetsHoldRows' /\ TargetsAreThere' /\ LoadInv'
  <1> USE DEF LInv
  <1>1. at' = Start /\ UNCHANGED <<requests, script, catalog, rows, refused>>
    BY DEF RunAgain
  <1>2. \A k \in DOMAIN requests : \A b \in DOMAIN Doc(k) : ~Passed(k, b)'
    BY <1>1, PassedBefore
  <1>3. TablesHaveRows' /\ TargetsHoldRows' /\ TargetsAreThere'
    BY <1>1, <1>2, OthersMakeNothing
  <1>4. LoadInv'
    BY <1>1, <1>2, OthersLoadNothing DEF IsAt
  <1> QED
    BY <1>3, <1>4

\* Every step keeps the invariant: the cases of Next.
LEMMA LInvStays ==
    ASSUME LInv, Apart(requests), [Next]_vars PROVE LInv'
  <1>1. ScriptInv' /\ AtInv' /\ RowsInv'
    BY StepsWell DEF LInv
  <1>2. CASE ExecuteStatement
    BY <1>1, <1>2, MadeTablesHaveRows, MadeTargetsHoldRows, MadeTargetsAreThere, ExecuteLoads DEF LInv
  <1>3. CASE RefuseStatement
    BY <1>1, <1>3, RefuseLoads DEF LInv
  <1>4. CASE PassComment
    BY <1>1, <1>4, PassLoads DEF LInv
  <1>5. CASE GoToNextFile
    BY <1>1, <1>5, NextFileLoads DEF LInv
  <1>6. CASE RunAgain
    BY <1>1, <1>6, AgainLoads DEF LInv
  <1>7. CASE UNCHANGED vars
    BY <1>1, <1>7 DEF vars, LInv, TablesHaveRows, TargetsHoldRows, TargetsAreThere, LoadInv,
                      Passed, Beyond, Doc
  <1> QED
    BY <1>2, <1>3, <1>4, <1>5, <1>6, <1>7 DEF Next

\* It holds at the start, with somebody else's rows in the target or none.
LEMMA StartsToLoad == Init => LInv
  <1> SUFFICES ASSUME Init PROVE LInv
    OBVIOUS
  <1>1. ScriptInv /\ AtInv /\ RowsInv
    BY StartsWell
  <1>2. /\ rows = [t \in {o.name : o \in catalog} |-> <<Theirs>>]
        /\ catalog \subseteq {Object("table", TableName(requests[1]), [type |-> "rows"])}
    BY DEF Init
  <1>3. TablesHaveRows
    BY <1>2 DEF TablesHaveRows
  <1>4. TargetsHoldRows
    BY <1>2 DEF TargetsHoldRows, Object
  <1>5. \A k \in DOMAIN requests : \A b \in DOMAIN Doc(k) : ~Passed(k, b)
    <2>1. \A k \in DOMAIN requests : k \in Nat \ {0} /\ \A b \in DOMAIN Doc(k) : b \in Nat \ {0}
      BY <1>1, ExportOf, DocumentOf
    <2>2. at.file = 1 /\ at.batch = 1
      BY DEF Init, Start
    <2> QED
      BY <2>1, <2>2 DEF Passed
  <1> QED
    BY <1>1, <1>3, <1>4, <1>5 DEF LInv, TargetsAreThere, LoadInv, IsAt

\* TRUNCATE before the load makes the row count stable (_truncate_before_load):
\* a run that has come to its end, however many were cut off before it, leaves
\* the rows of each file once in a target that was to be emptied, when no file
\* of the export uses another's target (two files with one target empty each
\* other's rows) and the load is recognised (no blank in its schema's name).
THEOREM FinishedRunsLoadOnce ==
    ASSUME \A d \in Documents : Apart(d)
    PROVE  Spec => []RerunLoadsOnce
  <1>1. LInv /\ [Next]_vars => LInv'
    BY LInvStays DEF LInv, ScriptInv
  <1>2. LInv => RerunLoadsOnce
    <2> SUFFICES ASSUME LInv, ~Running, NEW k \in DOMAIN requests,
                        requests[k].rerun, OwnsLoadTarget(requests[k]),
                        LoadsInto(script[k], requests[k])
                 PROVE  LET T == TableName(requests[k])
                        IN  rows[T] = <<k>> \/ (refused # {} /\ Len(rows[T]) <= 1)
      BY DEF RerunLoadsOnce
    <2> USE DEF LInv
    <2>1. PICK b \in DOMAIN script[k] : \E i \in DOMAIN script[k][b] : script[k][b][i].verb = "load"
      BY DEF LoadsInto
    <2>2. PICK i \in DOMAIN script[k][b] : script[k][b][i].verb = "load"
      BY <2>1
    <2>3. script[k][b] # Comment
      BY <2>2, NoBatch DEF Comment
    <2>4. IsAt(Doc(k), b, i, "load")
      BY <2>1, <2>2, <2>3, ExportOf DEF IsAt
    <2>5. PICK t, j : IsAt(Doc(k), t, j, "truncate")
      <3>1. ~requests[k].names.spaced
        BY DEF LoadsInto
      <3> QED
        BY <2>4, <3>1, DocumentOf, DocumentIsPrepared DEF Prepared, Doc
    <2>6. k < at.file
      BY ExportOf DEF Running, AtInv
    <2>7. Passed(k, t) /\ Beyond(k, b, i)
      BY <2>6 DEF Passed, Beyond
    <2>8. \/ rows[TableName(requests[k])] = <<k>>
          \/ rows[TableName(requests[k])] = <<>> /\ refused # {}
      BY <2>4, <2>5, <2>7 DEF LoadInv
    <2> QED
      BY <2>8, NoBatch
  <1> QED
    BY <1>1, <1>2, StartsToLoad, PTL DEF Spec

=============================================================================
