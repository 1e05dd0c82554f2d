------------------------ MODULE AzureConnectionsProofs ------------------------
(***************************************************************************)
(* For any number of sessions, request threads and connections, and any    *)
(* interleaving of sign-ins, listings, disconnects, sign-outs and expiry:  *)
(* no client without its credential, nothing kept by a closed connection,  *)
(* nothing left open that nobody reaches, nothing connected after a        *)
(* sign-out that was connected before it.                                  *)
(***************************************************************************)
EXTENDS AzureConnections, SequenceTheorems, TLAPS

-----------------------------------------------------------------------------
(* The inductive invariant.                                                *)

\* What a request, a client and an entry refer to exists.
RefersToMade ==
    /\ \A s \in Sessions : entries[s] = 0 \/ entries[s] \in Conns
    /\ \A c \in Clients : clients[c].conn \in Conns
    /\ \A r \in Requests :
         /\ req[r].drop \subseteq Conns
         /\ req[r].pc \in {"arm", "cached", "build", "publish"} => req[r].conn \in Conns
         /\ req[r].pc = "publish" => /\ req[r].client \in Clients
                                     /\ clients[req[r].client].conn = req[r].conn

\* Only a request that is closing has something to close, and only a sign-out
\* is between its two halves.
ClosingOnly ==
    \A r \in Requests :
      /\ req[r].pc # "close" => req[r].drop = {} /\ req[r].shut = {}
      /\ req[r].pc = "clear" => req[r].kind = "signout"

\* A brokered sign-in holds a credential of the store.
BrokeredHolds ==
    /\ \A r \in Requests :
         req[r].pc \in {"armRecord", "register"} /\ req[r].mode = "vscode" => req[r].cred # 0
    /\ \A k \in Conns : conns[k].mode = "vscode" /\ ~conns[k].closed => conns[k].cred # 0

\* ClientsAreClosed, with the moments at which a request holds a client.
ClientsAreHeld ==
    \A c \in Clients : clients[c].open =>
      \/ clients[c].replaced
      \/ conns[clients[c].conn].client = c
      \/ \E r \in Requests : \/ req[r].pc = "publish" /\ req[r].client = c
                             \/ c \in req[r].shut

\* SignOutDisconnects, with the moment at which a sign-out is in progress.
ForgottenIsLate ==
    \A s \in Sessions : ForgottenCredential(s) =>
      \/ conns[entries[s]].late
      \/ \E r \in Requests : req[r].pc = "clear"

IInv == /\ TypeOK /\ RefersToMade /\ ClosingOnly /\ BrokeredHolds
        /\ NoAnonymousDowngrade /\ ClosedForgets /\ UnreachableIsClosed
        /\ ClientsAreHeld /\ ForgottenIsLate

LEMMA InitEstablishes == Init => IInv
  <1> SUFFICES ASSUME Init PROVE IInv
    OBVIOUS
  <1>1. (CHOOSE s \in Sessions : TRUE) \in Sessions
    BY SessionsAssumption
  <1>2. Idle \in Request
    BY <1>1 DEF Idle, Request, PCs, RequestKinds, AuthModes, NoToken
  <1>3. TypeOK
    BY <1>2 DEF Init, TypeOK, EmptyStore, NoToken
  <1>4. conns = << >> /\ clients = << >> /\ Conns = {} /\ Clients = {}
    BY DEF Init, Conns, Clients
  <1>5. \A r \in Requests : req[r].pc = "idle" /\ req[r].drop = {} /\ req[r].shut = {}
    BY DEF Init, Idle
  <1>6. \A s \in Sessions : entries[s] = 0
    BY DEF Init
  <1>9. RefersToMade /\ ClosingOnly /\ BrokeredHolds
    BY <1>4, <1>5, <1>6 DEF RefersToMade, ClosingOnly, BrokeredHolds
  <1>7. /\ NoAnonymousDowngrade /\ ClosedForgets /\ UnreachableIsClosed
        /\ ClientsAreHeld
    BY <1>4 DEF NoAnonymousDowngrade, ClosedForgets, UnreachableIsClosed, ClientsAreHeld
  <1>8. ForgottenIsLate
    BY <1>6 DEF ForgottenIsLate, ForgottenCredential
  <1> QED
    BY <1>3, <1>7, <1>8, <1>9 DEF IInv

LEMMA IdleFields ==
    /\ Idle \in Request
    /\ Idle.pc = "idle" /\ Idle.kind = "status" /\ Idle.mode = "anonymous"
    /\ Idle.cred = 0 /\ Idle.arm = -1 /\ Idle.conn = 0 /\ Idle.client = 0
    /\ Idle.drop = {} /\ Idle.shut = {} /\ Idle.then = "idle"
  <1>1. (CHOOSE s \in Sessions : TRUE) \in Sessions
    BY SessionsAssumption
  <1> QED
    BY <1>1 DEF Idle, Request, PCs, RequestKinds, AuthModes, NoToken

-----------------------------------------------------------------------------
(* Steps that change only where one request stands, and when a connection  *)
(* was used.                                                               *)

\* The connections are the same, except for the time they were used.
SameConnections ==
    /\ conns' \in Seq(Connection) /\ Len(conns') = Len(conns)
    /\ \A k \in 1 .. Len(conns) :
         /\ conns'[k].mode = conns[k].mode /\ conns'[k].cred = conns[k].cred
         /\ conns'[k].arm = conns[k].arm /\ conns'[k].client = conns[k].client
         /\ conns'[k].closed = conns[k].closed /\ conns'[k].late = conns[k].late

\* What new may be after a step of r that hands nothing over.
Quiet(old, new) ==
    /\ new \in Request
    /\ old.pc \notin {"clear", "publish"} /\ old.drop = {} /\ old.shut = {}
    /\ new.pc \notin {"clear", "publish"} /\ new.drop = {} /\ new.shut = {}
    /\ new.pc \in {"arm", "cached", "build"} => new.conn \in 1 .. Len(conns)
    /\ new.pc \in {"armRecord", "register"} /\ new.mode = "vscode" => new.cred # 0

LEMMA QuietStep ==
    ASSUME IInv, NEW r \in Requests, NEW new, req' = [req EXCEPT ![r] = new],
           Quiet(req[r], new), SameConnections,
           UNCHANGED << now, pushes, store, held, clients, entries >>
    PROVE  IInv'
  <1>1. /\ conns \in Seq(Connection) /\ conns' \in Seq(Connection)
        /\ Conns = 1 .. Len(conns) /\ Conns' = 1 .. Len(conns) /\ Clients' = Clients
    BY DEF IInv, TypeOK, SameConnections, Conns, Clients
  <1>2. /\ req \in [Requests -> Request] /\ req' \in [Requests -> Request]
        /\ req'[r] = new /\ \A q \in Requests : q # r => req'[q] = req[q]
    BY DEF IInv, TypeOK, Quiet
  <1> USE <1>1, <1>2
  <1>3. TypeOK'
    BY DEF IInv, TypeOK
  <1>4. RefersToMade'
    BY DEF IInv, RefersToMade, Quiet
  <1>5. ClosingOnly'
    BY DEF IInv, ClosingOnly, Quiet
  <1>6. BrokeredHolds'
    <2>1. \A q \in Requests :
            req'[q].pc \in {"armRecord", "register"} /\ req'[q].mode = "vscode"
              => req'[q].cred # 0
      BY DEF IInv, BrokeredHolds, Quiet
    <2>2. \A k \in Conns' :
            conns'[k].mode = "vscode" /\ ~conns'[k].closed => conns'[k].cred # 0
      BY DEF IInv, BrokeredHolds, SameConnections
    <2> QED
      BY <2>1, <2>2 DEF BrokeredHolds
  <1>7. NoAnonymousDowngrade'
    BY DEF IInv, NoAnonymousDowngrade, RefersToMade, SameConnections
  <1>8. ClosedForgets'
    BY DEF IInv, ClosedForgets, SameConnections
  <1>9. UnreachableIsClosed'
    <2>1. ASSUME NEW k \in Conns, NEW q \in Requests, k \in req[q].drop
          PROVE  k \in req'[q].drop
      BY <2>1 DEF Quiet
    <2> QED
      BY <2>1 DEF IInv, UnreachableIsClosed, SameConnections
  <1>10. ClientsAreHeld'
    BY DEF IInv, ClientsAreHeld, RefersToMade, Quiet, SameConnections
  <1>11. ForgottenIsLate'
    BY DEF IInv, ForgottenIsLate, ForgottenCredential, RefersToMade, Quiet, SameConnections
  <1> QED
    BY <1>3, <1>4, <1>5, <1>6, <1>7, <1>8, <1>9, <1>10, <1>11 DEF IInv

LEMMA UnchangedIsSame == ASSUME IInv, conns' = conns PROVE SameConnections
  BY DEF IInv, TypeOK, SameConnections

\* A connection that is used, at a time.
LEMMA UsedIsSame ==
    ASSUME IInv, NEW k \in Conns, conns' = [conns EXCEPT ![k].used = now]
    PROVE  SameConnections
  <1>1. conns \in Seq(Connection) /\ now \in Nat /\ k \in 1 .. Len(conns)
    BY DEF IInv, TypeOK, Conns
  <1>2. conns[k] \in Connection
    BY <1>1
  <1> DEFINE new == [conns[k] EXCEPT !.used = now]
  <1>3. /\ new \in Connection
        /\ new.mode = conns[k].mode /\ new.cred = conns[k].cred
        /\ new.arm = conns[k].arm /\ new.client = conns[k].client
        /\ new.closed = conns[k].closed /\ new.late = conns[k].late
    BY <1>1, <1>2 DEF Connection
  <1>4. conns' = [conns EXCEPT ![k] = new]
    OBVIOUS
  <1> HIDE DEF new
  <1> QED
    BY <1>1, <1>3, <1>4 DEF SameConnections

\* Facts every step of a request starts from.
LEMMA RequestFacts ==
    ASSUME IInv, NEW r \in Requests
    PROVE  /\ req \in [Requests -> Request] /\ req[r] \in Request
           /\ conns \in Seq(Connection) /\ Conns = 1 .. Len(conns)
           /\ req[r].pc # "close" => req[r].drop = {} /\ req[r].shut = {}
  BY DEF IInv, TypeOK, Conns, ClosingOnly

LEMMA BeginConnectStep ==
    ASSUME IInv, NEW r \in Requests, NEW sid \in Sessions, NEW mode \in AuthModes, NEW arm \in Int,
           BeginConnect(r, sid, mode, arm)
    PROVE  IInv'
  <1> DEFINE new == req'[r]
  <1>1. req' = [req EXCEPT ![r] = new]
    BY RequestFacts DEF BeginConnect, Become, Answer
  <1>2. Quiet(req[r], new)
    <2>1. Own \in Nat /\ Own # 0
      BY BoundsAssumption DEF Own
    <2>2. /\ new.kind = "connect" /\ new.sid = sid /\ new.mode = mode /\ new.arm = arm
          /\ new.cred = (IF mode \in {"anonymous", "vscode"} THEN 0 ELSE Own)
          /\ new.pc = (IF mode = "vscode" THEN "credential" ELSE "register")
          /\ new.conn = 0 /\ new.client = 0 /\ new.drop = {} /\ new.shut = {}
          /\ new.then = "idle"
      BY RequestFacts, IdleFields DEF BeginConnect, Become, Request
    <2>3. new \in Request
      <3>1. new = [Idle EXCEPT !.kind = "connect", !.sid = sid, !.mode = mode, !.arm = arm,
                               !.cred = new.cred, !.pc = new.pc]
        BY <2>2, RequestFacts, IdleFields DEF BeginConnect, Become, Request
      <3>2. new.cred \in Nat /\ new.pc \in PCs
        BY <2>1, <2>2 DEF PCs
      <3> HIDE DEF new
      <3> QED
        BY <3>1, <3>2, IdleFields DEF Request, RequestKinds, AuthModes
    <2> QED
      BY <2>1, <2>2, <2>3, RequestFacts DEF BeginConnect, At, Quiet
  <1>3. SameConnections
    BY UnchangedIsSame DEF BeginConnect
  <1> QED
    BY <1>1, <1>2, <1>3, QuietStep DEF BeginConnect

LEMMA ReadCredentialStep ==
    ASSUME IInv, NEW r \in Requests,
           ReadCredential(r)
    PROVE  IInv'
  <1> DEFINE new == req'[r]
  <1>1. req' = [req EXCEPT ![r] = new]
    BY RequestFacts DEF ReadCredential, Become, Answer
  <1>2. Quiet(req[r], new)
    <2>1. CASE store.cred = 0 \/ IsExpired(held[store.cred])
      BY <2>1, RequestFacts, IdleFields DEF ReadCredential, Become, Answer, At, Quiet, Request, PCs, RequestKinds, AuthModes
    <2>2. CASE ~(store.cred = 0 \/ IsExpired(held[store.cred]))
      <3>1. store.cred \in Nat /\ store.cred # 0
        BY <2>2 DEF IInv, TypeOK
      <3>2. new = [req[r] EXCEPT !.cred = store.cred, !.pc = "armRecord"]
        BY <2>2, RequestFacts DEF ReadCredential, Become
      <3> QED
        BY <3>1, <3>2, RequestFacts DEF ReadCredential, At, Quiet, Request, PCs
    <2> QED
      BY <2>1, <2>2 DEF ReadCredential
  <1>3. SameConnections
    BY UnchangedIsSame DEF ReadCredential
  <1> QED
    BY <1>1, <1>2, <1>3, QuietStep DEF ReadCredential

LEMMA ReadArmRecordStep ==
    ASSUME IInv, NEW r \in Requests,
           ReadArmRecord(r)
    PROVE  IInv'
  <1> DEFINE new == req'[r]
  <1>1. req' = [req EXCEPT ![r] = new]
    BY RequestFacts DEF ReadArmRecord, Become, Answer
  <1>2. Quiet(req[r], new)
    <2>1. store.arm \in Int /\ req[r].pc = "armRecord"
      BY DEF IInv, TypeOK, ReadArmRecord, At
    <2>2. new = [req[r] EXCEPT !.arm = store.arm, !.pc = "register"]
      BY RequestFacts DEF ReadArmRecord, Become
    <2>3. req[r].mode = "vscode" => req[r].cred # 0
      BY <2>1 DEF IInv, BrokeredHolds
    <2> QED
      BY <2>1, <2>2, <2>3, RequestFacts DEF Quiet, Request, PCs
  <1>3. SameConnections
    BY UnchangedIsSame DEF ReadArmRecord
  <1> QED
    BY <1>1, <1>2, <1>3, QuietStep DEF ReadArmRecord

LEMMA BeginGetStep ==
    ASSUME IInv, NEW r \in Requests, NEW kind \in {"status", "arm", "browse"}, NEW sid \in Sessions,
           BeginGet(r, kind, sid)
    PROVE  IInv'
  <1> DEFINE new == req'[r]
  <1>1. req' = [req EXCEPT ![r] = new]
    BY RequestFacts DEF BeginGet, Become, Answer
  <1>2. Quiet(req[r], new)
    BY RequestFacts, IdleFields DEF BeginGet, Become, Answer, At, Quiet, Request, PCs, RequestKinds, AuthModes
  <1>3. SameConnections
    BY UnchangedIsSame DEF BeginGet
  <1> QED
    BY <1>1, <1>2, <1>3, QuietStep DEF BeginGet

LEMMA ReadArmTokenStep ==
    ASSUME IInv, NEW r \in Requests,
           ReadArmToken(r)
    PROVE  IInv'
  <1> DEFINE new == req'[r]
  <1>1. req' = [req EXCEPT ![r] = new]
    BY RequestFacts DEF ReadArmToken, Become, Answer
  <1>2. Quiet(req[r], new)
    <2> DEFINE t == conns[req[r].conn].arm
    <2>1. req[r].pc = "arm" /\ req[r].conn \in Conns
      BY DEF IInv, RefersToMade, ReadArmToken, At
    <2>4. conns[req[r].conn] \in Connection
      BY <2>1, RequestFacts
    <2>2. t \in Int
      BY <2>4 DEF Connection
    <2>3. new = Idle \/ new = [req[r] EXCEPT !.arm = t, !.pc = "list"]
      BY RequestFacts DEF ReadArmToken, Become, Answer
    <2> QED
      BY <2>1, <2>2, <2>3, RequestFacts, IdleFields DEF Quiet, Request, PCs
  <1>3. SameConnections
    BY UnchangedIsSame DEF ReadArmToken
  <1> QED
    BY <1>1, <1>2, <1>3, QuietStep DEF ReadArmToken

LEMMA UseClientStep ==
    ASSUME IInv, NEW r \in Requests,
           UseClient(r)
    PROVE  IInv'
  <1> DEFINE new == req'[r]
  <1>1. req' = [req EXCEPT ![r] = new]
    BY RequestFacts DEF UseClient, Become, Answer
  <1>2. Quiet(req[r], new)
    BY RequestFacts, IdleFields DEF UseClient, Become, Answer, At, Quiet, Request, PCs, RequestKinds, AuthModes
  <1>3. SameConnections
    BY UnchangedIsSame DEF UseClient
  <1> QED
    BY <1>1, <1>2, <1>3, QuietStep DEF UseClient

LEMMA AllClosedStep ==
    ASSUME IInv, NEW r \in Requests,
           AllClosed(r)
    PROVE  IInv'
  <1> DEFINE new == req'[r]
  <1>1. req' = [req EXCEPT ![r] = new]
    BY RequestFacts DEF AllClosed, Become, Answer
  <1>2. Quiet(req[r], new)
    <2>1. req[r].pc = "close" /\ req[r].drop = {} /\ req[r].shut = {}
      BY DEF AllClosed, At
    <2>2. \/ new = Idle
          \/ /\ new = [req[r] EXCEPT !.pc = req[r].then, !.then = "idle"]
             /\ req[r].then \in {"purge", "get"}
      BY RequestFacts DEF AllClosed, Become, Answer, Request
    <2> QED
      BY <2>1, <2>2, RequestFacts, IdleFields DEF Quiet, Request, PCs
  <1>3. SameConnections
    BY UnchangedIsSame DEF AllClosed
  <1> QED
    BY <1>1, <1>2, <1>3, QuietStep DEF AllClosed

LEMMA GetStep ==
    ASSUME IInv, NEW r \in Requests, Get(r)
    PROVE  IInv'
  <1> DEFINE new == req'[r]
             k == entries[req[r].sid]
  <1>1. req' = [req EXCEPT ![r] = new]
    BY RequestFacts DEF Get, Become, Answer
  <1>2. req[r].pc = "get" /\ req[r].drop = {} /\ req[r].shut = {} /\ (k = 0 \/ k \in Conns)
    BY RequestFacts DEF Get, At, IInv, RefersToMade, Request
  <1>3. CASE k = 0
    <2>1. new = Idle /\ conns' = conns
      BY <1>3, RequestFacts DEF Get, Answer, Become
    <2>2. Quiet(req[r], new)
      BY <1>2, <2>1, IdleFields DEF Quiet
    <2> QED
      BY <1>1, <2>1, <2>2, UnchangedIsSame, QuietStep DEF Get
  <1>4. CASE k # 0
    <2>1. k \in Conns /\ conns' = [conns EXCEPT ![k].used = now]
      BY <1>2, <1>4 DEF Get
    <2>2. \/ new = Idle
          \/ new = [req[r] EXCEPT !.conn = k, !.pc = "arm"]
          \/ new = [req[r] EXCEPT !.conn = k, !.pc = "cached"]
      BY <1>4, RequestFacts DEF Get, Answer, Become
    <2>3. Quiet(req[r], new)
      <3>1. k \in Nat /\ k \in 1 .. Len(conns)
        BY <2>1, RequestFacts
      <3> QED
        BY <1>2, <2>2, <3>1, RequestFacts, IdleFields DEF Quiet, Request, PCs
    <2> QED
      BY <1>1, <2>1, <2>3, UsedIsSame, QuietStep DEF Get
  <1> QED
    BY <1>3, <1>4

LEMMA LookForClientStep ==
    ASSUME IInv, NEW r \in Requests, LookForClient(r)
    PROVE  IInv'
  <1> DEFINE new == req'[r]
             k == req[r].conn
  <1>1. req' = [req EXCEPT ![r] = new]
    BY RequestFacts DEF LookForClient, Become, Answer
  <1>2. req[r].pc = "cached" /\ req[r].drop = {} /\ req[r].shut = {} /\ k \in Conns
    BY RequestFacts DEF LookForClient, At, IInv, RefersToMade
  <1>3. conns' = conns \/ conns' = [conns EXCEPT ![k].used = now]
    BY DEF LookForClient
  <1>4. SameConnections
    BY <1>2, <1>3, UnchangedIsSame, UsedIsSame
  <1>5. \/ new = Idle
        \/ new = [req[r] EXCEPT !.client = conns[k].client, !.pc = "list"]
        \/ new = [req[r] EXCEPT !.pc = "build"]
    BY RequestFacts DEF LookForClient, Answer, Become
  <1>6. Quiet(req[r], new)
    <2>1. conns[k] \in Connection
      BY <1>2, RequestFacts
    <2>2. conns[k].client \in Nat
      BY <2>1 DEF Connection
    <2> QED
      BY <1>2, <1>5, <2>2, RequestFacts, IdleFields DEF Quiet, Request, PCs
  <1> QED
    BY <1>1, <1>4, <1>6, QuietStep DEF LookForClient

-----------------------------------------------------------------------------
(* Steps that take entries out of the registry, to close them.             *)

\* What r takes out of the registry it is about to close.
HandsOver(r, new) ==
    /\ new \in Request /\ new.pc = "close" /\ new.shut = {} /\ new.drop \subseteq Conns
    /\ req[r].drop = {} /\ req[r].shut = {} /\ req[r].pc # "publish"
    /\ entries' \in [Sessions -> Nat]
    /\ \A s \in Sessions :
         \/ entries'[s] = entries[s]
         \/ entries'[s] = 0 /\ (entries[s] = 0 \/ entries[s] \in new.drop)
    /\ req[r].pc = "clear" => \A s \in Sessions : entries'[s] = 0

LEMMA HandoverStep ==
    ASSUME IInv, NEW r \in Requests, NEW new, req' = [req EXCEPT ![r] = new],
           HandsOver(r, new), UNCHANGED << now, pushes, store, held, conns, clients >>
    PROVE  IInv'
  <1>1. Conns' = Conns /\ Clients' = Clients
    BY DEF Conns, Clients
  <1>2. /\ req \in [Requests -> Request] /\ req' \in [Requests -> Request]
        /\ req'[r] = new /\ \A q \in Requests : q # r => req'[q] = req[q]
    BY DEF IInv, TypeOK, HandsOver
  <1> USE <1>1, <1>2
  <1>3. TypeOK'
    BY DEF IInv, TypeOK, HandsOver
  <1>4. RefersToMade'
    BY DEF IInv, RefersToMade, HandsOver
  <1>5. ClosingOnly'
    BY DEF IInv, ClosingOnly, HandsOver
  <1>6. BrokeredHolds'
    BY DEF IInv, BrokeredHolds, HandsOver
  <1>7. NoAnonymousDowngrade' /\ ClosedForgets'
    BY DEF IInv, NoAnonymousDowngrade, ClosedForgets
  <1>8. UnreachableIsClosed'
    <2> SUFFICES ASSUME NEW k \in Conns, ~conns[k].closed
                 PROVE  \/ \E s \in Sessions : entries'[s] = k
                        \/ \E q \in Requests : k \in req'[q].drop
      BY DEF UnreachableIsClosed
    <2>1. CASE \E q \in Requests : k \in req[q].drop
      BY <2>1 DEF HandsOver
    <2>2. CASE \E s \in Sessions : entries[s] = k
      <3>1. PICK s \in Sessions : entries[s] = k
        BY <2>2
      <3>2. k # 0
        BY DEF Conns, IInv, TypeOK
      <3> QED
        BY <3>1, <3>2 DEF HandsOver
    <2> QED
      BY <2>1, <2>2 DEF IInv, UnreachableIsClosed
  <1>9. ClientsAreHeld'
    BY DEF IInv, ClientsAreHeld, HandsOver
  <1>10. ForgottenIsLate'
    BY DEF IInv, ForgottenIsLate, ForgottenCredential, HandsOver
  <1> QED
    BY <1>3, <1>4, <1>5, <1>6, <1>7, <1>8, <1>9, <1>10 DEF IInv

LEMMA RemoveStep ==
    ASSUME IInv, NEW r \in Requests, NEW sid \in Sessions, Remove(r, sid)
    PROVE  IInv'
  <1> DEFINE new == [Idle EXCEPT !.kind = "disconnect", !.sid = sid, !.pc = "close",
                                 !.drop = {entries[sid]} \ {0}]
  <1>1. req' = [req EXCEPT ![r] = new] /\ entries' = [entries EXCEPT ![sid] = 0]
    BY DEF Remove, Become
  <1>2. /\ entries \in [Sessions -> Nat]
        /\ entries[sid] = 0 \/ entries[sid] \in Conns
        /\ req[r].pc = "idle" /\ req[r].drop = {} /\ req[r].shut = {}
    BY RequestFacts DEF IInv, TypeOK, RefersToMade, Remove, At
  <1>3. /\ new \in Request /\ new.pc = "close" /\ new.shut = {}
        /\ new.drop = {entries[sid]} \ {0}
    <2>1. {entries[sid]} \ {0} \in SUBSET Nat
      BY <1>2
    <2> QED
      BY <2>1, IdleFields DEF Request, PCs, RequestKinds
  <1> HIDE DEF new
  <1>4. HandsOver(r, new)
    BY <1>1, <1>2, <1>3 DEF HandsOver
  <1> QED
    BY <1>1, <1>4, HandoverStep DEF Remove

LEMMA ClearRegistryStep ==
    ASSUME IInv, NEW r \in Requests, ClearRegistry(r)
    PROVE  IInv'
  <1> DEFINE all == {entries[s] : s \in Sessions} \ {0}
             new == [req[r] EXCEPT !.pc = "close", !.then = "idle", !.drop = all]
  <1>1. req' = [req EXCEPT ![r] = new] /\ entries' = [s \in Sessions |-> 0]
    BY DEF ClearRegistry, Become
  <1>5. /\ entries \in [Sessions -> Nat]
        /\ \A s \in Sessions : entries[s] = 0 \/ entries[s] \in Conns
    BY DEF IInv, TypeOK, RefersToMade
  <1>2. /\ entries \in [Sessions -> Nat] /\ all \subseteq Conns /\ all \subseteq Nat
        /\ req[r].pc = "clear" /\ req[r].drop = {} /\ req[r].shut = {}
    BY <1>5, RequestFacts DEF ClearRegistry, At
  <1>3. /\ new \in Request /\ new.pc = "close" /\ new.shut = {} /\ new.drop = all
    <2> HIDE DEF all
    <2> QED
      BY <1>2, RequestFacts DEF Request, PCs
  <1> HIDE DEF new
  <1>4. HandsOver(r, new)
    BY <1>1, <1>2, <1>3 DEF HandsOver
  <1> QED
    BY <1>1, <1>4, HandoverStep DEF ClearRegistry

LEMMA PurgeExpiredStep ==
    ASSUME IInv, NEW r \in Requests, PurgeExpired(r)
    PROVE  IInv'
  <1> DEFINE gone == {entries[s] : s \in Stale}
             next == IF req[r].kind = "connect" THEN "idle" ELSE "get"
             new == [req[r] EXCEPT !.drop = gone, !.pc = "close", !.then = next]
  <1>1. /\ req' = [req EXCEPT ![r] = new]
        /\ entries' = [s \in Sessions |-> IF s \in Stale THEN 0 ELSE entries[s]]
    BY DEF PurgeExpired, Become
  <1>5. /\ entries \in [Sessions -> Nat] /\ Stale \subseteq Sessions
        /\ \A s \in Sessions : entries[s] = 0 \/ entries[s] \in Conns
        /\ \A s \in Stale : entries[s] # 0
    BY DEF IInv, TypeOK, RefersToMade, Stale
  <1>2. /\ entries \in [Sessions -> Nat] /\ gone \subseteq Conns /\ gone \subseteq Nat
        /\ Stale \subseteq Sessions
        /\ req[r].pc = "purge" /\ req[r].drop = {} /\ req[r].shut = {}
    BY <1>5, RequestFacts DEF PurgeExpired, At
  <1>3. /\ new \in Request /\ new.pc = "close" /\ new.shut = {} /\ new.drop = gone
    <2>1. next \in {"idle", "purge", "get"}
      OBVIOUS
    <2> HIDE DEF gone, next
    <2> QED
      BY <1>2, <2>1, RequestFacts DEF Request, PCs
  <1> HIDE DEF new
  <1>4. HandsOver(r, new)
    BY <1>1, <1>2, <1>3 DEF HandsOver
  <1> QED
    BY <1>1, <1>4, HandoverStep DEF PurgeExpired

-----------------------------------------------------------------------------
(* Tokens and time.                                                        *)

LEMMA SetTokensStep ==
    ASSUME IInv, NEW life \in Lifetimes, NEW withArm \in BOOLEAN, SetTokens(life, withArm)
    PROVE  IInv'
  <1> DEFINE t == IF life = 0 THEN UnknownExpiry ELSE now + life
             c == IF store.cred = 0 THEN Len(held) + 1 ELSE store.cred
  <1>1. /\ held \in Seq(Int) /\ now \in Nat /\ pushes \in Nat /\ life \in Nat
        /\ store.cred \in 0 .. Len(held)
    BY BoundsAssumption DEF IInv, TypeOK
  <1>2. t \in Int /\ c \in 1 .. Len(held) + 1 /\ (store.cred # 0 => c = store.cred)
    BY <1>1 DEF UnknownExpiry
  <1>3. /\ pushes' = pushes + 1 /\ now' = now
        /\ store' = [storage |-> t, arm |-> IF withArm THEN t ELSE NoToken, cred |-> c]
        /\ held' = [k \in DOMAIN held \cup {c} |-> IF k = c THEN t ELSE held[k]]
        /\ conns' = conns /\ clients' = clients /\ entries' = entries /\ req' = req
    BY DEF SetTokens
  <1> HIDE DEF t, c
  <1>4. held' \in Seq(Int) /\ c <= Len(held')
    <2> DEFINE n == IF c = Len(held) + 1 THEN c ELSE Len(held)
    <2>1. n \in Nat /\ DOMAIN held \cup {c} = 1 .. n /\ c <= n
      BY <1>1, <1>2
    <2>2. \A k \in 1 .. n : (IF k = c THEN t ELSE held[k]) \in Int
      BY <1>1, <1>2, <2>1
    <2> HIDE DEF n
    <2>3. held' \in [1 .. n -> Int]
      BY <1>3, <2>1, <2>2
    <2>4. held' \in Seq(Int)
      BY <2>1, <2>3, SeqDef
    <2>5. Len(held') = n
      BY <2>1, <2>3, <2>4, LenProperties
    <2> QED
      BY <2>1, <2>4, <2>5
  <1>5. /\ store' \in [storage : Int, arm : Int, cred : 0 .. Len(held')]
        /\ store'.cred # 0 /\ (store.cred # 0 => store'.cred = store.cred)
    <2>1. c \in 0 .. Len(held') /\ (IF withArm THEN t ELSE NoToken) \in Int
      BY <1>2, <1>4 DEF NoToken
    <2> QED
      BY <1>2, <1>3, <2>1
  <1>6. TypeOK'
    BY <1>1, <1>3, <1>4, <1>5 DEF IInv, TypeOK
  <1>7. /\ RefersToMade' /\ ClosingOnly' /\ BrokeredHolds' /\ NoAnonymousDowngrade'
        /\ ClosedForgets' /\ UnreachableIsClosed' /\ ClientsAreHeld'
    BY <1>3 DEF IInv, RefersToMade, ClosingOnly, BrokeredHolds, NoAnonymousDowngrade,
       ClosedForgets, UnreachableIsClosed, ClientsAreHeld, Conns, Clients
  <1>8. ForgottenIsLate'
    <2>1. ASSUME NEW s \in Sessions, ForgottenCredential(s)'
          PROVE  ForgottenCredential(s)
      <3>1. /\ entries[s] \in Conns /\ conns[entries[s]].mode = "vscode"
            /\ ~conns[entries[s]].closed /\ conns[entries[s]].cred # store'.cred
        BY <1>3, <2>1 DEF ForgottenCredential, IInv, RefersToMade
      <3>2. conns[entries[s]].cred # 0
        BY <3>1 DEF IInv, BrokeredHolds
      <3> QED
        BY <1>3, <1>5, <2>1, <3>1, <3>2 DEF ForgottenCredential
    <2> QED
      BY <1>3, <2>1 DEF IInv, ForgottenIsLate
  <1> QED
    BY <1>6, <1>7, <1>8 DEF IInv

LEMMA ClearTokensStep ==
    ASSUME IInv, NEW r \in Requests, ClearTokens(r)
    PROVE  IInv'
  <1> DEFINE new == [Idle EXCEPT !.kind = "signout", !.pc = "clear"]
  <1>1. /\ req' = [req EXCEPT ![r] = new] /\ store' = EmptyStore
        /\ now' = now /\ pushes' = pushes /\ held' = held
        /\ conns' = conns /\ clients' = clients /\ entries' = entries
        /\ Conns' = Conns /\ Clients' = Clients
    BY DEF ClearTokens, Become, Conns, Clients
  <1>2. /\ new \in Request /\ new.pc = "clear" /\ new.kind = "signout"
        /\ new.drop = {} /\ new.shut = {}
    BY IdleFields DEF Request, PCs, RequestKinds
  <1> HIDE DEF new
  <1>3. /\ req' \in [Requests -> Request] /\ req'[r] = new
        /\ \A q \in Requests : q # r => req'[q] = req[q]
        /\ req[r].pc = "idle" /\ req[r].drop = {} /\ req[r].shut = {}
    BY <1>1, <1>2, RequestFacts DEF ClearTokens, At
  <1> USE <1>1, <1>2, <1>3
  <1>4. TypeOK'
    BY DEF IInv, TypeOK, EmptyStore, NoToken
  <1>5. RefersToMade' /\ ClosingOnly' /\ BrokeredHolds'
    BY DEF IInv, RefersToMade, ClosingOnly, BrokeredHolds
  <1>6. NoAnonymousDowngrade' /\ ClosedForgets' /\ ClientsAreHeld'
    BY DEF IInv, NoAnonymousDowngrade, ClosedForgets, ClientsAreHeld
  <1>7. UnreachableIsClosed'
    BY DEF IInv, UnreachableIsClosed
  <1>8. ForgottenIsLate'
    BY DEF ForgottenIsLate
  <1> QED
    BY <1>4, <1>5, <1>6, <1>7, <1>8 DEF IInv

LEMMA TickStep == ASSUME IInv, Tick PROVE IInv'
  <1>1. /\ now' = now + 1 /\ pushes' = pushes /\ store' = store /\ held' = held
        /\ conns' = conns /\ clients' = clients /\ entries' = entries /\ req' = req
    BY DEF Tick
  <1>2. TypeOK'
    BY <1>1 DEF IInv, TypeOK
  <1> QED
    BY <1>1, <1>2 DEF IInv, RefersToMade, ClosingOnly, BrokeredHolds, NoAnonymousDowngrade,
       ClosedForgets, UnreachableIsClosed, ClientsAreHeld, ForgottenIsLate,
       ForgottenCredential, Conns, Clients

-----------------------------------------------------------------------------
(* A connection is made, a client is built, published and closed.          *)

LEMMA RegisterStep ==
    ASSUME IInv, NEW r \in Requests, Register(r)
    PROVE  IInv'
  <1> DEFINE sid == req[r].sid
             k == Len(conns) + 1
             made == Made(r)
             new == [req[r] EXCEPT !.conn = k, !.drop = {entries[sid]} \ {0},
                                   !.pc = "close", !.then = "purge"]
  <1>1. /\ conns' = Append(conns, made) /\ entries' = [entries EXCEPT ![sid] = k]
        /\ req' = [req EXCEPT ![r] = new]
        /\ now' = now /\ pushes' = pushes /\ store' = store /\ held' = held
        /\ clients' = clients /\ Clients' = Clients
    BY DEF Register, Become, Clients
  <1>2. /\ req[r] \in Request /\ sid \in Sessions /\ req[r].pc = "register"
        /\ req[r].drop = {} /\ req[r].shut = {} /\ now \in Nat
        /\ conns \in Seq(Connection) /\ k \in Nat /\ k # 0
        /\ Conns = 1 .. Len(conns) /\ k \notin Conns
        /\ entries \in [Sessions -> Nat]
        /\ (entries[sid] = 0 \/ entries[sid] \in Conns)
    <2>1. req[r] \in Request /\ req[r].pc = "register"
      BY RequestFacts DEF Register, At
    <2>2. req[r].sid \in Sessions
      BY <2>1 DEF Request
    <2>3. req[r].drop = {} /\ req[r].shut = {}
      BY <2>1, RequestFacts
    <2>4. conns \in Seq(Connection) /\ now \in Nat /\ entries \in [Sessions -> Nat]
      BY DEF IInv, TypeOK
    <2>5. Len(conns) \in Nat /\ Conns = 1 .. Len(conns)
      BY <2>4 DEF Conns
    <2>6. k \in Nat /\ k # 0 /\ k \notin Conns
      BY <2>5
    <2>7. entries[sid] = 0 \/ entries[sid] \in Conns
      BY <2>2 DEF IInv, RefersToMade
    <2> QED
      BY <2>1, <2>2, <2>3, <2>4, <2>5, <2>6, <2>7
  <1>3. /\ made \in Connection /\ made.mode = req[r].mode /\ made.cred = req[r].cred
        /\ made.closed = FALSE /\ made.client = 0
        /\ made.late = (req[r].mode = "vscode" /\ store.cred # req[r].cred)
    BY <1>2 DEF Made, Connection, Request
  <1>4. /\ new \in Request /\ new.pc = "close" /\ new.shut = {}
        /\ new.drop = {entries[sid]} \ {0}
    <2>1. {entries[sid]} \ {0} \in SUBSET Nat
      BY <1>2
    <2> QED
      BY <1>2, <2>1 DEF Request, PCs
  <1> HIDE DEF made, new, k
  <1>5. /\ conns' \in Seq(Connection) /\ Len(conns') = k /\ Conns' = Conns \cup {k}
        /\ \A j \in Conns : conns'[j] = conns[j]
        /\ conns'[k] = made
    BY <1>1, <1>2, <1>3, AppendProperties DEF Conns, k
  <1>6. /\ req \in [Requests -> Request] /\ req' \in [Requests -> Request]
        /\ req'[r] = new /\ \A q \in Requests : q # r => req'[q] = req[q]
        /\ entries' \in [Sessions -> Nat] /\ entries'[sid] = k
        /\ \A s \in Sessions : s # sid => entries'[s] = entries[s]
    BY <1>1, <1>2, <1>4, RequestFacts
  <1> HIDE DEF sid
  <1> USE <1>1, <1>2, <1>3, <1>4, <1>5, <1>6
  <1>7. TypeOK'
    BY DEF IInv, TypeOK
  <1>8. RefersToMade'
    BY DEF IInv, RefersToMade
  <1>9. ClosingOnly'
    BY DEF IInv, ClosingOnly
  <1>10. BrokeredHolds'
    BY DEF IInv, BrokeredHolds
  <1>11. NoAnonymousDowngrade'
    BY DEF IInv, NoAnonymousDowngrade, RefersToMade
  <1>12. ClosedForgets'
    BY DEF IInv, ClosedForgets
  <1>13. UnreachableIsClosed'
    <2> SUFFICES ASSUME NEW j \in Conns, ~conns[j].closed
                 PROVE  \/ \E s \in Sessions : entries'[s] = j
                        \/ \E q \in Requests : j \in req'[q].drop
      BY DEF UnreachableIsClosed
    <2>1. CASE \E q \in Requests : j \in req[q].drop
      BY <2>1
    <2>2. CASE \E s \in Sessions : entries[s] = j
      <3>1. j # 0
        OBVIOUS
      <3> QED
        BY <2>2, <3>1
    <2> QED
      BY <2>1, <2>2 DEF IInv, UnreachableIsClosed
  <1>14. ClientsAreHeld'
    BY DEF IInv, ClientsAreHeld, RefersToMade
  <1>15. ForgottenIsLate'
    <2> SUFFICES ASSUME NEW s \in Sessions, ForgottenCredential(s)'
                 PROVE  \/ conns'[entries'[s]].late
                        \/ \E q \in Requests : req'[q].pc = "clear"
      BY DEF ForgottenIsLate
    <2>1. CASE s = sid
      BY <2>1 DEF ForgottenCredential
    <2>2. CASE s # sid
      <3>1. entries'[s] = entries[s] /\ entries[s] \in Conns
        BY <2>2 DEF ForgottenCredential, IInv, RefersToMade
      <3>2. ForgottenCredential(s)
        BY <3>1 DEF ForgottenCredential
      <3> QED
        BY <3>1, <3>2 DEF IInv, ForgottenIsLate
    <2> QED
      BY <2>1, <2>2
  <1> QED
    BY <1>7, <1>8, <1>9, <1>10, <1>11, <1>12, <1>13, <1>14, <1>15 DEF IInv

LEMMA BuildClientStep ==
    ASSUME IInv, NEW r \in Requests, BuildClient(r)
    PROVE  IInv'
  <1> DEFINE k == req[r].conn
             c == conns[k].cred
             n == Len(clients) + 1
  <1>1. /\ req[r].pc = "build" /\ req[r].drop = {} /\ req[r].shut = {} /\ k \in Conns
        /\ req[r] \in Request /\ conns[k] \in Connection /\ clients \in Seq(Client)
        /\ Clients = 1 .. Len(clients) /\ k \in Nat /\ n \in Nat
    BY RequestFacts DEF BuildClient, At, IInv, TypeOK, RefersToMade, Clients
  <1>2. CASE conns[k].mode # "anonymous" /\ c = 0
    <2>1. req' = [req EXCEPT ![r] = Idle] /\ clients' = clients
      BY <1>2 DEF BuildClient, Answer, Become
    <2>2. Quiet(req[r], Idle)
      BY <1>1, IdleFields DEF Quiet
    <2> QED
      BY <2>1, <2>2, UnchangedIsSame, QuietStep DEF BuildClient
  <1>3. CASE ~(conns[k].mode # "anonymous" /\ c = 0)
    <2> DEFINE built == [conn |-> k, cred |-> c, open |-> TRUE, replaced |-> FALSE]
               new == [req[r] EXCEPT !.client = n, !.pc = "publish"]
    <2>1. /\ clients' = Append(clients, built) /\ req' = [req EXCEPT ![r] = new]
          /\ now' = now /\ pushes' = pushes /\ store' = store /\ held' = held
          /\ conns' = conns /\ Conns' = Conns /\ entries' = entries
      BY <1>3 DEF BuildClient, Become, Conns
    <2>2. /\ built \in Client /\ built.conn = k /\ built.cred = c
          /\ new \in Request /\ new.pc = "publish" /\ new.client = n /\ new.conn = k
          /\ new.drop = {} /\ new.shut = {}
      <3>1. c \in Nat
        BY <1>1 DEF Connection
      <3> HIDE DEF n, c
      <3> QED
        BY <1>1, <3>1 DEF Request, PCs, Client
    <2>3. c = 0 => conns[k].mode = "anonymous"
      BY <1>3
    <2> HIDE DEF built, new, n, k, c
    <2>4. /\ clients' \in Seq(Client) /\ Clients' = Clients \cup {n}
          /\ \A j \in Clients : clients'[j] = clients[j]
          /\ clients'[n] = built /\ n \notin Clients
      BY <1>1, <2>1, <2>2, AppendProperties DEF Clients, n
    <2>5. /\ req \in [Requests -> Request] /\ req' \in [Requests -> Request]
          /\ req'[r] = new /\ \A q \in Requests : q # r => req'[q] = req[q]
      BY <2>1, <2>2, RequestFacts
    <2> USE <1>1, <2>1, <2>2, <2>4, <2>5
    <2>6. TypeOK'
      BY DEF IInv, TypeOK
    <2>7. RefersToMade'
      <3>1. \A j \in Clients' : clients'[j].conn \in Conns
        <4>1. \A j \in Clients : clients[j].conn \in Conns
          BY DEF IInv, RefersToMade
        <4>2. clients'[n].conn \in Conns
          OBVIOUS
        <4> QED
          BY <4>1, <4>2
      <3>2. /\ new.conn \in Conns /\ new.client \in Clients'
            /\ clients'[new.client].conn = new.conn /\ new.drop \subseteq Conns
        OBVIOUS
      <3>3. ASSUME NEW q \in Requests, q # r
            PROVE  /\ req'[q] = req[q] /\ req'[q].drop \subseteq Conns
                   /\ req[q].pc = "publish" => /\ req[q].client \in Clients
                                               /\ clients'[req[q].client].conn = req[q].conn
        BY <3>3 DEF IInv, RefersToMade
      <3> QED
        BY <3>1, <3>2, <3>3 DEF IInv, RefersToMade
    <2>8. ClosingOnly' /\ BrokeredHolds' /\ ClosedForgets'
      BY DEF IInv, ClosingOnly, BrokeredHolds, ClosedForgets
    <2>9. NoAnonymousDowngrade'
      <3>1. \A j \in Clients : clients[j].cred = 0 => conns[clients[j].conn].mode = "anonymous"
        BY DEF IInv, NoAnonymousDowngrade
      <3>2. clients'[n].cred = 0 => conns[clients'[n].conn].mode = "anonymous"
        BY <2>3
      <3> QED
        BY <3>1, <3>2 DEF NoAnonymousDowngrade
    <2>10. UnreachableIsClosed'
      BY DEF IInv, UnreachableIsClosed
    <2>11. ClientsAreHeld'
      BY DEF IInv, ClientsAreHeld, RefersToMade
    <2>12. ForgottenIsLate'
      BY DEF IInv, ForgottenIsLate, ForgottenCredential
    <2> QED
      BY <2>6, <2>7, <2>8, <2>9, <2>10, <2>11, <2>12 DEF IInv
  <1> QED
    BY <1>2, <1>3

LEMMA PublishClientStep ==
    ASSUME IInv, NEW r \in Requests, PublishClient(r)
    PROVE  IInv'
  <1> DEFINE k == req[r].conn
             mine == req[r].client
             other == conns[k].client
             new == req'[r]
  <1>1. /\ req[r].pc = "publish" /\ req[r].drop = {} /\ req[r].shut = {}
        /\ k \in Conns /\ mine \in Clients /\ clients[mine].conn = k
        /\ req[r] \in Request /\ conns[k] \in Connection
        /\ conns \in Seq(Connection) /\ clients \in Seq(Client)
        /\ Conns = 1 .. Len(conns) /\ Clients = 1 .. Len(clients) /\ now \in Nat
        /\ mine \in Nat
    <2>1. req[r].pc = "publish" /\ req[r] \in Request
      BY RequestFacts DEF PublishClient, At
    <2>2. k \in Conns /\ mine \in Clients /\ clients[mine].conn = k
      BY <2>1 DEF IInv, RefersToMade
    <2> QED
      BY <2>1, <2>2, RequestFacts DEF IInv, TypeOK, Clients
  <1>2. /\ req' = [req EXCEPT ![r] = new]
        /\ now' = now /\ pushes' = pushes /\ store' = store /\ held' = held
        /\ entries' = entries
    BY RequestFacts DEF PublishClient, Answer, Become
  <1>3. /\ new \in Request /\ new.pc \in {"idle", "list"} /\ new.drop = {} /\ new.shut = {}
    <2>1. new = Idle \/ new = [req[r] EXCEPT !.pc = "list"]
      BY RequestFacts DEF PublishClient, Answer, Become
    <2> QED
      BY <1>1, <2>1, IdleFields DEF Request, PCs
  <1>4. /\ req \in [Requests -> Request] /\ req' \in [Requests -> Request]
        /\ \A q \in Requests : q # r => req'[q] = req[q]
    BY <1>2, <1>3, RequestFacts
  \* What happens to the clients and to the connections, one at a time.
  <1>5. /\ clients' \in Seq(Client) /\ Clients' = Clients
        /\ \A c \in Clients : /\ clients'[c].conn = clients[c].conn
                              /\ clients'[c].cred = clients[c].cred
                              /\ clients'[c].open => clients[c].open
                              /\ clients[c].replaced => clients'[c].replaced
        /\ conns[k].closed => clients'[mine].open = FALSE
        /\ ~conns[k].closed => \A c \in Clients : c = other => clients'[c].replaced
    <2>1. CASE conns[k].closed
      <3>1. clients' = [clients EXCEPT ![mine].open = FALSE]
        BY <2>1 DEF PublishClient
      <3> DEFINE shut == [clients[mine] EXCEPT !.open = FALSE]
      <3>2. clients[mine] \in Client
        BY <1>1
      <3>3. /\ shut \in Client /\ shut.conn = clients[mine].conn
            /\ shut.cred = clients[mine].cred /\ shut.open = FALSE
            /\ shut.replaced = clients[mine].replaced
        BY <3>2 DEF Client
      <3>4. clients' = [clients EXCEPT ![mine] = shut]
        BY <3>1
      <3> HIDE DEF shut, mine
      <3> QED
        BY <1>1, <2>1, <3>3, <3>4 DEF Clients
    <2>2. CASE ~conns[k].closed
      <3> DEFINE After(c) == [clients[c] EXCEPT !.replaced = @ \/ c = other]
      <3>1. clients' = [c \in Clients |-> After(c)]
        BY <2>2 DEF PublishClient
      <3>2. ASSUME NEW c \in Clients
            PROVE  /\ After(c) \in Client /\ After(c).conn = clients[c].conn
                   /\ After(c).cred = clients[c].cred /\ After(c).open = clients[c].open
                   /\ After(c).replaced = (clients[c].replaced \/ c = other)
        <4>1. clients[c] \in Client
          BY <1>1
        <4> QED
          BY <4>1 DEF Client
      <3> HIDE DEF After
      <3>3. clients' \in [1 .. Len(clients) -> Client]
        BY <1>1, <3>1, <3>2
      <3>4. clients' \in Seq(Client) /\ Len(clients') = Len(clients)
        <4>1. Len(clients) \in Nat
          BY <1>1
        <4>2. clients' \in Seq(Client)
          BY <3>3, <4>1, SeqDef
        <4> QED
          BY <3>3, <4>1, <4>2, LenProperties
      <3>5. Clients' = Clients
        BY <1>1, <3>4 DEF Clients
      <3> QED
        BY <2>2, <3>1, <3>2, <3>4, <3>5
    <2> QED
      BY <2>1, <2>2
  <1>6. /\ conns' \in Seq(Connection) /\ Conns' = Conns
        /\ \A j \in Conns : /\ conns'[j].mode = conns[j].mode
                            /\ conns'[j].cred = conns[j].cred
                            /\ conns'[j].arm = conns[j].arm
                            /\ conns'[j].closed = conns[j].closed
                            /\ conns'[j].late = conns[j].late
                            /\ j # k \/ conns[k].closed => conns'[j].client = conns[j].client
        /\ ~conns[k].closed => conns'[k].client = mine
    <2>1. CASE conns[k].closed
      <3>1. conns' = conns
        BY <2>1 DEF PublishClient
      <3> QED
        BY <1>1, <2>1, <3>1 DEF Conns
    <2>2. CASE ~conns[k].closed
      <3>1. conns' = [conns EXCEPT ![k].client = mine, ![k].used = now]
        BY <2>2 DEF PublishClient
      <3> DEFINE after == [[conns[k] EXCEPT !.client = mine] EXCEPT !.used = now]
      <3>2. conns' = [conns EXCEPT ![k] = after]
        BY <1>1, <3>1
      <3>3. /\ after \in Connection /\ after.mode = conns[k].mode
            /\ after.cred = conns[k].cred /\ after.arm = conns[k].arm
            /\ after.closed = conns[k].closed /\ after.late = conns[k].late
            /\ after.client = mine
        BY <1>1 DEF Connection
      <3> HIDE DEF after, k
      <3> QED
        BY <1>1, <2>2, <3>2, <3>3 DEF Conns
    <2> QED
      BY <2>1, <2>2
  <1> HIDE DEF k, mine, other, new
  <1> USE <1>1, <1>2, <1>3, <1>4
  <1>7. TypeOK'
    BY <1>5, <1>6 DEF IInv, TypeOK
  <1>8. RefersToMade'
    <2>1. /\ \A s \in Sessions : entries[s] = 0 \/ entries[s] \in Conns
          /\ \A c \in Clients : clients[c].conn \in Conns
      BY DEF IInv, RefersToMade
    <2>2. ASSUME NEW q \in Requests, q # r
          PROVE  /\ req'[q] = req[q] /\ req[q].drop \subseteq Conns
                 /\ req[q].pc \in {"arm", "cached", "build", "publish"} => req[q].conn \in Conns
                 /\ req[q].pc = "publish" => /\ req[q].client \in Clients
                                             /\ clients[req[q].client].conn = req[q].conn
      BY <2>2 DEF IInv, RefersToMade
    <2>3. /\ \A s \in Sessions : entries'[s] = 0 \/ entries'[s] \in Conns'
          /\ \A c \in Clients' : clients'[c].conn \in Conns'
      BY <1>5, <1>6, <2>1
    <2>4. ASSUME NEW q \in Requests
          PROVE  /\ req'[q].drop \subseteq Conns'
                 /\ req'[q].pc \in {"arm", "cached", "build", "publish"} => req'[q].conn \in Conns'
                 /\ req'[q].pc = "publish" =>
                       /\ req'[q].client \in Clients'
                       /\ clients'[req'[q].client].conn = req'[q].conn
      <3>1. CASE q = r
        BY <3>1, <1>6
      <3>2. CASE q # r
        BY <1>5, <1>6, <2>2, <3>2
      <3> QED
        BY <3>1, <3>2
    <2> QED
      BY <2>3, <2>4 DEF RefersToMade
  <1>9. ClosingOnly'
    BY DEF IInv, ClosingOnly
  <1>10. BrokeredHolds'
    BY <1>6 DEF IInv, BrokeredHolds
  <1>11. NoAnonymousDowngrade'
    <2>1. \A c \in Clients :
            /\ clients[c].conn \in Conns
            /\ clients[c].cred = 0 => conns[clients[c].conn].mode = "anonymous"
      BY DEF IInv, NoAnonymousDowngrade, RefersToMade
    <2> SUFFICES ASSUME NEW c \in Clients, clients'[c].cred = 0
                 PROVE  conns'[clients'[c].conn].mode = "anonymous"
      BY <1>5 DEF NoAnonymousDowngrade
    <2>2. clients'[c].conn = clients[c].conn /\ clients[c].cred = 0
      BY <1>5
    <2> QED
      BY <1>6, <2>1, <2>2
  <1>12. ClosedForgets'
    BY <1>6 DEF IInv, ClosedForgets
  <1>13. UnreachableIsClosed'
    BY <1>6 DEF IInv, UnreachableIsClosed
  <1>14. ClientsAreHeld'
    <2> SUFFICES ASSUME NEW c \in Clients, clients'[c].open, ~clients'[c].replaced
                 PROVE  \/ conns'[clients'[c].conn].client = c
                        \/ \E q \in Requests : \/ req'[q].pc = "publish" /\ req'[q].client = c
                                               \/ c \in req'[q].shut
      BY <1>5 DEF ClientsAreHeld
    <2>1. clients[c].open /\ ~clients[c].replaced /\ clients[c].conn \in Conns
      BY <1>5 DEF IInv, RefersToMade
    <2>2. CASE c = mine
      BY <1>5, <1>6, <2>2
    <2>3. CASE c # mine
      <3>1. CASE conns[clients[c].conn].client = c
        <4>1. ~conns[k].closed => clients[c].conn # k
          BY <1>5, <2>1, <3>1 DEF other
        <4> QED
          BY <1>5, <1>6, <2>1, <3>1, <4>1
      <3>2. CASE \E q \in Requests : \/ req[q].pc = "publish" /\ req[q].client = c
                                     \/ c \in req[q].shut
        BY <2>3, <3>2 DEF mine
      <3> QED
        BY <2>1, <3>1, <3>2 DEF IInv, ClientsAreHeld
    <2> QED
      BY <2>2, <2>3
  <1>15. ForgottenIsLate'
    BY <1>6 DEF IInv, ForgottenIsLate, ForgottenCredential, RefersToMade
  <1> QED
    BY <1>7, <1>8, <1>9, <1>10, <1>11, <1>12, <1>13, <1>14, <1>15 DEF IInv

LEMMA CloseConnectionStep ==
    ASSUME IInv, NEW r \in Requests, NEW k \in Conns, CloseConnection(r, k)
    PROVE  IInv'
  <1> DEFINE shut == {conns[k].client} \ {0}
             drop == req[r].drop \ {k}
             new == [req[r] EXCEPT !.drop = drop, !.shut = shut]
             after == [conns[k] EXCEPT !.closed = TRUE, !.client = 0, !.cred = 0,
                                       !.arm = NoToken]
  <1>1. /\ req[r].pc = "close" /\ req[r].shut = {} /\ k \in req[r].drop
        /\ conns' = [conns EXCEPT ![k] = after]
        /\ now' = now /\ pushes' = pushes /\ store' = store /\ held' = held
        /\ clients' = clients /\ Clients' = Clients /\ entries' = entries
    BY DEF CloseConnection, At, Clients
  <1>2. req' = [req EXCEPT ![r] = new]
    BY RequestFacts DEF CloseConnection, Become
  <1>3. /\ conns \in Seq(Connection) /\ conns[k] \in Connection /\ Conns = 1 .. Len(conns)
        /\ req[r] \in Request /\ req[r].drop \subseteq Conns
    BY RequestFacts DEF IInv, RefersToMade
  <1>4. /\ after \in Connection /\ after.mode = conns[k].mode /\ after.closed = TRUE
        /\ after.client = 0 /\ after.cred = 0 /\ after.arm = NoToken
    <2> DEFINE flagged == [conns[k] EXCEPT !.closed = TRUE, !.client = 0]
    <2>1. /\ flagged \in Connection /\ flagged.mode = conns[k].mode
          /\ flagged.closed = TRUE /\ flagged.client = 0
      BY <1>3 DEF Connection
    <2>2. after = [flagged EXCEPT !.cred = 0, !.arm = NoToken]
      OBVIOUS
    <2>3. NoToken \in Int
      BY DEF NoToken
    <2> HIDE DEF flagged
    <2>4. /\ after \in Connection /\ after.mode = flagged.mode
          /\ after.closed = flagged.closed /\ after.client = flagged.client
          /\ after.cred = 0 /\ after.arm = NoToken
      <3> DEFINE cleared == [flagged EXCEPT !.cred = 0]
      <3>1. /\ cleared \in Connection /\ cleared.mode = flagged.mode /\ cleared.cred = 0
            /\ cleared.closed = flagged.closed /\ cleared.client = flagged.client
        BY <2>1 DEF Connection
      <3>2. after = [cleared EXCEPT !.arm = NoToken]
        BY <2>2
      <3> HIDE DEF cleared, after
      <3> QED
        BY <2>3, <3>1, <3>2 DEF Connection
    <2> HIDE DEF after
    <2> QED
      BY <2>1, <2>4
  <1>5. /\ new \in Request /\ new.pc = "close" /\ new.kind = req[r].kind
        /\ new.drop = drop /\ new.shut = shut
    <2>1. drop \in SUBSET Nat /\ shut \in SUBSET Nat
      BY <1>3 DEF Connection, Request
    <2> HIDE DEF drop, shut
    <2> QED
      BY <1>1, <1>3, <2>1 DEF Request
  <1> HIDE DEF after, new
  <1>6. /\ conns' \in Seq(Connection) /\ Conns' = Conns /\ conns'[k] = after
        /\ \A j \in Conns : j # k => conns'[j] = conns[j]
    BY <1>1, <1>3, <1>4 DEF Conns
  <1>7. /\ req \in [Requests -> Request] /\ req' \in [Requests -> Request]
        /\ req'[r] = new /\ \A q \in Requests : q # r => req'[q] = req[q]
    BY <1>2, <1>5, RequestFacts
  <1> HIDE DEF drop, shut
  <1>8. drop \subseteq req[r].drop /\ \A j \in req[r].drop : j # k => j \in drop
    BY DEF drop
  <1> USE <1>1, <1>3, <1>4, <1>5, <1>6, <1>7
  <1>9. TypeOK'
    BY DEF IInv, TypeOK
  <1>10. RefersToMade'
    BY <1>8 DEF IInv, RefersToMade
  <1>11. ClosingOnly'
    BY DEF IInv, ClosingOnly
  <1>12. BrokeredHolds'
    BY DEF IInv, BrokeredHolds
  <1>13. NoAnonymousDowngrade'
    BY DEF IInv, NoAnonymousDowngrade, RefersToMade
  <1>14. ClosedForgets'
    BY DEF IInv, ClosedForgets
  <1>15. UnreachableIsClosed'
    <2> SUFFICES ASSUME NEW j \in Conns, j # k, ~conns[j].closed
                 PROVE  \/ \E s \in Sessions : entries[s] = j
                        \/ \E q \in Requests : j \in req'[q].drop
      BY DEF UnreachableIsClosed
    <2> QED
      BY <1>8 DEF IInv, UnreachableIsClosed
  <1>16. ClientsAreHeld'
    <2> SUFFICES ASSUME NEW c \in Clients, clients[c].open, ~clients[c].replaced
                 PROVE  \/ conns'[clients[c].conn].client = c
                        \/ \E q \in Requests : \/ req'[q].pc = "publish" /\ req'[q].client = c
                                               \/ c \in req'[q].shut
      BY DEF ClientsAreHeld
    <2>1. clients[c].conn \in Conns /\ c # 0
      BY DEF IInv, TypeOK, RefersToMade, Clients
    <2>2. CASE conns[clients[c].conn].client = c
      <3>1. clients[c].conn = k => c \in shut
        BY <2>1, <2>2 DEF shut
      <3> QED
        BY <2>1, <2>2, <3>1
    <2>3. CASE \E q \in Requests : \/ req[q].pc = "publish" /\ req[q].client = c
                                   \/ c \in req[q].shut
      BY <2>3
    <2> QED
      BY <2>2, <2>3 DEF IInv, ClientsAreHeld
  <1>17. ForgottenIsLate'
    <2> SUFFICES ASSUME NEW s \in Sessions, ForgottenCredential(s)'
                 PROVE  \/ conns'[entries'[s]].late
                        \/ \E q \in Requests : req'[q].pc = "clear"
      BY DEF ForgottenIsLate
    <2>1. entries[s] \in Conns /\ entries[s] # k
      BY DEF ForgottenCredential, IInv, RefersToMade
    <2>2. ForgottenCredential(s)
      BY <2>1 DEF ForgottenCredential
    <2> QED
      BY <2>1, <2>2 DEF IInv, ForgottenIsLate
  <1> QED
    BY <1>9, <1>10, <1>11, <1>12, <1>13, <1>14, <1>15, <1>16, <1>17 DEF IInv

LEMMA CloseClientsStep ==
    ASSUME IInv, NEW r \in Requests, CloseClients(r)
    PROVE  IInv'
  <1> DEFINE new == [req[r] EXCEPT !.shut = {}]
             After(c) == [clients[c] EXCEPT !.open = @ /\ c \notin req[r].shut]
  <1>1. /\ req[r].pc = "close" /\ req' = [req EXCEPT ![r] = new]
        /\ clients' = [c \in Clients |-> After(c)]
        /\ now' = now /\ pushes' = pushes /\ store' = store /\ held' = held
        /\ conns' = conns /\ Conns' = Conns /\ entries' = entries
    BY RequestFacts DEF CloseClients, Become, At, Conns
  <1>2. /\ new \in Request /\ new.pc = "close" /\ new.drop = req[r].drop /\ new.shut = {}
    BY <1>1, RequestFacts DEF Request
  <1>3. clients \in Seq(Client) /\ Clients = 1 .. Len(clients) /\ Len(clients) \in Nat
    BY DEF IInv, TypeOK, Clients
  <1>4. ASSUME NEW c \in Clients
        PROVE  /\ After(c) \in Client /\ After(c).conn = clients[c].conn
               /\ After(c).cred = clients[c].cred
               /\ After(c).replaced = clients[c].replaced
               /\ After(c).open = (clients[c].open /\ c \notin req[r].shut)
    <2>1. clients[c] \in Client
      BY <1>3
    <2> QED
      BY <2>1 DEF Client
  <1> HIDE DEF new, After
  <1>5. /\ clients' \in Seq(Client) /\ Clients' = Clients
        /\ \A c \in Clients : clients'[c] = After(c)
    <2>1. clients' \in [1 .. Len(clients) -> Client]
      BY <1>1, <1>3, <1>4
    <2>2. clients' \in Seq(Client)
      BY <1>3, <2>1, SeqDef
    <2>3. Len(clients') = Len(clients)
      BY <1>3, <2>1, <2>2, LenProperties
    <2> QED
      BY <1>1, <1>3, <2>2, <2>3 DEF Clients
  <1>6. /\ req \in [Requests -> Request] /\ req' \in [Requests -> Request]
        /\ req'[r] = new /\ \A q \in Requests : q # r => req'[q] = req[q]
    BY <1>1, <1>2, RequestFacts
  <1> USE <1>1, <1>2, <1>5, <1>6
  <1>7. TypeOK'
    BY DEF IInv, TypeOK
  <1>8. RefersToMade'
    <2>1. ASSUME NEW q \in Requests
          PROVE  /\ req'[q].drop = req[q].drop /\ req'[q].pc = req[q].pc
                 /\ req[q].pc # "close" => req'[q] = req[q]
      BY <2>1
    <2>2. \A c \in Clients : clients'[c].conn = clients[c].conn
      BY <1>4
    <2> QED
      BY <2>1, <2>2 DEF IInv, RefersToMade
  <1>9. ClosingOnly' /\ BrokeredHolds' /\ ClosedForgets' /\ ForgottenIsLate'
    BY DEF IInv, ClosingOnly, BrokeredHolds, ClosedForgets, ForgottenIsLate,
       ForgottenCredential
  <1>10. NoAnonymousDowngrade'
    BY <1>4 DEF IInv, NoAnonymousDowngrade
  <1>11. UnreachableIsClosed'
    BY DEF IInv, UnreachableIsClosed
  <1>12. ClientsAreHeld'
    <2> SUFFICES ASSUME NEW c \in Clients, clients'[c].open, ~clients'[c].replaced
                 PROVE  \/ conns[clients[c].conn].client = c
                        \/ \E q \in Requests : \/ req'[q].pc = "publish" /\ req'[q].client = c
                                               \/ c \in req'[q].shut
      BY <1>4 DEF ClientsAreHeld
    <2>1. clients[c].open /\ ~clients[c].replaced /\ c \notin req[r].shut
      BY <1>4
    <2> QED
      BY <2>1 DEF IInv, ClientsAreHeld
  <1> QED
    BY <1>7, <1>8, <1>9, <1>10, <1>11, <1>12 DEF IInv

-----------------------------------------------------------------------------
(* The theorems.                                                           *)

LEMMA NextPreserves == IInv /\ [Next]_vars => IInv'
  <1> SUFFICES ASSUME IInv, [Next]_vars PROVE IInv'
    OBVIOUS
  <1>1. CASE UNCHANGED vars
    BY <1>1 DEF vars, IInv, TypeOK, RefersToMade, ClosingOnly, BrokeredHolds,
       NoAnonymousDowngrade, ClosedForgets, UnreachableIsClosed, ClientsAreHeld,
       ForgottenIsLate, ForgottenCredential, Conns, Clients
  <1>2. ASSUME NEW r \in Requests, Start(r) PROVE IInv'
    <2>1. CASE ClearTokens(r)
      BY <2>1, ClearTokensStep
    <2>2. ASSUME NEW s \in Sessions, Remove(r, s) PROVE IInv'
      BY <2>2, RemoveStep
    <2>3. ASSUME NEW s \in Sessions, NEW kind \in {"status", "arm", "browse"},
                 BeginGet(r, kind, s)
          PROVE  IInv'
      BY <2>3, BeginGetStep
    <2>4. ASSUME NEW s \in Sessions, NEW mode \in Modes,
                 NEW arm \in {NoToken} \cup {now + life : life \in Lifetimes},
                 BeginConnect(r, s, mode, arm)
          PROVE  IInv'
      <3>1. mode \in AuthModes
        BY ModesAssumption
      <3>2. arm \in Int
        BY BoundsAssumption DEF IInv, TypeOK, NoToken
      <3> QED
        BY <2>4, <3>1, <3>2, BeginConnectStep
    <2> QED
      BY <1>2, <2>1, <2>2, <2>3, <2>4 DEF Start
  <1>3. ASSUME NEW r \in Requests, Handle(r) PROVE IInv'
    BY <1>3, ReadCredentialStep, ReadArmRecordStep, RegisterStep, PurgeExpiredStep, GetStep,
       ReadArmTokenStep, LookForClientStep, BuildClientStep, PublishClientStep,
       UseClientStep, ClearRegistryStep, CloseConnectionStep, CloseClientsStep,
       AllClosedStep DEF Handle
  <1>4. ASSUME NEW life \in Lifetimes, NEW withArm \in BOOLEAN, SetTokens(life, withArm)
        PROVE  IInv'
    BY <1>4, SetTokensStep
  <1>5. CASE Tick
    BY <1>5, TickStep
  <1> QED
    BY <1>1, <1>2, <1>3, <1>4, <1>5 DEF Next

\* The invariant from which the properties follow, in every reachable state.
THEOREM ConnectionsInvariant == Spec => []IInv
  <1>1. Init => IInv
    BY InitEstablishes
  <1>2. IInv /\ [Next]_vars => IInv'
    BY NextPreserves
  <1> QED
    BY <1>1, <1>2, PTL DEF Spec

\* A client without a credential comes from an anonymous sign-in
\* (blob_service_client reads the credential outside the lock and refuses
\* None for every other mode), and a closed connection keeps no secret, no ARM
\* token and no client (close, and the check after the client was built).
THEOREM NeverDowngraded == Spec => [](NoAnonymousDowngrade /\ ClosedForgets)
  <1>1. IInv => NoAnonymousDowngrade /\ ClosedForgets
    BY DEF IInv
  <1> QED
    BY <1>1, ConnectionsInvariant, PTL

\* No connection is left open that no session reaches
\* (ConnectionRegistry.set, remove, purge_expired and clear close what they take
\* out, outside the lock).
THEOREM NoConnectionIsLeftOpen == Spec => []UnreachableIsClosed
  <1>1. IInv => UnreachableIsClosed
    BY DEF IInv
  <1> QED
    BY <1>1, ConnectionsInvariant, PTL

\* No client is left open that is neither cached, nor in the hands of a request,
\* nor replaced by a simultaneous one: close takes the cached client under the
\* lock, and a client built while its connection was closed is closed at once.
THEOREM NoClientIsLeftOpen == Spec => []ClientsAreClosed
  <1>1. IInv => ClientsAreClosed
    <2> SUFFICES ASSUME IInv PROVE ClientsAreClosed
      OBVIOUS
    <2>1. \A r \in Requests : req[r].pc = "publish" \/ req[r].shut # {} => Busy(r)
      BY DEF Busy, At, IInv, ClosingOnly
    <2> QED
      BY <2>1 DEF IInv, ClientsAreHeld, ClientsAreClosed
  <1> QED
    BY <1>1, ConnectionsInvariant, PTL

\* Once no sign-out is in progress, what is still connected with a credential
\* the store has forgotten was signing in when it was cleared
\* (control_azure_signout: the tokens first, then the registry).
THEOREM SignOutIsComplete == Spec => []SignOutDisconnects
  <1>1. IInv => SignOutDisconnects
    BY DEF IInv, ClosingOnly, ForgottenIsLate, SignOutDisconnects
  <1> QED
    BY <1>1, ConnectionsInvariant, PTL

===============================================================================
