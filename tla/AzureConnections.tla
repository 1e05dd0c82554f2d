-------------------------- MODULE AzureConnections --------------------------
(***************************************************************************)
(* Brokered tokens and live Azure Storage connections of the web server    *)
(* (azure_auth.py and the Azure routes of web_gui.py).  The token store,   *)
(* the registry and every connection have a lock each; none is held while  *)
(* another helper runs, so connecting, building a client, closing and      *)
(* signing out take several steps and overlap.                             *)
(*                                                                         *)
(* Connections, clients and StaticTokenCredential objects are numbered in  *)
(* the order they are made; 0 is None.  One storage account is browsed.    *)
(***************************************************************************)
EXTENDS Integers, FiniteSets, Sequences

CONSTANTS
    Sessions,       \* browser sessions
    Requests,       \* request threads
    Modes,          \* the sign-in modes used
    TTL,            \* CONNECTION_TTL_SECONDS, in ticks
    Lifetimes,      \* what is left of a pushed token; 0 is an unknown expiry
    MaxTime,        \* bound: ticks
    MaxConns,       \* bound: connections made
    MaxClients,     \* bound: clients built
    MaxCreds,       \* bound: credential objects made
    MaxPushes       \* bound: tokens pushed

AuthModes == {"vscode", "entra", "secret", "anonymous"}
Own == MaxCreds + 1     \* a secret, or a credential the server obtained itself

ASSUME SessionsAssumption == Sessions # {}
ASSUME ModesAssumption == Modes \subseteq AuthModes
ASSUME BoundsAssumption ==
    {TTL, MaxTime, MaxConns, MaxClients, MaxCreds, MaxPushes} \cup Lifetimes \subseteq Nat

VARIABLES
    now,        \* time.time()
    pushes,     \* tokens pushed so far
    store,      \* VSCodeTokenStore
    held,       \* the record in each StaticTokenCredential
    conns,      \* the AzureConnections made
    clients,    \* the BlobServiceClients built
    entries,    \* ConnectionRegistry._entries
    req         \* the requests in progress

vars == << now, pushes, store, held, conns, clients, entries, req >>

Conns == DOMAIN conns
Clients == DOMAIN clients

\* AccessTokenRecord is told by its expiry; an unknown one counts as expired.
NoToken == -1
UnknownExpiry == 0
IsExpired(t) == t = UnknownExpiry \/ t <= now

EmptyStore == [storage |-> NoToken, arm |-> NoToken, cred |-> 0]

Idle == [pc |-> "idle", kind |-> "status", sid |-> CHOOSE s \in Sessions : TRUE,
         mode |-> "anonymous", cred |-> 0, arm |-> NoToken, conn |-> 0, client |-> 0,
         drop |-> {}, shut |-> {}, then |-> "idle"]

Init ==
    /\ now = 0 /\ pushes = 0 /\ store = EmptyStore
    /\ held = << >> /\ conns = << >> /\ clients = << >>
    /\ entries = [s \in Sessions |-> 0]
    /\ req = [r \in Requests |-> Idle]

At(r, pc) == req[r].pc = pc
Busy(r) == ~At(r, "idle")
Become(r, record) == req' = [req EXCEPT ![r] = record]
Answer(r) == Become(r, Idle)

-----------------------------------------------------------------------------
(* The token store.                                                        *)

\* control_azure_token: a push replaces the record inside the credential
\* object that open connections share.
SetTokens(life, withArm) ==
    LET t == IF life = 0 THEN UnknownExpiry ELSE now + life
        c == IF store.cred = 0 THEN Len(held) + 1 ELSE store.cred
    IN /\ pushes < MaxPushes /\ c <= MaxCreds
       /\ pushes' = pushes + 1
       /\ store' = [storage |-> t, arm |-> IF withArm THEN t ELSE NoToken, cred |-> c]
       /\ held' = [k \in DOMAIN held \cup {c} |-> IF k = c THEN t ELSE held[k]]
       /\ UNCHANGED << now, conns, clients, entries, req >>

\* control_azure_signout, first half: VSCodeTokenStore.clear.
ClearTokens(r) ==
    /\ At(r, "idle") /\ store' = EmptyStore
    /\ Become(r, [Idle EXCEPT !.kind = "signout", !.pc = "clear"])
    /\ UNCHANGED << now, pushes, held, conns, clients, entries >>

\* Sign-out that leaves the connections to their expiry.
ClearRegistryLater(r) ==
    /\ At(r, "clear") /\ Answer(r)
    /\ UNCHANGED << now, pushes, store, held, conns, clients, entries >>

\* Second half: ConnectionRegistry.clear.
ClearRegistry(r) ==
    /\ At(r, "clear")
    /\ Become(r, [req[r] EXCEPT !.pc = "close", !.then = "idle",
                                !.drop = {entries[s] : s \in Sessions} \ {0}])
    /\ entries' = [s \in Sessions |-> 0]
    /\ UNCHANGED << now, pushes, store, held, conns, clients >>

-----------------------------------------------------------------------------
(* azure_connect: connect(), then ConnectionRegistry.set.                  *)

\* A secret or anonymous sign-in needs nothing more.  Entra modes other than
\* vscode have to mint a storage token and may get an ARM token.
BeginConnect(r, sid, mode, arm) ==
    /\ At(r, "idle") /\ Len(conns) < MaxConns
    /\ arm # NoToken => mode = "entra"
    /\ Become(r, [Idle EXCEPT !.kind = "connect", !.sid = sid, !.mode = mode, !.arm = arm,
                              !.cred = CASE mode = "anonymous" -> 0
                                         [] mode = "vscode" -> 0
                                         [] OTHER -> Own,
                              !.pc = IF mode = "vscode" THEN "credential" ELSE "register"])
    /\ UNCHANGED << now, pushes, store, held, conns, clients, entries >>

\* build_entra_credential: the store's credential object, when it is there
\* and its record is fresh; otherwise the sign-in fails.
ReadCredential(r) ==
    /\ At(r, "credential")
    /\ IF store.cred = 0 \/ IsExpired(held[store.cred])
         THEN Answer(r)
         ELSE Become(r, [req[r] EXCEPT !.cred = store.cred, !.pc = "armRecord"])
    /\ UNCHANGED << now, pushes, store, held, conns, clients, entries >>

\* token_store.arm_record(), in a lock of its own.
ReadArmRecord(r) ==
    /\ At(r, "armRecord")
    /\ Become(r, [req[r] EXCEPT !.arm = store.arm, !.pc = "register"])
    /\ UNCHANGED << now, pushes, store, held, conns, clients, entries >>

\* late records that the tokens were forgotten since the credential was read.
Made(r) == [mode |-> req[r].mode, cred |-> req[r].cred, arm |-> req[r].arm,
            client |-> 0, used |-> now, closed |-> FALSE,
            late |-> req[r].mode = "vscode" /\ store.cred # req[r].cred]

\* The connection that is replaced is not closed.
RegisterOver(r) ==
    /\ At(r, "register") /\ Len(conns) < MaxConns
    /\ conns' = Append(conns, Made(r))
    /\ entries' = [entries EXCEPT ![req[r].sid] = Len(conns) + 1]
    /\ Become(r, [req[r] EXCEPT !.conn = Len(conns) + 1, !.pc = "close", !.then = "purge"])
    /\ UNCHANGED << now, pushes, store, held, clients >>

\* set: swap the entry; the previous connection is closed outside the lock,
\* and the registry is purged after that.
Register(r) ==
    LET sid == req[r].sid
        k == Len(conns) + 1
    IN /\ At(r, "register") /\ k <= MaxConns
       /\ conns' = Append(conns, Made(r))
       /\ entries' = [entries EXCEPT ![sid] = k]
       /\ Become(r, [req[r] EXCEPT !.conn = k, !.drop = {entries[sid]} \ {0},
                                   !.pc = "close", !.then = "purge"])
       /\ UNCHANGED << now, pushes, store, held, clients >>

-----------------------------------------------------------------------------
(* The registry: get, remove and purge_expired.                            *)

\* azure_status, azure_subscriptions and azure_storage_accounts ("arm"),
\* azure_containers, azure_blobs and azure_analyze ("browse").
BeginGet(r, kind, sid) ==
    /\ At(r, "idle")
    /\ Become(r, [Idle EXCEPT !.kind = kind, !.sid = sid, !.pc = "purge"])
    /\ UNCHANGED << now, pushes, store, held, conns, clients, entries >>

Stale == {s \in Sessions : entries[s] # 0 /\ now - conns[entries[s]].used > TTL}

PurgeExpired(r) ==
    /\ At(r, "purge")
    /\ Become(r, [req[r] EXCEPT !.drop = {entries[s] : s \in Stale}, !.pc = "close",
                                !.then = IF req[r].kind = "connect" THEN "idle" ELSE "get"])
    /\ entries' = [s \in Sessions |-> IF s \in Stale THEN 0 ELSE entries[s]]
    /\ UNCHANGED << now, pushes, store, held, conns, clients >>

Get(r) ==
    LET k == entries[req[r].sid]
    IN /\ At(r, "get")
       /\ IF k = 0
            THEN Answer(r) /\ UNCHANGED conns           \* require: not_connected
            ELSE /\ conns' = [conns EXCEPT ![k].used = now]
                 /\ CASE req[r].kind = "status" -> Answer(r)
                      [] req[r].kind = "arm" -> Become(r, [req[r] EXCEPT !.conn = k, !.pc = "arm"])
                      [] OTHER -> Become(r, [req[r] EXCEPT !.conn = k, !.pc = "cached"])
       /\ UNCHANGED << now, pushes, store, held, clients, entries >>

\* arm_token: the record as it is now, unless it has expired.
ReadArmToken(r) ==
    LET t == conns[req[r].conn].arm
    IN /\ At(r, "arm")
       /\ IF t = NoToken \/ IsExpired(t)
            THEN Answer(r)
            ELSE Become(r, [req[r] EXCEPT !.arm = t, !.pc = "list"])
       /\ UNCHANGED << now, pushes, store, held, conns, clients, entries >>

\* azure_disconnect.
Remove(r, sid) ==
    /\ At(r, "idle")
    /\ Become(r, [Idle EXCEPT !.kind = "disconnect", !.sid = sid, !.pc = "close",
                              !.drop = {entries[sid]} \ {0}])
    /\ entries' = [entries EXCEPT ![sid] = 0]
    /\ UNCHANGED << now, pushes, store, held, conns, clients >>

-----------------------------------------------------------------------------
(* AzureConnection.blob_service_client and close.                          *)

\* Under the connection's lock: closed, or a client is cached.
LookForClient(r) ==
    LET k == req[r].conn
    IN /\ At(r, "cached")
       /\ IF conns[k].closed
            THEN Answer(r) /\ UNCHANGED conns
            ELSE IF conns[k].client # 0
            THEN /\ conns' = [conns EXCEPT ![k].used = now]
                 /\ Become(r, [req[r] EXCEPT !.client = conns[k].client, !.pc = "list"])
            ELSE Become(r, [req[r] EXCEPT !.pc = "build"]) /\ UNCHANGED conns
       /\ UNCHANGED << now, pushes, store, held, clients, entries >>

\* The credential of a closed connection is taken as it is: None.
BuildClientUnchecked(r) ==
    /\ At(r, "build") /\ Len(clients) < MaxClients
    /\ clients' = Append(clients, [conn |-> req[r].conn, cred |-> conns[req[r].conn].cred,
                                   open |-> TRUE, replaced |-> FALSE])
    /\ Become(r, [req[r] EXCEPT !.client = Len(clients) + 1, !.pc = "publish"])
    /\ UNCHANGED << now, pushes, store, held, conns, entries >>

\* Without the lock: read the credential as it is now and build a client.
BuildClient(r) ==
    LET k == req[r].conn
        c == conns[k].cred
    IN /\ At(r, "build") /\ Len(clients) < MaxClients
       /\ IF conns[k].mode # "anonymous" /\ c = 0
            THEN Answer(r) /\ UNCHANGED clients
            ELSE /\ clients' = Append(clients, [conn |-> k, cred |-> c, open |-> TRUE,
                                                replaced |-> FALSE])
                 /\ Become(r, [req[r] EXCEPT !.client = Len(clients) + 1, !.pc = "publish"])
       /\ UNCHANGED << now, pushes, store, held, conns, entries >>

\* A client built for a connection that was closed meanwhile is dropped.
PublishClientDropping(r) ==
    LET k == req[r].conn
    IN /\ At(r, "publish")
       /\ IF conns[k].closed
            THEN Answer(r) /\ UNCHANGED conns
            ELSE /\ conns' = [conns EXCEPT ![k].client = req[r].client, ![k].used = now]
                 /\ Become(r, [req[r] EXCEPT !.pc = "list"])
       /\ UNCHANGED << now, pushes, store, held, clients, entries >>

\* Under the lock again: a connection closed meanwhile closes the client at
\* once; a client another thread published meanwhile is replaced.
PublishClient(r) ==
    LET k == req[r].conn
        mine == req[r].client
        other == conns[k].client
    IN /\ At(r, "publish")
       /\ IF conns[k].closed
            THEN /\ clients' = [clients EXCEPT ![mine].open = FALSE]
                 /\ Answer(r) /\ UNCHANGED conns
            ELSE /\ conns' = [conns EXCEPT ![k].client = mine, ![k].used = now]
                 /\ clients' = [c \in Clients |->
                                  [clients[c] EXCEPT !.replaced = @ \/ c = other]]
                 /\ Become(r, [req[r] EXCEPT !.pc = "list"])
       /\ UNCHANGED << now, pushes, store, held, entries >>

\* The listing or download: a brokered credential refuses an expired token.
UseClient(r) ==
    /\ At(r, "list") /\ Answer(r)
    /\ UNCHANGED << now, pushes, store, held, conns, clients, entries >>

\* close, under the lock: flag, take the clients, forget the secrets.
CloseConnection(r, k) ==
    /\ At(r, "close") /\ req[r].shut = {} /\ k \in req[r].drop
    /\ conns' = [conns EXCEPT ![k] = [@ EXCEPT !.closed = TRUE, !.client = 0,
                                               !.cred = 0, !.arm = NoToken]]
    /\ Become(r, [req[r] EXCEPT !.drop = @ \ {k}, !.shut = {conns[k].client} \ {0}])
    /\ UNCHANGED << now, pushes, store, held, clients, entries >>

\* After the lock: close the clients that were taken.
CloseClients(r) ==
    /\ At(r, "close") /\ req[r].shut # {}
    /\ clients' = [c \in Clients |-> [clients[c] EXCEPT !.open = @ /\ c \notin req[r].shut]]
    /\ Become(r, [req[r] EXCEPT !.shut = {}])
    /\ UNCHANGED << now, pushes, store, held, conns, entries >>

AllClosed(r) ==
    /\ At(r, "close") /\ req[r].shut = {} /\ req[r].drop = {}
    /\ IF req[r].then = "idle" THEN Answer(r)
       ELSE Become(r, [req[r] EXCEPT !.pc = req[r].then, !.then = "idle"])
    /\ UNCHANGED << now, pushes, store, held, conns, clients, entries >>

-----------------------------------------------------------------------------

Tick ==
    /\ now < MaxTime /\ now' = now + 1
    /\ UNCHANGED << pushes, store, held, conns, clients, entries, req >>

Start(r) ==
    \/ ClearTokens(r)
    \/ \E s \in Sessions :
         \/ Remove(r, s)
         \/ \E kind \in {"status", "arm", "browse"} : BeginGet(r, kind, s)
         \/ \E mode \in Modes, arm \in {NoToken} \cup {now + life : life \in Lifetimes} :
              BeginConnect(r, s, mode, arm)

Handle(r) ==
    \/ ReadCredential(r) \/ ReadArmRecord(r) \/ Register(r)
    \/ PurgeExpired(r) \/ Get(r) \/ ReadArmToken(r)
    \/ LookForClient(r) \/ BuildClient(r) \/ PublishClient(r) \/ UseClient(r)
    \/ ClearRegistry(r)
    \/ \E k \in Conns : CloseConnection(r, k)
    \/ CloseClients(r) \/ AllClosed(r)

Next ==
    \/ \E r \in Requests : Start(r) \/ Handle(r)
    \/ \E life \in Lifetimes, arm \in BOOLEAN : SetTokens(life, arm)
    \/ Tick

Spec == Init /\ [][Next]_vars

-----------------------------------------------------------------------------
(* Properties.                                                             *)

PCs == {"idle", "clear", "credential", "armRecord", "register", "close", "purge", "get",
        "arm", "cached", "build", "publish", "list"}
RequestKinds == {"status", "arm", "browse", "connect", "disconnect", "signout"}
Connection == [mode : AuthModes, cred : Nat, arm : Int, client : Nat, used : Nat,
               closed : BOOLEAN, late : BOOLEAN]
Client == [conn : Nat, cred : Nat, open : BOOLEAN, replaced : BOOLEAN]
Request == [pc : PCs, kind : RequestKinds, sid : Sessions, mode : AuthModes, cred : Nat,
            arm : Int, conn : Nat, client : Nat, drop : SUBSET Nat, shut : SUBSET Nat,
            then : {"idle", "purge", "get"}]

TypeOK ==
    /\ now \in Nat /\ pushes \in Nat
    /\ held \in Seq(Int)
    /\ store \in [storage : Int, arm : Int, cred : 0 .. Len(held)]
    /\ conns \in Seq(Connection) /\ clients \in Seq(Client)
    /\ entries \in [Sessions -> Nat]
    /\ req \in [Requests -> Request]

(* "Never let a cleared credential silently downgrade an authenticated     *)
(* mode": a client without a credential comes from an anonymous sign-in,   *)
(* however a disconnect or sign-out overlaps the request that builds it.   *)
NoAnonymousDowngrade ==
    \A c \in Clients : clients[c].cred = 0 => conns[clients[c].conn].mode = "anonymous"

(* A closed connection keeps nothing: no secret, no ARM token, and no      *)
(* client published by a request that was under way when it was closed.    *)
ClosedForgets ==
    \A k \in Conns : conns[k].closed =>
      conns[k].cred = 0 /\ conns[k].arm = NoToken /\ conns[k].client = 0

(* No connection is left open that no session can reach: it is closed, or  *)
(* a request is about to close it.                                         *)
UnreachableIsClosed ==
    \A k \in Conns : \/ conns[k].closed
                     \/ \E s \in Sessions : entries[s] = k
                     \/ \E r \in Requests : k \in req[r].drop

(* No open client is forgotten: an open connection caches it, or a request *)
(* holds it, except one that a simultaneous request replaced in the cache. *)
ClientsAreClosed ==
    \A c \in Clients : clients[c].open =>
      \/ clients[c].replaced
      \/ conns[clients[c].conn].client = c
      \/ \E r \in Requests : Busy(r) /\ (req[r].client = c \/ c \in req[r].shut)

(* Once no sign-out is in progress, a session still connected with a       *)
(* credential the store has forgotten is one whose sign-in was under way   *)
(* when the tokens were cleared.                                           *)
ForgottenCredential(s) ==
    /\ entries[s] # 0
    /\ conns[entries[s]].mode = "vscode"
    /\ ~conns[entries[s]].closed
    /\ conns[entries[s]].cred # store.cred
SignOutDisconnects ==
    (\A r \in Requests : req[r].kind # "signout") =>
      \A s \in Sessions : ForgottenCredential(s) => conns[entries[s]].late
=============================================================================
