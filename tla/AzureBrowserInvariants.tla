----------------------- MODULE AzureBrowserInvariants -----------------------
(***************************************************************************)
(* The inductive invariants of the browser, each with the parts it is made *)
(* of: PInv (whose a prompt is), QInv (public browsing is anonymous), LInv *)
(* (whose place a page or an answer is of), VInv (what a retry finds),     *)
(* NInv (how the lists, the path and the entries nest) and IdInv (whose    *)
(* session listed them, and where a change of sessions is owed).           *)
(***************************************************************************)
EXTENDS AzureBrowser

-----------------------------------------------------------------------------
(* Prompts.  Of the records only the fields matter here, not their types.  *)

IsView(v)  == DOMAIN v = DOMAIN Closed
IsChain(c) == DOMAIN c = DOMAIN IdleChain
IsOp(o)    == DOMAIN o = DOMAIN NoOp

AreChains(cs) == DOMAIN cs = Slots /\ \A t \in Slots : IsChain(cs[t])

Shapes == IsView(state) /\ AreChains(chains) /\ IsOp(op)

\* A chain that may still prompt belongs to the operation under way, and the
\* browser is open.
PromptsAreOwned ==
    \A t \in Slots : chains[t].cur /\ chains[t].asks => state.open /\ op.slot = t

PInv == Shapes /\ PromptsAreOwned

-----------------------------------------------------------------------------
(* Public browsing.                                                        *)

FromNoSession(entries) == \E S : entries \in Seq(S) /\ \A page \in S : page.by = Anonymous

IsPublicView(v) ==
    /\ v.identity = None /\ v.tenant = None
    /\ v.tenants = NoList /\ v.subs = NoList /\ v.stores = NoList
    /\ FromNoSession(v.entries)

IsPublicChain(c) == c.stage = "location" /\ c.at = "list" /\ c.who = Anonymous

\* While the browser is in public mode, every chain that may still write its
\* view lists a location without a session.
PublicApart ==
    state.mode = "public" =>
        /\ account = None /\ op = NoOp /\ IsPublicView(state)
        /\ \A t \in Slots : chains[t].cur => IsPublicChain(chains[t])

QInv == PInv /\ PublicApart

-----------------------------------------------------------------------------
(* Places: where the lists, the pages and the chains are.                  *)

PlaceFields == {"tenant", "sub", "store", "container", "folder"}

IsPlace(of) == DOMAIN of = PlaceFields

\* A place above the containers.
UpperPlace(of) == IsPlace(of) /\ of.container = None

\* Target, of a view.
TargetOf(v) ==
    IF v.mode = "public"
    THEN IF v.public = None THEN Nowhere ELSE [Nowhere EXCEPT !.store = v.public]
    ELSE IF v.store \in v.stores.names THEN [v.stores.of EXCEPT !.store = v.store]
         ELSE Nowhere

\* The place is in the storage account on display and in the container the browser
\* is in.
At(of, v, r) ==
    /\ IsPlace(of)
    /\ TargetOf(v) # Nowhere =>
          /\ of.tenant = TargetOf(v).tenant /\ of.sub = TargetOf(v).sub
          /\ of.store = TargetOf(v).store /\ of.container = r.container

\* The public place the browser is in, and that the entries are its own.
PublicPlace(v, r) == [Nowhere EXCEPT !.store = v.public, !.container = r.container,
                                     !.folder = r.folder]

StartsHere(v, r) == v.entries # <<>> /\ v.entries[1].of = PublicPlace(v, r)

Above(c) ==
    /\ IsPlace(c.of)
    /\ c.stage \in {"tenant", "subscription"} => UpperPlace(c.of)

\* A chain that may still write lists tenants or subscriptions where no storage
\* account is chosen, and otherwise the place on display.
Fits(c, v, r) ==
    /\ Above(c)
    /\ c.cur =>
          /\ c.stage \in {"tenant", "subscription"} => v.store = None
          /\ c.stage \in {"account", "containers", "location"} => At(c.of, v, r)
          /\ v.mode = "public" =>
                /\ v.public # None /\ c.of = PublicPlace(v, r)
                /\ c.more # 0 => StartsHere(v, r)

Placed(v, r) ==
    /\ v.mode \in {"authenticated", "public"}
    /\ UpperPlace(v.subs.of) /\ UpperPlace(v.stores.of) /\ None \notin v.stores.names
    /\ v.store # None => v.tenant # None
    /\ \A page \in r.registry : At(page.of, v, r)
    /\ v.mode = "public" =>
          /\ IF v.public = None THEN r.registry = {} ELSE r.container # None
          /\ (r.fresh # "never" \/ v.phase = "ready" \/ r.next # 0) => StartsHere(v, r)

Coherent(v, r, cs) == Placed(v, r) /\ \A t \in Slots : Fits(cs[t], v, r)

IsHeld(r) == DOMAIN r = DOMAIN NoResources

LInv == QInv /\ IsHeld(resources) /\ Coherent(state, resources, chains)

-----------------------------------------------------------------------------
(* The spinner, and what a retry finds.                                    *)

\* What the retry of each stage needs is on display.
Retriable(v, r) ==
    /\ r.retry = "tenant" => v.tenant \in v.tenants.names
    /\ r.retry = "subscription" => v.sub \in v.subs.names
    /\ r.retry = "account" => TargetOf(v) # Nowhere
    /\ r.retry = "location" =>
          TargetOf(v) # Nowhere /\ r.container # None /\ v.tenant # None

\* A chain that will change what those lists hold is the one a retry would repeat,
\* unless everything was forgotten since.
Follows(c, r) ==
    c.cur =>
        /\ c.stage = "discover" => r.retry = "discover"
        /\ c.stage \in {"tenant", "subscription"} => r.retry \in {"discover", c.stage}

\* A chain that will stop the spinner: a reconciliation leaves it as it is.
Stops(c) == c.cur /\ c.stage # "reconcile"

Usable(v, r, cs) ==
    /\ r.retry \in {"discover"} \cup Stages
    /\ v.phase = "loading" => \E t \in Slots : Stops(cs[t])
    /\ v.mode = "authenticated" =>
          Retriable(v, r) /\ \A t \in Slots : Follows(cs[t], r)

VInv == LInv /\ Usable(state, resources, chains)

-----------------------------------------------------------------------------
(* The lists and the entries belong together: while the user acts on what  *)
(* the page offers.                                                        *)

\* Nobody opens the browser again while it is open, and no click names what the
\* browser does not list any more.
ActsOnWhatIsShown == ~Reopens /\ ~StaleClicks

PageStages == {"account", "containers", "location"}

\* The place whose pages the view shows.
PlaceOf(v, r) ==
    IF v.mode = "public" THEN PublicPlace(v, r)
    ELSE [tenant |-> v.tenant, sub |-> v.sub, store |-> v.store,
          container |-> r.container, folder |-> r.folder]

\* One request at most will write lists or pages, in an open browser whose spinner
\* turns: a reconciliation beside it writes neither.
OneRequest(v, cs) ==
    /\ \A t, u \in Slots : Stops(cs[t]) /\ Stops(cs[u]) => t = u
    /\ \A t \in Slots : Stops(cs[t]) => v.open /\ v.phase = "loading"

\* What is chosen was listed, each list is of what is chosen above it, and nothing
\* is listed for nobody.
Nest(v) ==
    /\ v.mode \in {"authenticated", "public"}
    /\ v.tenant \in OrNone(v.tenants.names)
    /\ v.sub \in OrNone(v.subs.names)
    /\ v.store \in OrNone(v.stores.names)
    /\ v.subs.names # {} => v.subs.of = [Nowhere EXCEPT !.tenant = v.tenant]
    /\ v.stores.names # {} =>
          v.stores.of = [Nowhere EXCEPT !.tenant = v.tenant, !.sub = v.sub]
    /\ v.identity = None => v.tenants = NoList /\ v.subs = NoList /\ v.stores = NoList

\* The entries are the pages of the place on display, in order, and the
\* continuation is the next of them.
Shows(v, r) ==
    /\ \E S : v.entries \in Seq(S)
    /\ \A i \in DOMAIN v.entries : v.entries[i].n = i /\ v.entries[i].of = PlaceOf(v, r)
    /\ v.entries # <<>> => v.path = Path(r.container, r.folder) /\ TargetOf(v) # Nowhere
    /\ r.next # 0 /\ TargetOf(v) # Nowhere =>
          v.entries # <<>> /\ r.next = Len(v.entries) + 1
    /\ r.container = None => r.folder = None

\* A chain that may still write brings what belongs below what is chosen.
Brings(c, v, r) ==
    c.cur =>
        /\ c.stage = "tenant" =>
              c.of = [Nowhere EXCEPT !.tenant = v.tenant] /\ v.stores.names = {}
        /\ c.stage = "subscription" =>
              c.of = [Nowhere EXCEPT !.tenant = v.tenant, !.sub = v.sub]
        /\ c.stage \in {"tenant", "subscription"} => v.identity # None
        /\ c.stage \in PageStages =>
              /\ c.of = PlaceOf(v, r) /\ TargetOf(v) # Nowhere
              /\ c.more # 0 => v.entries # <<>> /\ c.more = Len(v.entries) + 1
        /\ c.stage = "reconcile" => c.who # None /\ c.at # "prompt"
        /\ c.stage = "discover" /\ c.at = "list" => c.who # None

Nests(v, r, cs) ==
    OneRequest(v, cs) /\ Nest(v) /\ Shows(v, r) /\ \A t \in Slots : Brings(cs[t], v, r)

NInv == Nests(state, resources, chains) /\ None \notin signedIn

-----------------------------------------------------------------------------
(* Whose the lists are, and what becomes of a change of sessions.          *)

\* Nothing is listed.
Bare(v) ==
    v.tenants.names = {} /\ v.subs.names = {} /\ v.stores.names = {} /\ v.entries = <<>>

\* What is listed was listed with the session of a.
ListedBy(v, a) ==
    /\ \A list \in {v.tenants, v.subs, v.stores} : list.names # {} => list.by = a
    /\ \A i \in DOMAIN v.entries : v.entries[i].by = a

\* The account in use is the one on display and listed all there is.
HeldBy(v, acc) ==
    /\ v.mode = "public" => v.identity = None /\ acc = None
    /\ v.mode = "authenticated" =>
          Bare(v) \/ (acc # None /\ v.identity = acc /\ ListedBy(v, acc))

\* A discover that has found no session yet: it has nothing on display to disagree
\* with, or asks for the account in use; and it looks for anybody only when the
\* account in use has no session.
Looks(c, v, acc, in) ==
    /\ \/ Bare(v) /\ (c.who # None => acc \in {c.who, None})
       \/ c.asks /\ c.who = acc /\ c.at \in {"session", "prompt"}
    /\ c.who = None => acc \notin in

\* A chain that may still write does so with the session of the account in use.
Suits(c, v, acc, in) ==
    v.mode = "authenticated" =>
        /\ c.stage \in {"tenant", "subscription"} \cup PageStages =>
              acc # None /\ c.who = acc /\ v.identity = acc
        /\ c.stage = "discover" /\ c.at = "list" => c.who = acc
        /\ c.stage = "discover" /\ c.at # "list" => Looks(c, v, acc, in)

Serves(c, v, acc, in) == c.cur => Suits(c, v, acc, in)

\* A reconciliation proves the account in use, or one that has no session; without
\* an account in use there is nobody it could prove.
Proves(c, v, acc, in, n) ==
    c.stage = "reconcile" =>
        /\ c.at # "prompt" /\ (c.at = "proved" => c.who \in in)
        /\ c.cur => /\ v.open
                    /\ c.who = acc \/ c.who \notin in
                    /\ acc = None => n /\ in = {}

\* Once signed out, there is no account, and no request either, unless nobody could
\* answer it.
Idles(v, acc, cs, in, n, k) ==
    n => /\ acc = None /\ v.identity = None
         /\ v.mode = "authenticated" =>
              \/ k # 0 /\ in = {}
              \/ v.phase \in {"closed", "signedOut"} /\ \A t \in Slots : ~Stops(cs[t])

Honest(v, acc, cs, in, n, k) ==
    /\ HeldBy(v, acc)
    /\ \A t \in Slots : Serves(cs[t], v, acc, in)
    /\ \A t \in Slots : Proves(cs[t], v, acc, in, n)
    /\ Idles(v, acc, cs, in, n, k)

\* A reconciliation of this lifecycle.
Waits(c) == c.stage = "reconcile" /\ c.live

NoneWaits(cs) == \A t \in Slots : ~Waits(cs[t])

\* A change of sessions is in one place: on its way, with the operation under way,
\* deferred, or in a reconciliation.
OnceOwed(cs, o, d, e) ==
    /\ o.changed \in BOOLEAN
    /\ e # 0 => e = 1 /\ ~d /\ ~o.changed /\ NoneWaits(cs)
    /\ d => ~o.changed /\ NoneWaits(cs)
    /\ o.changed => NoneWaits(cs)
    /\ \A t, u \in Slots : Waits(cs[t]) /\ Waits(cs[u]) => t = u

Owing(cs, o, d, e) == e # 0 \/ o.changed \/ d \/ ~NoneWaits(cs)

\* The operation under way is the request under way.
Owned(cs, o) ==
    /\ o.slot # None \/ o.changed =>
          o.slot \in Slots /\ Stops(cs[o.slot]) /\ cs[o.slot].asks
    /\ o.slot = None /\ ~o.changed => o = NoOp

\* Before the sessions change.
Calm(cs, o, d, e) ==
    e = 0 /\ ~d /\ ~o.changed /\ \A t \in Slots : cs[t].stage # "reconcile"

Accounted(v, acc, cs, o, d, e, in, rec, k) ==
    /\ OnceOwed(cs, o, d, e) /\ Owned(cs, o)
    /\ \A t \in Slots : Waits(cs[t]) => rec /\ v.open
    /\ {acc, v.identity} \subseteq OrNone(in) \/ Owing(cs, o, d, e)
    /\ k = 0 => Calm(cs, o, d, e)

IdHolds ==
    /\ Honest(state, account, chains, signedIn, needsConnect, changes)
    /\ Accounted(state, account, chains, op, deferred, events, signedIn, reconciling, changes)

IdInv == changes \in Nat /\ (changes <= 1 => IdHolds)

=============================================================================
